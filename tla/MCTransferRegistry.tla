------------------------- MODULE MCTransferRegistry -------------------------
(* Small instances of TransferRegistry for TLC. *)
EXTENDS TransferRegistry, TLC

CONSTANTS h1, h2, h3, alice, bob

MCHandler2 == {h1, h2}
MCHandler3 == {h1, h2, h3}
MCUser     == {alice, bob}
MCOneUser  == {alice}
MCSymmetry2 == Permutations(MCHandler2) \cup Permutations(MCUser)

(* Explore only behaviours in which sem_wait has not returned EINTR yet. *)
Uninterrupted == ~interrupted
Undisturbed == ~interrupted /\ killed = {}
=============================================================================
