-------------------------- MODULE MCClientThreads --------------------------
(* Small instances of ClientThreads for TLC. *)
EXTENDS ClientThreads, TLC

CONSTANTS p1, p2

MCTransfer1 == {p1}
MCTransfer2 == {p1, p2}
MCSymmetry  == Permutations(MCTransfer2)

(* Bound: each property is about the states before one of the two.         *)
OneSpoiled == ~(misused /\ miscounted)
=============================================================================
