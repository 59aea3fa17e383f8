---------------------------- MODULE MCFileStore ----------------------------
(***************************************************************************)
(* Two users, the first with a directory besides its home; one name per    *)
(* directory, so that every two requests may meet on a file.               *)
(***************************************************************************)
EXTENDS FileStore, TLC

CONSTANTS h1, h2, d1

MCHome   == {h1, h2}
MCSub    == {d1}
MCHomeOf == (h1 :> h1) @@ (h2 :> h2) @@ (d1 :> h1)
MCDatum  == {"data"}

MCSymmetry == Permutations(Proc) \cup Permutations(File)
=============================================================================
