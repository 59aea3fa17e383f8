--------------------------- MODULE MCDataChannel ---------------------------
(* DataChannel with two transfers on one file of at most MaxBlocks blocks: *)
(* two of them are enough for a cut, a mixture, a lock waited for and two  *)
(* messages on one connection.                                             *)
EXTENDS DataChannel, TLC

CONSTANTS c1, c2

MCChannel == {c1, c2}
MCSymmetry == Permutations(MCChannel)

(* Bound: next to a reader that is out of step one child at a time works.  *)
OneAfterTorn == client.torn => \E c \in Channel : ch[c].child \in {"none", "done"}
=============================================================================
