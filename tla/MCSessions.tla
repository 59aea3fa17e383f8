----------------------------- MODULE MCSessions -----------------------------
(* Sessions with a directory a in the home and b in a.  Processes of the   *)
(* helper are alike: the first that is free is the next to be used.        *)
EXTENDS Sessions, TLC

CONSTANTS a, b

MCDir    == {a, b}
MCParent == (a :> Home) @@ (b :> a)

Sym == Permutations(Session)

\* At most one process works for nobody any more.
OneOrphan == Cardinality(orphan) <= 1

FirstFree ==
  \A w \in Worker : worker[w].at = "free" /\ worker'[w].at # "free" =>
    \A v \in Worker : v < w => worker[v].at # "free"
=============================================================================
