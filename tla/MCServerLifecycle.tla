------------------------- MODULE MCServerLifecycle -------------------------
(* ServerLifecycle with two servers one after the other, two handlers and  *)
(* two creations.                                                          *)
EXTENDS ServerLifecycle, TLC

CONSTANTS h1, h2, m1, m2

MCHandler == {h1, h2}
MCMaker   == {m1, m2}
MCSymmetry == Permutations(MCHandler) \cup Permutations(MCMaker)

(* Bounds: a second creation only as long as one handler has been at work, *)
(* and next to it nobody logs in or out; a second handler only as long as  *)
(* one creation has, and next to it no creation goes on; creations under   *)
(* way at the same time are of one name; a signal lets handlers past one   *)
(* semaphore only, and no creation goes on after that; and behaviours end  *)
(* with the last server.                                                   *)
Seen == {h \in Handler : \/ proc[h].at # "free"
                         \/ \E g \in Server, i \in Slot : online[g][i] = h}
Used == {m \in Maker : maker[m].at # "free"}
Few  == /\ Cardinality(Seen) + Cardinality(Used) <= 3
        /\ Cardinality(Used) = 2 => \A h \in Handler : proc[h].at \in {"free", "out", "in"}
        /\ Cardinality(Seen) = 2 \/ intruded # {} => \A m \in Used : maker[m].at = "done"
        /\ Cardinality({maker[m].name : m \in Maker} \ {NoOne}) <= 1
        /\ Cardinality(intruded) <= 1
        /\ main.server = MaxServer => main.at \notin {"down", "stopped"}
=============================================================================
