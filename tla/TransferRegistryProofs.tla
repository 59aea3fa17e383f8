----------------------- MODULE TransferRegistryProofs -----------------------
(* Proofs about TransferRegistry, for any number of handlers, users, slots  *)
(* and requests.                                                            *)
EXTENDS TransferRegistry, TLAPS

(***************************************************************************)
(* The semaphore.  Every step is of one of three kinds, seen from outside  *)
(* the critical sections: handler h goes in by sem_wait, comes out by      *)
(* sem_post, or nobody moves (but for an interrupted sem_wait).            *)
(***************************************************************************)
GoesIn(h) ==
  /\ mux > 0 /\ mux' = mux - 1
  /\ \A g \in Handler : Inside(g)' <=> Inside(g) \/ g = h
  /\ ~Inside(h)

ComesOut(h) ==
  /\ mux' = mux + 1
  /\ Inside(h)
  /\ \A g \in Handler : Inside(g)' <=> Inside(g) /\ g # h

StaysPut ==
  /\ mux' = mux
  /\ \A g \in Handler : Inside(g) => Inside(g)'
  /\ ~interrupted' => \A g \in Handler : Inside(g)' => Inside(g)

(* A signal moves nobody out of a critical section, and nobody into one     *)
(* unnoticed.                                                               *)
LEMMA KillStaysPut ==
  ASSUME TypeOK, NEW t, NEW here \in [Handler -> Label], Kill(t, here),
         \A g \in Handler : here[g] \in {"scan", "commit"} <=> Inside(g)
  PROVE  /\ \A g \in Handler : Inside(g) => Inside(g)'
         /\ ~interrupted' => \A g \in Handler : Inside(g)' => Inside(g)
         /\ interrupted => interrupted'
         /\ pc' \in [Handler -> Label]
<1>1. CASE pc' = here /\ UNCHANGED <<flag, interrupted>>
  BY <1>1 DEF Inside
<1>2. ASSUME t \in Handler, NEW l \in Landing(here, t),
             pc' = [here EXCEPT ![t] = l],
             interrupted' = (interrupted \/ (here[t] = "wait" /\ l = "scan"))
      PROVE  /\ \A g \in Handler : Inside(g) => Inside(g)'
             /\ ~interrupted' => \A g \in Handler : Inside(g)' => Inside(g)
             /\ interrupted => interrupted'
             /\ pc' \in [Handler -> Label]
  <2>1. \/ l = here[t]
        \/ here[t] = "read" /\ l = "check"
        \/ here[t] = "payload" /\ l = "leave"
        \/ here[t] = "wait" /\ l = "scan"
    BY DEF Landing
  <2>2. l \in Label
    BY <2>1, <1>2 DEF Label
  <2>3. pc' \in [Handler -> Label] /\ pc'[t] = l
    BY <2>2, <1>2
  <2>4. interrupted \in BOOLEAN
    BY DEF TypeOK
  <2>5. \A g \in Handler : g # t => pc'[g] = here[g]
    BY <1>2
  <2>6. here[t] \in {"scan", "commit"} => l = here[t]
    BY <2>1
  <2>7. \A g \in Handler : Inside(g) => Inside(g)'
    BY <2>3, <2>5, <2>6, <1>2 DEF Inside
  <2>8. ~interrupted' => l \notin {"scan", "commit"} \/ l = here[t]
    BY <2>1, <1>2
  <2>9. ~interrupted' => \A g \in Handler : Inside(g)' => Inside(g)
    BY <2>3, <2>5, <2>8, <1>2 DEF Inside
  <2> QED BY <2>3, <2>7, <2>9, <2>4, <1>2
<1> QED BY <1>1, <1>2 DEF Kill

(* Handlers other than h stay where they are, in every step of h but a      *)
(* signal.                                                                  *)
LEMMA GotoMoves ==
  ASSUME TypeOK, NEW h \in Handler, NEW l \in Label, Goto(h, l)
  PROVE  /\ pc' \in [Handler -> Label] /\ pc'[h] = l
         /\ \A g \in Handler : g # h => (Inside(g)' <=> Inside(g))
BY DEF TypeOK, Goto, Inside

LEMMA PostComesOut ==
  ASSUME TypeOK, NEW h \in Handler, NEW l \in Label \ {"scan", "commit"},
         Goto(h, l), mux' = mux + 1, Inside(h)
  PROVE  ComesOut(h)
BY GotoMoves DEF ComesOut, Inside

LEMMA GotoStaysPut ==
  ASSUME TypeOK, NEW h \in Handler, NEW l \in Label, Goto(h, l), mux' = mux,
         Inside(h) <=> l \in {"scan", "commit"}
  PROVE  StaysPut
BY GotoMoves DEF StaysPut, Inside

LEMMA SearchStaysPut ==
  ASSUME TypeOK, NEW h \in Handler, NEW o, NEW S, Search(h, o, S)
  PROVE  StaysPut
<1>1. Inside(h) /\ Goto(h, "commit") /\ mux' = mux
  BY DEF Search, In, Inside
<1> QED BY <1>1, GotoStaysPut DEF Label

LEMMA EnvironmentStaysPut ==
  ASSUME TypeOK, NEW h \in Handler, Environment(h)
  PROVE  StaysPut
<1>1. CASE Connect(h)
  BY <1>1, GotoStaysPut DEF Connect, At, Inside, Label
<1>2. CASE ReadHeader(h)
  BY <1>2, GotoStaysPut DEF ReadHeader, At, Inside, Label
<1>3. CASE Eof(h)
  BY <1>3, GotoStaysPut DEF Eof, Inside, Label
<1>4. CASE Sigpipe(h)
  BY <1>4, GotoStaysPut DEF Sigpipe, Exit, Inside, Label
<1>5. CASE OtherCommand(h)
  BY <1>5, GotoStaysPut DEF OtherCommand, At, Inside, Label
<1>6. ASSUME NEW u \in User, Login(h, u) PROVE StaysPut
  BY <1>6, GotoStaysPut DEF Login, Enqueue, At, Inside, Label
<1>7. ASSUME NEW u \in User, TransferRequest(h, u) PROVE StaysPut
  BY <1>7, GotoStaysPut DEF TransferRequest, Enqueue, At, Inside, Label
<1>8. ASSUME NEW o, NEW r, Answer(h, o, r) PROVE StaysPut
  BY <1>8, GotoStaysPut DEF Answer, Enqueue, At, Inside, Label
<1> QED BY <1>1, <1>2, <1>3, <1>4, <1>5, <1>6, <1>7, <1>8 DEF Environment

(* The two steps that send a signal. *)
LEMMA SignalStaysPut ==
  ASSUME TypeOK, NEW h \in Handler, SendSignal(h) \/ TellSenderScan(h)
  PROVE  StaysPut
<1>1. CASE SendSignal(h)
  <2> DEFINE here == [pc EXCEPT ![h] = "reply"]
  <2>1. Kill(work[h].pid, here) /\ mux' = mux /\ pc[h] = "signal"
    BY <1>1 DEF SendSignal, At
  <2>2. here \in [Handler -> Label]
    BY DEF TypeOK, Label
  <2>3. \A g \in Handler : here[g] \in {"scan", "commit"} <=> Inside(g)
    BY <2>1 DEF TypeOK, Inside
  <2> HIDE DEF here
  <2> QED BY <2>1, <2>2, <2>3, KillStaysPut DEF StaysPut
<1>2. CASE TellSenderScan(h)
  <2> DEFINE here == [pc EXCEPT ![h] = "commit"]
  <2>1. (\E t : Kill(t, here)) /\ mux' = mux /\ pc[h] = "scan"
    BY <1>2 DEF TellSenderScan, In
  <2>2. here \in [Handler -> Label]
    BY DEF TypeOK, Label
  <2>3. \A g \in Handler : here[g] \in {"scan", "commit"} <=> Inside(g)
    BY <2>1 DEF TypeOK, Inside
  <2> HIDE DEF here
  <2> QED BY <2>1, <2>2, <2>3, KillStaysPut DEF StaysPut
<1> QED BY <1>1, <1>2

LEMMA StepKinds ==
  ASSUME TypeOK, NEW h \in Handler, Step(h)
  PROVE  GoesIn(h) \/ ComesOut(h) \/ StaysPut
<1>1. CASE SemWait(h)
  <2>1. Goto(h, "scan") /\ pc[h] = "wait" /\ mux > 0 /\ mux' = mux - 1
    BY <1>1 DEF SemWait, At
  <2> QED BY <2>1, GotoMoves DEF GoesIn, Inside, Label
<1>2. CASE CommitNothing(h)
  BY <1>2, PostComesOut DEF CommitNothing, At, Post, Inside, Label
<1>3. CASE LoginCommit(h)
  BY <1>3, PostComesOut DEF LoginCommit, Found, In, Post, Inside, Label
<1>4. CASE Poll(h)
  BY <1>4, PostComesOut DEF Poll, In, Post, Inside, Label
<1>5. CASE SlotCommit(h)
  BY <1>5, PostComesOut DEF SlotCommit, Found, In, Post, Inside, Label
<1>6. CASE AcceptCommit(h)
  BY <1>6, PostComesOut DEF AcceptCommit, Found, In, Post, Inside, Label
<1>7. CASE RejectCommit(h)
  BY <1>7, PostComesOut DEF RejectCommit, Found, In, Post, Inside, Label
<1>8. CASE TellSenderCommit(h)
  BY <1>8, PostComesOut DEF TellSenderCommit, In, Post, Inside, Label
<1>9. CASE Notify(h)
  BY <1>9, PostComesOut DEF Notify, In, Post, Inside, Label
<1>10. CASE Cleanup(h)
  BY <1>10, PostComesOut DEF Cleanup, In, Post, Inside, Label
<1>11. CASE Offline(h)
  BY <1>11, PostComesOut DEF Offline, Exit, In, Inside, Label
<1>12. CASE LoginScan(h) \/ SlotScan(h) \/ AcceptScan(h)
  BY <1>12, SearchStaysPut DEF LoginScan, SlotScan, AcceptScan
<1>13. CASE RejectScan(h)
  BY <1>13, GotoStaysPut DEF RejectScan, In, Inside, Label
<1>14. CASE SendSignal(h) \/ TellSenderScan(h)
  BY <1>14, SignalStaysPut
<1>15. CASE Check(h)
  BY <1>15, GotoStaysPut DEF Check, Enqueue, At, Inside, Label
<1>16. CASE Leave(h)
  BY <1>16, GotoStaysPut DEF Leave, Exit, Enqueue, At, Inside, Label
<1>17. CASE Reply(h)
  BY <1>17, GotoStaysPut DEF Reply, At, Inside, Label
<1>18. CASE SendNotifications(h)
  BY <1>18, GotoStaysPut DEF SendNotifications, At, Inside, Label
<1>19. CASE ClearFlag(h)
  BY <1>19, GotoStaysPut DEF ClearFlag, At, Inside, Label
<1> QED BY <1>1, <1>2, <1>3, <1>4, <1>5, <1>6, <1>7, <1>8, <1>9, <1>10, <1>11, <1>12, <1>13, <1>14, <1>15, <1>16, <1>17, <1>18, <1>19 DEF Step

-----------------------------------------------------------------------------
(***************************************************************************)
(* Types.  A handler about to update a slot of the transfer table has the  *)
(* index of one.                                                           *)
(***************************************************************************)
SlotOK ==
  \A h \in Handler :
    pc[h] = "commit" /\ work[h].op \in {"accept", "reject", "slot"}
      => work[h].slot \in Slot \cup {0}

TypeInv == TypeOK /\ SlotOK

LEMMA BlankTypes ==
  Idle \in Command /\ NoEntry \in UserEntry /\ NoRequest \in RequestSlot
BY DEF Idle, Command, Op, NoEntry, UserEntry, NoRequest, RequestSlot

(* A search returns 0 or an index it looked for.                            *)
LEMMA FirstOfIn ==
  ASSUME NEW S, NEW i \in FirstOf(S)
  PROVE  i = 0 \/ i \in S
BY DEF FirstOf

(* Changing what one handler does is type correct.                          *)
LEMMA WorkTypes ==
  ASSUME work \in [Handler -> Command], NEW h \in Handler, NEW w \in Command,
         work' = [work EXCEPT ![h] = w]
  PROVE  work' \in [Handler -> Command]
OBVIOUS

LEMMA CommandTypes ==
  ASSUME NEW w \in Command
  PROVE  /\ \A o \in Op : [w EXCEPT !.op = o] \in Command
         /\ \A u \in User \cup {NoUser} : [w EXCEPT !.user = u] \in Command
         /\ \A p \in Handler \cup {NoPid} : [w EXCEPT !.pid = p] \in Command
         /\ \A n \in Nat : [w EXCEPT !.slot = n] \in Command
         /\ \A n \in Nat : [w EXCEPT !.id = n] \in Command
BY DEF Command

LEMMA InitTypes == Init => TypeInv
<1> SUFFICES ASSUME Init PROVE TypeInv
  OBVIOUS
<1>1. online \in [OnlineSlot -> UserEntry] /\ pending \in [Slot -> RequestSlot]
      /\ work \in [Handler -> Command]
  BY BlankTypes DEF Init
<1>2. \A h \in Handler : pc[h] = "dead"
  BY DEF Init
<1>3. taken \in Seq(Nat)
  BY DEF Init
<1>4. pc \in [Handler -> Label] /\ session \in [Handler -> User \cup {NoUser}]
      /\ flag \in [Handler -> BOOLEAN] /\ mux \in Nat /\ counter \in Nat
      /\ interrupted \in BOOLEAN
      /\ killed \subseteq Handler /\ reported \subseteq Nat /\ dropped \subseteq Nat
  BY DEF Init, Label
<1> QED BY <1>1, <1>2, <1>3, <1>4 DEF TypeInv, TypeOK, SlotOK

(* Handler h goes to l and does w from now on.                              *)
LEMMA MoveTypes ==
  ASSUME TypeInv, NEW h \in Handler, NEW l \in Label, NEW w \in Command,
         pc' = [pc EXCEPT ![h] = l],
         work' = [work EXCEPT ![h] = w],
         l = "commit" /\ w.op \in {"accept", "reject", "slot"} => w.slot \in Slot \cup {0}
  PROVE  pc' \in [Handler -> Label] /\ work' \in [Handler -> Command] /\ SlotOK'
<1>1. pc \in [Handler -> Label] /\ work \in [Handler -> Command] /\ SlotOK
  BY DEF TypeInv, TypeOK
<1>2. pc' \in [Handler -> Label] /\ work' \in [Handler -> Command]
  BY <1>1
<1>3. ASSUME NEW g \in Handler, pc'[g] = "commit",
             work'[g].op \in {"accept", "reject", "slot"}
      PROVE  work'[g].slot \in Slot \cup {0}
  <2>1. CASE g = h
    BY <2>1, <1>1, <1>3
  <2>2. CASE g # h
    <3>1. pc'[g] = pc[g] /\ work'[g] = work[g]
      BY <2>2, <1>1
    <3> QED BY <3>1, <1>1, <1>3 DEF SlotOK
  <2> QED BY <2>1, <2>2
<1>4. \A g \in Handler :
        pc'[g] = "commit" /\ work'[g].op \in {"accept", "reject", "slot"}
          => work'[g].slot \in Slot \cup {0}
  BY <1>3
<1>5. SlotOK'
  BY <1>4 DEF SlotOK, Slot
<1> QED BY <1>2, <1>5

LEMMA GotoTypes ==
  ASSUME TypeInv, NEW h \in Handler, NEW l \in Label \ {"commit"},
         Goto(h, l), UNCHANGED work
  PROVE  pc' \in [Handler -> Label] /\ work' \in [Handler -> Command] /\ SlotOK'
<1>1. work \in [Handler -> Command] /\ work[h] \in Command
  BY DEF TypeInv, TypeOK
<1>2. work' = [work EXCEPT ![h] = work[h]]
  BY <1>1
<1> QED BY <1>1, <1>2, MoveTypes DEF Goto

LEMMA ExitTypes ==
  ASSUME TypeInv, NEW h \in Handler, Exit(h)
  PROVE  /\ pc' \in [Handler -> Label] /\ work' \in [Handler -> Command] /\ SlotOK'
         /\ session' \in [Handler -> User \cup {NoUser}] /\ flag' \in [Handler -> BOOLEAN]
<1>1. "dead" \in Label /\ Idle \in Command
  BY BlankTypes DEF Label
<1> QED BY <1>1, MoveTypes DEF Exit, Goto, TypeInv, TypeOK

LEMMA EnqueueTypes ==
  ASSUME TypeInv, NEW h \in Handler, NEW w \in Command, Enqueue(h, w)
  PROVE  pc' \in [Handler -> Label] /\ work' \in [Handler -> Command] /\ SlotOK'
BY MoveTypes DEF Enqueue, Goto, Label

LEMMA EnvironmentTypes ==
  ASSUME TypeInv, NEW h \in Handler, Environment(h)
  PROVE  TypeInv'
<1>1. CASE Connect(h)
  BY <1>1, GotoTypes DEF Connect, Label, TypeInv, TypeOK, shared, history
<1>2. CASE ReadHeader(h)
  BY <1>2, GotoTypes DEF ReadHeader, Label, TypeInv, TypeOK, shared, history
<1>3. CASE Eof(h)
  BY <1>3, GotoTypes DEF Eof, Label, TypeInv, TypeOK, shared, history
<1>4. CASE OtherCommand(h)
  BY <1>4, GotoTypes DEF OtherCommand, Label, TypeInv, TypeOK, shared, history
<1>5. CASE Sigpipe(h)
  BY <1>5, ExitTypes DEF Sigpipe, TypeInv, TypeOK, shared, history
<1>6. ASSUME NEW u \in User, Login(h, u) PROVE TypeInv'
  <2>1. [Idle EXCEPT !.op = "login", !.user = u] \in Command
    BY DEF Idle, Command, Op
  <2> QED BY <1>6, <2>1, EnqueueTypes DEF Login, TypeInv, TypeOK, shared, history
<1>7. ASSUME NEW u \in User, TransferRequest(h, u) PROVE TypeInv'
  <2>1. [Idle EXCEPT !.op = "poll", !.user = u] \in Command
    BY DEF Idle, Command, Op
  <2> QED BY <1>7, <2>1, EnqueueTypes DEF TransferRequest, TypeInv, TypeOK, shared, history
<1>8. ASSUME NEW o \in {"accept", "reject"}, NEW r \in 0..MaxId, Answer(h, o, r)
      PROVE  TypeInv'
  <2>1. r \in Nat /\ o \in Op
    BY RegistryAssumption DEF Op
  <2>2. [Idle EXCEPT !.op = o] \in Command
    BY <2>1, BlankTypes, CommandTypes
  <2>3. [Idle EXCEPT !.op = o, !.id = r] \in Command
    BY <2>1, <2>2, CommandTypes
  <2> QED BY <1>8, <2>3, EnqueueTypes DEF Answer, TypeInv, TypeOK, shared, history
<1> QED BY <1>1, <1>2, <1>3, <1>4, <1>5, <1>6, <1>7, <1>8 DEF Environment

LEMMA SearchTypes ==
  ASSUME TypeInv, NEW h \in Handler, NEW o, NEW S \in SUBSET Nat, Search(h, o, S),
         o \in {"accept", "reject", "slot"} => S \subseteq Slot
  PROVE  TypeInv'
<1>1. PICK i \in FirstOf(S) : work' = [work EXCEPT ![h].slot = i]
  BY DEF Search
<1> DEFINE w == [work[h] EXCEPT !.slot = i]
<1>2. i \in Nat /\ (i = 0 \/ i \in S)
  BY DEF FirstOf
<1>3. work \in [Handler -> Command] /\ work[h] \in Command /\ work[h].op = o
  BY DEF Search, In, TypeInv, TypeOK
<1>4. w \in Command /\ w.op = o /\ w.slot = i
  BY <1>2, <1>3, CommandTypes DEF Command
<1>5. work' = [work EXCEPT ![h] = w]
  BY <1>1
<1>6. pc' = [pc EXCEPT ![h] = "commit"] /\ "commit" \in Label
  BY DEF Search, Goto, Label
<1> HIDE DEF w
<1>7. pc' \in [Handler -> Label] /\ work' \in [Handler -> Command] /\ SlotOK'
  BY <1>2, <1>4, <1>5, <1>6, MoveTypes
<1> QED BY <1>7 DEF Search, TypeInv, TypeOK, shared, history

(* Releasing the semaphore, on to l with command w.                         *)
LEMMA PostTypes ==
  ASSUME TypeInv, NEW h \in Handler, NEW l \in Label \ {"commit"}, NEW w \in Command,
         Post(h, l), work' = [work EXCEPT ![h] = w]
  PROVE  /\ mux' \in Nat
         /\ pc' \in [Handler -> Label] /\ work' \in [Handler -> Command] /\ SlotOK'
<1>1. mux' \in Nat
  BY DEF Post, TypeInv, TypeOK
<1>2. w.op \in Op
  BY DEF Command
<1> QED BY <1>1, MoveTypes DEF Post, Goto

LEMMA CommitTypes ==
  ASSUME TypeInv, NEW h \in Handler,
         \/ CommitNothing(h) \/ LoginCommit(h) \/ SlotCommit(h) \/ AcceptCommit(h)
         \/ RejectCommit(h) \/ TellSenderCommit(h)
  PROVE  TypeInv'
<1> USE DEF Label
<1>1. work[h] \in Command /\ Idle \in Command
  BY BlankTypes DEF TypeInv, TypeOK
<1>2. CASE CommitNothing(h)
  BY <1>1, <1>2, PostTypes DEF CommitNothing, TypeInv, TypeOK, shared, history
<1>3. CASE LoginCommit(h)
  <2>1. [active |-> TRUE, user |-> work[h].user, pid |-> h] \in UserEntry
    BY <1>1 DEF Command, UserEntry
  <2>2. online' \in [OnlineSlot -> UserEntry]
    BY <1>3, <2>1 DEF LoginCommit, TypeInv, TypeOK
  <2> QED BY <1>1, <1>3, <2>2, PostTypes DEF LoginCommit, TypeInv, TypeOK, history
<1>4. CASE SlotCommit(h)
  <2>1. counter' \in Nat
    BY <1>4 DEF SlotCommit, TypeInv, TypeOK
  <2>2. [status |-> "PENDING", id |-> counter', sender |-> session[h],
         receiver |-> work[h].user, req |-> counter'] \in RequestSlot
    BY <1>1, <2>1 DEF Command, RequestSlot, TypeInv, TypeOK
  <2>3. pending' \in [Slot -> RequestSlot]
    BY <1>4, <2>2 DEF SlotCommit, TypeInv, TypeOK
  <2>4. [Idle EXCEPT !.pid = work[h].pid] \in Command
    BY <1>1, CommandTypes DEF Command
  <2> QED BY <1>4, <2>1, <2>3, <2>4, PostTypes DEF SlotCommit, TypeInv, TypeOK, history
<1>5. CASE AcceptCommit(h)
  <2>1. work[h].slot \in Slot
    BY <1>5 DEF AcceptCommit, Found, In, TypeInv, SlotOK
  <2>2. pending[work[h].slot].req \in Nat
    BY <2>1 DEF TypeInv, TypeOK, RequestSlot
  <2>3. pending' \in [Slot -> RequestSlot]
    BY <1>5, BlankTypes DEF AcceptCommit, TypeInv, TypeOK
  <2>4. taken' \in Seq(Nat)
    BY <1>5, <2>2 DEF AcceptCommit, TypeInv, TypeOK
  <2> QED BY <1>1, <1>5, <2>3, <2>4, PostTypes DEF AcceptCommit, TypeInv, TypeOK
<1>6. CASE RejectCommit(h)
  <2> DEFINE i == work[h].slot
  <2>1. i \in Slot
    BY <1>6 DEF RejectCommit, Found, In, TypeInv, SlotOK
  <2>2. pending[i] \in RequestSlot
    BY <2>1 DEF TypeInv, TypeOK
  <2>3. [pending[i] EXCEPT !.status = "REJECTED", !.id = 0] \in RequestSlot
    BY <2>2 DEF RequestSlot
  <2>4. pending' = [pending EXCEPT ![i] = [pending[i] EXCEPT !.status = "REJECTED", !.id = 0]]
    BY <1>6, <2>1 DEF RejectCommit, TypeInv, TypeOK
  <2>5. pending' \in [Slot -> RequestSlot]
    BY <2>3, <2>4 DEF TypeInv, TypeOK
  <2>6. [Idle EXCEPT !.op = "tellSender", !.user = pending[i].sender] \in Command
    BY <2>2 DEF Idle, Command, Op, RequestSlot
  <2> QED BY <1>6, <2>5, <2>6, PostTypes DEF RejectCommit, TypeInv, TypeOK, history
<1>7. CASE TellSenderCommit(h)
  BY <1>1, <1>7, PostTypes DEF TellSenderCommit, TypeInv, TypeOK, shared, history
<1> QED BY <1>2, <1>3, <1>4, <1>5, <1>6, <1>7

LEMMA KillTypes ==
  ASSUME TypeInv, NEW t, NEW h \in Handler, NEW l \in Label,
         NEW here, here = [pc EXCEPT ![h] = l], Kill(t, here)
  PROVE  pc' \in [Handler -> Label] /\ flag' \in [Handler -> BOOLEAN]
         /\ interrupted' \in BOOLEAN
         /\ \A g \in Handler : pc'[g] = "commit" => pc[g] = "commit" \/ (g = h /\ l = "commit")
<1>1. here \in [Handler -> Label]
  BY DEF TypeInv, TypeOK
<1>2. \A g \in Handler : here[g] = "commit" => pc[g] = "commit" \/ (g = h /\ l = "commit")
  BY DEF TypeInv, TypeOK
<1>3. CASE pc' = here /\ UNCHANGED <<flag, interrupted>>
  BY <1>1, <1>2, <1>3 DEF TypeInv, TypeOK
<1>4. ASSUME t \in Handler, flag' = [flag EXCEPT ![t] = TRUE],
             NEW m \in Landing(here, t), pc' = [here EXCEPT ![t] = m],
             interrupted' = (interrupted \/ (here[t] = "wait" /\ m = "scan"))
      PROVE  pc' \in [Handler -> Label] /\ flag' \in [Handler -> BOOLEAN]
             /\ interrupted' \in BOOLEAN
             /\ \A g \in Handler : pc'[g] = "commit" => here[g] = "commit"
  <2>1. m \in Label /\ (m = "commit" => here[t] = "commit")
    BY <1>1, <1>4 DEF Landing, Label
  <2> QED BY <1>1, <1>4, <2>1 DEF TypeInv, TypeOK
<1> QED BY <1>2, <1>3, <1>4 DEF Kill

LEMMA SignalTypes ==
  ASSUME TypeInv, NEW h \in Handler, SendSignal(h) \/ TellSenderScan(h)
  PROVE  TypeInv'
<1>1. CASE SendSignal(h)
  <2> DEFINE l == "reply"
             here == [pc EXCEPT ![h] = l]
  <2>1. l \in Label /\ l # "commit" /\ here = [pc EXCEPT ![h] = l]
        /\ \E t : Kill(t, here)
    BY <1>1 DEF SendSignal, Label
  <2> HIDE DEF l, here
  <2>2. pc' \in [Handler -> Label] /\ flag' \in [Handler -> BOOLEAN]
        /\ interrupted' \in BOOLEAN
        /\ \A g \in Handler : pc'[g] = "commit" => pc[g] = "commit"
    BY <2>1, KillTypes
  <2>3. work' = [work EXCEPT ![h] = Idle] /\ Idle.op = "none" /\ Idle \in Command
    BY <1>1, BlankTypes DEF SendSignal, Idle
  <2>4. \A g \in Handler : pc'[g] = "commit" /\ work'[g].op \in {"accept", "reject", "slot"}
          => work'[g].slot \in Slot \cup {0}
    BY <2>2, <2>3 DEF TypeInv, TypeOK, SlotOK
  <2>5. SlotOK'
    BY <2>4 DEF SlotOK, Slot
  <2> QED BY <1>1, <2>2, <2>3, <2>5 DEF SendSignal, TypeInv, TypeOK, shared
<1>2. CASE TellSenderScan(h)
  <2>1. "commit" \in Label /\ \E t : Kill(t, [pc EXCEPT ![h] = "commit"])
    BY <1>2 DEF TellSenderScan, Label
  <2>2. pc' \in [Handler -> Label] /\ flag' \in [Handler -> BOOLEAN]
        /\ interrupted' \in BOOLEAN
        /\ \A g \in Handler : pc'[g] = "commit" => pc[g] = "commit" \/ g = h
    BY <2>1, KillTypes
  <2>3. UNCHANGED work /\ work[h].op = "tellSender"
    BY <1>2 DEF TellSenderScan, In
  <2>4. \A g \in Handler : pc'[g] = "commit" /\ work'[g].op \in {"accept", "reject", "slot"}
          => work'[g].slot \in Slot \cup {0}
    BY <2>2, <2>3 DEF TypeInv, SlotOK
  <2>5. SlotOK'
    BY <2>4 DEF SlotOK, Slot
  <2> QED BY <1>2, <2>2, <2>3, <2>5 DEF TellSenderScan, TypeInv, TypeOK, shared
<1> QED BY <1>1, <1>2

LEMMA TablePassTypes ==
  ASSUME TypeInv, NEW h \in Handler, Poll(h) \/ Notify(h) \/ Cleanup(h) \/ Offline(h)
  PROVE  TypeInv'
<1> USE DEF Label
<1>1. work[h] \in Command /\ work \in [Handler -> Command]
  BY DEF TypeInv, TypeOK
<1>2. CASE Poll(h)
  <2>1. PICK i \in FirstOf(EntriesOf(work[h].user)) :
          IF i = 0 THEN UNCHANGED work
          ELSE work' = [work EXCEPT ![h].op = "slot", ![h].pid = online[i].pid]
    BY <1>2 DEF Poll
  <2>2. i # 0 => i \in OnlineSlot /\ online[i].pid \in Handler \cup {NoPid}
    BY <2>1, FirstOfIn DEF EntriesOf, TypeInv, TypeOK, UserEntry
  <2> DEFINE w == IF i = 0 THEN work[h]
                  ELSE [work[h] EXCEPT !.op = "slot", !.pid = online[i].pid]
  <2>3. w \in Command
    BY <1>1, <2>2 DEF Command, Op
  <2>4. work' = [work EXCEPT ![h] = w]
    BY <1>1, <2>1
  <2> HIDE DEF w
  <2> QED BY <1>2, <2>3, <2>4, PostTypes DEF Poll, TypeInv, TypeOK, shared, history
<1>3. CASE Notify(h)
  <2>1. \A i \in Slot : pending[i] \in RequestSlot
    BY DEF TypeInv, TypeOK
  <2>2. \A i \in Slot : [pending[i] EXCEPT !.status = "NOTIFIED"] \in RequestSlot
    BY <2>1 DEF RequestSlot
  <2>3. pending' \in [Slot -> RequestSlot]
    BY <1>3, <2>1, <2>2, BlankTypes DEF Notify
  <2>4. \A i \in Refused(session[h]) : pending[i].req \in Nat
    BY <2>1 DEF Refused, RequestSlot
  <2>5. reported' \subseteq Nat
    BY <1>3, <2>4 DEF Notify, TypeInv, TypeOK
  <2>6. work' = [work EXCEPT ![h] = work[h]]
    BY <1>1, <1>3 DEF Notify
  <2>7. PICK l \in {"clear", "send"} : Post(h, l)
    BY <1>3 DEF Notify
  <2> QED BY <1>1, <1>3, <2>3, <2>5, <2>6, <2>7, PostTypes DEF Notify, TypeInv, TypeOK
<1>4. CASE Cleanup(h)
  <2>1. pending' \in [Slot -> RequestSlot]
    BY <1>4, BlankTypes DEF Cleanup, TypeInv, TypeOK
  <2>2. \A i \in Addressed(session[h]) : pending[i].req \in Nat
    BY DEF Addressed, TypeInv, TypeOK, RequestSlot
  <2>3. dropped' \subseteq Nat
    BY <1>4, <2>2 DEF Cleanup, TypeInv, TypeOK
  <2> DEFINE w == [work[h] EXCEPT !.op = "offline"]
  <2>4. w \in Command /\ work' = [work EXCEPT ![h] = w]
    BY <1>1, <1>4, CommandTypes DEF Cleanup, Op
  <2> HIDE DEF w
  <2> QED BY <1>4, <2>1, <2>3, <2>4, PostTypes DEF Cleanup, TypeInv, TypeOK
<1>5. CASE Offline(h)
  <2>1. [NoEntry EXCEPT !.pid = h] \in UserEntry
    BY DEF NoEntry, UserEntry
  <2>2. online' \in [OnlineSlot -> UserEntry]
    BY <1>5, <2>1 DEF Offline, TypeInv, TypeOK
  <2>3. mux' \in Nat
    BY <1>5 DEF Offline, TypeInv, TypeOK
  <2> QED BY <1>5, <2>2, <2>3, ExitTypes DEF Offline, TypeInv, TypeOK, history
<1> QED BY <1>2, <1>3, <1>4, <1>5

LEMMA StepTypes ==
  ASSUME TypeInv, NEW h \in Handler, Step(h)
  PROVE  TypeInv'
<1> USE DEF Label
<1>1. CASE Check(h)
  <2>1. [Idle EXCEPT !.op = "notify"] \in Command
    BY BlankTypes, CommandTypes DEF Op
  <2> QED BY <1>1, <2>1, EnqueueTypes, GotoTypes DEF Check, TypeInv, TypeOK, shared, history
<1>2. CASE Leave(h)
  <2>1. [Idle EXCEPT !.op = "cleanup"] \in Command
    BY BlankTypes, CommandTypes DEF Op
  <2> QED BY <1>2, <2>1, EnqueueTypes, ExitTypes DEF Leave, TypeInv, TypeOK, shared, history
<1>3. CASE SemWait(h)
  <2>1. mux' \in Nat
    BY <1>3 DEF SemWait, TypeInv, TypeOK
  <2> QED BY <1>3, <2>1, GotoTypes DEF SemWait, TypeInv, TypeOK, shared, history
<1>4. CASE LoginScan(h)
  BY <1>4, SearchTypes DEF LoginScan, Inactive, OnlineSlot
<1>5. CASE SlotScan(h)
  BY <1>5, SearchTypes DEF SlotScan, FreeSlots, Slot
<1>6. CASE AcceptScan(h)
  BY <1>6, SearchTypes DEF AcceptScan, Acceptable, Slot
<1>7. CASE RejectScan(h)
  <2>1. PICK i \in FirstOf(Rejectable(h)) :
          work' = [work EXCEPT ![h].slot =
                     IF i # 0 /\ pending[i].receiver = session[h] THEN i ELSE 0]
    BY <1>7 DEF RejectScan
  <2> DEFINE s == IF i # 0 /\ pending[i].receiver = session[h] THEN i ELSE 0
             w == [work[h] EXCEPT !.slot = s]
  <2>2. s \in Slot \cup {0} /\ s \in Nat
    BY <2>1, FirstOfIn DEF Rejectable, Slot
  <2> HIDE DEF s
  <2>3. work \in [Handler -> Command] /\ work[h] \in Command
    BY DEF TypeInv, TypeOK
  <2>4. w \in Command /\ w.slot = s /\ work' = [work EXCEPT ![h] = w]
    BY <2>1, <2>2, <2>3, CommandTypes DEF Command, s
  <2> HIDE DEF w
  <2>5. pc' \in [Handler -> Label] /\ work' \in [Handler -> Command] /\ SlotOK'
    BY <1>7, <2>2, <2>4, MoveTypes DEF RejectScan, Goto
  <2> QED BY <1>7, <2>5 DEF RejectScan, TypeInv, TypeOK, shared, history
<1>8. CASE Reply(h)
  BY <1>8, GotoTypes DEF Reply, TypeInv, TypeOK, shared, history
<1>9. CASE SendNotifications(h)
  BY <1>9, GotoTypes DEF SendNotifications, TypeInv, TypeOK, shared, history
<1>10. CASE ClearFlag(h)
  BY <1>10, MoveTypes, BlankTypes DEF ClearFlag, Goto, TypeInv, TypeOK, shared, history
<1> QED BY <1>1, <1>2, <1>3, <1>4, <1>5, <1>6, <1>7, <1>8, <1>9, <1>10,
           CommitTypes, SignalTypes, TablePassTypes DEF Step

LEMMA TypeInvariant == Spec => []TypeInv
<1>1. TypeInv /\ [Next]_vars => TypeInv'
  <2> SUFFICES ASSUME TypeInv, [Next]_vars PROVE TypeInv'
    OBVIOUS
  <2>1. CASE Next
    BY <2>1, EnvironmentTypes, StepTypes DEF Next
  <2>2. CASE UNCHANGED vars
    BY <2>2 DEF vars, TypeInv, TypeOK, SlotOK
  <2> QED BY <2>1, <2>2
<1> QED BY InitTypes, <1>1, PTL DEF Spec

(* Every variable keeps its type: in particular pids read from the table    *)
(* are pids, and slots are only updated at indices of the table.            *)
THEOREM TypeCorrect == Spec => []TypeOK
<1>1. TypeInv => TypeOK
  BY DEF TypeInv
<1> QED BY <1>1, TypeInvariant, PTL

-----------------------------------------------------------------------------
(***************************************************************************)
(* The semaphore theorems, from the three kinds of steps.  Its value       *)
(* follows from who is inside, and MutualExclusion alone is not inductive: *)
(* SemHeld adds that the value is 1 when nobody is.                        *)
(***************************************************************************)
SemHeld ==
  ~interrupted =>
    \/ mux = 1 /\ \A h \in Handler : ~Inside(h)
    \/ mux = 0 /\ \E h \in Handler : Inside(h) /\ \A g \in Handler : Inside(g) => g = h

LEMMA NextKinds ==
  ASSUME TypeInv, [Next]_vars
  PROVE  /\ StaysPut \/ \E h \in Handler : GoesIn(h) \/ ComesOut(h)
         /\ interrupted => interrupted'
<1>1. TypeOK
  BY DEF TypeInv
<1>2. StaysPut \/ \E h \in Handler : GoesIn(h) \/ ComesOut(h)
  <2>1. CASE UNCHANGED vars
    BY <2>1 DEF vars, StaysPut, Inside
  <2>2. ASSUME NEW h \in Handler, Environment(h)
        PROVE  StaysPut
    BY <1>1, <2>2, EnvironmentStaysPut
  <2>3. ASSUME NEW h \in Handler, Step(h)
        PROVE  GoesIn(h) \/ ComesOut(h) \/ StaysPut
    BY <1>1, <2>3, StepKinds
  <2> QED BY <2>1, <2>2, <2>3 DEF Next
<1>3. interrupted => interrupted'
  <2>1. ASSUME NEW h \in Handler, Environment(h)
        PROVE  UNCHANGED interrupted
    BY <2>1 DEF Environment, Connect, ReadHeader, Eof, Sigpipe, OtherCommand, Login,
                TransferRequest, Answer, history
  <2>2. ASSUME NEW h \in Handler, Step(h)
        PROVE  interrupted => interrupted'
    <3>1. CASE SendSignal(h) \/ TellSenderScan(h)
      BY <3>1 DEF SendSignal, TellSenderScan, Kill
    <3>2. CASE Check(h) \/ Leave(h) \/ SemWait(h) \/ CommitNothing(h) \/ LoginCommit(h)
               \/ Poll(h) \/ SlotCommit(h) \/ AcceptCommit(h) \/ RejectCommit(h)
               \/ TellSenderCommit(h)
      BY <3>2 DEF Check, Leave, SemWait, CommitNothing, LoginCommit, Poll, SlotCommit,
                  AcceptCommit, RejectCommit, TellSenderCommit, history
    <3>3. CASE LoginScan(h) \/ SlotScan(h) \/ AcceptScan(h) \/ RejectScan(h)
      BY <3>3 DEF LoginScan, SlotScan, AcceptScan, RejectScan, Search, history
    <3>4. CASE Notify(h) \/ Cleanup(h) \/ Offline(h) \/ Reply(h) \/ SendNotifications(h)
               \/ ClearFlag(h)
      BY <3>4 DEF Notify, Cleanup, Offline, Reply, SendNotifications, ClearFlag, history
    <3> QED BY <2>2, <3>1, <3>2, <3>3, <3>4 DEF Step
  <2> QED BY <2>1, <2>2 DEF Next, vars
<1> QED BY <1>2, <1>3

(* Whatever is interrupted, killed or refused, a semaphore of value 0 is in *)
(* the hands of a handler that is about to post it.                         *)
THEOREM MuxNeverLost == Spec => []NoLostMux
<1>1. Init => NoLostMux
  BY DEF Init, NoLostMux
<1>2. TypeInv /\ NoLostMux /\ [Next]_vars => NoLostMux'
  <2> SUFFICES ASSUME TypeInv, NoLostMux, [Next]_vars, mux' = 0
               PROVE  \E h \in Handler : Inside(h)'
    BY DEF NoLostMux, Inside
  <2>1. ASSUME NEW h \in Handler, GoesIn(h) PROVE \E g \in Handler : Inside(g)'
    BY <2>1 DEF GoesIn
  <2>2. ASSUME NEW h \in Handler, ComesOut(h) PROVE FALSE
    BY <2>2 DEF ComesOut, TypeInv, TypeOK
  <2>3. CASE StaysPut
    BY <2>3 DEF StaysPut, NoLostMux
  <2> QED BY <2>1, <2>2, <2>3, NextKinds
<1> QED BY <1>1, <1>2, TypeInvariant, PTL DEF Spec

(* Two handlers are never inside critical sections together, unless a       *)
(* signal has interrupted a sem_wait.                                       *)
THEOREM SectionsExclude == Spec => []MutualExclusion
<1>1. Init => SemHeld
  BY DEF Init, SemHeld, Inside
<1>2. TypeInv /\ SemHeld /\ [Next]_vars => SemHeld'
  <2> SUFFICES ASSUME TypeInv, SemHeld, [Next]_vars, ~interrupted'
               PROVE  \/ mux' = 1 /\ \A h \in Handler : ~Inside(h)'
                      \/ mux' = 0 /\ \E h \in Handler :
                           Inside(h)' /\ \A g \in Handler : Inside(g)' => g = h
    BY DEF SemHeld, Inside
  <2>1. ~interrupted
    BY NextKinds
  <2>2. CASE StaysPut
    BY <2>1, <2>2 DEF StaysPut, SemHeld
  <2>3. ASSUME NEW h \in Handler, GoesIn(h)
        PROVE  mux' = 0 /\ Inside(h)' /\ \A g \in Handler : Inside(g)' => g = h
    BY <2>1, <2>3 DEF GoesIn, SemHeld
  <2>4. ASSUME NEW h \in Handler, ComesOut(h)
        PROVE  mux' = 1 /\ \A g \in Handler : ~Inside(g)'
    BY <2>1, <2>4 DEF ComesOut, SemHeld
  <2> QED BY <2>2, <2>3, <2>4, NextKinds
<1>3. SemHeld => MutualExclusion
  BY DEF SemHeld, MutualExclusion, AtMostOneInside
<1> QED BY <1>1, <1>2, <1>3, TypeInvariant, PTL DEF Spec
=============================================================================
