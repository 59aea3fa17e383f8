--------------------------- MODULE RequestProofs ---------------------------
(***************************************************************************)
(* Proofs about the transfer requests and the table of users online of     *)
(* TransferRegistry, for any number of handlers, users, slots and          *)
(* requests, from the theorems about its types and its semaphore; and      *)
(* about the way of a handler through its sections and to its exit.        *)
(***************************************************************************)
EXTENDS TransferRegistryProofs, FiniteSetTheorems

(* A handler that carries out a command is logged in; a login is that of   *)
(* its session, and a request has a receiver.                              *)
LoggedIn ==
  \A h \in Handler :
    /\ work[h].op # "none" => session[h] \in User
    /\ work[h].op = "login" => work[h].user = session[h]
    /\ work[h].op \in {"poll", "slot"} => work[h].user \in User

(* Requests still to be numbered fit in the bound. *)
Budget == counter + Cardinality(Requesting) <= MaxId

(* What a search found is still so when the handler comes to the update.   *)
CommitOK(h) ==
  LET i == work[h].slot IN
  pc[h] = "commit" /\ i # 0 =>
    /\ work[h].op = "login" => i \in Inactive /\ \A j \in 1..i - 1 : online[j].active
    /\ work[h].op = "slot" => i \in FreeSlots
    /\ work[h].op = "accept" => i \in Acceptable(h)
    /\ work[h].op = "reject" => i \in Addressed(session[h])
SearchesHold == \A h \in Handler : CommitOK(h)

(* The requests in slots are different, and none of those that are over.   *)
Held   == {i \in Slot : pending[i].status # "FREE"}
Ended  == Taken \cup reported \cup dropped
Numbered ==
  /\ \A i \in Held : pending[i].req \in 1..counter /\ pending[i].req \notin Ended
  /\ Ended \subseteq 1..counter
OneSlotEach == \A i, j \in Held : pending[i].req = pending[j].req => i = j
OneEndEach  == /\ Taken \cap reported = {} /\ Taken \cap dropped = {}
               /\ reported \cap dropped = {}
               /\ \A k, l \in DOMAIN taken : taken[k] = taken[l] => k = l
NoneLost    == \A r \in 1..counter : r \in Ended \/ Live(r) # {}
Requests    == Numbered /\ OneSlotEach /\ OneEndEach /\ NoneLost

(* An entry is the only one of a handler that is logged in and has entered *)
(* itself, and no entry before it has its pid, which Offline looks for.    *)
Entries ==
  \A i \in OnlineSlot : online[i].active =>
    LET h == online[i].pid IN
    /\ h \in Handler /\ online[i].user \in User
    /\ h \notin killed =>
         /\ pc[h] # "dead" /\ session[h] = online[i].user /\ work[h].op # "login"
         /\ \A j \in 1..i - 1 : online[j].pid # h

Tables == ~interrupted => SearchesHold /\ Requests /\ Entries
IInv == LoggedIn /\ Budget /\ Tables

-----------------------------------------------------------------------------
(***************************************************************************)
(* What a step of handler h leaves alone.                                  *)
(***************************************************************************)
Acts(h) == Environment(h) \/ Step(h)

(* Only SIGUSR1 reaches another handler, and moves it neither to an update *)
(* nor to its end.                                                         *)
Reached(h, g) ==
  /\ pc'[g] = "commit" => pc[g] = "commit"
  /\ pc'[g] = "dead" <=> pc[g] = "dead"

LEMMA KillReaches ==
  ASSUME TypeInv, NEW h \in Handler, NEW l \in Label, NEW t, Kill(t, [pc EXCEPT ![h] = l]),
         NEW g \in Handler, g # h
  PROVE  Reached(h, g)
<1> DEFINE here == [pc EXCEPT ![h] = l]
<1>1. here \in [Handler -> Label] /\ here[g] = pc[g] /\ Kill(t, here)
  BY DEF TypeInv, TypeOK
<1> HIDE DEF here
<1>2. CASE pc' = here
  BY <1>1, <1>2 DEF Reached
<1>3. ASSUME t \in Handler, here[t] # "dead", NEW m \in Landing(here, t),
             pc' = [here EXCEPT ![t] = m]
      PROVE  Reached(h, g)
  BY <1>1, <1>3 DEF Landing, Reached
<1> QED BY <1>1, <1>2, <1>3 DEF Kill

LEMMA Others ==
  ASSUME TypeInv, NEW h \in Handler, Acts(h), NEW g \in Handler, g # h
  PROVE  work'[g] = work[g] /\ session'[g] = session[g] /\ Reached(h, g)
<1>1. work \in [Handler -> Command] /\ session \in [Handler -> User \cup {NoUser}]
      /\ pc \in [Handler -> Label]
  BY DEF TypeInv, TypeOK
<1>2. CASE Environment(h)
  BY <1>1, <1>2 DEF Environment, Connect, ReadHeader, Eof, Sigpipe, Exit, OtherCommand, Login,
     TransferRequest, Answer, Enqueue, Goto, Reached
<1>3. CASE SendSignal(h) \/ TellSenderScan(h)
  BY <1>1, <1>3, KillReaches DEF SendSignal, TellSenderScan, Label
<1>4. CASE Check(h) \/ Leave(h) \/ SemWait(h) \/ CommitNothing(h) \/ LoginCommit(h)
           \/ SlotCommit(h) \/ AcceptCommit(h) \/ RejectCommit(h) \/ TellSenderCommit(h)
  BY <1>1, <1>4 DEF Check, Leave, SemWait, CommitNothing, LoginCommit, SlotCommit,
     AcceptCommit, RejectCommit, TellSenderCommit, Enqueue, Exit, Post, Goto, Reached
<1>5. CASE LoginScan(h) \/ SlotScan(h) \/ AcceptScan(h) \/ RejectScan(h)
  BY <1>1, <1>5 DEF LoginScan, SlotScan, AcceptScan, RejectScan, Search, Goto, Reached
<1>6. CASE Poll(h)
  BY <1>1, <1>6 DEF Poll, Post, Goto, Reached
<1>7. CASE Notify(h) \/ Cleanup(h) \/ Offline(h) \/ Reply(h) \/ SendNotifications(h)
           \/ ClearFlag(h)
  BY <1>1, <1>7 DEF Notify, Cleanup, Offline, Exit, Reply, SendNotifications, ClearFlag,
     Post, Goto, Reached
<1> QED BY <1>2, <1>3, <1>4, <1>5, <1>6, <1>7 DEF Acts, Step

(* Outside the critical sections nobody touches the tables, or what has    *)
(* become of requests; and who dies outside them is counted as killed.     *)
tables == <<pending, counter, taken, reported, dropped>>

LEMMA OutsideTables ==
  ASSUME NEW h \in Handler, Acts(h), ~Inside(h)
  PROVE  UNCHANGED <<tables, online>>
<1> USE DEF tables, shared, history
<1>1. CASE Environment(h)
  BY <1>1 DEF Environment, Connect, ReadHeader, Eof, Sigpipe, OtherCommand, Login,
     TransferRequest, Answer
<1>2. CASE Check(h) \/ Leave(h) \/ SemWait(h) \/ SendSignal(h) \/ Reply(h)
           \/ SendNotifications(h) \/ ClearFlag(h)
  BY <1>2 DEF Check, Leave, SemWait, SendSignal, Reply, SendNotifications, ClearFlag
<1> QED BY <1>1, <1>2 DEF Acts, Step, Inside, CommitNothing, LoginScan, LoginCommit, Poll,
           SlotScan, SlotCommit, AcceptScan, AcceptCommit, RejectScan, RejectCommit,
           TellSenderScan, TellSenderCommit, Notify, Cleanup, Offline, Search, Found, In, At

-----------------------------------------------------------------------------
(***************************************************************************)
(* Who carries out commands, and how many requests there may be.           *)
(***************************************************************************)
(* A poll goes on, or asks for a slot for the receiver it has found.       *)
LEMMA PollAsks ==
  ASSUME TypeInv, NEW h \in Handler, Poll(h)
  PROVE  /\ work[h].op = "poll"
         /\ work'[h] = work[h] \/ (work'[h].op = "slot" /\ work'[h].user = work[h].user)
<1>1. work \in [Handler -> Command] /\ work[h] \in Command
  BY DEF TypeInv, TypeOK
<1>2. CASE UNCHANGED work
  BY <1>2 DEF Poll, In
<1>3. ASSUME NEW i, work' = [work EXCEPT ![h].op = "slot", ![h].pid = online[i].pid]
      PROVE  work'[h].op = "slot" /\ work'[h].user = work[h].user
  <2>1. work'[h] = [work[h] EXCEPT !.op = "slot", !.pid = online[i].pid]
    BY <1>1, <1>3
  <2> QED BY <1>1, <2>1 DEF Command
<1> QED BY <1>2, <1>3 DEF Poll, In

(* A rejection tells the sender next, a cleanup takes the entry out next.  *)
LEMMA NextCommand ==
  ASSUME TypeInv, NEW h \in Handler, RejectCommit(h) \/ Cleanup(h)
  PROVE  /\ work[h].op \in {"reject", "cleanup"}
         /\ work'[h].op \in {"tellSender", "offline"}
<1>1. work \in [Handler -> Command] /\ work[h] \in Command
  BY DEF TypeInv, TypeOK
<1>2. CASE RejectCommit(h)
  <2>1. work'[h] = [Idle EXCEPT !.op = "tellSender", !.user = pending[work[h].slot].sender]
    BY <1>1, <1>2 DEF RejectCommit
  <2> QED BY <1>2, <2>1, ZenonT(40) DEF RejectCommit, Found, In, Idle
<1>3. CASE Cleanup(h)
  <2>1. work'[h] = [work[h] EXCEPT !.op = "offline"]
    BY <1>1, <1>3 DEF Cleanup
  <2> QED BY <1>1, <1>3, <2>1 DEF Cleanup, In, Command
<1> QED BY <1>2, <1>3

Entitled(h) ==
  /\ work[h].op # "none" => session[h] \in User
  /\ work[h].op = "login" => work[h].user = session[h]
  /\ work[h].op \in {"poll", "slot"} => work[h].user \in User

LEMMA EntitledStays ==
  ASSUME TypeInv, NEW h \in Handler, Acts(h), Entitled(h)
  PROVE  Entitled(h)'
<1>1. /\ work \in [Handler -> Command] /\ work[h] \in Command
      /\ session \in [Handler -> User \cup {NoUser}]
      /\ Idle.op = "none" /\ NoUser \notin User
  BY RegistryAssumption DEF TypeInv, TypeOK, Idle
<1>2. CASE Environment(h)
  <2>1. CASE Connect(h) \/ ReadHeader(h) \/ Eof(h) \/ Sigpipe(h) \/ OtherCommand(h)
    BY <1>1, <2>1 DEF Connect, ReadHeader, Eof, Sigpipe, Exit, OtherCommand, Entitled
  <2>2. ASSUME NEW u \in User, Login(h, u) PROVE Entitled(h)'
    BY <1>1, <2>2 DEF Login, Enqueue, Idle, Entitled
  <2>3. ASSUME NEW u \in User, TransferRequest(h, u) PROVE Entitled(h)'
    BY <1>1, <2>3 DEF TransferRequest, Enqueue, Idle, Entitled
  <2>4. ASSUME NEW o \in {"accept", "reject"}, NEW r, Answer(h, o, r) PROVE Entitled(h)'
    BY <1>1, <2>4 DEF Answer, Enqueue, Idle, Entitled
  <2> QED BY <1>2, <2>1, <2>2, <2>3, <2>4 DEF Environment
<1>3. CASE Check(h) \/ Leave(h)
  BY <1>1, <1>3 DEF Check, Leave, Enqueue, Exit, Idle, Entitled
<1>4. CASE CommitNothing(h) \/ LoginCommit(h) \/ SlotCommit(h) \/ AcceptCommit(h)
           \/ TellSenderCommit(h) \/ SendSignal(h) \/ Offline(h) \/ ClearFlag(h)
  BY <1>1, <1>4 DEF CommitNothing, LoginCommit, SlotCommit, AcceptCommit, TellSenderCommit,
     SendSignal, Offline, Exit, ClearFlag, Idle, Entitled
<1>5. CASE LoginScan(h) \/ SlotScan(h) \/ AcceptScan(h) \/ RejectScan(h)
  BY <1>1, <1>5 DEF LoginScan, SlotScan, AcceptScan, RejectScan, Search, Command, Entitled
<1>6. CASE RejectCommit(h) \/ Cleanup(h)
  BY <1>6, NextCommand DEF RejectCommit, Cleanup, Entitled
<1>8. CASE Poll(h)
  BY <1>1, <1>8, PollAsks DEF Poll, Entitled
<1>7. CASE SemWait(h) \/ TellSenderScan(h) \/ Notify(h) \/ Reply(h) \/ SendNotifications(h)
  BY <1>7 DEF SemWait, TellSenderScan, Notify, Reply, SendNotifications, Entitled
<1> QED BY <1>2, <1>3, <1>4, <1>5, <1>6, <1>7, <1>8 DEF Acts, Step

LEMMA LoggedInStays ==
  ASSUME TypeInv, LoggedIn, NEW h \in Handler, Acts(h)
  PROVE  LoggedIn'
<1>1. ASSUME NEW g \in Handler PROVE Entitled(g)'
  <2>1. Entitled(g)
    BY DEF LoggedIn, Entitled
  <2>2. CASE g = h
    BY <2>1, <2>2, EntitledStays
  <2>3. CASE g # h
    BY <2>1, <2>3, Others DEF Entitled
  <2> QED BY <2>2, <2>3
<1> QED BY <1>1 DEF LoggedIn, Entitled

(* The operation of h is the only one that may change, to or from one that *)
(* asks for a slot.                                                        *)
LEMMA AsksLess ==
  ASSUME TypeInv, NEW h \in Handler, Acts(h), \A u \in User : ~TransferRequest(h, u)
  PROVE  /\ Requesting' \subseteq Requesting
         /\ SlotCommit(h) => Requesting' = Requesting \ {h} /\ h \in Requesting
         /\ ~SlotCommit(h) => UNCHANGED counter
<1>1. /\ work \in [Handler -> Command] /\ work[h] \in Command /\ Idle.op = "none"
      /\ session \in [Handler -> User \cup {NoUser}]
  BY DEF TypeInv, TypeOK, Idle
<1> DEFINE Asks(g) == work[g].op \in {"poll", "slot"}
<1>2. /\ Asks(h)' => Asks(h)
      /\ SlotCommit(h) => Asks(h) /\ ~Asks(h)'
      /\ ~SlotCommit(h) => UNCHANGED counter
  <2> USE DEF shared
  <2>0. SlotCommit(h) => Asks(h) /\ ~Asks(h)'
    BY <1>1 DEF SlotCommit, Found, In, Idle
  <2>1. CASE Environment(h)
    <3>1. CASE Connect(h) \/ ReadHeader(h) \/ Eof(h) \/ Sigpipe(h) \/ OtherCommand(h)
      BY <1>1, <2>0, <3>1 DEF Connect, ReadHeader, Eof, Sigpipe, Exit, OtherCommand
    <3>2. ASSUME NEW u \in User, Login(h, u) PROVE ~Asks(h)' /\ UNCHANGED counter
      BY <1>1, <3>2 DEF Login, Enqueue, Idle
    <3>4. ASSUME NEW o \in {"accept", "reject"}, NEW r, Answer(h, o, r)
          PROVE  ~Asks(h)' /\ UNCHANGED counter
      BY <1>1, <3>4 DEF Answer, Enqueue, Idle
    <3> QED BY <2>0, <2>1, <3>1, <3>2, <3>4 DEF Environment
  <2>2. CASE Check(h) \/ Leave(h)
    BY <1>1, <2>0, <2>2 DEF Check, Leave, Enqueue, Exit, Idle
  <2>3. CASE CommitNothing(h) \/ LoginCommit(h) \/ AcceptCommit(h)
             \/ TellSenderCommit(h) \/ SendSignal(h) \/ Offline(h) \/ ClearFlag(h)
    BY <1>1, <2>0, <2>3 DEF CommitNothing, LoginCommit, AcceptCommit, TellSenderCommit,
       SendSignal, Offline, Exit, ClearFlag, Idle
  <2>4. CASE LoginScan(h) \/ SlotScan(h) \/ AcceptScan(h) \/ RejectScan(h)
    BY <1>1, <2>0, <2>4 DEF LoginScan, SlotScan, AcceptScan, RejectScan, Search, Command
  <2>5. CASE RejectCommit(h) \/ Cleanup(h)
    BY <2>0, <2>5, NextCommand DEF RejectCommit, Cleanup
  <2>7. CASE Poll(h)
    BY <2>0, <2>7, PollAsks DEF Poll
  <2>6. CASE SemWait(h) \/ TellSenderScan(h) \/ Notify(h) \/ Reply(h) \/ SendNotifications(h)
    BY <2>0, <2>6 DEF SemWait, TellSenderScan, Notify, Reply, SendNotifications
  <2> QED BY <2>0, <2>1, <2>2, <2>3, <2>4, <2>5, <2>6, <2>7 DEF Acts, Step
<1>3. \A g \in Handler : g # h => (Asks(g)' <=> Asks(g))
  BY Others
<1> QED BY <1>2, <1>3 DEF Requesting

LEMMA BudgetStays ==
  ASSUME TypeInv, Budget, NEW h \in Handler, Acts(h)
  PROVE  Budget'
<1>1. IsFiniteSet(Requesting) /\ Cardinality(Requesting) \in Nat /\ counter \in Nat
      /\ MaxId \in Nat
  <2>1. IsFiniteSet(Handler) /\ Requesting \in SUBSET Handler
    BY RegistryAssumption DEF Requesting
  <2> QED BY <2>1, FS_Subset, FS_CardinalityType, RegistryAssumption DEF TypeInv, TypeOK
<1>2. ASSUME NEW u \in User, TransferRequest(h, u) PROVE Budget'
  <2>1. Requesting' \subseteq Requesting \cup {h} /\ counter' = counter
    BY <1>2, Others DEF TransferRequest, Enqueue, Requesting, shared, Acts, Environment
  <2>2. IsFiniteSet(Requesting \cup {h})
        /\ Cardinality(Requesting \cup {h}) <= Cardinality(Requesting) + 1
        /\ Cardinality(Requesting \cup {h}) \in Nat
    <3>1. /\ IsFiniteSet(Requesting \cup {h})
          /\ Cardinality(Requesting \cup {h}) =
               IF h \in Requesting THEN Cardinality(Requesting) ELSE Cardinality(Requesting) + 1
      BY <1>1, FS_AddElement
    <3> QED BY <1>1, <3>1
  <2>3. Cardinality(Requesting') <= Cardinality(Requesting \cup {h})
        /\ Cardinality(Requesting') \in Nat
    BY <2>1, <2>2, FS_Subset, FS_CardinalityType
  <2> QED BY <1>1, <1>2, <2>1, <2>2, <2>3 DEF TransferRequest, Budget
<1>3. CASE \A u \in User : ~TransferRequest(h, u)
  <2>1. Cardinality(Requesting') <= Cardinality(Requesting) /\ Cardinality(Requesting') \in Nat
    BY <1>1, <1>3, AsksLess, FS_Subset, FS_CardinalityType
  <2>2. CASE SlotCommit(h)
    <3>1. Cardinality(Requesting') = Cardinality(Requesting) - 1
      BY <1>1, <1>3, <2>2, AsksLess, FS_RemoveElement
    <3>2. counter' = counter + 1
      BY <2>2 DEF SlotCommit
    <3> QED BY <1>1, <3>1, <3>2 DEF Budget
  <2>3. CASE ~SlotCommit(h)
    BY <1>1, <1>3, <2>1, <2>3, AsksLess DEF Budget
  <2> QED BY <2>2, <2>3
<1> QED BY <1>2, <1>3

-----------------------------------------------------------------------------
(***************************************************************************)
(* What a search found holds until the update, as long as handlers exclude *)
(* each other.                                                             *)
(***************************************************************************)
LEMMA OnlyScansCommit ==
  ASSUME TypeInv, NEW h \in Handler, Acts(h), pc'[h] = "commit"
  PROVE  LoginScan(h) \/ SlotScan(h) \/ AcceptScan(h) \/ RejectScan(h) \/ TellSenderScan(h)
<1>1. pc \in [Handler -> Label]
  BY DEF TypeInv, TypeOK
<1>2. CASE Environment(h)
  BY <1>1, <1>2 DEF Environment, Connect, ReadHeader, Eof, Sigpipe, Exit, OtherCommand, Login,
     TransferRequest, Answer, Enqueue, Goto
<1>3. CASE SendSignal(h)
  BY <1>1, <1>3 DEF SendSignal, Kill, Landing
<1>4. CASE Check(h) \/ Leave(h) \/ SemWait(h) \/ CommitNothing(h) \/ LoginCommit(h)
           \/ SlotCommit(h) \/ AcceptCommit(h) \/ RejectCommit(h) \/ TellSenderCommit(h)
  BY <1>1, <1>4 DEF Check, Leave, SemWait, CommitNothing, LoginCommit, SlotCommit,
     AcceptCommit, RejectCommit, TellSenderCommit, Enqueue, Exit, Post, Goto
<1>5. CASE Poll(h)
  BY <1>1, <1>5 DEF Poll, Post, Goto
<1>6. CASE Notify(h) \/ Cleanup(h) \/ Offline(h) \/ Reply(h) \/ SendNotifications(h)
           \/ ClearFlag(h)
  BY <1>1, <1>6 DEF Notify, Cleanup, Offline, Exit, Reply, SendNotifications, ClearFlag,
     Post, Goto
<1> QED BY <1>2, <1>3, <1>4, <1>5, <1>6 DEF Acts, Step

(* The search of h, seen from the update that follows.                     *)
LEMMA SearchFinds ==
  ASSUME TypeInv, NEW h \in Handler, NEW o, NEW S, Search(h, o, S)
  PROVE  /\ work'[h].op = o
         /\ work'[h].slot # 0 => work'[h].slot \in S /\ \A j \in S : work'[h].slot <= j
<1>1. PICK i \in FirstOf(S) : work' = [work EXCEPT ![h].slot = i]
  BY DEF Search
<1>2. work \in [Handler -> Command] /\ work[h] \in Command /\ work[h].op = o
  BY DEF Search, In, TypeInv, TypeOK
<1>3. work'[h] = [work[h] EXCEPT !.slot = i]
  BY <1>1, <1>2
<1>4. work'[h].slot = i /\ work'[h].op = o
  BY <1>2, <1>3 DEF Command
<1>5. i # 0 => i \in S /\ \A j \in S : i <= j
  BY DEF FirstOf
<1> QED BY <1>4, <1>5

LEMMA SearchesStay ==
  ASSUME TypeInv, SearchesHold, AtMostOneInside, NEW h \in Handler, Acts(h)
  PROVE  SearchesHold'
<1>1. ASSUME NEW g \in Handler, g # h PROVE CommitOK(g)'
  <2> SUFFICES ASSUME pc'[g] = "commit" PROVE CommitOK(g)'
    BY DEF CommitOK
  <2>1. pc[g] = "commit" /\ work'[g] = work[g] /\ session'[g] = session[g]
    BY <1>1, Others, SMTT(20) DEF Reached
  <2>2. UNCHANGED <<online, pending>>
    BY <1>1, <2>1, OutsideTables DEF AtMostOneInside, Inside, tables
  <2> QED BY <2>1, <2>2 DEF SearchesHold, CommitOK, Inactive, FreeSlots, Acceptable, Addressed
<1>2. CommitOK(h)'
  <2> SUFFICES ASSUME pc'[h] = "commit", work'[h].slot # 0 PROVE CommitOK(h)'
    BY DEF CommitOK
  <2>1. CASE LoginScan(h)
    <3> DEFINE i == work'[h].slot
    <3>1. work'[h].op = "login" /\ i \in Inactive /\ \A j \in Inactive : i <= j
      BY <2>1, SearchFinds DEF LoginScan
    <3>2. UNCHANGED online
      BY <2>1 DEF LoginScan, Search, shared
    <3>3. i \in OnlineSlot /\ \A j \in 1..i - 1 : j \in OnlineSlot /\ ~(i <= j)
      BY <3>1, RegistryAssumption DEF Inactive, OnlineSlot
    <3>4. \A j \in 1..i - 1 : online[j].active
      BY <3>1, <3>3 DEF Inactive
    <3> HIDE DEF i
    <3> QED BY <3>1, <3>2, <3>4 DEF CommitOK, Inactive, i
  <2>2. CASE SlotScan(h)
    <3>1. work'[h].op = "slot" /\ work'[h].slot \in FreeSlots
      BY <2>2, SearchFinds DEF SlotScan
    <3> QED BY <2>2, <3>1 DEF SlotScan, Search, shared, CommitOK, FreeSlots
  <2>3. CASE AcceptScan(h)
    <3>1. work'[h].op = "accept" /\ work'[h].slot \in Acceptable(h)
      BY <2>3, SearchFinds DEF AcceptScan
    <3>2. UNCHANGED <<pending, session>> /\ work'[h].id = work[h].id
      BY <2>3 DEF AcceptScan, Search, shared, TypeInv, TypeOK, Command
    <3> QED BY <3>1, <3>2 DEF CommitOK, Acceptable
  <2>4. CASE RejectScan(h)
    <3>1. PICK i \in FirstOf(Rejectable(h)) :
            work' = [work EXCEPT ![h].slot =
                       IF i # 0 /\ pending[i].receiver = session[h] THEN i ELSE 0]
      BY <2>4 DEF RejectScan
    <3>2. work'[h] = [work[h] EXCEPT !.slot =
                       IF i # 0 /\ pending[i].receiver = session[h] THEN i ELSE 0]
      BY <3>1 DEF TypeInv, TypeOK
    <3>3. work'[h].op = "reject"
          /\ work'[h].slot = IF i # 0 /\ pending[i].receiver = session[h] THEN i ELSE 0
      BY <2>4, <3>2 DEF RejectScan, In, TypeInv, TypeOK, Command
    <3>4. work'[h].slot = i /\ i \in Addressed(session[h])
      BY <3>1, <3>3, FirstOfIn DEF Rejectable, Addressed
    <3> QED BY <2>4, <3>3, <3>4 DEF RejectScan, shared, CommitOK, Addressed
  <2>5. CASE TellSenderScan(h)
    BY <2>5 DEF TellSenderScan, In, CommitOK
  <2> QED BY <2>1, <2>2, <2>3, <2>4, <2>5, OnlyScansCommit
<1> QED BY <1>1, <1>2 DEF SearchesHold

-----------------------------------------------------------------------------
(***************************************************************************)
(* Five kinds of steps have to do with requests.                           *)
(***************************************************************************)
LEMMA TableSteps ==
  ASSUME NEW h \in Handler, Acts(h)
  PROVE  \/ UNCHANGED tables
         \/ SlotCommit(h) \/ AcceptCommit(h) \/ RejectCommit(h) \/ Notify(h) \/ Cleanup(h)
<1> USE DEF tables, shared, history
<1>1. CASE Environment(h)
  BY <1>1 DEF Environment, Connect, ReadHeader, Eof, Sigpipe, OtherCommand, Login,
     TransferRequest, Answer
<1>2. CASE Step(h)
  BY <1>2 DEF Step, Check, Leave, SemWait, SendSignal, Reply, SendNotifications, ClearFlag,
     CommitNothing, LoginScan, LoginCommit, Poll, SlotScan, AcceptScan, RejectScan,
     TellSenderScan, TellSenderCommit, Offline, Search
<1> QED BY <1>1, <1>2 DEF Acts

(* The requests of slots D are over, and the slots are free.               *)
Retires(D) ==
  /\ D \subseteq Held /\ Held' = Held \ D
  /\ \A i \in Held' : pending'[i].req = pending[i].req
  /\ Ended' = Ended \cup {pending[i].req : i \in D}
  /\ UNCHANGED counter

LEMMA Retire ==
  ASSUME Requests, NEW D, Retires(D)
  PROVE  Numbered' /\ OneSlotEach' /\ NoneLost'
<1> USE DEF Requests, Retires
<1>1. Numbered'
  <2>1. \A i \in Held' : pending'[i].req \notin {pending[j].req : j \in D}
    BY DEF OneSlotEach
  <2>2. \A i \in Held' : pending'[i].req \in 1..counter' /\ pending'[i].req \notin Ended'
    BY <2>1 DEF Numbered
  <2>3. Ended' \subseteq 1..counter'
    BY DEF Numbered
  <2> QED BY <2>2, <2>3 DEF Numbered
<1>2. OneSlotEach'
  BY DEF OneSlotEach
<1>3. NoneLost'
  <2> SUFFICES ASSUME NEW r \in 1..counter, r \notin Ended' PROVE Live(r)' # {}
    BY DEF NoneLost
  <2>1. PICK i \in Slot : i \in Live(r)
    BY DEF NoneLost, Live
  <2>2. i \in Held'
    BY <2>1 DEF Live, Held
  <2> QED BY <2>1, <2>2 DEF Live, Held
<1> QED BY <1>1, <1>2, <1>3

(* What each of the five does to the tables.                               *)
LEMMA SlotFills ==
  ASSUME TypeInv, NEW h \in Handler, SlotCommit(h), CommitOK(h)
  PROVE  \E i \in Slot \ Held :
           /\ counter' = counter + 1 /\ UNCHANGED <<taken, reported, dropped>>
           /\ pending'[i] = [status |-> "PENDING", id |-> counter', sender |-> session[h],
                             receiver |-> work[h].user, req |-> counter']
           /\ \A j \in Slot : j # i => pending'[j] = pending[j]
           /\ Held' = Held \cup {i}
<1>1. PICK i : i = work[h].slot
  OBVIOUS
<1>2. i \in Slot \ Held
  BY <1>1 DEF SlotCommit, Found, In, CommitOK, FreeSlots, Held
<1>3. /\ counter' = counter + 1 /\ UNCHANGED <<taken, reported, dropped>>
      /\ pending' = [pending EXCEPT ![i] =
                       [status |-> "PENDING", id |-> counter', sender |-> session[h],
                        receiver |-> work[h].user, req |-> counter']]
  BY <1>1 DEF SlotCommit, history
<1>4. /\ pending'[i] = [status |-> "PENDING", id |-> counter', sender |-> session[h],
                        receiver |-> work[h].user, req |-> counter']
      /\ \A j \in Slot : j # i => pending'[j] = pending[j]
  BY <1>2, <1>3 DEF TypeInv, TypeOK
<1>5. Held' = Held \cup {i}
  BY <1>2, <1>4 DEF Held
<1> QED BY <1>2, <1>3, <1>4, <1>5

(* One more accept: what is appended to the sequence of accepts.            *)
LEMMA OneMore ==
  ASSUME NEW s \in Seq(Nat), NEW r \in Nat
  PROVE  LET t == Append(s, r) IN
         /\ \E n \in Nat : DOMAIN s = 1..n /\ DOMAIN t = 1..n + 1 /\ t[n + 1] = r
         /\ \A k \in DOMAIN s : k \in DOMAIN t /\ t[k] = s[k]
         /\ {t[k] : k \in DOMAIN t} = {s[k] : k \in DOMAIN s} \cup {r}
<1> DEFINE t == Append(s, r)
           n == Len(s)
<1>1. n \in Nat /\ DOMAIN s = 1..n /\ DOMAIN t = 1..n + 1 /\ t[n + 1] = r
  OBVIOUS
<1>2. \A k \in 1..n : t[k] = s[k]
  OBVIOUS
<1>3. DOMAIN t = DOMAIN s \cup {n + 1}
  BY <1>1
<1> HIDE DEF t, n
<1>4. {t[k] : k \in DOMAIN t} = {s[k] : k \in DOMAIN s} \cup {r}
  BY <1>1, <1>2, <1>3
<1> QED BY <1>1, <1>2, <1>3, <1>4 DEF t

LEMMA AcceptFrees ==
  ASSUME TypeInv, NEW h \in Handler, AcceptCommit(h), CommitOK(h)
  PROVE  \E i \in Acceptable(h) :
           /\ taken' = Append(taken, pending[i].req)
           /\ Taken' = Taken \cup {pending[i].req}
           /\ UNCHANGED <<counter, reported, dropped>>
           /\ \A j \in Slot : j # i => pending'[j] = pending[j]
           /\ Held' = Held \ {i}
<1>1. PICK i : i = work[h].slot
  OBVIOUS
<1>2. i \in Acceptable(h) /\ i \in Slot
  BY <1>1 DEF AcceptCommit, Found, In, CommitOK, Acceptable
<1>3. /\ pending' = [pending EXCEPT ![i] = NoRequest]
      /\ taken' = Append(taken, pending[i].req)
      /\ UNCHANGED <<counter, reported, dropped>>
  BY <1>1 DEF AcceptCommit
<1>4. pending'[i].status = "FREE" /\ \A j \in Slot : j # i => pending'[j] = pending[j]
  BY <1>2, <1>3 DEF TypeInv, TypeOK, NoRequest
<1>5. Held' = Held \ {i}
  BY <1>4 DEF Held
<1>6. Taken' = Taken \cup {pending[i].req}
  <2>1. taken \in Seq(Nat) /\ pending[i].req \in Nat
    BY <1>2 DEF TypeInv, TypeOK, RequestSlot
  <2> QED BY <1>3, <2>1, OneMore DEF Taken
<1> QED BY <1>2, <1>3, <1>4, <1>5, <1>6

LEMMA RejectMarks ==
  ASSUME TypeInv, NEW h \in Handler, RejectCommit(h), CommitOK(h)
  PROVE  \E i \in Addressed(session[h]) :
           /\ pending'[i] = [pending[i] EXCEPT !.status = "REJECTED", !.id = 0]
           /\ \A j \in Slot : j # i => pending'[j] = pending[j]
           /\ UNCHANGED <<counter, taken, reported, dropped>>
           /\ Held' = Held
<1>1. PICK i : i = work[h].slot
  OBVIOUS
<1>2. i \in Addressed(session[h]) /\ i \in Slot /\ i \in Held
  BY <1>1 DEF RejectCommit, Found, In, CommitOK, Addressed, Held
<1>3. /\ pending' = [pending EXCEPT ![i].status = "REJECTED", ![i].id = 0]
      /\ UNCHANGED <<counter, taken, reported, dropped>>
  BY <1>1 DEF RejectCommit, history
<1>4. pending'[i] = [pending[i] EXCEPT !.status = "REJECTED", !.id = 0]
      /\ \A j \in Slot : j # i => pending'[j] = pending[j]
  BY <1>2, <1>3 DEF TypeInv, TypeOK
<1>5. pending'[i].status = "REJECTED"
  BY <1>2, <1>4 DEF TypeInv, TypeOK, RequestSlot
<1>6. Held' = Held
  BY <1>2, <1>4, <1>5 DEF Held
<1> QED BY <1>2, <1>3, <1>4, <1>6

LEMMA NotifyMarks ==
  ASSUME TypeInv, NEW h \in Handler, Notify(h)
  PROVE  LET in  == Incoming(session[h])
             out == Refused(session[h])
         IN /\ \A i \in in : pending'[i] = [pending[i] EXCEPT !.status = "NOTIFIED"]
            /\ \A i \in Slot \ (in \cup out) : pending'[i] = pending[i]
            /\ reported' = reported \cup {pending[i].req : i \in out}
            /\ UNCHANGED <<counter, taken, dropped>>
            /\ Held' = Held \ out /\ out \subseteq Held /\ in \subseteq Held \ out
<1> DEFINE in  == Incoming(session[h])
           out == Refused(session[h])
<1>1. /\ pending' = [i \in Slot |->
                       IF i \in in THEN [pending[i] EXCEPT !.status = "NOTIFIED"]
                       ELSE IF i \in out THEN NoRequest
                       ELSE pending[i]]
      /\ reported' = reported \cup {pending[i].req : i \in out}
      /\ UNCHANGED <<counter, taken, dropped>>
  BY DEF Notify
<1>2. out \subseteq Held /\ in \subseteq Held \ out
  BY DEF Incoming, Refused, Held
<1>3. \A i \in in : [pending[i] EXCEPT !.status = "NOTIFIED"].status = "NOTIFIED"
  BY <1>2 DEF Held, TypeInv, TypeOK, RequestSlot
<1>4. Held \subseteq Slot /\ NoRequest.status = "FREE"
  BY DEF Held, NoRequest
<1> HIDE DEF in, out
<1>5. Held' = Held \ out
  BY <1>1, <1>2, <1>3, <1>4 DEF Held
<1>6. /\ \A i \in in : pending'[i] = [pending[i] EXCEPT !.status = "NOTIFIED"]
      /\ \A i \in Slot \ (in \cup out) : pending'[i] = pending[i]
  BY <1>1, <1>2, <1>4
<1> QED BY <1>1, <1>2, <1>5, <1>6 DEF in, out

LEMMA CleanupFrees ==
  ASSUME TypeInv, NEW h \in Handler, Cleanup(h)
  PROVE  LET mine == Addressed(session[h]) IN
         /\ \A i \in Slot \ mine : pending'[i] = pending[i]
         /\ dropped' = dropped \cup {pending[i].req : i \in mine}
         /\ UNCHANGED <<counter, taken, reported>>
         /\ Held' = Held \ mine /\ mine \subseteq Held
<1> DEFINE mine == Addressed(session[h])
<1>1. /\ pending' = [i \in Slot |-> IF i \in mine THEN NoRequest ELSE pending[i]]
      /\ dropped' = dropped \cup {pending[i].req : i \in mine}
      /\ UNCHANGED <<counter, taken, reported>>
  BY DEF Cleanup
<1>2. mine \subseteq Held /\ Held \subseteq Slot /\ NoRequest.status = "FREE"
  BY DEF Addressed, Held, NoRequest
<1> HIDE DEF mine
<1>3. Held' = Held \ mine
  BY <1>1, <1>2 DEF Held
<1> QED BY <1>1, <1>2, <1>3 DEF mine

LEMMA SlotKeeps ==
  ASSUME TypeInv, Requests, NEW h \in Handler, SlotCommit(h), CommitOK(h)
  PROVE  Requests'
<1>1. PICK i \in Slot \ Held :
        /\ counter' = counter + 1 /\ UNCHANGED <<taken, reported, dropped>>
        /\ pending'[i] = [status |-> "PENDING", id |-> counter', sender |-> session[h],
                          receiver |-> work[h].user, req |-> counter']
        /\ \A j \in Slot : j # i => pending'[j] = pending[j]
        /\ Held' = Held \cup {i}
  BY SlotFills
<1>2. counter \in Nat /\ pending'[i].status = "PENDING" /\ pending'[i].req = counter + 1
  BY <1>1 DEF TypeInv, TypeOK
<1>3. Ended' = Ended /\ Taken' = Taken
  BY <1>1 DEF Ended, Taken
<1>4. Numbered' /\ OneSlotEach'
  BY <1>1, <1>2, <1>3 DEF Requests, Numbered, OneSlotEach, Held
<1>5. OneEndEach'
  BY <1>1, <1>3 DEF Requests, OneEndEach
<1>6. NoneLost'
  <2> SUFFICES ASSUME NEW r \in 1..counter', r \notin Ended' PROVE Live(r)' # {}
    BY DEF NoneLost
  <2>1. CASE r = counter + 1
    BY <1>2, <2>1 DEF Live
  <2>2. CASE r # counter + 1
    <3>1. r \in 1..counter /\ r \notin Ended
      BY <1>1, <1>2, <1>3, <2>2
    <3>2. PICK j \in Slot : j \in Live(r)
      BY <3>1 DEF Requests, NoneLost, Live
    <3> QED BY <1>1, <3>2 DEF Live, Held
  <2> QED BY <2>1, <2>2
<1> QED BY <1>4, <1>5, <1>6 DEF Requests

LEMMA AcceptKeeps ==
  ASSUME TypeInv, Requests, NEW h \in Handler, AcceptCommit(h), CommitOK(h)
  PROVE  Requests'
<1>1. PICK i \in Acceptable(h) :
        /\ taken' = Append(taken, pending[i].req)
        /\ Taken' = Taken \cup {pending[i].req}
        /\ UNCHANGED <<counter, reported, dropped>>
        /\ \A j \in Slot : j # i => pending'[j] = pending[j]
        /\ Held' = Held \ {i}
  BY AcceptFrees
<1>2. i \in Held
  BY DEF Acceptable, Held
<1>3. Retires({i})
  BY <1>1, <1>2 DEF Retires, Held, Ended
<1>4. pending[i].req \notin Ended
  BY <1>2 DEF Requests, Numbered
<1>5. OneEndEach'
  <2>1. \A k \in DOMAIN taken : taken[k] # pending[i].req
    BY <1>4 DEF Ended, Taken
  <2>2. taken \in Seq(Nat) /\ pending[i].req \in Nat
    BY <1>2 DEF Held, TypeInv, TypeOK, RequestSlot
  <2>3. PICK n \in Nat : /\ DOMAIN taken = 1..n /\ DOMAIN taken' = 1..n + 1
                         /\ taken'[n + 1] = pending[i].req
                         /\ \A k \in 1..n : taken'[k] = taken[k]
    BY <1>1, <2>2, OneMore
  <2>4. \A k, l \in DOMAIN taken' : taken'[k] = taken'[l] => k = l
    BY <2>1, <2>3 DEF Requests, OneEndEach
  <2> QED BY <1>1, <1>4, <2>4 DEF Requests, OneEndEach, Ended
<1> QED BY <1>3, <1>5, Retire DEF Requests

LEMMA RejectKeeps ==
  ASSUME TypeInv, Requests, NEW h \in Handler, RejectCommit(h), CommitOK(h)
  PROVE  Requests'
<1>1. PICK i \in Addressed(session[h]) :
        /\ pending'[i] = [pending[i] EXCEPT !.status = "REJECTED", !.id = 0]
        /\ \A j \in Slot : j # i => pending'[j] = pending[j]
        /\ UNCHANGED <<counter, taken, reported, dropped>>
        /\ Held' = Held
  BY RejectMarks
<1>2. pending'[i].req = pending[i].req
  BY <1>1 DEF Addressed, TypeInv, TypeOK, RequestSlot
<1>3. Ended' = Ended /\ Taken' = Taken
  BY <1>1 DEF Ended, Taken
<1>4. Retires({})
  BY <1>1, <1>2, <1>3 DEF Retires, Held
<1> QED BY <1>1, <1>3, <1>4, Retire DEF Requests, OneEndEach

LEMMA NotifyKeeps ==
  ASSUME TypeInv, Requests, NEW h \in Handler, Notify(h)
  PROVE  Requests'
<1> DEFINE in  == Incoming(session[h])
           out == Refused(session[h])
<1>1. /\ \A i \in in : pending'[i] = [pending[i] EXCEPT !.status = "NOTIFIED"]
      /\ \A i \in Slot \ (in \cup out) : pending'[i] = pending[i]
      /\ reported' = reported \cup {pending[i].req : i \in out}
      /\ UNCHANGED <<counter, taken, dropped>>
      /\ Held' = Held \ out /\ out \subseteq Held /\ in \subseteq Held \ out
  BY NotifyMarks
<1> HIDE DEF in, out
<1>2. ASSUME NEW i \in in PROVE pending'[i].req = pending[i].req
  <2>1. pending[i] \in RequestSlot
    BY <1>1 DEF Held, TypeInv, TypeOK
  <2> QED BY <1>1, <2>1 DEF RequestSlot
<1>3. \A i \in Held' : pending'[i].req = pending[i].req
  BY <1>1, <1>2 DEF Held
<1>4. Taken' = Taken
  BY <1>1 DEF Taken
<1>5. Retires(out)
  BY <1>1, <1>3, <1>4 DEF Retires, Ended
<1>6. OneEndEach'
  <2>1. \A i \in out : pending[i].req \notin Ended
    BY <1>1 DEF Requests, Numbered
  <2> QED BY <1>1, <1>4, <2>1 DEF Requests, OneEndEach, Ended
<1> QED BY <1>5, <1>6, Retire DEF Requests

LEMMA CleanupKeeps ==
  ASSUME TypeInv, Requests, NEW h \in Handler, Cleanup(h)
  PROVE  Requests'
<1> DEFINE mine == Addressed(session[h])
<1>1. /\ \A i \in Slot \ mine : pending'[i] = pending[i]
      /\ dropped' = dropped \cup {pending[i].req : i \in mine}
      /\ UNCHANGED <<counter, taken, reported>>
      /\ Held' = Held \ mine /\ mine \subseteq Held
  BY CleanupFrees
<1> HIDE DEF mine
<1>2. \A i \in Held' : pending'[i].req = pending[i].req
  BY <1>1 DEF Held
<1>3. Taken' = Taken
  BY <1>1 DEF Taken
<1>4. Retires(mine)
  BY <1>1, <1>2, <1>3 DEF Retires, Ended
<1>5. OneEndEach'
  <2>1. \A i \in mine : pending[i].req \notin Ended
    BY <1>1 DEF Requests, Numbered
  <2> QED BY <1>1, <1>3, <2>1 DEF Requests, OneEndEach, Ended
<1> QED BY <1>4, <1>5, Retire DEF Requests

LEMMA RequestsStay ==
  ASSUME TypeInv, Requests, SearchesHold, NEW h \in Handler, Acts(h)
  PROVE  Requests'
<1>1. CASE UNCHANGED tables
  BY <1>1 DEF tables, Requests, Numbered, OneSlotEach, OneEndEach, NoneLost, Held, Ended,
     Taken, Live
<1> QED BY <1>1, TableSteps, SlotKeeps, AcceptKeeps, RejectKeeps, NotifyKeeps, CleanupKeeps
        DEF SearchesHold

-----------------------------------------------------------------------------
(***************************************************************************)
(* The table of users online.                                              *)
(***************************************************************************)
LEMMA OnlineSteps ==
  ASSUME NEW h \in Handler, Acts(h)
  PROVE  /\ UNCHANGED online \/ LoginCommit(h) \/ Offline(h)
         /\ killed \subseteq killed'
<1> USE DEF shared, history
<1>1. CASE Environment(h)
  BY <1>1 DEF Environment, Connect, ReadHeader, Eof, Sigpipe, OtherCommand, Login,
     TransferRequest, Answer
<1>2. CASE Step(h)
  BY <1>2 DEF Step, Check, Leave, SemWait, SendSignal, Reply, SendNotifications, ClearFlag,
     CommitNothing, LoginScan, LoginCommit, Poll, SlotScan, SlotCommit, AcceptScan,
     AcceptCommit, RejectScan, RejectCommit, TellSenderScan, TellSenderCommit, Notify,
     Cleanup, Offline, Search
<1> QED BY <1>1, <1>2 DEF Acts

(* Between its login and its exit a handler stays logged in as the same    *)
(* user, and does not log in again; a death by SIGPIPE is noted.           *)
LEMMA StaysLoggedIn ==
  ASSUME TypeInv, NEW h \in Handler, Acts(h), ~Offline(h),
         session[h] # NoUser, pc[h] # "dead", h \notin killed'
  PROVE  /\ pc'[h] # "dead" /\ session'[h] = session[h]
         /\ work'[h].op = "login" => work[h].op = "login"
<1>1. /\ work \in [Handler -> Command] /\ work[h] \in Command /\ Idle.op = "none"
      /\ session \in [Handler -> User \cup {NoUser}] /\ pc \in [Handler -> Label]
  BY DEF TypeInv, TypeOK, Idle
<1>2. CASE Environment(h)
  <2>1. CASE Connect(h) \/ ReadHeader(h) \/ Eof(h) \/ Sigpipe(h) \/ OtherCommand(h)
    BY <1>1, <2>1 DEF Connect, At, ReadHeader, Eof, Sigpipe, OtherCommand, Goto
  <2>2. ASSUME NEW u \in User PROVE ~Login(h, u)
    BY DEF Login
  <2>3. ASSUME NEW u \in User, TransferRequest(h, u)
        PROVE  pc'[h] = "wait" /\ session' = session /\ work'[h].op # "login"
    BY <1>1, <2>3 DEF TransferRequest, Enqueue, Goto, Idle
  <2>4. ASSUME NEW o \in {"accept", "reject"}, NEW r, Answer(h, o, r)
        PROVE  pc'[h] = "wait" /\ session' = session /\ work'[h].op # "login"
    BY <1>1, <2>4 DEF Answer, Enqueue, Goto, Idle
  <2> QED BY <1>2, <2>1, <2>2, <2>3, <2>4 DEF Environment
<1>3. CASE Check(h) \/ Leave(h)
  BY <1>1, <1>3 DEF Check, Leave, Enqueue, Goto, Idle
<1>4. CASE CommitNothing(h) \/ LoginCommit(h) \/ SlotCommit(h) \/ AcceptCommit(h)
           \/ TellSenderCommit(h) \/ ClearFlag(h)
  BY <1>1, <1>4 DEF CommitNothing, LoginCommit, SlotCommit, AcceptCommit, TellSenderCommit,
     ClearFlag, Post, Goto, Idle
<1>5. CASE LoginScan(h) \/ SlotScan(h) \/ AcceptScan(h) \/ RejectScan(h)
  BY <1>1, <1>5 DEF LoginScan, SlotScan, AcceptScan, RejectScan, Search, Goto, Command
<1>6. CASE RejectCommit(h) \/ Cleanup(h)
  BY <1>1, <1>6, NextCommand DEF RejectCommit, Cleanup, Post, Goto
<1>7. CASE Poll(h)
  BY <1>1, <1>7, PollAsks DEF Poll, Post, Goto
<1>8. CASE SemWait(h) \/ Notify(h) \/ Reply(h) \/ SendNotifications(h)
  BY <1>1, <1>8 DEF SemWait, Notify, Reply, SendNotifications, Post, Goto
<1>9. CASE SendSignal(h) \/ TellSenderScan(h)
  <2>1. PICK l \in {"reply", "commit"} : \E t : Kill(t, [pc EXCEPT ![h] = l])
    BY <1>9 DEF SendSignal, TellSenderScan
  <2>2. pc'[h] = l
    BY <1>1, <2>1 DEF Kill, Landing
  <2> QED BY <1>1, <1>9, <2>1, <2>2 DEF SendSignal, TellSenderScan, Idle
<1> QED BY <1>2, <1>3, <1>4, <1>5, <1>6, <1>7, <1>8, <1>9 DEF Acts, Step

EntryOK(i) ==
  online[i].active =>
    LET h == online[i].pid IN
    /\ h \in Handler /\ online[i].user \in User
    /\ h \notin killed =>
         /\ pc[h] # "dead" /\ session[h] = online[i].user /\ work[h].op # "login"
         /\ \A j \in 1..i - 1 : online[j].pid # h

(* What an entry says of its handler stays true.                           *)
LEMMA EntryKept ==
  ASSUME TypeInv, NEW h \in Handler, Acts(h), NEW g \in Handler, g = h => ~Offline(h),
         g \notin killed', session[g] \in User, pc[g] # "dead", work[g].op # "login"
  PROVE  pc'[g] # "dead" /\ session'[g] = session[g] /\ work'[g].op # "login"
<1>1. CASE g = h
  BY <1>1, StaysLoggedIn, RegistryAssumption
<1>2. CASE g # h
  BY <1>2, Others DEF Reached
<1> QED BY <1>1, <1>2

(* A handler that logs in has no entry yet, and those before its own are   *)
(* those of others.                                                        *)
LEMMA LoginEnters ==
  ASSUME TypeInv, LoggedIn, Entries, SearchesHold, NEW h \in Handler, LoginCommit(h)
  PROVE  Entries'
<1>0. PICK i : i = work[h].slot
  OBVIOUS
<1>1. /\ work[h].op = "login" /\ pc[h] = "commit"
      /\ i \in OnlineSlot /\ ~online[i].active /\ \A j \in 1..i - 1 : online[j].active
      /\ work[h].user = session[h] /\ session[h] \in User
  BY <1>0 DEF LoginCommit, Found, In, SearchesHold, CommitOK, Inactive, LoggedIn
<1>2. /\ online' = [online EXCEPT ![i] = [active |-> TRUE, user |-> session[h], pid |-> h]]
      /\ pc' = [pc EXCEPT ![h] = "reply"] /\ work' = [work EXCEPT ![h] = Idle]
      /\ UNCHANGED <<session, killed>>
  BY <1>0, <1>1 DEF LoginCommit, Post, Goto, history
<1>3. /\ online'[i] = [active |-> TRUE, user |-> session[h], pid |-> h]
      /\ \A j \in OnlineSlot : j # i => online'[j] = online[j]
      /\ pc'[h] = "reply" /\ work'[h].op = "none"
      /\ \A g \in Handler : g # h => pc'[g] = pc[g] /\ work'[g] = work[g]
  BY <1>1, <1>2 DEF TypeInv, TypeOK, Idle
<1>4. ASSUME NEW j \in OnlineSlot, online[j].active, h \notin killed
      PROVE  online[j].pid # h
  BY <1>1, <1>4 DEF Entries
<1>5. \A j \in OnlineSlot : j \in 1..MaxUsers /\ \A k \in 1..j - 1 : k \in OnlineSlot /\ k # j
  BY RegistryAssumption DEF OnlineSlot
<1>6. EntryOK(i)'
  <2>1. h \notin killed => \A j \in 1..i - 1 : online'[j].pid # h
    BY <1>1, <1>3, <1>4, <1>5
  <2> QED BY <1>1, <1>2, <1>3, <2>1 DEF EntryOK
<1>7. ASSUME NEW j \in OnlineSlot, j # i PROVE EntryOK(j)'
  <2> SUFFICES ASSUME online[j].active, online[j].pid \notin killed
               PROVE  /\ pc'[online[j].pid] # "dead"
                      /\ work'[online[j].pid].op # "login"
                      /\ \A k \in 1..j - 1 : online'[k].pid # online[j].pid
    BY <1>2, <1>3, <1>7 DEF Entries, EntryOK
  <2>1. /\ online[j].pid \in Handler /\ online[j].pid # h
        /\ pc[online[j].pid] # "dead" /\ work[online[j].pid].op # "login"
        /\ \A k \in 1..j - 1 : online[k].pid # online[j].pid
    BY <1>1 DEF Entries
  <2>2. \A k \in 1..j - 1 : online'[k].pid # online[j].pid
    BY <1>3, <1>5, <2>1
  <2> QED BY <1>3, <2>1, <2>2
<1> QED BY <1>6, <1>7 DEF Entries, EntryOK

(* The first entry with its pid is the one of a handler that leaves.       *)
LEMMA OfflineLeaves ==
  ASSUME TypeInv, Entries, NEW h \in Handler, Offline(h)
  PROVE  Entries'
<1>1. PICK i \in FirstOf(EntriesAt(h)) :
        online' = [j \in OnlineSlot |->
                     IF j = i THEN [NoEntry EXCEPT !.pid = h] ELSE online[j]]
  BY DEF Offline
<1>2. /\ \A j \in OnlineSlot : j # i => online'[j] = online[j]
      /\ i \in OnlineSlot => online'[i].active = FALSE /\ online'[i].pid = h
      /\ UNCHANGED killed
  BY <1>1 DEF NoEntry, Offline, history
<1>3. \A g \in Handler : g # h =>
        pc'[g] = pc[g] /\ work'[g] = work[g] /\ session'[g] = session[g]
  BY DEF Offline, Exit, Goto, TypeInv, TypeOK
<1>4. \A j \in OnlineSlot : \A k \in 1..j - 1 : k \in OnlineSlot
  BY RegistryAssumption DEF OnlineSlot
<1>5. ASSUME NEW j \in OnlineSlot, online'[j].active PROVE EntryOK(j)'
  <2>1. j # i /\ online'[j] = online[j] /\ online[j].active
    BY <1>2, <1>5
  <2> SUFFICES ASSUME online[j].pid \notin killed
               PROVE  /\ online[j].pid # h
                      /\ \A k \in 1..j - 1 : online'[k].pid # online[j].pid
    BY <1>2, <1>3, <2>1 DEF Entries, EntryOK
  <2>2. online[j].pid \in Handler /\ \A k \in 1..j - 1 : online[k].pid # online[j].pid
    BY <2>1 DEF Entries
  <2>3. online[j].pid # h
    <3> SUFFICES ASSUME online[j].pid = h PROVE FALSE
      OBVIOUS
    <3>1. j \in EntriesAt(h)
      BY DEF EntriesAt
    <3>2. i \in EntriesAt(h) /\ i <= j
      BY <1>1, <3>1 DEF FirstOf
    <3>3. i \in 1..j - 1 /\ online[i].pid = h
      BY <2>1, <3>2, RegistryAssumption DEF EntriesAt, OnlineSlot
    <3> QED BY <2>2, <3>3
  <2>4. \A k \in 1..j - 1 : online'[k].pid # online[j].pid
    BY <1>2, <1>4, <2>2, <2>3
  <2> QED BY <2>3, <2>4
<1> QED BY <1>5 DEF Entries, EntryOK

LEMMA EntriesStay ==
  ASSUME TypeInv, LoggedIn, Entries, SearchesHold, NEW h \in Handler, Acts(h)
  PROVE  Entries'
<1>1. CASE UNCHANGED online /\ ~Offline(h)
  <2>1. ASSUME NEW i \in OnlineSlot, online[i].active PROVE EntryOK(i)'
    <3>1. EntryOK(i) /\ online[i].pid \in Handler
      BY <2>1 DEF Entries, EntryOK
    <3>2. killed \subseteq killed'
      BY OnlineSteps
    <3> SUFFICES ASSUME online[i].pid \notin killed'
                 PROVE  /\ pc'[online[i].pid] # "dead"
                        /\ session'[online[i].pid] = online[i].user
                        /\ work'[online[i].pid].op # "login"
      BY <1>1, <2>1, <3>1, <3>2 DEF EntryOK
    <3> QED BY <1>1, <2>1, <3>1, <3>2, EntryKept DEF EntryOK
  <2> QED BY <1>1, <2>1 DEF Entries, EntryOK
<1> QED BY <1>1, OnlineSteps, LoginEnters, OfflineLeaves

-----------------------------------------------------------------------------
(***************************************************************************)
(* The inductive invariant.                                                *)
(***************************************************************************)
LEMMA InitHolds == Init => IInv
<1> SUFFICES ASSUME Init PROVE IInv
  OBVIOUS
<1>1. LoggedIn
  BY DEF Init, LoggedIn, Idle
<1>2. Budget
  <2>1. Requesting = {} /\ counter = 0
    BY DEF Init, Requesting, Idle
  <2> QED BY <2>1, FS_EmptySet, RegistryAssumption DEF Budget
<1>3. SearchesHold
  BY DEF Init, SearchesHold, CommitOK
<1>4. Requests
  <2>1. Held = {} /\ Ended = {} /\ counter = 0 /\ taken = <<>> /\ reported = {} /\ dropped = {}
        /\ Taken = {}
    BY DEF Init, Held, Ended, Taken, NoRequest
  <2> QED BY <2>1 DEF Requests, Numbered, OneSlotEach, OneEndEach, NoneLost
<1>5. Entries
  BY DEF Init, Entries, NoEntry
<1> QED BY <1>1, <1>2, <1>3, <1>4, <1>5 DEF IInv, Tables

LEMMA IInvStays ==
  ASSUME TypeInv, IInv, MutualExclusion, [Next]_vars
  PROVE  IInv'
<1>1. ASSUME NEW h \in Handler, Acts(h) PROVE IInv'
  <2>1. LoggedIn' /\ Budget'
    BY <1>1, LoggedInStays, BudgetStays DEF IInv
  <2>2. ASSUME ~interrupted' PROVE SearchesHold' /\ Requests' /\ Entries'
    <3>1. ~interrupted
      BY <2>2, NextKinds
    <3>2. SearchesHold /\ Requests /\ Entries /\ LoggedIn /\ AtMostOneInside
      BY <3>1 DEF IInv, Tables, MutualExclusion
    <3> QED BY <1>1, <3>2, SearchesStay, RequestsStay, EntriesStay
  <2> QED BY <2>1, <2>2 DEF IInv, Tables
<1>2. CASE UNCHANGED vars
  BY <1>2 DEF vars, IInv, LoggedIn, Budget, Requesting, Tables, SearchesHold, CommitOK, Inactive,
     FreeSlots, Acceptable, Addressed, Requests, Numbered, OneSlotEach, OneEndEach, NoneLost,
     Held, Ended, Taken, Live, Entries
<1> QED BY <1>1, <1>2 DEF Next, Acts

LEMMA Invariant == Spec => [](TypeInv /\ MutualExclusion /\ IInv)
BY InitHolds, IInvStays, TypeInvariant, SectionsExclude, PTL DEF Spec

(* A request is in one slot or has come to one end, never both and never   *)
(* neither.                                                                *)
LEMMA OnePlaceEach ==
  ASSUME TypeInv, Requests, NEW r \in 1..counter
  PROVE  \/ Cardinality(Live(r)) = 1 /\ r \notin Taken \cup reported \cup dropped
         \/ Live(r) = {} /\ Cardinality({S \in {1, 2, 3} :
                               r \in <<Taken, reported, dropped>>[S]}) = 1
<1>1. CASE Live(r) # {}
  <2>1. PICK i \in Slot : i \in Live(r)
    BY <1>1 DEF Live
  <2>2. Live(r) = {i}
    BY <2>1 DEF Live, Requests, OneSlotEach, Held
  <2>3. Cardinality({i}) = 1
    BY FS_Singleton
  <2>4. r \notin Ended
    BY <2>1 DEF Live, Requests, Numbered, Held
  <2> QED BY <2>2, <2>3, <2>4 DEF Ended
<1>2. CASE Live(r) = {}
  <2> DEFINE E == <<Taken, reported, dropped>>
             ends == {S \in {1, 2, 3} : r \in E[S]}
  <2>1. E[1] = Taken /\ E[2] = reported /\ E[3] = dropped
    OBVIOUS
  <2>2. r \in Ended
    BY <1>2 DEF Requests, NoneLost
  <2>3. \E S : ends = {S}
    <3> HIDE DEF E
    <3>1. CASE r \in Taken
      <4>1. ends = {1}
        BY <2>1, <3>1 DEF Requests, OneEndEach
      <4> QED BY <4>1
    <3>2. CASE r \in reported
      <4>1. ends = {2}
        BY <2>1, <3>2 DEF Requests, OneEndEach
      <4> QED BY <4>1
    <3>3. CASE r \in dropped
      <4>1. ends = {3}
        BY <2>1, <3>3 DEF Requests, OneEndEach
      <4> QED BY <4>1
    <3> QED BY <2>2, <3>1, <3>2, <3>3 DEF Ended
  <2>4. Cardinality(ends) = 1
    BY <2>3, FS_Singleton
  <2> QED BY <1>2, <2>4
<1> QED BY <1>1, <1>2

(* Every id handed out belongs to a request in one slot, or to one that    *)
(* was accepted, or refused and told, or dropped: no interleaving of       *)
(* accepts, rejections, notifications and departures loses a request or    *)
(* deals with it twice.                                                    *)
THEOREM AllAccountedFor == Spec => []EveryRequestAccountedFor
<1>1. TypeInv /\ IInv => EveryRequestAccountedFor
  BY OnePlaceEach DEF IInv, Tables, EveryRequestAccountedFor
<1> QED BY <1>1, Invariant, PTL

(* No two accepts, of one handler or of two, take the same request.        *)
THEOREM NoSecondAccept == Spec => []AcceptedOnce
<1>1. IInv => AcceptedOnce
  BY DEF IInv, Tables, Requests, OneEndEach, AcceptedOnce
<1> QED BY <1>1, Invariant, PTL

(* A user is listed online by a handler that runs and is logged in as that *)
(* user, whoever came and went before and whatever pids were used again,   *)
(* but for handlers killed by SIGPIPE.                                     *)
THEOREM ListedAreServed == Spec => []NoGhostOnline
<1>1. IInv => NoGhostOnline
  BY DEF IInv, Tables, Entries, NoGhostOnline, At
<1> QED BY <1>1, Invariant, PTL

-----------------------------------------------------------------------------
(***************************************************************************)
(* Who moves an announced request.                                         *)
(***************************************************************************)
LEMMA ReceiverMoves ==
  ASSUME TypeInv, SearchesHold, NEW h \in Handler, Acts(h),
         NEW i \in Slot, pending[i].status = "NOTIFIED", pending'[i].status # "NOTIFIED"
  PROVE  Inside(h) /\ session[h] = pending[i].receiver /\ pc'[h] # pc[h]
<1>1. pc \in [Handler -> Label] /\ pending \in [Slot -> RequestSlot]
      /\ work[h] \in Command /\ CommitOK(h)
  BY DEF TypeInv, TypeOK, SearchesHold
<1>2. CASE UNCHANGED tables
  BY <1>2 DEF tables
<1>3. CASE SlotCommit(h)
  <2>1. work[h].slot \in FreeSlots
    BY <1>1, <1>3 DEF SlotCommit, Found, In, CommitOK
  <2>2. work[h].slot # i
    BY <2>1 DEF FreeSlots
  <2> QED BY <1>1, <1>3, <2>2 DEF SlotCommit
<1>4. CASE AcceptCommit(h)
  <2>1. work[h].slot \in Acceptable(h)
    BY <1>1, <1>4 DEF AcceptCommit, Found, In, CommitOK
  <2>2. work[h].slot = i
    BY <1>1, <1>4 DEF AcceptCommit
  <2> QED BY <1>1, <1>4, <2>1, <2>2 DEF AcceptCommit, Found, In, Acceptable, Inside, Post, Goto
<1>5. CASE RejectCommit(h)
  <2>1. work[h].slot \in Addressed(session[h])
    BY <1>1, <1>5 DEF RejectCommit, Found, In, CommitOK
  <2>2. work[h].slot = i
    <3> SUFFICES ASSUME work[h].slot # i PROVE pending'[i] = pending[i]
      OBVIOUS
    <3>1. PICK j : j = work[h].slot
      OBVIOUS
    <3>2. pending' = [pending EXCEPT ![j] = [pending[j] EXCEPT !.status = "REJECTED", !.id = 0]]
      BY <1>1, <1>5, <2>1, <3>1 DEF RejectCommit, Addressed
    <3> QED BY <1>1, <3>1, <3>2
  <2> QED BY <1>1, <1>5, <2>1, <2>2 DEF RejectCommit, Found, In, Addressed, Inside, Post, Goto
<1>6. CASE Notify(h)
  <2>1. i \notin Incoming(session[h]) /\ i \notin Refused(session[h])
    BY DEF Incoming, Refused
  <2> QED BY <1>6, <2>1 DEF Notify
<1>7. CASE Cleanup(h)
  <2>1. i \in Addressed(session[h])
    BY <1>7 DEF Cleanup
  <2> QED BY <1>1, <1>7, <2>1 DEF Cleanup, In, Addressed, Inside, Post, Goto
<1> QED BY <1>2, <1>3, <1>4, <1>5, <1>6, <1>7, TableSteps

(* An announced request leaves that stage only by a step that its          *)
(* receiver's handler takes with the semaphore in its hands.               *)
THEOREM ReceiverDecides == Spec => OnlyReceiverAnswers
<1> DEFINE Moved ==
      \A i \in Slot :
        ~interrupted /\ pending[i].status = "NOTIFIED" /\ pending'[i].status # "NOTIFIED" =>
          \E h \in Handler : /\ Inside(h) /\ session[h] = pending[i].receiver
                             /\ pc'[h] # pc[h]
<1>1. TypeInv /\ IInv /\ [Next]_vars => [Moved]_vars
  <2> SUFFICES ASSUME TypeInv, IInv, Next, ~interrupted, NEW i \in Slot,
                      pending[i].status = "NOTIFIED", pending'[i].status # "NOTIFIED"
               PROVE  \E h \in Handler : /\ Inside(h) /\ session[h] = pending[i].receiver
                                         /\ pc'[h] # pc[h]
    OBVIOUS
  <2> QED BY ReceiverMoves DEF Next, Acts, IInv, Tables
<1>2. Spec => [][Moved]_vars
  BY <1>1, Invariant, PTL DEF Spec
<1> QED BY <1>2 DEF OnlyReceiverAnswers

-----------------------------------------------------------------------------
(***************************************************************************)
(* The registry does what TransferLifecycle promises.                      *)
(***************************************************************************)
OfRequests(view) == view = [r \in 1..MaxId |-> view[r]]
Stage(p) == [stage |-> StageOf[p.status], sender |-> p.sender, receiver |-> p.receiver]

(* What TransferLifecycle sees of each request: one number for each slot   *)
(* held, and one end for each request that is over.                        *)
Shown ==
  /\ counter \in 0..MaxId /\ OfRequests(RequestView)
  /\ \A i \in Held : /\ pending[i].req \in 1..MaxId /\ pending[i].req <= counter
                     /\ RequestView[pending[i].req] = Stage(pending[i])
  /\ \A i, j \in Held : pending[i].req = pending[j].req => i = j
  /\ \A r \in 1..MaxId :
       /\ r > counter   => RequestView[r] = [stage |-> "none"]
       /\ r \in Taken   => RequestView[r] = [stage |-> "accepted"] /\ r <= counter
       /\ r \in reported => RequestView[r] = [stage |-> "reported"] /\ r <= counter
       /\ r \in dropped => RequestView[r] = [stage |-> "dropped"] /\ r <= counter
       /\ r > counter \/ r \in Ended \/ \E i \in Held : pending[i].req = r

LEMMA ViewShows ==
  ASSUME TypeInv, Budget, Requests
  PROVE  Shown
<1>1. counter \in Nat /\ MaxId \in Nat /\ counter <= MaxId
  <2>1. IsFiniteSet(Requesting)
    <3>1. IsFiniteSet(Handler) /\ Requesting \in SUBSET Handler
      BY RegistryAssumption DEF Requesting
    <3> QED BY <3>1, FS_Subset
  <2>2. Cardinality(Requesting) \in Nat
    BY <2>1, FS_CardinalityType
  <2> QED BY <2>2, RegistryAssumption DEF Budget, TypeInv, TypeOK
<1>2. Numbered /\ OneSlotEach /\ OneEndEach /\ NoneLost
  BY DEF Requests
<1>3. ASSUME NEW i \in Held
      PROVE  /\ pending[i].req \in 1..MaxId /\ pending[i].req <= counter
             /\ RequestView[pending[i].req] = Stage(pending[i])
  <2> DEFINE r == pending[i].req
  <2>1. r \in 1..MaxId /\ r \in 1..counter /\ r \notin Ended
    BY <1>1, <1>2 DEF Numbered
  <2>2. Live(r) = {i}
    BY <1>2 DEF Live, OneSlotEach, Held
  <2>3. (CHOOSE j \in Live(r) : TRUE) = i
    BY <2>2
  <2>4. RequestView[r] = Stage(pending[CHOOSE j \in Live(r) : TRUE])
    <3> HIDE DEF r
    <3> QED BY <1>1, <2>1 DEF RequestView, Stage, Ended
  <2>5. RequestView[r] = Stage(pending[i])
    BY <2>3, <2>4, Zenon
  <2>6. r <= counter
    BY <1>1, <2>1
  <2> QED BY <2>1, <2>5, <2>6
<1>4. ASSUME NEW r \in 1..MaxId
      PROVE  /\ r > counter   => RequestView[r] = [stage |-> "none"]
             /\ r \in Taken   => RequestView[r] = [stage |-> "accepted"] /\ r <= counter
             /\ r \in reported => RequestView[r] = [stage |-> "reported"] /\ r <= counter
             /\ r \in dropped => RequestView[r] = [stage |-> "dropped"] /\ r <= counter
             /\ r > counter \/ r \in Ended \/ \E i \in Held : pending[i].req = r
  <2>1. r \in Ended => r \in 1..counter
    BY <1>2 DEF Numbered
  <2>2. r > counter => RequestView[r] = [stage |-> "none"]
    BY DEF RequestView
  <2>3. r \in Taken => RequestView[r] = [stage |-> "accepted"] /\ r <= counter
    BY <1>1, <2>1 DEF RequestView, Ended
  <2>4. r \in reported => RequestView[r] = [stage |-> "reported"] /\ r <= counter
    BY <1>1, <1>2, <2>1 DEF RequestView, Ended, OneEndEach
  <2>5. r \in dropped => RequestView[r] = [stage |-> "dropped"] /\ r <= counter
    BY <1>1, <1>2, <2>1 DEF RequestView, Ended, OneEndEach
  <2>6. r > counter \/ r \in Ended \/ \E i \in Held : pending[i].req = r
    <3> SUFFICES ASSUME r \in 1..counter, r \notin Ended
                 PROVE  \E i \in Held : pending[i].req = r
      BY <1>1
    <3> QED BY <1>2 DEF NoneLost, Live, Held
  <2> QED BY <2>2, <2>3, <2>4, <2>5, <2>6
<1>5. OfRequests(RequestView)
  BY DEF OfRequests, RequestView
<1> QED BY <1>1, <1>2, <1>3, <1>4, <1>5 DEF Shown, OneSlotEach

(* A step that leaves a request in its slot, or at its end, does not       *)
(* change what is seen of it.                                              *)
LEMMA ViewKept ==
  ASSUME Shown, Shown', NEW r \in 1..MaxId,
         r > counter => r > counter',
         Taken \subseteq Taken', reported \subseteq reported', dropped \subseteq dropped',
         \A i \in Held : pending[i].req = r => i \in Held' /\ pending'[i] = pending[i]
  PROVE  RequestView'[r] = RequestView[r]
<1>1. CASE r > counter
  BY <1>1 DEF Shown
<1>2. CASE r \in Ended
  BY <1>2 DEF Shown, Ended
<1>3. ASSUME NEW i \in Held, pending[i].req = r
      PROVE  RequestView'[r] = RequestView[r]
  <2>1. RequestView[r] = Stage(pending[i])
    BY <1>3 DEF Shown
  <2>2. RequestView'[r] = Stage(pending'[i])
    BY <1>3 DEF Shown, Stage
  <2> QED BY <1>3, <2>1, <2>2
<1> QED BY <1>1, <1>2, <1>3 DEF Shown

(* Each of the five steps is one of TransferLifecycle.                     *)
LEMMA SlotCreates ==
  ASSUME TypeInv, LoggedIn, Shown, Shown', NEW h \in Handler, SlotCommit(h), CommitOK(h)
  PROVE  Abs!Step
<1>1. PICK i \in Slot \ Held :
        /\ counter' = counter + 1 /\ UNCHANGED <<taken, reported, dropped>>
        /\ pending'[i] = [status |-> "PENDING", id |-> counter', sender |-> session[h],
                          receiver |-> work[h].user, req |-> counter']
        /\ \A j \in Slot : j # i => pending'[j] = pending[j]
        /\ Held' = Held \cup {i}
  BY SlotFills
<1>2. PICK u \in User, v \in User : u = session[h] /\ v = work[h].user
  BY DEF SlotCommit, Found, In, LoggedIn
<1>3. PICK r : r = counter + 1
  OBVIOUS
<1>4. r \in 1..MaxId
  BY <1>1, <1>3 DEF Shown
<1>5. RequestView[r] = [stage |-> "none"]
  BY <1>3, <1>4 DEF Shown
<1>6. RequestView'[r] = [stage |-> "pending", sender |-> u, receiver |-> v]
  <2>1. RequestView'[r] = Stage(pending'[i])
    BY <1>1, <1>3, <1>4 DEF Shown, Stage
  <2> QED BY <1>1, <1>2, <2>1 DEF Stage, StageOf
<1>7. \A q \in 1..MaxId : q # r => RequestView'[q] = RequestView[q]
  <2>1. Taken' = Taken
    BY <1>1 DEF Taken
  <2>2. ASSUME NEW q \in 1..MaxId, q # r PROVE RequestView'[q] = RequestView[q]
    <3>1. q > counter => q > counter'
      BY <1>1, <1>3, <2>2 DEF Shown
    <3>2. \A j \in Held : j \in Held' /\ pending'[j] = pending[j]
      BY <1>1 DEF Held
    <3> QED BY <1>1, <2>1, <3>1, <3>2, ViewKept
  <2> QED BY <2>2
<1>8. ASSUME NEW q \in 1..MaxId, q < r PROVE RequestView[q].stage # "none"
  <2>1. ~(q > counter)
    BY <1>3, <1>8 DEF Shown
  <2>2. CASE q \in Ended
    BY <2>2 DEF Shown, Ended
  <2>3. ASSUME NEW j \in Held, pending[j].req = q PROVE RequestView[q].stage # "none"
    <3>1. RequestView[q] = Stage(pending[j])
      BY <2>3 DEF Shown
    <3>2. pending[j].status \in {"PENDING", "NOTIFIED", "REJECTED"}
      BY DEF Held, TypeInv, TypeOK, RequestSlot
    <3> QED BY <3>1, <3>2 DEF Stage, StageOf
  <2> QED BY <2>1, <2>2, <2>3 DEF Shown
<1>9. RequestView' = [RequestView EXCEPT ![r] = [stage |-> "pending", sender |-> u,
                                                 receiver |-> v]]
  BY <1>4, <1>6, <1>7 DEF Shown, OfRequests
<1>10. Abs!Create(r, u, v)
  BY <1>4, <1>5, <1>8, <1>9 DEF Abs!Create, Abs!At, Abs!Request, Abs!Held
<1> QED BY <1>4, <1>10 DEF Abs!Step, Abs!Request

LEMMA AcceptAccepts ==
  ASSUME TypeInv, LoggedIn, Shown, Shown', NEW h \in Handler, AcceptCommit(h), CommitOK(h)
  PROVE  Abs!Step
<1>1. PICK i \in Acceptable(h) :
        /\ taken' = Append(taken, pending[i].req)
        /\ Taken' = Taken \cup {pending[i].req}
        /\ UNCHANGED <<counter, reported, dropped>>
        /\ \A j \in Slot : j # i => pending'[j] = pending[j]
        /\ Held' = Held \ {i}
  BY AcceptFrees
<1>2. PICK u \in User : u = session[h]
  BY DEF AcceptCommit, Found, In, LoggedIn
<1>3. i \in Held /\ pending[i].status = "NOTIFIED" /\ pending[i].receiver = u
  BY <1>2 DEF Acceptable, Held
<1>4. PICK r \in 1..MaxId : r = pending[i].req
  BY <1>3 DEF Shown
<1>5. RequestView[r].stage = "notified" /\ RequestView[r].receiver = u
  <2>1. RequestView[r] = Stage(pending[i])
    BY <1>3, <1>4 DEF Shown
  <2> QED BY <1>3, <2>1 DEF Stage, StageOf
<1>6. RequestView'[r] = [stage |-> "accepted"]
  BY <1>1, <1>4 DEF Shown
<1>7. ASSUME NEW q \in 1..MaxId, q # r PROVE RequestView'[q] = RequestView[q]
  <2>1. \A j \in Held : pending[j].req = q => j \in Held' /\ pending'[j] = pending[j]
    BY <1>1, <1>4, <1>7 DEF Held
  <2> QED BY <1>1, <2>1, ViewKept
<1>8. RequestView' = [RequestView EXCEPT ![r] = [stage |-> "accepted"]]
  BY <1>6, <1>7 DEF Shown, OfRequests
<1>9. Abs!Accept(u, r)
  BY <1>5, <1>8 DEF Abs!Accept, Abs!At, Abs!Nothing
<1> QED BY <1>9 DEF Abs!Step, Abs!Request

LEMMA RejectRejects ==
  ASSUME TypeInv, LoggedIn, Shown, Shown', NEW h \in Handler, RejectCommit(h), CommitOK(h)
  PROVE  Abs!Step
<1>1. PICK i \in Addressed(session[h]) :
        /\ pending'[i] = [pending[i] EXCEPT !.status = "REJECTED", !.id = 0]
        /\ \A j \in Slot : j # i => pending'[j] = pending[j]
        /\ UNCHANGED <<counter, taken, reported, dropped>>
        /\ Held' = Held
  BY RejectMarks
<1>2. PICK u \in User : u = session[h]
  BY DEF RejectCommit, Found, In, LoggedIn
<1>3. /\ i \in Held /\ pending[i] \in RequestSlot /\ pending[i].receiver = u
      /\ pending[i].status \in {"PENDING", "NOTIFIED", "REJECTED"}
  BY <1>2 DEF Addressed, Held, TypeInv, TypeOK, RequestSlot
<1>4. PICK r \in 1..MaxId : r = pending[i].req
  BY <1>3 DEF Shown
<1>5. RequestView[r] = Stage(pending[i])
  BY <1>3, <1>4 DEF Shown
<1>6. RequestView'[r] = [RequestView[r] EXCEPT !.stage = "rejected"]
  <2>1. /\ pending'[i].status = "REJECTED" /\ pending'[i].req = r
        /\ pending'[i].sender = pending[i].sender /\ pending'[i].receiver = pending[i].receiver
    BY <1>1, <1>3, <1>4 DEF RequestSlot
  <2>2. RequestView'[r] = Stage(pending'[i])
    BY <1>1, <1>3, <2>1 DEF Shown, Stage
  <2> QED BY <1>5, <2>1, <2>2 DEF Stage, StageOf
<1>7. ASSUME NEW q \in 1..MaxId, q # r PROVE RequestView'[q] = RequestView[q]
  <2>1. Taken' = Taken
    BY <1>1 DEF Taken
  <2>2. \A j \in Held : pending[j].req = q => j \in Held' /\ pending'[j] = pending[j]
    BY <1>1, <1>4, <1>7 DEF Held
  <2> QED BY <1>1, <2>1, <2>2, ViewKept
<1>8. RequestView' = [RequestView EXCEPT ![r].stage = "rejected"]
  <2>1. RequestView' = [RequestView EXCEPT ![r] = [RequestView[r] EXCEPT !.stage = "rejected"]]
    BY <1>6, <1>7 DEF Shown, OfRequests
  <2> QED BY <2>1 DEF Shown, OfRequests
<1>9. Abs!Reject(u, r)
  BY <1>3, <1>5, <1>8 DEF Abs!Reject, Abs!IsOpen, Abs!Open, Abs!MoveTo, Stage, StageOf
<1> QED BY <1>9 DEF Abs!Step, Abs!Request

LEMMA NotifyHears ==
  ASSUME TypeInv, LoggedIn, Shown, Shown', NEW h \in Handler, Notify(h)
  PROVE  Abs!Step
<1> DEFINE in  == Incoming(session[h])
           out == Refused(session[h])
<1>1. /\ \A i \in in : pending'[i] = [pending[i] EXCEPT !.status = "NOTIFIED"]
      /\ \A i \in Slot \ (in \cup out) : pending'[i] = pending[i]
      /\ reported' = reported \cup {pending[i].req : i \in out}
      /\ UNCHANGED <<counter, taken, dropped>>
      /\ Held' = Held \ out /\ out \subseteq Held /\ in \subseteq Held \ out
  BY NotifyMarks
<1>2. PICK u \in User : u = session[h]
  BY DEF Notify, In, LoggedIn
<1> DEFINE Heard(r) ==
      IF RequestView[r].stage = "pending" /\ RequestView[r].receiver = u
      THEN [RequestView[r] EXCEPT !.stage = "notified"]
      ELSE IF RequestView[r].stage = "rejected" /\ RequestView[r].sender = u
      THEN [stage |-> "reported"]
      ELSE RequestView[r]
<1>3. Taken' = Taken
  BY <1>1 DEF Taken
<1>4. ASSUME NEW r \in 1..MaxId PROVE RequestView'[r] = Heard(r)
  <2>1. CASE r > counter \/ r \in Ended
    <3>1. RequestView[r].stage \notin {"pending", "rejected"}
      BY <2>1 DEF Shown, Ended
    <3>2. RequestView'[r] = RequestView[r]
      BY <1>1, <1>3, <2>1 DEF Shown, Ended
    <3> QED BY <3>1, <3>2
  <2>2. ASSUME NEW i \in Held, pending[i].req = r PROVE RequestView'[r] = Heard(r)
    <3>1. /\ pending[i] \in RequestSlot
          /\ pending[i].status \in {"PENDING", "NOTIFIED", "REJECTED"}
      BY DEF Held, TypeInv, TypeOK, RequestSlot
    <3>2. RequestView[r] = Stage(pending[i])
      BY <2>2 DEF Shown
    <3>3. CASE i \in in
      <4>1. pending[i].status = "PENDING" /\ pending[i].receiver = u
        BY <1>2, <3>3 DEF Incoming
      <4>2. /\ pending'[i].status = "NOTIFIED" /\ pending'[i].req = r
            /\ pending'[i].sender = pending[i].sender
            /\ pending'[i].receiver = pending[i].receiver
        BY <1>1, <2>2, <3>1, <3>3 DEF RequestSlot
      <4>3. RequestView'[r] = Stage(pending'[i])
        BY <1>1, <3>3, <4>2 DEF Shown, Stage
      <4> QED BY <3>2, <4>1, <4>2, <4>3 DEF Stage, StageOf
    <3>4. CASE i \in out
      <4>1. pending[i].status = "REJECTED" /\ pending[i].sender = u
        BY <1>2, <3>4 DEF Refused
      <4>2. RequestView'[r] = [stage |-> "reported"]
        BY <1>1, <2>2, <3>4 DEF Shown
      <4> QED BY <3>2, <4>1, <4>2 DEF Stage, StageOf
    <3>5. CASE i \notin in /\ i \notin out
      <4>1. /\ ~(pending[i].status = "PENDING" /\ pending[i].receiver = u)
            /\ ~(pending[i].status = "REJECTED" /\ pending[i].sender = u)
        BY <1>2, <3>5 DEF Incoming, Refused, Held
      <4>2. i \in Held' /\ pending'[i] = pending[i]
        BY <1>1, <3>5 DEF Held
      <4>3. RequestView'[r] = RequestView[r]
        BY <2>2, <3>2, <4>2 DEF Shown, Stage
      <4> QED BY <3>1, <3>2, <4>1, <4>3 DEF Stage, StageOf
    <3> QED BY <3>3, <3>4, <3>5
  <2> QED BY <2>1, <2>2 DEF Shown
<1>5. RequestView' = [r \in 1..MaxId |-> Heard(r)]
  <2> HIDE DEF Heard
  <2> QED BY <1>4 DEF Shown, OfRequests
<1>6. Abs!Hear(u)
  BY <1>5 DEF Abs!Hear, Abs!At, Abs!Request, Abs!Nothing
<1> QED BY <1>6 DEF Abs!Step

LEMMA CleanupDrops ==
  ASSUME TypeInv, LoggedIn, Shown, Shown', NEW h \in Handler, Cleanup(h)
  PROVE  Abs!Step
<1> DEFINE mine == Addressed(session[h])
<1>1. /\ \A i \in Slot \ mine : pending'[i] = pending[i]
      /\ dropped' = dropped \cup {pending[i].req : i \in mine}
      /\ UNCHANGED <<counter, taken, reported>>
      /\ Held' = Held \ mine /\ mine \subseteq Held
  BY CleanupFrees
<1>2. PICK u \in User : u = session[h]
  BY DEF Cleanup, In, LoggedIn
<1> DEFINE Left(r) ==
      IF RequestView[r].stage \in {"pending", "notified", "rejected"}
         /\ RequestView[r].receiver = u
      THEN [stage |-> "dropped"] ELSE RequestView[r]
<1>3. Taken' = Taken
  BY <1>1 DEF Taken
<1>4. ASSUME NEW r \in 1..MaxId PROVE RequestView'[r] = Left(r)
  <2>1. CASE r > counter \/ r \in Ended
    <3>1. RequestView[r].stage \notin {"pending", "notified", "rejected"}
      BY <2>1 DEF Shown, Ended
    <3>2. RequestView'[r] = RequestView[r]
      BY <1>1, <1>3, <2>1 DEF Shown, Ended
    <3> QED BY <3>1, <3>2
  <2>2. ASSUME NEW i \in Held, pending[i].req = r PROVE RequestView'[r] = Left(r)
    <3>1. pending[i].status \in {"PENDING", "NOTIFIED", "REJECTED"} /\ i \in Slot
      BY DEF Held, TypeInv, TypeOK, RequestSlot
    <3>2. RequestView[r] = Stage(pending[i])
      BY <2>2 DEF Shown
    <3>3. /\ RequestView[r].stage \in {"pending", "notified", "rejected"}
          /\ RequestView[r].receiver = pending[i].receiver
      BY <3>1, <3>2 DEF Stage, StageOf
    <3>4. CASE i \in mine
      <4>1. pending[i].receiver = u
        BY <1>2, <3>4 DEF Addressed
      <4>2. RequestView'[r] = [stage |-> "dropped"]
        BY <1>1, <2>2, <3>4 DEF Shown
      <4> QED BY <3>3, <4>1, <4>2
    <3>5. CASE i \notin mine
      <4>1. pending[i].receiver # u
        BY <1>2, <3>1, <3>5 DEF Addressed
      <4>2. i \in Held' /\ pending'[i] = pending[i]
        BY <1>1, <3>1, <3>5
      <4>3. RequestView'[r] = RequestView[r]
        BY <2>2, <3>2, <4>2 DEF Shown, Stage
      <4> QED BY <3>3, <4>1, <4>3
    <3> QED BY <3>4, <3>5
  <2> QED BY <2>1, <2>2 DEF Shown
<1>5. RequestView' = [r \in 1..MaxId |-> Left(r)]
  <2> HIDE DEF Left
  <2> QED BY <1>4 DEF Shown, OfRequests
<1>6. Abs!Drop(u)
  BY <1>5 DEF Abs!Drop, Abs!IsOpen, Abs!Open, Abs!Request, Abs!Nothing
<1> QED BY <1>6 DEF Abs!Step

LEMMA InitStarts == Init => Abs!Start
<1> SUFFICES ASSUME Init PROVE Abs!Start
  OBVIOUS
<1>1. \A r \in 1..MaxId : r > counter
  BY RegistryAssumption DEF Init
<1>2. RequestView = [r \in 1..MaxId |-> [stage |-> "none"]]
  BY <1>1 DEF RequestView
<1> QED BY <1>2 DEF Abs!Start, Abs!Request, Abs!Nothing

LEMMA StepsImplement ==
  ASSUME TypeInv, MutualExclusion, IInv, [Next]_vars, ~interrupted', Shown, Shown'
  PROVE  Abs!Step \/ UNCHANGED RequestView
<1>1. CASE UNCHANGED vars
  BY <1>1 DEF vars, RequestView, Taken, Live
<1>2. ASSUME NEW h \in Handler, Acts(h)
      PROVE  Abs!Step \/ UNCHANGED RequestView
  <2>1. LoggedIn /\ CommitOK(h)
    BY NextKinds DEF IInv, Tables, SearchesHold
  <2>2. CASE UNCHANGED tables
    BY <2>2 DEF tables, RequestView, Taken, Live
  <2> QED BY <1>2, <2>1, <2>2, TableSteps, SlotCreates, AcceptAccepts, RejectRejects,
             NotifyHears, CleanupDrops
<1> QED BY <1>1, <1>2 DEF Next, Acts

(* Slots, semaphore, handlers and signals together implement the life      *)
(* cycle of requests of TransferLifecycle, step by step, as long as no     *)
(* sem_wait is interrupted.                                                *)
THEOREM RegistryImplements == Spec => ImplementsLifecycle
<1> DEFINE Good == TypeInv /\ MutualExclusion /\ IInv
           Does == ~interrupted' => Abs!Step \/ UNCHANGED RequestView
<1>1. Good /\ ~interrupted => Shown
  BY ViewShows DEF IInv, Tables
<1>2. (Good /\ ~interrupted => Shown)'
  BY <1>1, PTL
<1>3. Good /\ Good' /\ [Next]_vars => [Does]_vars
  <2> SUFFICES ASSUME Good, Good', [Next]_vars, ~interrupted'
               PROVE  Abs!Step \/ UNCHANGED RequestView
    OBVIOUS
  <2>1. ~interrupted
    BY NextKinds
  <2>2. Shown /\ Shown'
    BY <1>1, <1>2, <2>1
  <2> QED BY <2>2, StepsImplement
<1>4. Spec => []Good
  BY Invariant
<1>5. Spec => [][Does]_vars
  <2> HIDE DEF Good, Does
  <2> QED BY <1>3, <1>4, PTL DEF Spec
<1>6. Spec => Abs!Start
  BY InitStarts DEF Spec
<1> QED BY <1>5, <1>6 DEF ImplementsLifecycle

-----------------------------------------------------------------------------
(***************************************************************************)
(* What the liveness of the semaphore and of exits rests on, without       *)
(* fairness: a handler inside a section has a section to go through, it is *)
(* two steps away from sem_post at most, and one whose loop has ended is   *)
(* five steps away from its exit.                                          *)
(***************************************************************************)
WorkAt(l, o) ==
  /\ l \in {"wait", "scan"} => o # "none"
  /\ l = "commit" => o \in {"login", "slot", "accept", "reject", "tellSender"}
  /\ o \in {"cleanup", "offline"} => l \in {"wait", "scan"}
Working == \A h \in Handler : WorkAt(pc[h], work[h].op)

(* The steps between a handler whose loop has ended and its exit. *)
StepsToExit(l, o) ==
  CASE l = "dead" -> 0
    [] l = "leave" -> 5
    [] l = "wait" /\ o = "cleanup" -> 4
    [] l = "scan" /\ o = "cleanup" -> 3
    [] l = "wait" /\ o = "offline" -> 2
    [] l = "scan" /\ o = "offline" -> 1
    [] OTHER -> 6
ToExit(h) == StepsToExit(pc[h], work[h].op)

GoesThrough(h) ==
  \/ At(h, "scan") /\ At(h, "commit")'
  \/ ~Inside(h)' /\ mux' = mux + 1
GoesOn(h) ==
  /\ WorkAt(pc'[h], work'[h].op)
  /\ pc'[h] # pc[h]
  /\ Inside(h) => GoesThrough(h)
  /\ ToExit(h) \in 1..5 => ToExit(h)' < ToExit(h)

LEMMA LeavingLabels ==
  ASSUME TypeInv, NEW h \in Handler, ToExit(h) \in 1..5
  PROVE  pc[h] \in {"leave", "wait", "scan"}
         /\ (pc[h] # "leave" => work[h].op \in {"cleanup", "offline"})
BY DEF ToExit, StepsToExit

LEMMA EnvironmentIsOutside ==
  ASSUME TypeInv, Working, NEW h \in Handler, Environment(h)
  PROVE  /\ WorkAt(pc'[h], work'[h].op) /\ ~Inside(h)
         /\ ToExit(h) \notin 1..5
<1>1. pc[h] \in {"dead", "read", "payload", "reply", "send"}
  BY DEF Environment, Connect, ReadHeader, Eof, Sigpipe, OtherCommand, Login,
     TransferRequest, Answer, At
<1>2. WorkAt(pc[h], work[h].op)
  BY DEF Working
<1>3. pc \in [Handler -> Label] /\ work \in [Handler -> Command]
  BY DEF TypeInv, TypeOK
<1>4. WorkAt(pc'[h], work'[h].op)
  <2>1. CASE Connect(h) \/ ReadHeader(h) \/ Eof(h) \/ OtherCommand(h)
    BY <1>1, <1>2, <1>3, <2>1 DEF Connect, ReadHeader, Eof, OtherCommand, Goto, WorkAt
  <2>2. CASE Sigpipe(h)
    BY <1>3, <2>2 DEF Sigpipe, Exit, Goto, WorkAt, Idle
  <2>3. ASSUME NEW w \in {"login", "poll", "accept", "reject"}, pc'[h] = "wait",
               work'[h].op = w
        PROVE  WorkAt(pc'[h], work'[h].op)
    BY <2>3 DEF WorkAt
  <2>4. ASSUME NEW u \in User, Login(h, u) \/ TransferRequest(h, u)
        PROVE  WorkAt(pc'[h], work'[h].op)
    BY <1>3, <2>4, <2>3 DEF Login, TransferRequest, Enqueue, Goto, Idle
  <2>5. ASSUME NEW a \in {"accept", "reject"}, NEW r, Answer(h, a, r)
        PROVE  WorkAt(pc'[h], work'[h].op)
    BY <1>3, <2>5, <2>3 DEF Answer, Enqueue, Goto, Idle
  <2> QED BY <2>1, <2>2, <2>4, <2>5 DEF Environment
<1> QED BY <1>1, <1>4, LeavingLabels DEF Inside

LEMMA StepGoesOn ==
  ASSUME TypeInv, Working, NEW h \in Handler, Step(h)
  PROVE  GoesOn(h)
<1>1. pc \in [Handler -> Label] /\ work \in [Handler -> Command]
      /\ WorkAt(pc[h], work[h].op)
  BY DEF TypeInv, TypeOK, Working
<1> USE <1>1 DEF GoesOn, GoesThrough, ToExit, StepsToExit, WorkAt, At, In, Inside, Goto, Idle
<1>2. CASE Check(h) \/ Leave(h)
  BY <1>2 DEF Check, Leave, Enqueue, Exit, Command
<1>3. CASE SemWait(h)
  BY <1>3 DEF SemWait
<1>4. CASE LoginScan(h) \/ SlotScan(h) \/ AcceptScan(h)
  BY <1>4 DEF LoginScan, SlotScan, AcceptScan, Search, Command
<1>5. CASE RejectScan(h)
  BY <1>5 DEF RejectScan, Command
<1>6. CASE Poll(h)
  BY <1>6 DEF Poll, Post, Command
<1>7. CASE CommitNothing(h) \/ LoginCommit(h) \/ AcceptCommit(h) \/ TellSenderCommit(h)
  BY <1>7 DEF CommitNothing, LoginCommit, AcceptCommit, TellSenderCommit, Found, Post, Command
<1>8. CASE SlotCommit(h) \/ RejectCommit(h)
  <2>1. pc[h] = "commit" /\ mux' = mux + 1 /\ pc'[h] \in {"signal", "reply"}
        /\ work'[h].op \in {"none", "tellSender"}
    <3>1. CASE SlotCommit(h)
      BY <3>1 DEF SlotCommit, Found, Post
    <3>2. CASE RejectCommit(h)
      BY <3>2 DEF RejectCommit, Found, Post
    <3> QED BY <1>8, <3>1, <3>2
  <2> QED BY <2>1
<1>9. CASE SendSignal(h) \/ TellSenderScan(h)
  <2> DEFINE l == IF At(h, "signal") THEN "reply" ELSE "commit"
  <2>1. pc'[h] = l
    <3>1. PICK t : Kill(t, [pc EXCEPT ![h] = l])
      BY <1>9 DEF SendSignal, TellSenderScan
    <3> QED BY <3>1 DEF Kill, Landing, Label
  <2> QED BY <1>9, <2>1 DEF SendSignal, TellSenderScan, Command
<1>10. CASE Notify(h)
  BY <1>10 DEF Notify, Post
<1>11. CASE Cleanup(h)
  BY <1>11 DEF Cleanup, Post, Command
<1>12. CASE Offline(h)
  BY <1>12 DEF Offline, Exit, Command
<1>13. CASE Reply(h) \/ SendNotifications(h) \/ ClearFlag(h)
  BY <1>13 DEF Reply, SendNotifications, ClearFlag, Command
<1> QED BY <1>2, <1>3, <1>4, <1>5, <1>6, <1>7, <1>8, <1>9, <1>10, <1>11, <1>12, <1>13 DEF Step

(* A signal takes nobody out of a section or back on the way out. *)
Nudged(h) ==
  \/ pc'[h] = pc[h]
  \/ pc[h] = "read" /\ pc'[h] = "check"
  \/ pc[h] = "payload" /\ pc'[h] = "leave"
  \/ pc[h] = "wait" /\ pc'[h] = "scan"

LEMMA OthersNudged ==
  ASSUME TypeInv, NEW h \in Handler, Acts(h), NEW g \in Handler, g # h
  PROVE  Nudged(g)
<1>1. pc \in [Handler -> Label]
  BY DEF TypeInv, TypeOK
<1> USE <1>1 DEF Nudged, Goto
<1>2. CASE Environment(h)
  BY <1>2 DEF Environment, Connect, ReadHeader, Eof, Sigpipe, Exit, OtherCommand, Login,
     TransferRequest, Answer, Enqueue
<1>3. CASE SendSignal(h) \/ TellSenderScan(h)
  <2> DEFINE l == IF SendSignal(h) THEN "reply" ELSE "commit"
             here == [pc EXCEPT ![h] = l]
  <2>1. PICK t : Kill(t, here)
    BY <1>3 DEF SendSignal, TellSenderScan
  <2>2. here[g] = pc[g] /\ here \in [Handler -> Label]
    BY DEF Label
  <2> HIDE DEF here
  <2> QED BY <2>1, <2>2 DEF Kill, Landing
<1>4. CASE Check(h) \/ Leave(h) \/ SemWait(h) \/ CommitNothing(h) \/ LoginCommit(h)
           \/ SlotCommit(h) \/ AcceptCommit(h) \/ RejectCommit(h) \/ TellSenderCommit(h)
  BY <1>4 DEF Check, Leave, SemWait, CommitNothing, LoginCommit, SlotCommit,
     AcceptCommit, RejectCommit, TellSenderCommit, Enqueue, Exit, Post
<1>5. CASE LoginScan(h) \/ SlotScan(h) \/ AcceptScan(h) \/ RejectScan(h) \/ Poll(h)
  BY <1>5 DEF LoginScan, SlotScan, AcceptScan, RejectScan, Search, Poll, Post
<1>6. CASE Notify(h) \/ Cleanup(h) \/ Offline(h) \/ Reply(h) \/ SendNotifications(h)
           \/ ClearFlag(h)
  BY <1>6 DEF Notify, Cleanup, Offline, Exit, Reply, SendNotifications, ClearFlag, Post
<1> QED BY <1>2, <1>3, <1>4, <1>5, <1>6 DEF Acts, Step

(* Every step, as one handler sees it. *)
LEMMA EachGoesOn ==
  ASSUME TypeInv, Working, [Next]_vars, NEW h \in Handler
  PROVE  /\ WorkAt(pc'[h], work'[h].op)
         /\ Inside(h) => (pc'[h] = pc[h] /\ ~Step(h)) \/ GoesThrough(h)
         /\ ToExit(h) \in 1..5 => /\ ToExit(h)' <= ToExit(h)
                                  /\ Step(h) => ToExit(h)' < ToExit(h)
<1> DEFINE Goal == /\ WorkAt(pc'[h], work'[h].op)
                   /\ Inside(h) => (pc'[h] = pc[h] /\ ~Step(h)) \/ GoesThrough(h)
                   /\ ToExit(h) \in 1..5 => /\ ToExit(h)' <= ToExit(h)
                                            /\ Step(h) => ToExit(h)' < ToExit(h)
<1>1. CASE Step(h)
  <2>1. ToExit(h) \in 1..5 => ToExit(h)' < ToExit(h)
    BY <1>1, StepGoesOn DEF GoesOn
  <2>2. ToExit(h) \in 0..6 /\ ToExit(h)' \in 0..6
    BY DEF ToExit, StepsToExit
  <2> QED BY <1>1, <2>1, <2>2, StepGoesOn DEF GoesOn
<1>2. CASE ~Step(h) /\ Environment(h)
  BY <1>2, EnvironmentIsOutside
<1>3. CASE ~Step(h) /\ work'[h] = work[h] /\ Nudged(h)
  <2>1. WorkAt(pc[h], work[h].op)
    BY DEF Working
  <2>2. WorkAt(pc'[h], work'[h].op)
    BY <1>3, <2>1 DEF WorkAt, Nudged
  <2>3. Inside(h) => pc'[h] = pc[h]
    BY <1>3 DEF Inside, Nudged
  <2>4. ToExit(h) \in 1..5 => ToExit(h)' <= ToExit(h)
    BY <1>3, <2>1 DEF ToExit, StepsToExit, Nudged, WorkAt
  <2> QED BY <1>3, <2>2, <2>3, <2>4
<1>4. ASSUME NEW g \in Handler, Acts(g), g # h, ~Step(h)
      PROVE  Goal
  BY <1>3, <1>4, Others, OthersNudged
<1>5. CASE UNCHANGED vars /\ ~Step(h)
  BY <1>3, <1>5 DEF vars, Nudged
<1> QED BY <1>1, <1>2, <1>4, <1>5 DEF Next, Acts

LEMMA WorkingInvariant == Spec => []Working
<1>1. Init => Working
  BY DEF Init, Working, WorkAt, Idle
<1>2. TypeInv /\ Working /\ [Next]_vars => Working'
  BY EachGoesOn DEF Working
<1> QED BY <1>1, <1>2, TypeInvariant, PTL DEF Spec

(* Whoever is inside a section has a section to go through: no handler     *)
(* comes to sem_wait without work, or to an update that no command makes.  *)
SectionsHaveWork ==
  \A h \in Handler : Inside(h) =>
    \/ At(h, "scan") /\ work[h].op \in Op \ {"none"}
    \/ At(h, "commit") /\ work[h].op \in {"login", "slot", "accept", "reject", "tellSender"}

THEOREM NobodyInsideIdle == Spec => []SectionsHaveWork
<1>1. TypeInv /\ Working => SectionsHaveWork
  BY DEF TypeInv, TypeOK, Working, WorkAt, SectionsHaveWork, Inside, At, Command
<1> QED BY <1>1, WorkingInvariant, TypeInvariant, PTL

(* A step of a handler inside a section is the one from the search to the  *)
(* update, or posts the semaphore; and nothing anybody else does, signals  *)
(* included, moves it.                                                     *)
SectionsGoThrough ==
  [][\A h \in Handler : Inside(h) =>
       (pc'[h] = pc[h] /\ ~Step(h)) \/ GoesThrough(h)]_vars

THEOREM SectionsEnd == Spec => SectionsGoThrough
<1>1. TypeInv /\ Working /\ [Next]_vars =>
        [\A h \in Handler : Inside(h) =>
           (pc'[h] = pc[h] /\ ~Step(h)) \/ GoesThrough(h)]_vars
  BY EachGoesOn
<1> QED BY <1>1, WorkingInvariant, TypeInvariant, PTL DEF Spec, SectionsGoThrough

(* A handler whose loop has ended comes closer to its exit with each step  *)
(* of its own, and no other step takes it back: it waits for the semaphore *)
(* twice, and for nothing else.                                            *)
ExitsComeCloser ==
  [][\A h \in Handler : ToExit(h) \in 1..5 =>
       ToExit(h)' <= ToExit(h) /\ (Step(h) => ToExit(h)' < ToExit(h))]_vars

THEOREM LeavingEnds == Spec => ExitsComeCloser
<1>1. TypeInv /\ Working /\ [Next]_vars =>
        [\A h \in Handler : ToExit(h) \in 1..5 =>
           ToExit(h)' <= ToExit(h) /\ (Step(h) => ToExit(h)' < ToExit(h))]_vars
  BY EachGoesOn
<1> QED BY <1>1, WorkingInvariant, TypeInvariant, PTL DEF Spec, ExitsComeCloser
=============================================================================
