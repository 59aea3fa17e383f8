-------------------------- MODULE TransferRegistry --------------------------
(***************************************************************************)
(* The shared registry of the server: the table of online users and the    *)
(* table of pending file transfers, both in one shared-memory segment      *)
(* guarded by one process-shared semaphore, together with the handler      *)
(* processes (one per client connection) that read and write it and wake   *)
(* each other with SIGUSR1.                                                *)
(*                                                                         *)
(* A handler is named by its process id.  A dead handler's id is free and  *)
(* a later connection may get it again.                                    *)
(***************************************************************************)
EXTENDS Integers, FiniteSets, Sequences

CONSTANTS
  Handler,       \* process ids of handler processes
  User,          \* names of the system accounts clients log in as
  NoPid, NoUser, \* a zeroed handler_pid, a zeroed user name
  MaxUsers,      \* length of online_users   (MAX_USERS is 20)
  MaxTransfers,  \* length of pending        (MAX_TRANSFERS is 20)
  MaxId          \* bound on the number of transfer requests of a behaviour

ASSUME RegistryAssumption ==
  /\ IsFiniteSet(Handler) /\ NoPid \notin Handler /\ NoUser \notin User
  /\ MaxUsers \in Nat \ {0} /\ MaxTransfers \in Nat \ {0} /\ MaxId \in Nat

VARIABLES
  mux,       \* value of the semaphore registry->mux
  online,    \* registry->online_users
  pending,   \* registry->pending; field req is history, see below
  counter,   \* registry->global_id_counter
  pc,        \* where each handler is
  work,      \* each handler's local variables of the command it executes
  session,   \* user name of the handler's ClientSession, NoUser before login
  flag       \* transfer_signal_received of each handler

(***************************************************************************)
(* History, read by properties only.  Field req of a slot is the number of *)
(* the request the slot was last filled for (the code zeroes id while the  *)
(* slot is still in use).                                                  *)
(***************************************************************************)
VARIABLES
  interrupted, \* some sem_wait has returned EINTR
  killed,      \* ids of logged-in handlers that died of SIGPIPE
  taken,       \* the request of each accept that led to a copy, in order
  reported,    \* requests whose rejection a session of the sender picked up
  dropped      \* requests freed because their receiver disconnected

shared  == <<online, pending, counter>>
history == <<interrupted, killed, taken, reported, dropped>>
vars == <<mux, online, pending, counter, pc, work, session, flag,
          interrupted, killed, taken, reported, dropped>>

OnlineSlot == 1..MaxUsers
Slot       == 1..MaxTransfers

Label == {"dead", "check", "read", "payload", "wait", "scan", "commit",
          "signal", "reply", "send", "clear", "leave"}
Op    == {"none", "login", "poll", "slot", "accept", "reject", "tellSender",
          "notify", "cleanup", "offline"}

(* Nothing reads the other fields of a FREE slot, nor the user of an       *)
(* inactive entry: both are blank here.  The pid of an inactive entry is   *)
(* read, and stays.                                                        *)
NoEntry   == [active |-> FALSE, user |-> NoUser, pid |-> NoPid]
NoRequest == [status |-> "FREE", id |-> 0, sender |-> NoUser,
              receiver |-> NoUser, req |-> 0]
Idle      == [op |-> "none", user |-> NoUser, pid |-> NoPid, slot |-> 0, id |-> 0]

UserEntry   == [active : BOOLEAN, user : User \cup {NoUser}, pid : Handler \cup {NoPid}]
RequestSlot == [status : {"FREE", "PENDING", "NOTIFIED", "REJECTED"}, id : Nat,
                sender : User \cup {NoUser}, receiver : User \cup {NoUser}, req : Nat]
Command     == [op : Op, user : User \cup {NoUser}, pid : Handler \cup {NoPid},
                slot : Nat, id : Nat]

TypeOK ==
  /\ mux \in Nat
  /\ online \in [OnlineSlot -> UserEntry]
  /\ pending \in [Slot -> RequestSlot]
  /\ counter \in Nat
  /\ pc \in [Handler -> Label]
  /\ work \in [Handler -> Command]
  /\ session \in [Handler -> User \cup {NoUser}]
  /\ flag \in [Handler -> BOOLEAN]
  /\ interrupted \in BOOLEAN
  /\ killed \subseteq Handler
  /\ taken \in Seq(Nat)
  /\ reported \subseteq Nat
  /\ dropped \subseteq Nat

-----------------------------------------------------------------------------
(* The linear searches of the code: the first slot that satisfies a test.  *)

FirstOf(S) == IF S = {} THEN {0} ELSE {i \in S : \A j \in S : i <= j}

Inactive      == {i \in OnlineSlot : ~online[i].active}
EntriesOf(u)  == {i \in OnlineSlot : online[i].active /\ online[i].user = u}
EntriesAt(h)  == {i \in OnlineSlot : online[i].pid = h}
(* Mutants: an accept by anyone, an accept of what was not announced yet, a *)
(* slot taken for free because its id is 0.                                *)
AcceptableByAnyone(h) == {i \in Slot : /\ pending[i].id = work[h].id
                                       /\ pending[i].status = "NOTIFIED"}
AcceptableEarly(h) == {i \in Slot : /\ pending[i].id = work[h].id
                                    /\ pending[i].status \in {"PENDING", "NOTIFIED"}
                                    /\ pending[i].receiver = session[h]}
SlotsWithoutId == {i \in Slot : pending[i].id = 0}

FreeSlots     == {i \in Slot : pending[i].status = "FREE"}
Acceptable(h) == {i \in Slot : /\ pending[i].id = work[h].id
                               /\ pending[i].status = "NOTIFIED"
                               /\ pending[i].receiver = session[h]}
Rejectable(h) == {i \in Slot : /\ pending[i].id = work[h].id
                               /\ pending[i].status # "FREE"}
Incoming(u)   == {i \in Slot : /\ pending[i].status = "PENDING"
                               /\ pending[i].receiver = u}
Refused(u)    == {i \in Slot : /\ pending[i].status = "REJECTED"
                               /\ pending[i].sender = u}
Addressed(u)  == {i \in Slot : /\ pending[i].status # "FREE"
                               /\ pending[i].receiver = u}

(* A handler between sem_wait and sem_post. *)
Inside(h) == pc[h] \in {"scan", "commit"}

At(h, l)  == pc[h] = l
In(h, l, o) == pc[h] = l /\ work[h].op = o
Goto(h, l) == pc' = [pc EXCEPT ![h] = l]

(* On to the critical section of command w. *)
Enqueue(h, w) == Goto(h, "wait") /\ work' = [work EXCEPT ![h] = w]

Init ==
  /\ mux = 1
  /\ online = [i \in OnlineSlot |-> NoEntry]
  /\ pending = [i \in Slot |-> NoRequest]
  /\ counter = 0
  /\ pc = [h \in Handler |-> "dead"]
  /\ work = [h \in Handler |-> Idle]
  /\ session = [h \in Handler |-> NoUser]
  /\ flag = [h \in Handler |-> FALSE]
  /\ interrupted = FALSE
  /\ killed = {} /\ taken = <<>> /\ reported = {} /\ dropped = {}

(***************************************************************************)
(* kill(t, SIGUSR1), sent by a handler whose own step leaves the labels at *)
(* here.  The signal may find t in a blocking call, which then returns     *)
(* EINTR because sa_flags is 0: the read of a header restarts the loop,    *)
(* the read of a payload ends the session, and sem_wait, whose result      *)
(* nobody looks at, returns without the semaphore.  Or it finds t just     *)
(* before or after that call.                                              *)
(***************************************************************************)
Landing(here, t) ==
  {here[t]}
    \cup {l \in {"check"} : here[t] = "read"}
    \cup {l \in {"leave"} : here[t] = "payload"}
    \cup {l \in {"scan"}  : here[t] = "wait" /\ mux = 0}

Kill(t, here) ==
  \/ /\ t \in Handler => here[t] = "dead"
     /\ pc' = here
     /\ UNCHANGED <<flag, interrupted>>
  \/ /\ t \in Handler /\ here[t] # "dead"
     /\ flag' = [flag EXCEPT ![t] = TRUE]
     /\ \E l \in Landing(here, t) :
          /\ pc' = [here EXCEPT ![t] = l]
          /\ interrupted' = (interrupted \/ (here[t] = "wait" /\ l = "scan"))

(* The process exits, and its local variables with it. *)
Exit(h) ==
  /\ Goto(h, "dead")
  /\ work' = [work EXCEPT ![h] = Idle]
  /\ session' = [session EXCEPT ![h] = NoUser]
  /\ flag' = [flag EXCEPT ![h] = FALSE]

-----------------------------------------------------------------------------
(* The life of a connection.                                               *)

(* The server forks a handler for a new connection; h is any free pid. *)
Connect(h) ==
  /\ At(h, "dead")
  /\ Goto(h, "check")
  /\ UNCHANGED <<mux, shared, work, session, flag, history>>

(* The head of the loop: a raised flag of a logged-in session leads to     *)
(* check_for_notifications.                                                *)
Check(h) ==
  /\ At(h, "check")
  /\ \/ /\ flag[h] /\ session[h] # NoUser
        /\ Enqueue(h, [Idle EXCEPT !.op = "notify"])
        /\ UNCHANGED flag
     \/ /\ ~flag[h] \/ session[h] = NoUser
        /\ Goto(h, "read")
        /\ flag' = [flag EXCEPT ![h] = FALSE]
        /\ UNCHANGED work
  /\ UNCHANGED <<mux, shared, session, history>>

ReadHeader(h) ==
  /\ At(h, "read")
  /\ Goto(h, "payload")
  /\ UNCHANGED <<mux, shared, work, session, flag, history>>

(* The client has gone, or its connection failed: either read says so, and *)
(* the loop ends.                                                          *)
Eof(h) ==
  /\ pc[h] \in {"read", "payload"}
  /\ Goto(h, "leave")
  /\ UNCHANGED <<mux, shared, work, session, flag, history>>

Leave(h) ==
  /\ At(h, "leave")
  /\ \/ session[h] = NoUser /\ Exit(h)
     \/ /\ session[h] # NoUser
        /\ Enqueue(h, [Idle EXCEPT !.op = "cleanup"])
        /\ UNCHANGED <<session, flag>>
  /\ UNCHANGED <<mux, shared, history>>

(* A send to a client that is gone kills the process: nobody ignores       *)
(* SIGPIPE, and the registry is not cleaned.                               *)
Sigpipe(h) ==
  /\ pc[h] \in {"reply", "send"}
  /\ Exit(h)
  /\ killed' = killed \cup {g \in {h} : session[g] # NoUser}
  /\ UNCHANGED <<mux, shared, interrupted, taken, reported, dropped>>

-----------------------------------------------------------------------------
(* Commands, up to their first critical section.                           *)

(* The helper has confirmed the account.  The session is logged in before  *)
(* the registry knows it.                                                  *)
Login(h, u) ==
  /\ At(h, "payload") /\ session[h] = NoUser
  /\ session' = [session EXCEPT ![h] = u]
  /\ Enqueue(h, [Idle EXCEPT !.op = "login", !.user = u])
  /\ UNCHANGED <<mux, shared, flag, history>>

(* A command that leaves the registry alone: file commands, and each       *)
(* refused or misused one.                                                 *)
OtherCommand(h) ==
  /\ At(h, "payload")
  /\ Goto(h, "reply")
  /\ UNCHANGED <<mux, shared, work, session, flag, history>>

(* MaxId bounds the requests made, those still on their way included. *)
Requesting == {h \in Handler : work[h].op \in {"poll", "slot"}}

TransferRequest(h, u) ==
  /\ At(h, "payload") /\ session[h] # NoUser
  /\ counter + Cardinality(Requesting) < MaxId
  /\ Enqueue(h, [Idle EXCEPT !.op = "poll", !.user = u])
  /\ UNCHANGED <<mux, shared, session, flag, history>>

(* o is accept or reject; r is what atoi makes of the argument. *)
Answer(h, o, r) ==
  /\ At(h, "payload") /\ session[h] # NoUser
  /\ Enqueue(h, [Idle EXCEPT !.op = o, !.id = r])
  /\ UNCHANGED <<mux, shared, session, flag, history>>

(* Mutant: a semaphore whose value nobody tests. *)
SemWaitUntested(h) ==
  /\ At(h, "wait")
  /\ mux' = IF mux > 0 THEN mux - 1 ELSE 0
  /\ Goto(h, "scan")
  /\ UNCHANGED <<shared, work, session, flag, history>>

SemWait(h) ==
  /\ At(h, "wait") /\ mux > 0
  /\ mux' = mux - 1
  /\ Goto(h, "scan")
  /\ UNCHANGED <<shared, work, session, flag, history>>

-----------------------------------------------------------------------------
(***************************************************************************)
(* Critical sections.  The ones that search for one slot and then fill it  *)
(* or free it take two steps, the search and the update; the others one.   *)
(***************************************************************************)
Post(h, l) == mux' = mux + 1 /\ Goto(h, l)

(* The search of command o ends at the first slot of S, or at none. *)
Search(h, o, S) ==
  /\ In(h, "scan", o)
  /\ \E i \in FirstOf(S) : work' = [work EXCEPT ![h].slot = i]
  /\ Goto(h, "commit")
  /\ UNCHANGED <<mux, shared, session, flag, history>>

Found(h, o) == In(h, "commit", o) /\ work[h].slot # 0

(* Mutant: an early return that skips sem_post. *)
ReturnInside(h) ==
  /\ At(h, "commit") /\ work[h].slot = 0 /\ work[h].op # "tellSender"
  /\ Goto(h, "reply")
  /\ work' = [work EXCEPT ![h] = Idle]
  /\ UNCHANGED <<mux, shared, session, flag, history>>

(* Nothing to update: release the semaphore, send the refusal. *)
CommitNothing(h) ==
  /\ At(h, "commit") /\ work[h].slot = 0 /\ work[h].op # "tellSender"
  /\ Post(h, "reply")
  /\ work' = [work EXCEPT ![h] = Idle]
  /\ UNCHANGED <<shared, session, flag, history>>

(* Mutant: the last free entry instead of the first. *)
LoginScanBackwards(h) ==
  /\ In(h, "scan", "login")
  /\ \E i \in Inactive \cup {0} :
       /\ \A j \in Inactive : j <= i
       /\ work' = [work EXCEPT ![h].slot = i]
  /\ Goto(h, "commit")
  /\ UNCHANGED <<mux, shared, session, flag, history>>

(* handleLogin: with the table full the session is logged in, not online. *)
LoginScan(h) == Search(h, "login", Inactive)

LoginCommit(h) ==
  /\ Found(h, "login")
  /\ online' = [online EXCEPT ![work[h].slot] =
                  [active |-> TRUE, user |-> work[h].user, pid |-> h]]
  /\ Post(h, "reply")
  /\ work' = [work EXCEPT ![h] = Idle]
  /\ UNCHANGED <<pending, counter, session, flag, history>>

(* Mutants: the index of the entry kept for its pid, and a poll that sleeps *)
(* with the semaphore in its hands.                                        *)
PollIndex(h) ==
  /\ In(h, "scan", "poll")
  /\ \E i \in FirstOf(EntriesOf(work[h].user)) :
       IF i = 0 THEN UNCHANGED work
       ELSE work' = [work EXCEPT ![h].op = "slot", ![h].pid = i]
  /\ Post(h, "wait")
  /\ UNCHANGED <<shared, session, flag, history>>
PollHolding(h) ==
  /\ In(h, "scan", "poll")
  /\ \E i \in EntriesOf(work[h].user) :
       work' = [work EXCEPT ![h].op = "slot", ![h].pid = online[i].pid]
  /\ Post(h, "wait")
  /\ UNCHANGED <<shared, session, flag, history>>

(* handleTransferRequest: look for the receiver, again after each second.  *)
Poll(h) ==
  /\ In(h, "scan", "poll")
  /\ \E i \in FirstOf(EntriesOf(work[h].user)) :
       IF i = 0 THEN UNCHANGED work
       ELSE work' = [work EXCEPT ![h].op = "slot", ![h].pid = online[i].pid]
  /\ Post(h, "wait")
  /\ UNCHANGED <<shared, session, flag, history>>

SlotScan(h) == Search(h, "slot", FreeSlots)

SlotCommit(h) ==
  /\ Found(h, "slot")
  /\ counter' = counter + 1
  /\ pending' = [pending EXCEPT ![work[h].slot] =
                   [status |-> "PENDING", id |-> counter', sender |-> session[h],
                    receiver |-> work[h].user, req |-> counter']]
  /\ Post(h, "signal")
  /\ work' = [work EXCEPT ![h] = [Idle EXCEPT !.pid = work[h].pid]]
  /\ UNCHANGED <<online, session, flag, history>>

(* The semaphore is released: the process the search saw may be gone. *)
SendSignal(h) ==
  /\ At(h, "signal")
  /\ Kill(work[h].pid, [pc EXCEPT ![h] = "reply"])
  /\ work' = [work EXCEPT ![h] = Idle]
  /\ UNCHANGED <<mux, shared, session, killed, taken, reported, dropped>>

(* Mutant: the copy is made and the slot forgotten. *)
AcceptWithoutFreeing(h) ==
  /\ Found(h, "accept")
  /\ taken' = Append(taken, pending[work[h].slot].req)
  /\ Post(h, "reply")
  /\ work' = [work EXCEPT ![h] = Idle]
  /\ UNCHANGED <<shared, session, flag, interrupted, killed, reported, dropped>>

(* handleAcceptTransfer: the slot is freed first, then the helper copies. *)
AcceptScan(h) == Search(h, "accept", Acceptable(h))

AcceptCommit(h) ==
  /\ Found(h, "accept")
  /\ LET i == work[h].slot IN
       /\ pending' = [pending EXCEPT ![i] = NoRequest]
       /\ taken' = Append(taken, pending[i].req)
  /\ Post(h, "reply")
  /\ work' = [work EXCEPT ![h] = Idle]
  /\ UNCHANGED <<online, counter, session, flag,
                 interrupted, killed, reported, dropped>>

(* handleRejectTransfer: a slot with that id that is not ours stops the    *)
(* search too.  After the reply, a third section tells the sender.         *)
RejectScan(h) ==
  /\ In(h, "scan", "reject")
  /\ \E i \in FirstOf(Rejectable(h)) :
       LET mine == i # 0 /\ pending[i].receiver = session[h] IN
       work' = [work EXCEPT ![h].slot = IF mine THEN i ELSE 0]
  /\ Goto(h, "commit")
  /\ UNCHANGED <<mux, shared, session, flag, history>>

RejectCommit(h) ==
  /\ Found(h, "reject")
  /\ LET i == work[h].slot IN
       /\ work' = [work EXCEPT ![h] = [Idle EXCEPT !.op = "tellSender",
                                                   !.user = pending[i].sender]]
       /\ pending' = [pending EXCEPT ![i].status = "REJECTED", ![i].id = 0]
  /\ Post(h, "reply")
  /\ UNCHANGED <<online, counter, session, flag, history>>

(* The signal is sent inside the section. *)
TellSenderScan(h) ==
  /\ In(h, "scan", "tellSender")
  /\ \E i \in FirstOf(EntriesOf(work[h].user)) :
       Kill(IF i = 0 THEN NoPid ELSE online[i].pid, [pc EXCEPT ![h] = "commit"])
  /\ UNCHANGED <<mux, shared, work, session, killed, taken, reported, dropped>>

TellSenderCommit(h) ==
  /\ In(h, "commit", "tellSender")
  /\ Post(h, "check")
  /\ work' = [work EXCEPT ![h] = Idle]
  /\ UNCHANGED <<shared, session, flag, history>>

(* check_for_notifications: one pass takes the snapshot, marks the         *)
(* announced requests and frees the refused ones.                          *)
Notify(h) ==
  /\ In(h, "scan", "notify")
  /\ LET in  == Incoming(session[h])
         out == Refused(session[h])
     IN /\ pending' = [i \in Slot |->
                         IF i \in in THEN [pending[i] EXCEPT !.status = "NOTIFIED"]
                         ELSE IF i \in out THEN NoRequest
                         ELSE pending[i]]
        /\ reported' = reported \cup {pending[i].req : i \in out}
        /\ Post(h, IF in \cup out = {} THEN "clear" ELSE "send")
  /\ UNCHANGED <<online, counter, work, session, flag,
                 interrupted, killed, taken, dropped>>

(* cleanup_user_requests. *)
Cleanup(h) ==
  /\ In(h, "scan", "cleanup")
  /\ LET mine == Addressed(session[h]) IN
       /\ pending' = [i \in Slot |->
                        IF i \in mine THEN NoRequest ELSE pending[i]]
       /\ dropped' = dropped \cup {pending[i].req : i \in mine}
  /\ Post(h, "wait")
  /\ work' = [work EXCEPT ![h].op = "offline"]
  /\ UNCHANGED <<online, counter, session, flag,
                 interrupted, killed, taken, reported>>

(* The end of handleClient: the first entry with our pid, active or not.   *)
Offline(h) ==
  /\ In(h, "scan", "offline")
  /\ \E i \in FirstOf(EntriesAt(h)) :
       online' = [j \in OnlineSlot |->
                    IF j = i THEN [NoEntry EXCEPT !.pid = h] ELSE online[j]]
  /\ mux' = mux + 1
  /\ Exit(h)
  /\ UNCHANGED <<pending, counter, history>>

-----------------------------------------------------------------------------
(* Outside the critical sections.                                          *)

(* A reply has been sent; a rejection goes on to tell the sender. *)
Reply(h) ==
  /\ At(h, "reply")
  /\ Goto(h, IF work[h].op = "tellSender" THEN "wait" ELSE "check")
  /\ UNCHANGED <<mux, shared, work, session, flag, history>>

(* The notifications are sent, then the flag is cleared. *)
SendNotifications(h) ==
  /\ At(h, "send")
  /\ Goto(h, "clear")
  /\ UNCHANGED <<mux, shared, work, session, flag, history>>

ClearFlag(h) ==
  /\ At(h, "clear")
  /\ Goto(h, "read")
  /\ flag' = [flag EXCEPT ![h] = FALSE]
  /\ work' = [work EXCEPT ![h] = Idle]
  /\ UNCHANGED <<mux, shared, session, history>>

-----------------------------------------------------------------------------
(* What the client and the network decide, and what the handler does then. *)
Environment(h) ==
  \/ Connect(h) \/ ReadHeader(h) \/ Eof(h) \/ Sigpipe(h)
  \/ OtherCommand(h)
  \/ \E u \in User : Login(h, u) \/ TransferRequest(h, u)
  \/ \E o \in {"accept", "reject"}, r \in 0..MaxId : Answer(h, o, r)

Step(h) ==
  \/ Check(h) \/ Leave(h)
  \/ SemWait(h) \/ CommitNothing(h)
  \/ LoginScan(h) \/ LoginCommit(h)
  \/ Poll(h) \/ SlotScan(h) \/ SlotCommit(h) \/ SendSignal(h)
  \/ AcceptScan(h) \/ AcceptCommit(h)
  \/ RejectScan(h) \/ RejectCommit(h) \/ TellSenderScan(h) \/ TellSenderCommit(h)
  \/ Notify(h) \/ Cleanup(h) \/ Offline(h)
  \/ Reply(h) \/ SendNotifications(h) \/ ClearFlag(h)

Next == \E h \in Handler : Environment(h) \/ Step(h)

Spec == Init /\ [][Next]_vars

(***************************************************************************)
(* A live process keeps running, and a semaphore that is released again    *)
(* and again is acquired in the end: whoever holds it has work to do       *)
(* elsewhere, a second of sleep or a socket, before it comes back.  The    *)
(* client owes nothing.                                                    *)
(***************************************************************************)
Fairness == \A h \in Handler : WF_vars(Step(h)) /\ SF_vars(SemWait(h))
LiveSpec == Spec /\ Fairness

-----------------------------------------------------------------------------
(* Properties.                                                             *)

(* EINTR in sem_wait is the one way into a critical section without the    *)
(* semaphore.  Without it, at most one handler is between sem_wait and     *)
(* sem_post.                                                               *)
AtMostOneInside == \A g, h \in Handler : Inside(g) /\ Inside(h) => g = h
MutualExclusion == ~interrupted => AtMostOneInside

(* The semaphore is never lost: when its value is 0 there is a handler that *)
(* will post it.  No exit, signal or early return skips a sem_post.        *)
NoLostMux == mux = 0 => \E h \in Handler : Inside(h)

(* A request is in flight while a slot holds it. *)
Live(r) == {i \in Slot : pending[i].status # "FREE" /\ pending[i].req = r}
Taken   == {taken[k] : k \in DOMAIN taken}

(* Every id handed out belongs to a request that is in one slot, or was    *)
(* accepted, or was refused and the sender's session picked that up, or    *)
(* was dropped with its receiver's session; and to one of these only.      *)
(* Two accepts, an accept and a reject, or a cleanup and an accept cannot  *)
(* both have it.                                                           *)
EveryRequestAccountedFor ==
  ~interrupted =>
    \A r \in 1..counter :
      \/ Cardinality(Live(r)) = 1 /\ r \notin Taken \cup reported \cup dropped
      \/ Live(r) = {} /\ Cardinality({S \in {1, 2, 3} :
                            r \in <<Taken, reported, dropped>>[S]}) = 1

(* No request is accepted twice, by the same or by another handler of its  *)
(* receiver: its file is copied once, whatever reuses the slot.            *)
AcceptedOnce ==
  ~interrupted => \A k, l \in DOMAIN taken : taken[k] = taken[l] => k = l

(* A user is listed online only on behalf of a live handler logged in as   *)
(* that user, which will take the entry out when it leaves.  Reused pids   *)
(* and full tables do not break this; a handler killed by SIGPIPE does.    *)
NoGhostOnline ==
  ~interrupted =>
    \A i \in OnlineSlot :
      online[i].active /\ online[i].pid \notin killed =>
        /\ ~At(online[i].pid, "dead")
        /\ session[online[i].pid] = online[i].user

(* A request that was announced to its receiver leaves its slot or becomes *)
(* rejected by a step of a handler logged in as the receiver.              *)
OnlyReceiverAnswers ==
  [][\A i \in Slot :
       ~interrupted /\ pending[i].status = "NOTIFIED" /\ pending'[i].status # "NOTIFIED" =>
         \E h \in Handler : /\ Inside(h) /\ session[h] = pending[i].receiver
                            /\ pc'[h] # pc[h]]_vars

(* The stage of each request, read off its slot, or off the way it left.   *)
StageOf == [PENDING |-> "pending", NOTIFIED |-> "notified", REJECTED |-> "rejected"]

RequestView ==
  [r \in 1..MaxId |->
     IF r > counter THEN [stage |-> "none"]
     ELSE IF r \in Taken THEN [stage |-> "accepted"]
     ELSE IF r \in reported THEN [stage |-> "reported"]
     ELSE IF r \in dropped THEN [stage |-> "dropped"]
     ELSE LET p == pending[CHOOSE i \in Live(r) : TRUE] IN
          [stage |-> StageOf[p.status], sender |-> p.sender, receiver |-> p.receiver]]

Abs == INSTANCE TransferLifecycle WITH request <- RequestView

(* As long as no sem_wait is interrupted, the handlers together do what    *)
(* TransferLifecycle promises: nobody but the receiver answers a request,  *)
(* only an announced request is accepted, what is over stays over, and     *)
(* refusals go to the sender they belong to.                               *)
ImplementsLifecycle ==
  Abs!Start /\ [][~interrupted' => Abs!Step \/ UNCHANGED RequestView]_vars

(* Whoever takes the semaphore gives it back.                              *)
MuxReleased == mux = 0 ~> mux > 0

(* A handler whose loop has ended exits: it is not kept waiting for the    *)
(* semaphore that it needs twice on its way out.                           *)
LeaveLeadsToExit ==
  \A h \in Handler : At(h, "leave") ~> At(h, "dead")
=============================================================================
