---------------------------- MODULE ClientProofs ----------------------------
(***************************************************************************)
(* Proofs about ClientThreads, for any number of transfer threads and      *)
(* queues of any length: what the prompt promises, and what bg_ops_count   *)
(* counts.                                                                 *)
(***************************************************************************)
EXTENDS ClientThreads, FiniteSetTheorems, FunctionTheorems, TLAPS

Thread == Transfer \cup {Writer}

Typed ==
  /\ writer \in {"top", "test", "wait", "asleep", "past", "prompt", "exit",
                 "count", "counted", "set", "send", "done"}
  /\ reader \in {"loop", "read", "show", "reset", "bye", "done"}
  /\ thread \in [Transfer -> {"none", "connect", "moving", "lock", "load", "store", "gone"}]
  /\ cmd \in Commands /\ msg \in Message
  /\ loaded \in [Thread -> Int]
  /\ should_exit \in BOOLEAN /\ waiting_for_response \in BOOLEAN
  /\ bg_ops_count \in Int
  /\ bg_lock \in BOOLEAN /\ exited \in BOOLEAN /\ open \in BOOLEAN
  /\ toServer \in Seq(Commands) /\ toClient \in Seq(Message)
  /\ child \in [Transfer -> Child]
  /\ misused \in BOOLEAN /\ miscounted \in BOOLEAN

(* The room a command found when it was typed is there when it is sent.    *)
RoomKept ==
  /\ Len(toServer) <= MaxQueue /\ Len(toClient) <= MaxQueue
  /\ writer \in {"count", "counted", "set", "send"} => Len(toServer) < MaxQueue

(* Every value of the count that is still to be written is at most MaxOps. *)
BoundedAbove ==
  /\ bg_ops_count <= MaxOps
  /\ writer = "count" => bg_ops_count < MaxOps
  /\ writer = "counted" => loaded[Writer] < MaxOps
  /\ \A t \in Transfer : thread[t] = "store" => loaded[t] <= MaxOps

(* A data port serves one transfer: its message, then its thread.          *)
WellMade(m) ==
  \/ m.type = "TEXT" /\ m.port = NoPort
     /\ (m.is_background <=> m.of = "none" \/ InBackground(m.of))
  \/ m.type = "DATA_PORT" /\ m.port \in Transfer /\ IsTransfer(m.of)
Ports ==
  /\ \A i \in DOMAIN toClient : WellMade(toClient[i])
  /\ WellMade(msg)
  /\ reader = "reset" => msg.type = "TEXT" /\ ~msg.is_background
  /\ \A i \in DOMAIN toClient : toClient[i].port # NoPort =>
       /\ thread[toClient[i].port] = "none"
       /\ child[toClient[i].port] = [at |-> "accept", for |-> toClient[i].of]
       /\ reader = "show" => msg.port # toClient[i].port
       /\ \A j \in DOMAIN toClient : toClient[j].port = toClient[i].port => i = j
  /\ reader = "show" /\ msg.port # NoPort =>
       thread[msg.port] = "none" /\ child[msg.port] = [at |-> "accept", for |-> msg.of]
  /\ \A t \in Transfer : child[t].at = "none" => thread[t] = "none"

(* Each transfer thread tests the count once: those that are gone have     *)
(* each taken one away, or found none.                                     *)
Gone == {t \in Transfer : thread[t] = "gone"}
Under(t) == thread[t] \in {"load", "store"}
BoundedBelow ==
  /\ bg_ops_count >= 0 - Cardinality(Gone)
  /\ Gone # {} \/ (\E t \in Transfer : Under(t)) => bg_ops_count >= 1 - Cardinality(Gone)
  /\ writer = "counted" => loaded[Writer] >= 0 - Cardinality(Gone)
  /\ \A t \in Transfer : thread[t] = "store" => loaded[t] >= 1 - Cardinality(Gone)

(* As long as nobody has taken bg_lock away, who is under it is alone, and *)
(* knows the count.                                                        *)
Locked ==
  /\ bg_lock <=> writer = "counted" \/ \E t \in Transfer : Under(t)
  /\ \A t \in Transfer : Under(t) =>
       writer # "counted" /\ \A u \in Transfer : Under(u) => u = t
  /\ writer = "counted" => loaded[Writer] = bg_ops_count
  /\ \A t \in Transfer : thread[t] = "store" => loaded[t] = bg_ops_count

(* The count is at least the background commands on their way to the       *)
(* server and the transfers under way.                                     *)
Marked(s) == {i \in DOMAIN s : IsBackground(s[i])}
InHand == IF writer \in {"set", "send"} /\ IsBackground(cmd) THEN 1 ELSE 0
NoForegroundTransfer ==
  /\ writer \in {"count", "counted"} => IsBackground(cmd)
  /\ cmd # "transfer" /\ \A i \in DOMAIN toServer : toServer[i] # "transfer"
Covered ==
  bg_ops_count >= Cardinality(PortsUnderWay) + Cardinality(Marked(toServer)) + InHand

CountInv == ~miscounted => Locked /\ NoForegroundTransfer /\ Covered

(* A foreground command and its answer are in one place at a time.         *)
Foreground == {"plain", "transfer"}
InQueue(i) == toServer[i] \in Foreground
Arriving(i) == toClient[i].type = "TEXT" /\ toClient[i].of \in Foreground
Served(t) == child[t].at \in {"accept", "serve"} /\ child[t].for \in Foreground
Shown == reader \in {"show", "reset"} /\ msg.type = "TEXT" /\ msg.of \in Foreground
OneForeground ==
  /\ \A i \in DOMAIN toServer : InQueue(i) =>
       /\ ~Shown
       /\ \A j \in DOMAIN toServer : InQueue(j) => i = j
       /\ \A j \in DOMAIN toClient : ~Arriving(j)
       /\ \A t \in Transfer : ~Served(t)
  /\ \A i \in DOMAIN toClient : Arriving(i) =>
       /\ ~Shown
       /\ \A j \in DOMAIN toClient : Arriving(j) => i = j
       /\ \A t \in Transfer : ~Served(t)
  /\ \A t \in Transfer : Served(t) =>
       ~Shown /\ \A u \in Transfer : Served(u) => u = t

(* While there is one, the writer waits for it or is on its way out.       *)
Waits ==
  \/ writer \in {"top", "test", "wait", "asleep"} /\ waiting_for_response
  \/ writer \in {"top", "test", "wait", "asleep", "past", "done"} /\ should_exit
SomeForeground ==
  \/ Shown
  \/ \E i \in DOMAIN toServer : InQueue(i)
  \/ \E i \in DOMAIN toClient : Arriving(i)
  \/ \E t \in Transfer : Served(t)
Misread == {"plain -b", "transfer to -b"}
Honest ==
  /\ cmd \notin Misread /\ \A i \in DOMAIN toServer : toServer[i] \notin Misread
  /\ \A i \in DOMAIN toClient : toClient[i].of \notin Misread
  /\ msg.of \notin Misread /\ \A t \in Transfer : child[t].for \notin Misread
  /\ writer = "send" => (waiting_for_response <=> ~IsBackground(cmd))
ForegroundInv ==
  open /\ ~misused => Honest /\ OneForeground /\ (SomeForeground => Waits)

ClientInv == /\ Typed /\ RoomKept /\ BoundedAbove /\ Ports /\ BoundedBelow
             /\ CountInv /\ ForegroundInv

-----------------------------------------------------------------------------
(***************************************************************************)
(* Queues.                                                                 *)
(***************************************************************************)
LEMMA TailOf ==
  ASSUME NEW S, NEW s \in Seq(S), s # <<>>
  PROVE  /\ Head(s) \in S /\ Head(s) = s[1] /\ 1 \in DOMAIN s
         /\ Tail(s) \in Seq(S) /\ Len(Tail(s)) = Len(s) - 1
         /\ \A i \in DOMAIN Tail(s) :
              i \in Int /\ i + 1 \in DOMAIN s /\ i + 1 # 1 /\ Tail(s)[i] = s[i + 1]
         /\ \A j \in DOMAIN s : j # 1 => j \in Int /\ j - 1 \in DOMAIN Tail(s)
OBVIOUS

LEMMA AppendOf ==
  ASSUME NEW S, NEW s \in Seq(S), NEW e \in S
  PROVE  /\ Append(s, e) \in Seq(S) /\ Len(Append(s, e)) = Len(s) + 1
         /\ DOMAIN Append(s, e) = DOMAIN s \cup {Len(s) + 1}
         /\ Len(s) + 1 \notin DOMAIN s
         /\ Append(s, e)[Len(s) + 1] = e
         /\ \A i \in DOMAIN s : Append(s, e)[i] = s[i]
OBVIOUS

LEMMA EmptyQueue == DOMAIN <<>> = {} /\ Len(<<>>) = 0 /\ \A S : <<>> \in Seq(S)
OBVIOUS

-----------------------------------------------------------------------------
(***************************************************************************)
(* Types, room in the queues, and the bound from above.                    *)
(***************************************************************************)
LEMMA MessagesTyped ==
  /\ \A c \in Commands : Text(c) \in Message
  /\ \A c \in Commands, t \in Transfer : Port(c, t) \in Message
  /\ Notification \in Message
BY DEF Message, Text, Port, Notification, InBackground, Commands

Bounded == Typed /\ RoomKept /\ BoundedAbove

LEMMA WriterBounded ==
  ASSUME Bounded, WriterStep \/ User \/ SpuriousWakeup
  PROVE  Bounded'
<1> USE ClientAssumption DEF Bounded, Thread, Goes, flags, count, net, history
<1>1. CASE Enter \/ Test \/ Sleep \/ SpuriousWakeup
  BY <1>1 DEF Enter, Test, Sleep, SpuriousWakeup, Typed, RoomKept, BoundedAbove
<1>2. CASE UnlockAndPrompt
  BY <1>2 DEF UnlockAndPrompt, Typed, RoomKept, BoundedAbove
<1>3. CASE TryExit \/ EndOfInput \/ EmptyLine \/ TypeExit
  BY <1>3, ZenonT(40) DEF TryExit, EndOfInput, EmptyLine, TypeExit, Typed, RoomKept, BoundedAbove
<1>4. CASE CountRead
  BY <1>4 DEF CountRead, Typed, RoomKept, BoundedAbove
<1>5. CASE CountWrite
  <2>1. Typed'
    <3>1. loaded' \in [Thread -> Int] /\ bg_ops_count' \in Int
      BY <1>5 DEF CountWrite, Typed
    <3> QED BY <1>5, <3>1 DEF CountWrite, Typed
  <2>2. RoomKept'
    BY <1>5 DEF CountWrite, RoomKept, Typed
  <2>3. BoundedAbove'
    BY <1>5 DEF CountWrite, BoundedAbove, Typed
  <2> QED BY <2>1, <2>2, <2>3
<1>6. CASE SetWaiting
  BY <1>6 DEF SetWaiting, Typed, RoomKept, BoundedAbove
<1>7. CASE Send
  <2>1. /\ toServer' \in Seq(Commands) /\ Len(toServer') <= MaxQueue
    <3>1. cmd \in Commands /\ toServer \in Seq(Commands) /\ Len(toServer) < MaxQueue
      BY <1>7 DEF Send, Typed, RoomKept
    <3>2. Append(toServer, cmd) \in Seq(Commands) /\ Len(Append(toServer, cmd)) = Len(toServer) + 1
      BY <3>1, AppendOf
    <3>3. Len(toServer) \in Nat
      BY <3>1
    <3>4. toServer' \in {toServer, Append(toServer, cmd)}
      BY <1>7 DEF Send
    <3> QED BY <3>1, <3>2, <3>3, <3>4
  <2> QED BY <1>7, <2>1 DEF Send, Typed, RoomKept, BoundedAbove, NoCommand, Commands
<1>8. ASSUME NEW c \in Commands, Type(c)
      PROVE  Bounded'
  BY <1>8 DEF Type, Typed, RoomKept, BoundedAbove
<1> QED BY <1>1, <1>2, <1>3, <1>4, <1>5, <1>6, <1>7, <1>8 DEF WriterStep, User

LEMMA ReaderBounded ==
  ASSUME Bounded, ReaderStep \/ MainStep
  PROVE  Bounded'
<1> USE ClientAssumption, MessagesTyped
    DEF Bounded, Thread, Turns, flags, count, net, history, NoMessage, Woken
<1>1. CASE Loop \/ HangUp \/ CancelReader \/ Return
  <2>1. Typed'
    BY <1>1, ZenonT(40) DEF Loop, HangUp, CancelReader, Return, Typed
  <2>2. RoomKept'
    BY <1>1 DEF Loop, HangUp, CancelReader, Return, RoomKept, Typed
  <2>3. BoundedAbove'
    BY <1>1 DEF Loop, HangUp, CancelReader, Return, BoundedAbove, Typed
  <2> QED BY <2>1, <2>2, <2>3
<1>2. CASE Receive
  <2>1. /\ msg' \in Message /\ toClient' \in Seq(Message) /\ Len(toClient') <= MaxQueue
    BY <1>2, TailOf DEF Receive, Typed, RoomKept
  <2> QED BY <1>2, <2>1 DEF Receive, Typed, RoomKept, BoundedAbove
<1>3. CASE WakeWriter \/ Reset
  <2>1. Typed'
    BY <1>3, ZenonT(40) DEF WakeWriter, Reset, Typed
  <2>2. RoomKept'
    BY <1>3 DEF WakeWriter, Reset, RoomKept, Typed
  <2>3. BoundedAbove'
    BY <1>3 DEF WakeWriter, Reset, BoundedAbove, Typed
  <2> QED BY <2>1, <2>2, <2>3
<1>4. CASE Show
  BY <1>4 DEF Show, Typed, RoomKept, BoundedAbove
<1> QED BY <1>1, <1>2, <1>3, <1>4 DEF ReaderStep, MainStep

LEMMA ThreadBounded ==
  ASSUME Bounded, NEW t \in Transfer, ThreadStep(t)
  PROVE  Bounded'
<1> USE ClientAssumption DEF Bounded, Thread, Moves, flags, count, net, history
<1>1. CASE Connect(t)
  <2>1. child' \in [Transfer -> Child]
    <3>1. child \in [Transfer -> Child] /\ child[t] \in Child
      BY DEF Typed
    <3>2. PICK k \in Child : k = child[t]
      BY <3>1
    <3>3. [k EXCEPT !.at = "serve"] \in Child
      BY DEF Child
    <3>4. child' = child \/ child' = [child EXCEPT ![t].at = "serve"]
      BY <1>1 DEF Connect
    <3>5. child' = child \/ child' = [child EXCEPT ![t] = [k EXCEPT !.at = "serve"]]
      BY <3>1, <3>2, <3>4
    <3> QED BY <3>1, <3>3, <3>5
  <2> QED BY <1>1, <2>1, SMTT(20) DEF Connect, Typed, RoomKept, BoundedAbove
<1>2. CASE Finish(t) \/ Sigpipe(t)
  <2>1. Typed'
    <3>1. thread' \in [Transfer -> {"none", "connect", "moving", "lock", "load", "store", "gone"}]
      BY <1>2 DEF Finish, Sigpipe, Typed
    <3>2. loaded' \in [Thread -> Int] /\ bg_ops_count' \in Int
      BY <1>2 DEF Finish, Sigpipe, Typed
    <3>3. exited' \in BOOLEAN /\ UNCHANGED <<writer, reader, cmd, msg, flags, count, net, history>>
      BY <1>2, ZenonT(40) DEF Finish, Sigpipe, Typed
    <3> QED BY <3>1, <3>2, <3>3 DEF Typed
  <2>2. RoomKept'
    BY <1>2 DEF Finish, Sigpipe, RoomKept, Typed
  <2>3. BoundedAbove'
    BY <1>2 DEF Finish, Sigpipe, BoundedAbove, Typed
  <2> QED BY <2>1, <2>2, <2>3
<1>3. CASE TestCount(t)
  <2>1. Typed'
    <3>1. thread' \in [Transfer -> {"none", "connect", "moving", "lock", "load", "store", "gone"}]
      BY <1>3 DEF TestCount, Typed
    <3>2. loaded' \in [Thread -> Int] /\ bg_ops_count' \in Int
      BY <1>3 DEF TestCount, Typed
    <3>3. bg_lock' \in BOOLEAN /\ UNCHANGED <<writer, reader, cmd, msg, flags, exited, net, history>>
      BY <1>3 DEF TestCount, Typed
    <3> QED BY <3>1, <3>2, <3>3 DEF Typed
  <2>2. RoomKept'
    BY <1>3 DEF TestCount, RoomKept, Typed
  <2>3. BoundedAbove'
    BY <1>3 DEF TestCount, BoundedAbove, Typed
  <2> QED BY <2>1, <2>2, <2>3
<1>4. CASE ReadCount(t)
  BY <1>4 DEF ReadCount, Typed, RoomKept, BoundedAbove
<1>5. CASE WriteCount(t)
  <2>1. Typed'
    <3>1. thread' \in [Transfer -> {"none", "connect", "moving", "lock", "load", "store", "gone"}]
      BY <1>5 DEF WriteCount, Typed
    <3>2. loaded' \in [Thread -> Int] /\ bg_ops_count' \in Int
      BY <1>5 DEF WriteCount, Typed
    <3> QED BY <1>5, <3>1, <3>2, ZenonT(40) DEF WriteCount, Typed
  <2>2. RoomKept'
    BY <1>5 DEF WriteCount, RoomKept, Typed
  <2>3. BoundedAbove'
    BY <1>5 DEF WriteCount, BoundedAbove, Typed
  <2> QED BY <2>1, <2>2, <2>3
<1> QED BY <1>1, <1>2, <1>3, <1>4, <1>5 DEF ThreadStep

LEMMA ServerBounded ==
  ASSUME Bounded, Server
  PROVE  Bounded'
<1> USE ClientAssumption, MessagesTyped DEF Bounded, Thread, Room, flags, count, net, history
<1>1. CASE Reply
  <2>1. /\ toServer' \in Seq(Commands) /\ Len(toServer') <= Len(toServer)
        /\ toClient' \in Seq(Message) /\ Len(toClient') <= MaxQueue
    BY <1>1, TailOf, AppendOf DEF Reply, Typed
  <2> QED BY <1>1, <2>1 DEF Reply, Typed, RoomKept, BoundedAbove
<1>2. CASE Notify
  <2>1. /\ toClient' \in Seq(Message) /\ Len(toClient') <= MaxQueue
    BY <1>2, AppendOf DEF Notify, Typed
  <2> QED BY <1>2, <2>1 DEF Notify, Typed, RoomKept, BoundedAbove
<1>3. CASE Disconnect
  <2>1. Typed'
    BY <1>3, EmptyQueue, ZenonT(40) DEF Disconnect, Typed
  <2>2. RoomKept'
    BY <1>3, EmptyQueue DEF Disconnect, RoomKept, Typed
  <2>3. BoundedAbove'
    BY <1>3 DEF Disconnect, BoundedAbove, Typed
  <2> QED BY <2>1, <2>2, <2>3
<1>4. ASSUME NEW t \in Transfer, Fork(t)
      PROVE  Bounded'
  <2>1. /\ toServer' \in Seq(Commands) /\ Len(toServer') <= Len(toServer)
        /\ Head(toServer) \in Commands
    BY <1>4, TailOf DEF Fork, Typed
  <2>2. /\ toClient' \in Seq(Message) /\ Len(toClient') <= MaxQueue
    BY <1>4, <2>1, AppendOf DEF Fork, Typed
  <2>3. child' \in [Transfer -> Child]
    BY <1>4, <2>1 DEF Fork, Typed, Child
  <2> QED BY <1>4, <2>1, <2>2, <2>3 DEF Fork, Typed, RoomKept, BoundedAbove
<1>5. ASSUME NEW t \in Transfer, Conclude(t)
      PROVE  Bounded'
  <2>1. child[t].for \in Commands /\ child' \in [Transfer -> Child]
    BY <1>5 DEF Conclude, Typed, Child, NoChild, Commands
  <2>2. /\ toClient' \in Seq(Message) /\ Len(toClient') <= MaxQueue
    <3>1. Text(child[t].for) \in Message /\ toClient \in Seq(Message)
      BY <2>1 DEF Typed
    <3>2. Len(Append(toClient, Text(child[t].for))) = Len(toClient) + 1
      BY <3>1, AppendOf, SMTT(20)
    <3>3. Append(toClient, Text(child[t].for)) \in Seq(Message) /\ Len(toClient) \in Nat
      BY <3>1, AppendOf
    <3>4. CASE Len(toClient) < MaxQueue /\ toClient' = Append(toClient, Text(child[t].for))
      BY <3>2, <3>3, <3>4
    <3>5. CASE toClient' = toClient
      BY <3>1, <3>5 DEF RoomKept
    <3> QED BY <1>5, <3>4, <3>5 DEF Conclude
  <2> QED BY <1>5, <2>1, <2>2 DEF Conclude, Typed, RoomKept, BoundedAbove
<1> QED BY <1>1, <1>2, <1>3, <1>4, <1>5 DEF Server

-----------------------------------------------------------------------------
(***************************************************************************)
(* A data port is announced once and serves one thread.                    *)
(***************************************************************************)
LEMMA MadeWell ==
  /\ \A c \in Commands : WellMade(Text(c)) /\ Text(c).port = NoPort
                          /\ Text(c).type = "TEXT" /\ Text(c).of = c
  /\ \A c \in Commands, t \in Transfer :
       /\ IsTransfer(c) => WellMade(Port(c, t))
       /\ Port(c, t).port = t /\ Port(c, t).of = c /\ Port(c, t).type = "DATA_PORT"
  /\ WellMade(Notification) /\ Notification.port = NoPort /\ Notification.of = "none"
  /\ Notification.type = "TEXT"
BY DEF WellMade, Text, Port, Notification, InBackground, IsTransfer, Commands

LEMMA ShownPort ==
  ASSUME Ports, reader = "show", msg.port # NoPort
  PROVE  msg.port \in Transfer /\ child[msg.port].at = "accept"
<1>1. child[msg.port] = [at |-> "accept", for |-> msg.of]
  BY DEF Ports
<1>2. WellMade(msg)
  BY DEF Ports
<1> QED BY <1>1, <1>2 DEF WellMade

LEMMA AnnouncedPort ==
  ASSUME Ports, NEW i \in DOMAIN toClient, toClient[i].port # NoPort
  PROVE  toClient[i].port \in Transfer /\ child[toClient[i].port].at = "accept"
<1>1. child[toClient[i].port] = [at |-> "accept", for |-> toClient[i].of]
  BY DEF Ports
<1>2. WellMade(toClient[i])
  BY DEF Ports
<1> QED BY <1>1, <1>2 DEF WellMade

(* A message without a port is sent; the thread of a port that has been    *)
(* shown moves on, and its child with it.                                  *)
LEMMA TextSent ==
  ASSUME Typed, Ports, NEW m \in Message, WellMade(m), m.port = NoPort,
         toClient' = Append(toClient, m), UNCHANGED <<msg, reader, thread>>,
         child' \in [Transfer -> Child],
         \A t \in Transfer : child'[t] = child[t]
                               \/ (child[t].at # "accept" /\ child'[t].at # "none")
  PROVE  Ports'
<1>1. toClient \in Seq(Message)
  BY DEF Typed
<1>2. DOMAIN toClient' = DOMAIN toClient \cup {Len(toClient) + 1}
  BY <1>1, AppendOf
<1>3. toClient'[Len(toClient) + 1] = m /\ \A i \in DOMAIN toClient : toClient'[i] = toClient[i]
  BY <1>1, AppendOf
<1>4. \A i \in DOMAIN toClient' : WellMade(toClient'[i])
  BY <1>2, <1>3 DEF Ports
<1>5. WellMade(msg') /\ (reader' = "reset" => msg'.type = "TEXT" /\ ~msg'.is_background)
  BY DEF Ports, WellMade
<1>6. \A i \in DOMAIN toClient' : toClient'[i].port # NoPort =>
        i \in DOMAIN toClient /\ toClient'[i] = toClient[i]
  BY <1>2, <1>3
<1>7. \A i \in DOMAIN toClient : toClient[i].port # NoPort =>
        toClient[i].port \in Transfer /\ child'[toClient[i].port] = child[toClient[i].port]
  BY AnnouncedPort
<1>8. reader = "show" /\ msg.port # NoPort =>
        msg.port \in Transfer /\ child'[msg.port] = child[msg.port]
  BY ShownPort
<1>9. ASSUME NEW i \in DOMAIN toClient', toClient'[i].port # NoPort
      PROVE  /\ thread'[toClient'[i].port] = "none"
             /\ child'[toClient'[i].port] = [at |-> "accept", for |-> toClient'[i].of]
             /\ reader' = "show" => msg'.port # toClient'[i].port
             /\ \A j \in DOMAIN toClient' : toClient'[j].port = toClient'[i].port => i = j
  BY <1>6, <1>7, <1>9 DEF Ports
<1> QED BY <1>4, <1>5, <1>8, <1>9 DEF Ports, WellMade

LEMMA ThreadMoves ==
  ASSUME Typed, Ports, NEW t \in Transfer, thread[t] # "none",
         UNCHANGED <<msg, reader, toClient>>,
         \A u \in Transfer : u # t => thread'[u] = thread[u] /\ child'[u] = child[u],
         child'[t].at = "none" => child[t].at = "none"
  PROVE  Ports'
<1>1. \A i \in DOMAIN toClient : toClient[i].port # NoPort =>
        toClient[i].port \in Transfer /\ toClient[i].port # t
  BY ZenonT(40) DEF Ports, WellMade
<1>2. reader = "show" /\ msg.port # NoPort => msg.port \in Transfer /\ msg.port # t
  BY DEF Ports, WellMade
<1>3. \A u \in Transfer : child'[u].at = "none" => thread'[u] = "none"
  BY DEF Ports
<1> QED BY <1>1, <1>2, <1>3 DEF Ports, WellMade

LEMMA ReaderPorts ==
  ASSUME Typed, Ports, ReaderStep \/ MainStep
  PROVE  Ports'
<1> USE DEF Turns, flags, count, net, history
<1>1. CASE Loop \/ HangUp \/ WakeWriter \/ Return
  BY <1>1 DEF Loop, HangUp, WakeWriter, Return, Ports, WellMade
<1>2. CASE Reset \/ CancelReader
  <2>1. UNCHANGED <<toClient, thread, child>> /\ reader' \in {"loop", "done"} /\ msg' = Notification
    BY <1>2 DEF Reset, CancelReader, NoMessage
  <2> QED BY <2>1, MadeWell DEF Ports, WellMade
<1>3. CASE Receive
  <2>1. toClient \in Seq(Message) /\ toClient # <<>>
    BY <1>3 DEF Typed, Receive
  <2>2. msg' = toClient[1] /\ 1 \in DOMAIN toClient
    BY <1>3, <2>1, TailOf DEF Receive
  <2>3. \A i \in DOMAIN toClient' :
          i \in Int /\ i + 1 \in DOMAIN toClient /\ i + 1 # 1 /\ toClient'[i] = toClient[i + 1]
    BY <1>3, <2>1, TailOf DEF Receive
  <2>4. UNCHANGED <<thread, child>> /\ reader = "read" /\ reader' = "show"
    BY <1>3 DEF Receive
  <2>5. \A i \in DOMAIN toClient' : WellMade(toClient'[i])
    BY <2>3 DEF Ports
  <2>6. WellMade(msg')
    BY <2>2 DEF Ports
  <2>7. ASSUME NEW i \in DOMAIN toClient', toClient'[i].port # NoPort
        PROVE  /\ thread'[toClient'[i].port] = "none"
               /\ child'[toClient'[i].port] = [at |-> "accept", for |-> toClient'[i].of]
               /\ reader' = "show" => msg'.port # toClient'[i].port
               /\ \A j \in DOMAIN toClient' : toClient'[j].port = toClient'[i].port => i = j
    <3>1. i + 1 \in DOMAIN toClient /\ toClient[i + 1].port # NoPort /\ i + 1 # 1
          /\ toClient'[i] = toClient[i + 1]
      BY <2>3, <2>7
    <3>2. /\ thread[toClient[i + 1].port] = "none"
          /\ child[toClient[i + 1].port] = [at |-> "accept", for |-> toClient[i + 1].of]
          /\ \A j \in DOMAIN toClient : toClient[j].port = toClient[i + 1].port => i + 1 = j
      BY <3>1 DEF Ports
    <3>3. msg'.port # toClient'[i].port
      BY <2>2, <3>1, <3>2
    <3>4. ASSUME NEW j \in DOMAIN toClient', toClient'[j].port = toClient'[i].port
          PROVE  i = j
      <4>1. i + 1 = j + 1
        BY <2>3, <3>1, <3>2, <3>4
      <4> QED BY <2>3, <4>1
    <3> QED BY <2>4, <3>1, <3>2, <3>3, <3>4
  <2>8. msg'.port # NoPort =>
          thread[msg'.port] = "none" /\ child[msg'.port] = [at |-> "accept", for |-> msg'.of]
    BY <2>2 DEF Ports
  <2> QED BY <2>4, <2>5, <2>6, <2>7, <2>8 DEF Ports
<1>4. CASE Show
  <2>1. /\ reader = "show" /\ reader' \in {"loop", "reset"}
        /\ reader' = "reset" => msg.type = "TEXT" /\ ~msg.is_background
        /\ msg' = IF reader' = "reset" THEN msg ELSE Notification
        /\ UNCHANGED <<toClient, child>>
    BY <1>4 DEF Show, NoMessage, Ports, WellMade
  <2>2. WellMade(msg')
    BY <2>1, MadeWell DEF Ports, WellMade
  <2>3. \A t \in Transfer : thread'[t] = IF t = msg.port THEN "connect" ELSE thread[t]
    BY <1>4 DEF Show
  <2>4. \A i \in DOMAIN toClient : toClient[i].port # NoPort =>
          toClient[i].port \in Transfer /\ msg.port # toClient[i].port
    BY <2>1 DEF Ports, WellMade
  <2>5. \A t \in Transfer : child[t].at = "none" => thread'[t] = "none"
    BY <2>1, <2>3, ClientAssumption DEF Ports
  <2> QED BY <2>1, <2>2, <2>3, <2>4, <2>5 DEF Ports, WellMade
<1> QED BY <1>1, <1>2, <1>3, <1>4 DEF ReaderStep, MainStep

LEMMA ThreadPorts ==
  ASSUME Typed, Ports, NEW t \in Transfer, ThreadStep(t)
  PROVE  Ports'
<1> USE DEF Moves, flags, count, net, history
<1>1. CASE Sigpipe(t)
  BY <1>1 DEF Sigpipe, Ports, WellMade
<1>2. CASE Connect(t)
  <2>1. child'[t].at = "none" => child[t].at = "none"
    <3>1. CASE child' = [child EXCEPT ![t].at = "serve"]
      BY <3>1 DEF Typed, Child
    <3>2. CASE UNCHANGED child
      BY <3>2
    <3> QED BY <1>2, <3>1, <3>2 DEF Connect
  <2>2. \A u \in Transfer : u # t => thread'[u] = thread[u] /\ child'[u] = child[u]
    BY <1>2 DEF Connect, Typed
  <2>3. thread[t] # "none" /\ UNCHANGED <<msg, reader, toClient>>
    BY <1>2 DEF Connect
  <2> QED BY <2>1, <2>2, <2>3, ThreadMoves
<1>3. CASE Finish(t) \/ TestCount(t) \/ ReadCount(t) \/ WriteCount(t)
  <2>1. thread[t] # "none" /\ UNCHANGED <<msg, reader, toClient, child>>
    BY <1>3 DEF Finish, TestCount, ReadCount, WriteCount
  <2>2. \A u \in Transfer : u # t => thread'[u] = thread[u]
    BY <1>3 DEF Finish, TestCount, ReadCount, WriteCount, Typed
  <2> QED BY <2>1, <2>2, ThreadMoves
<1> QED BY <1>1, <1>2, <1>3 DEF ThreadStep

LEMMA ServerPorts ==
  ASSUME Typed, Ports, Server
  PROVE  Ports'
<1> USE DEF Room, flags, count, net, history
<1>1. CASE Reply
  <2>1. Head(toServer) \in Commands
    BY <1>1, TailOf DEF Reply, Typed
  <2>2. child' \in [Transfer -> Child] /\ UNCHANGED <<msg, reader, thread, child>>
        /\ toClient' = Append(toClient, Text(Head(toServer)))
    BY <1>1 DEF Reply, Typed
  <2> QED BY <2>1, <2>2, TextSent, MadeWell, MessagesTyped
<1>2. CASE Notify
  <2>1. child' \in [Transfer -> Child] /\ UNCHANGED <<msg, reader, thread, child>>
        /\ toClient' = Append(toClient, Notification)
    BY <1>2 DEF Notify, Typed
  <2> QED BY <2>1, TextSent, MadeWell, MessagesTyped
<1>3. CASE Disconnect
  BY <1>3 DEF Disconnect, Ports, WellMade
<1>4. ASSUME NEW t \in Transfer, Fork(t)
      PROVE  Ports'
  <2> DEFINE c == Head(toServer)
             n == Len(toClient) + 1
  <2>1. c \in Commands /\ IsTransfer(c) /\ t # NoPort
    BY <1>4, TailOf, ClientAssumption DEF Fork, Typed
  <2>2. WellMade(Port(c, t)) /\ Port(c, t).port = t /\ Port(c, t).of = c
    BY <2>1, MadeWell
  <2>3. UNCHANGED <<msg, reader, thread>> /\ child[t].at = "none"
        /\ child' = [child EXCEPT ![t] = [at |-> "accept", for |-> c]]
        /\ toClient' = Append(toClient, Port(c, t)) /\ toClient \in Seq(Message)
    BY <1>4 DEF Fork, Typed
  <2>4. child'[t] = [at |-> "accept", for |-> c] /\ \A u \in Transfer : u # t => child'[u] = child[u]
    BY <2>3 DEF Typed
  <2>5. /\ DOMAIN toClient' = DOMAIN toClient \cup {n} /\ n \notin DOMAIN toClient
        /\ toClient'[n] = Port(c, t) /\ \A i \in DOMAIN toClient : toClient'[i] = toClient[i]
    BY <2>1, <2>3, AppendOf, MessagesTyped
  <2> HIDE DEF c, n
  <2>6. thread[t] = "none"
    BY <2>3 DEF Ports
  <2>7. \A i \in DOMAIN toClient : toClient[i].port # NoPort =>
          toClient[i].port \in Transfer /\ toClient[i].port # t
    BY <2>3, AnnouncedPort
  <2>8. reader = "show" /\ msg.port # NoPort => msg.port \in Transfer /\ msg.port # t
    BY <2>3, ShownPort
  <2>9. /\ \A i \in DOMAIN toClient' : WellMade(toClient'[i])
        /\ WellMade(msg')
    BY <2>2, <2>3, <2>5 DEF Ports, WellMade
  <2>10. ASSUME NEW i \in DOMAIN toClient', toClient'[i].port # NoPort
         PROVE  /\ thread'[toClient'[i].port] = "none"
                /\ child'[toClient'[i].port] = [at |-> "accept", for |-> toClient'[i].of]
                /\ reader' = "show" => msg'.port # toClient'[i].port
                /\ \A j \in DOMAIN toClient' : toClient'[j].port = toClient'[i].port => i = j
    <3>1. CASE i = n
      BY <2>1, <2>2, <2>3, <2>4, <2>5, <2>6, <2>7, <2>8, <3>1
    <3>2. CASE i \in DOMAIN toClient
      BY <2>2, <2>3, <2>4, <2>5, <2>7, <2>10, <3>2 DEF Ports
    <3> QED BY <2>5, <3>1, <3>2
  <2> QED BY <2>3, <2>4, <2>6, <2>8, <2>9, <2>10 DEF Ports
<1>5. ASSUME NEW t \in Transfer, Conclude(t)
      PROVE  Ports'
  <2>1. child' \in [Transfer -> Child] /\ child[t].for \in Commands /\ child[t].at = "serve"
        /\ child'[t].at = "over" /\ \A u \in Transfer : u # t => child'[u] = child[u]
    BY <1>5 DEF Conclude, Typed, Child, NoChild, Commands
  <2>2. UNCHANGED <<msg, reader, thread>>
    BY <1>5 DEF Conclude
  <2>3. CASE toClient' = Append(toClient, Text(child[t].for))
    BY <2>1, <2>2, <2>3, TextSent, MadeWell, MessagesTyped
  <2>4. CASE toClient' = toClient
    <3>1. \A i \in DOMAIN toClient : toClient[i].port # NoPort =>
            toClient[i].port \in Transfer /\ child'[toClient[i].port] = child[toClient[i].port]
      BY <2>1, AnnouncedPort
    <3>2. reader = "show" /\ msg.port # NoPort =>
            msg.port \in Transfer /\ child'[msg.port] = child[msg.port]
      BY <2>1, ShownPort
    <3> QED BY <2>1, <2>2, <2>4, <3>1, <3>2 DEF Ports, WellMade
  <2> QED BY <1>5, <2>3, <2>4 DEF Conclude
<1> QED BY <1>1, <1>2, <1>3, <1>4, <1>5 DEF Server

-----------------------------------------------------------------------------
(***************************************************************************)
(* The bound from below.                                                   *)
(***************************************************************************)
LEMMA GoneFinite ==
  /\ IsFiniteSet(Gone) /\ Cardinality(Gone) \in Nat
  /\ Cardinality(Gone) <= Cardinality(Transfer) /\ Cardinality(Transfer) \in Nat
  /\ Gone # {} => Cardinality(Gone) >= 1
  /\ Cardinality(Transfer) >= 1
<1>1. Gone \in SUBSET Transfer /\ IsFiniteSet(Transfer) /\ Transfer # {}
  BY ClientAssumption DEF Gone
<1>2. IsFiniteSet(Gone) /\ Cardinality(Gone) <= Cardinality(Transfer)
  BY <1>1, FS_Subset
<1>3. Cardinality(Gone) \in Nat /\ Cardinality(Transfer) \in Nat
  BY <1>1, <1>2, FS_CardinalityType
<1> QED BY <1>1, <1>2, <1>3, FS_EmptySet

LEMMA GoneGrows ==
  ASSUME NEW t \in Transfer, thread[t] # "gone", Gone' = Gone \cup {t}
  PROVE  Cardinality(Gone)' = Cardinality(Gone) + 1
BY GoneFinite, FS_AddElement DEF Gone

LEMMA BelowKept ==
  ASSUME BoundedBelow, UNCHANGED <<bg_ops_count, loaded>>,
         writer' = "counted" => writer = "counted",
         \A t \in Transfer :
           \/ thread'[t] = thread[t]
           \/ thread[t] \notin {"load", "store", "gone"} /\ thread'[t] \notin {"load", "store", "gone"}
  PROVE  BoundedBelow'
<1>1. Gone' = Gone
  BY DEF Gone
<1>2. \A t \in Transfer : (Under(t))' <=> Under(t)
  BY DEF Under
<1> QED BY <1>1, <1>2 DEF BoundedBelow

LEMMA BelowGrown ==
  ASSUME Typed, BoundedBelow, Cardinality(Gone)' = Cardinality(Gone) + 1,
         writer' = writer, loaded'[Writer] = loaded[Writer], bg_ops_count' \in Int,
         bg_ops_count' >= 0 - Cardinality(Gone),
         \A u \in Transfer : thread'[u] = "store" =>
           thread[u] = "store" /\ loaded'[u] = loaded[u]
  PROVE  BoundedBelow'
<1> DEFINE n == Cardinality(Gone)
<1>1. n \in Nat
  BY GoneFinite
<1> HIDE DEF n
<1>2. n' = n + 1
  BY DEF n
<1>3. bg_ops_count' >= 1 - n' /\ bg_ops_count' >= 0 - n'
  BY <1>1, <1>2 DEF n
<1>4. loaded[Writer] \in Int /\ \A u \in Transfer : loaded[u] \in Int
  BY DEF Typed, Thread
<1>5. writer' = "counted" => loaded'[Writer] >= 0 - n'
  BY <1>1, <1>2, <1>4 DEF BoundedBelow, n
<1>6. \A u \in Transfer : thread'[u] = "store" => loaded'[u] >= 1 - n'
  BY <1>1, <1>2, <1>4 DEF BoundedBelow, n
<1> QED BY <1>3, <1>5, <1>6 DEF BoundedBelow, n

LEMMA WriterBelow ==
  ASSUME Typed, BoundedBelow, WriterStep \/ User \/ SpuriousWakeup
  PROVE  BoundedBelow'
<1> USE DEF Goes, flags, count, net, history
<1>1. CASE CountRead
  <2>1. Gone' = Gone /\ (\A t \in Transfer : (Under(t))' <=> Under(t)) /\ bg_ops_count' = bg_ops_count
    BY <1>1 DEF CountRead, Gone, Under
  <2>2. loaded'[Writer] = bg_ops_count /\ \A t \in Transfer : loaded'[t] = loaded[t]
    BY <1>1, ClientAssumption DEF CountRead, Typed, Thread
  <2> QED BY <1>1, <2>1, <2>2 DEF BoundedBelow, CountRead
<1>2. CASE CountWrite
  <2>1. Gone' = Gone /\ \A t \in Transfer : thread'[t] = thread[t]
    BY <1>2 DEF CountWrite, Gone
  <2>2. \A t \in Transfer : loaded'[t] = loaded[t]
    BY <1>2, ClientAssumption DEF CountWrite, Typed, Thread
  <2>3. bg_ops_count' >= 1 - Cardinality(Gone) /\ bg_ops_count' >= 0 - Cardinality(Gone)
    BY <1>2, GoneFinite, ClientAssumption DEF CountWrite, BoundedBelow, Typed, Thread
  <2> QED BY <1>2, <2>1, <2>2, <2>3 DEF BoundedBelow, CountWrite
<1>3. CASE Enter \/ Test \/ Sleep \/ SpuriousWakeup \/ UnlockAndPrompt \/ TryExit \/ SetWaiting \/ Send
  <2>1. UNCHANGED <<bg_ops_count, loaded, thread>> /\ writer' # "counted"
    BY <1>3 DEF Enter, Test, Sleep, SpuriousWakeup, UnlockAndPrompt, TryExit, SetWaiting, Send
  <2> QED BY <2>1, BelowKept
<1>4. CASE User
  <2>1. UNCHANGED <<bg_ops_count, loaded, thread>> /\ writer' # "counted"
    BY <1>4 DEF User, EndOfInput, EmptyLine, TypeExit, Type
  <2> QED BY <2>1, BelowKept
<1> QED BY <1>1, <1>2, <1>3, <1>4 DEF WriterStep

LEMMA ThreadBelow ==
  ASSUME Typed, BoundedBelow, NEW t \in Transfer, ThreadStep(t)
  PROVE  BoundedBelow'
<1> USE DEF Moves, flags, count, net, history
<1>1. CASE Connect(t) \/ Finish(t) \/ Sigpipe(t)
  <2>1. UNCHANGED <<bg_ops_count, loaded, writer>>
    BY <1>1 DEF Connect, Finish, Sigpipe
  <2>2. \A u \in Transfer :
           \/ thread'[u] = thread[u]
           \/ thread[u] \notin {"load", "store", "gone"} /\ thread'[u] \notin {"load", "store", "gone"}
    BY <1>1 DEF Connect, Finish, Sigpipe, Typed
  <2> QED BY <2>1, <2>2, BelowKept
<1>2. CASE TestCount(t)
  <2>1. UNCHANGED <<bg_ops_count, loaded, writer>> /\ bg_ops_count \in Int
    BY <1>2 DEF TestCount, Typed
  <2>2. CASE bg_ops_count > 0
    <3>1. Gone' = Gone /\ \A u \in Transfer : thread'[u] = "store" => thread[u] = "store"
      BY <1>2, <2>2 DEF TestCount, Typed, Gone
    <3>2. bg_ops_count >= 1 - Cardinality(Gone)
      BY <2>1, <2>2, GoneFinite
    <3> QED BY <2>1, <3>1, <3>2 DEF BoundedBelow
  <2>3. CASE ~(bg_ops_count > 0)
    <3>1. Gone' = Gone \cup {t} /\ thread[t] # "gone"
          /\ \A u \in Transfer : thread'[u] = "store" => thread[u] = "store"
      BY <1>2, <2>3 DEF TestCount, Typed, Gone
    <3>2. Cardinality(Gone)' = Cardinality(Gone) + 1
      BY <3>1, GoneGrows
    <3>3. bg_ops_count >= 0 - Cardinality(Gone)
      BY DEF BoundedBelow
    <3> QED BY <2>1, <3>1, <3>2, <3>3, BelowGrown
  <2> QED BY <2>2, <2>3
<1>3. CASE ReadCount(t)
  <2>1. UNCHANGED <<bg_ops_count, writer>> /\ thread[t] = "load"
    BY <1>3 DEF ReadCount
  <2>2. Gone' = Gone
    BY <1>3 DEF ReadCount, Typed, Gone
  <2>3. \A u \in Transfer : u # t => thread'[u] = thread[u]
    BY <1>3 DEF ReadCount, Typed
  <2>4. loaded'[t] = bg_ops_count /\ loaded'[Writer] = loaded[Writer]
        /\ \A u \in Transfer : u # t => loaded'[u] = loaded[u]
    BY <1>3, ClientAssumption DEF ReadCount, Typed, Thread
  <2>5. bg_ops_count >= 1 - Cardinality(Gone)
    BY <2>1 DEF BoundedBelow, Under
  <2> QED BY <2>1, <2>2, <2>3, <2>4, <2>5 DEF BoundedBelow
<1>4. CASE WriteCount(t)
  <2>1. writer' = writer /\ thread[t] = "store" /\ bg_ops_count' = loaded[t] - 1
    BY <1>4 DEF WriteCount
  <2>2. Gone' = Gone \cup {t} /\ \A u \in Transfer : thread'[u] = "store" => thread[u] = "store" /\ u # t
    BY <1>4 DEF WriteCount, Typed, Gone
  <2>3. Cardinality(Gone)' = Cardinality(Gone) + 1
    BY <2>1, <2>2, GoneGrows
  <2>4. loaded'[Writer] = loaded[Writer] /\ \A u \in Transfer : u # t => loaded'[u] = loaded[u]
    BY <1>4, ClientAssumption DEF WriteCount, Typed, Thread
  <2>5. loaded[Writer] \in Int /\ \A u \in Transfer : loaded[u] \in Int
    BY DEF Typed, Thread
  <2>6. bg_ops_count' >= 0 - Cardinality(Gone) /\ bg_ops_count' \in Int
    BY <2>1, <2>5, GoneFinite DEF BoundedBelow
  <2> QED BY <2>1, <2>2, <2>3, <2>4, <2>6, BelowGrown
<1> QED BY <1>1, <1>2, <1>3, <1>4 DEF ThreadStep

LEMMA OthersBelow ==
  ASSUME Typed, Ports, BoundedBelow, ReaderStep \/ MainStep \/ Server
  PROVE  BoundedBelow'
<1> USE DEF Turns, Woken, flags, count, net, history
<1>1. CASE Show
  <2>1. UNCHANGED <<bg_ops_count, loaded, writer>> /\ reader = "show"
    BY <1>1 DEF Show
  <2>2. \A u \in Transfer : thread'[u] = IF u = msg.port THEN "connect" ELSE thread[u]
    BY <1>1 DEF Show
  <2>3. \A u \in Transfer : u = msg.port => thread[u] = "none"
    BY <2>1, ClientAssumption DEF Ports
  <2> QED BY <2>1, <2>2, <2>3, BelowKept
<1>2. CASE ReaderStep /\ ~Show
  <2>1. UNCHANGED <<bg_ops_count, loaded, thread>> /\ (writer' = "counted" => writer = "counted")
    BY <1>2 DEF ReaderStep, Loop, Receive, HangUp, WakeWriter, Reset
  <2> QED BY <2>1, BelowKept
<1>3. CASE MainStep
  <2>1. UNCHANGED <<bg_ops_count, loaded, thread, writer>>
    BY <1>3 DEF MainStep, CancelReader, Return
  <2> QED BY <2>1, BelowKept
<1>4. CASE Server
  <2>1. UNCHANGED <<bg_ops_count, loaded, thread, writer>>
    BY <1>4 DEF Server, Reply, Notify, Disconnect, Fork, Conclude
  <2> QED BY <2>1, BelowKept
<1> QED BY <1>1, <1>2, <1>3, <1>4

-----------------------------------------------------------------------------
(***************************************************************************)
(* bg_lock, as long as nobody takes it away.                               *)
(***************************************************************************)
LEMMA LockedKept ==
  ASSUME Locked, UNCHANGED <<bg_ops_count, loaded, bg_lock>>,
         writer' = "counted" <=> writer = "counted",
         \A t \in Transfer :
           \/ thread'[t] = thread[t]
           \/ thread[t] \notin {"load", "store"} /\ thread'[t] \notin {"load", "store"}
  PROVE  Locked'
<1>1. \A t \in Transfer : (Under(t))' <=> Under(t)
  BY DEF Under
<1> QED BY <1>1 DEF Locked

LEMMA WriterLocked ==
  ASSUME Typed, Locked, ~miscounted', WriterStep \/ User \/ SpuriousWakeup
  PROVE  Locked'
<1> USE DEF Goes, flags, count, net, history
<1>1. CASE CountRead
  <2>1. \A t \in Transfer : (Under(t))' <=> Under(t)
    BY <1>1 DEF CountRead, Under
  <2>2. ~bg_lock /\ \A t \in Transfer : thread'[t] = thread[t] /\ loaded'[t] = loaded[t]
    BY <1>1, ClientAssumption DEF CountRead, Typed, Thread
  <2>3. loaded'[Writer] = bg_ops_count'
    BY <1>1 DEF CountRead, Typed, Thread
  <2> QED BY <1>1, <2>1, <2>2, <2>3 DEF Locked, CountRead, Under
<1>2. CASE CountWrite
  <2>1. \A t \in Transfer : ~Under(t) /\ thread'[t] = thread[t]
    BY <1>2 DEF CountWrite, Locked
  <2>2. writer' # "counted" /\ bg_lock' = FALSE
    BY <1>2 DEF CountWrite
  <2> QED BY <2>1, <2>2 DEF Locked, Under
<1>3. CASE Enter \/ Test \/ Sleep \/ SpuriousWakeup \/ UnlockAndPrompt \/ TryExit \/ SetWaiting \/ Send
  <2>1. UNCHANGED <<bg_ops_count, loaded, thread>> /\ writer # "counted" /\ writer' # "counted"
    BY <1>3 DEF Enter, Test, Sleep, SpuriousWakeup, UnlockAndPrompt, TryExit, SetWaiting, Send
  <2>2. CASE UnlockAndPrompt
    <3>1. bg_lock' = bg_lock
      BY <2>2 DEF UnlockAndPrompt, Typed
    <3> QED BY <2>1, <3>1, LockedKept
  <2>3. CASE ~UnlockAndPrompt
    <3>1. bg_lock' = bg_lock
      BY <1>3, <2>3 DEF Enter, Test, Sleep, SpuriousWakeup, TryExit, SetWaiting, Send
    <3> QED BY <2>1, <3>1, LockedKept
  <2> QED BY <2>2, <2>3
<1>4. CASE User
  <2>1. UNCHANGED <<bg_ops_count, loaded, bg_lock, thread>> /\ writer # "counted" /\ writer' # "counted"
    BY <1>4 DEF User, EndOfInput, EmptyLine, TypeExit, Type
  <2> QED BY <2>1, LockedKept
<1> QED BY <1>1, <1>2, <1>3, <1>4 DEF WriterStep

LEMMA ThreadLocked ==
  ASSUME Typed, Locked, NEW t \in Transfer, ThreadStep(t)
  PROVE  Locked'
<1> USE DEF Moves, flags, count, net, history
<1>1. CASE Connect(t) \/ Finish(t) \/ Sigpipe(t)
  <2>1. UNCHANGED <<bg_ops_count, loaded, bg_lock, writer>>
    BY <1>1 DEF Connect, Finish, Sigpipe
  <2>2. \A u \in Transfer :
           \/ thread'[u] = thread[u]
           \/ thread[u] \notin {"load", "store"} /\ thread'[u] \notin {"load", "store"}
    BY <1>1 DEF Connect, Finish, Sigpipe, Typed
  <2> QED BY <2>1, <2>2, LockedKept
<1>2. CASE TestCount(t)
  <2>1. UNCHANGED <<bg_ops_count, loaded, writer>> /\ ~bg_lock /\ thread[t] = "lock"
        /\ \A u \in Transfer : u # t => thread'[u] = thread[u]
    BY <1>2 DEF TestCount, Typed
  <2>2. writer # "counted" /\ \A u \in Transfer : ~Under(u)
    BY <2>1 DEF Locked
  <2>3. CASE bg_ops_count > 0
    <3>1. thread'[t] = "load" /\ bg_lock'
      BY <1>2, <2>3 DEF TestCount, Typed
    <3>2. \A u \in Transfer : (Under(u))' <=> u = t
      BY <2>1, <2>2, <3>1 DEF Under
    <3> QED BY <2>1, <2>2, <3>1, <3>2 DEF Locked, Under
  <2>4. CASE ~(bg_ops_count > 0)
    <3>1. thread'[t] = "gone" /\ bg_lock' = bg_lock
      BY <1>2, <2>4 DEF TestCount, Typed
    <3> QED BY <2>1, <3>1, LockedKept
  <2> QED BY <2>3, <2>4
<1>3. CASE ReadCount(t)
  <2>1. UNCHANGED <<bg_ops_count, bg_lock, writer>> /\ thread[t] = "load" /\ thread'[t] = "store"
        /\ \A u \in Transfer : u # t => thread'[u] = thread[u]
    BY <1>3 DEF ReadCount, Typed
  <2>2. loaded'[t] = bg_ops_count /\ loaded'[Writer] = loaded[Writer]
        /\ \A u \in Transfer : u # t => loaded'[u] = loaded[u]
    BY <1>3, ClientAssumption DEF ReadCount, Typed, Thread
  <2>3. \A u \in Transfer : (Under(u))' <=> Under(u)
    BY <2>1 DEF Under
  <2> QED BY <2>1, <2>2, <2>3 DEF Locked
<1>4. CASE WriteCount(t)
  <2>1. writer' = writer /\ bg_lock' = FALSE /\ thread[t] = "store" /\ thread'[t] = "gone"
        /\ \A u \in Transfer : u # t => thread'[u] = thread[u]
    BY <1>4 DEF WriteCount, Typed
  <2>2. writer # "counted" /\ \A u \in Transfer : Under(u) => u = t
    BY <2>1 DEF Locked, Under
  <2>3. \A u \in Transfer : ~(Under(u))'
    BY <2>1, <2>2 DEF Under
  <2> QED BY <2>1, <2>2, <2>3 DEF Locked, Under
<1> QED BY <1>1, <1>2, <1>3, <1>4 DEF ThreadStep

LEMMA OthersLocked ==
  ASSUME Typed, Ports, Locked, ReaderStep \/ MainStep \/ Server
  PROVE  Locked'
<1> USE DEF Turns, Woken, flags, count, net, history
<1>1. CASE Show
  <2>1. UNCHANGED <<bg_ops_count, loaded, bg_lock, writer>> /\ reader = "show"
    BY <1>1 DEF Show
  <2>2. \A u \in Transfer : thread'[u] = IF u = msg.port THEN "connect" ELSE thread[u]
    BY <1>1 DEF Show
  <2>3. \A u \in Transfer : u = msg.port => thread[u] = "none"
    BY <2>1, ClientAssumption DEF Ports
  <2> QED BY <2>1, <2>2, <2>3, LockedKept
<1>2. CASE ReaderStep /\ ~Show
  <2>1. UNCHANGED <<bg_ops_count, loaded, bg_lock, thread>> /\ (writer' = "counted" <=> writer = "counted")
    BY <1>2 DEF ReaderStep, Loop, Receive, HangUp, WakeWriter, Reset
  <2> QED BY <2>1, LockedKept
<1>3. CASE MainStep \/ Server
  <2>1. UNCHANGED <<bg_ops_count, loaded, bg_lock, thread, writer>>
    BY <1>3 DEF MainStep, CancelReader, Return, Server, Reply, Notify, Disconnect, Fork, Conclude
  <2> QED BY <2>1, LockedKept
<1> QED BY <1>1, <1>2, <1>3

-----------------------------------------------------------------------------
(***************************************************************************)
(* What the count covers.                                                  *)
(***************************************************************************)
LEMMA NoForegroundKept ==
  ASSUME Typed, NoForegroundTransfer, ~miscounted', Next
  PROVE  NoForegroundTransfer'
<1> USE DEF Goes, flags, count, net, history
<1>1. CASE Send
  <2>1. /\ toServer' = toServer \/ toServer' = Append(toServer, cmd)
        /\ cmd \in Commands /\ toServer \in Seq(Commands)
        /\ cmd' = "plain" /\ writer' = "top" /\ cmd # "transfer"
    BY <1>1 DEF Send, NoCommand, Typed, NoForegroundTransfer
  <2>2. \A i \in DOMAIN toServer' : toServer'[i] = cmd \/ (i \in DOMAIN toServer /\ toServer'[i] = toServer[i])
    BY <2>1, AppendOf
  <2> QED BY <2>1, <2>2 DEF NoForegroundTransfer
<1>2. CASE Reply \/ \E t \in Transfer : Fork(t)
  <2>1. UNCHANGED <<writer, cmd>> /\ toServer \in Seq(Commands) /\ toServer # <<>> /\ toServer' = Tail(toServer)
    BY <1>2 DEF Reply, Fork, Typed
  <2>2. \A i \in DOMAIN toServer' : i + 1 \in DOMAIN toServer /\ toServer'[i] = toServer[i + 1]
    BY <2>1, TailOf
  <2> QED BY <2>1, <2>2 DEF NoForegroundTransfer
<1>3. CASE Disconnect
  BY <1>3, EmptyQueue DEF Disconnect, NoForegroundTransfer
<1>4. ASSUME NEW c \in Commands, Type(c)
      PROVE  NoForegroundTransfer'
  BY <1>4 DEF Type, NoForegroundTransfer
<1>5. CASE /\ WriterStep /\ ~Send
  <2>1. UNCHANGED <<toServer, cmd>>
        /\ (writer' \in {"count", "counted"} => writer = "count")
    BY <1>5 DEF WriterStep, Enter, Test, Sleep, UnlockAndPrompt, TryExit, CountRead, CountWrite, SetWaiting
  <2> QED BY <2>1 DEF NoForegroundTransfer
<1>6. CASE ReaderStep \/ MainStep \/ SpuriousWakeup
  <2>1. UNCHANGED <<toServer, cmd>>
        /\ (writer' \in {"count", "counted"} => writer' = writer)
    BY <1>6 DEF ReaderStep, Loop, Receive, HangUp, WakeWriter, Show, Reset, MainStep, CancelReader,
         Return, SpuriousWakeup, Turns, Woken
  <2> QED BY <2>1 DEF NoForegroundTransfer
<1>7. CASE EndOfInput \/ EmptyLine \/ TypeExit \/ Notify \/ (\E t \in Transfer : ThreadStep(t) \/ Conclude(t))
  <2>1. UNCHANGED <<toServer, cmd>>
        /\ (writer' \in {"count", "counted"} => writer' = writer)
    BY <1>7 DEF EndOfInput, EmptyLine, TypeExit, Notify, ThreadStep, Connect, Finish, Sigpipe,
         TestCount, ReadCount, WriteCount, Conclude
  <2> QED BY <2>1 DEF NoForegroundTransfer
<1> QED BY <1>1, <1>2, <1>3, <1>4, <1>5, <1>6, <1>7 DEF Next, User, Server

LEMMA MarkedFinite ==
  ASSUME NEW s \in Seq(Commands)
  PROVE  IsFiniteSet(Marked(s)) /\ Cardinality(Marked(s)) \in Nat
<1>1. DOMAIN s = 1..Len(s) /\ Len(s) \in Nat
  OBVIOUS
<1>2. IsFiniteSet(DOMAIN s)
  BY <1>1, FS_Interval
<1>3. Marked(s) \in SUBSET (DOMAIN s)
  BY DEF Marked
<1> QED BY <1>2, <1>3, FS_Subset, FS_CardinalityType

LEMMA MarkedTail ==
  ASSUME NEW s \in Seq(Commands), s # <<>>
  PROVE  Cardinality(Marked(Tail(s))) =
           Cardinality(Marked(s)) - (IF IsBackground(Head(s)) THEN 1 ELSE 0)
<1> DEFINE M == Marked(s) \ {1}
           T == Marked(Tail(s))
           shift == [i \in T |-> i + 1]
<1>1. /\ Head(s) = s[1] /\ 1 \in DOMAIN s /\ Tail(s) \in Seq(Commands)
      /\ \A i \in DOMAIN Tail(s) :
           i \in Int /\ i + 1 \in DOMAIN s /\ i + 1 # 1 /\ Tail(s)[i] = s[i + 1]
      /\ \A j \in DOMAIN s : j # 1 => j \in Int /\ j - 1 \in DOMAIN Tail(s)
  BY TailOf
<1>2. \A i \in T : i \in Int /\ i + 1 \in M
  BY <1>1 DEF Marked
<1>3. \A j \in M : j \in Int /\ j - 1 \in T /\ (j - 1) + 1 = j
  BY <1>1 DEF Marked
<1>4. shift \in Bijection(T, M)
  <2>1. shift \in [T -> M]
    BY <1>2
  <2>2. \A a, b \in T : shift[a] = shift[b] => a = b
    BY <1>2
  <2>3. \A b \in M : \E a \in T : shift[a] = b
    BY <1>3
  <2> HIDE DEF shift, T, M
  <2>4. shift \in Injection(T, M)
    BY <2>1, <2>2 DEF Injection, IsInjective
  <2>5. shift \in Surjection(T, M)
    BY <2>1, <2>3 DEF Surjection
  <2> QED BY <2>4, <2>5 DEF Bijection
<1> HIDE DEF shift
<1>5. ExistsBijection(T, M)
  BY <1>4 DEF ExistsBijection
<1>6. IsFiniteSet(T) /\ IsFiniteSet(Marked(s)) /\ Cardinality(Marked(s)) \in Nat
  BY <1>1, MarkedFinite
<1>7. Cardinality(M) = Cardinality(T)
  BY <1>5, <1>6, FS_Bijection
<1>8. Cardinality(M) = IF 1 \in Marked(s) THEN Cardinality(Marked(s)) - 1 ELSE Cardinality(Marked(s))
  BY <1>6, FS_RemoveElement
<1>9. 1 \in Marked(s) <=> IsBackground(Head(s))
  BY <1>1 DEF Marked
<1> QED BY <1>6, <1>7, <1>8, <1>9

LEMMA MarkedAppend ==
  ASSUME NEW s \in Seq(Commands), NEW c \in Commands
  PROVE  Cardinality(Marked(Append(s, c))) =
           Cardinality(Marked(s)) + (IF IsBackground(c) THEN 1 ELSE 0)
<1> DEFINE n == Len(s) + 1
<1>1. /\ DOMAIN Append(s, c) = DOMAIN s \cup {n} /\ n \notin DOMAIN s
      /\ Append(s, c)[n] = c
      /\ \A i \in DOMAIN s : Append(s, c)[i] = s[i]
  BY AppendOf
<1> HIDE DEF n
<1>2. Marked(Append(s, c)) = IF IsBackground(c) THEN Marked(s) \cup {n} ELSE Marked(s)
  BY <1>1 DEF Marked
<1>3. n \notin Marked(s)
  BY <1>1 DEF Marked
<1>4. IsFiniteSet(Marked(s)) /\ Cardinality(Marked(s)) \in Nat
  BY MarkedFinite
<1>5. Cardinality(Marked(s) \cup {n}) = Cardinality(Marked(s)) + 1
  BY <1>3, <1>4, FS_AddElement
<1> QED BY <1>2, <1>4, <1>5

LEMMA UnderWayFinite ==
  IsFiniteSet(PortsUnderWay) /\ Cardinality(PortsUnderWay) \in Nat
<1>1. PortsUnderWay \in SUBSET Transfer
  BY DEF PortsUnderWay
<1> QED BY <1>1, ClientAssumption, FS_Subset, FS_CardinalityType

LEMMA FewerUnderWay ==
  ASSUME NEW S \in SUBSET PortsUnderWay
  PROVE  IsFiniteSet(S) /\ Cardinality(S) \in Nat /\ Cardinality(S) <= Cardinality(PortsUnderWay)
BY UnderWayFinite, FS_Subset, FS_CardinalityType

(* Nothing more is under way and nothing more in hand.                     *)
LEMMA CoveredKept ==
  ASSUME Typed, Covered, bg_ops_count' = bg_ops_count, toServer' = toServer,
         PortsUnderWay' \subseteq PortsUnderWay, InHand' <= InHand
  PROVE  Covered'
<1>1. Cardinality(PortsUnderWay') <= Cardinality(PortsUnderWay)
      /\ Cardinality(PortsUnderWay') \in Nat /\ Cardinality(PortsUnderWay) \in Nat
  BY FewerUnderWay, UnderWayFinite
<1>2. Cardinality(Marked(toServer)) \in Nat /\ Marked(toServer)' = Marked(toServer)
  BY MarkedFinite DEF Typed, Marked
<1>3. InHand \in Nat /\ InHand' \in Nat /\ bg_ops_count \in Int
  BY DEF InHand, Typed
<1> QED BY <1>1, <1>2, <1>3 DEF Covered

LEMMA SameUnderWay ==
  ASSUME UNCHANGED <<toClient, msg, thread>>, reader' = "show" => reader = "show"
  PROVE  PortsUnderWay' \subseteq PortsUnderWay
BY DEF PortsUnderWay

LEMMA WriterCovered ==
  ASSUME Typed, Locked, NoForegroundTransfer, Covered, WriterStep \/ User \/ SpuriousWakeup
  PROVE  Covered'
<1> USE DEF Goes, flags, count, net, history
<1>1. CASE CountWrite
  <2>1. bg_ops_count' = bg_ops_count + 1 /\ InHand = 0 /\ InHand' \in {0, 1}
        /\ toServer' = toServer /\ PortsUnderWay' = PortsUnderWay /\ bg_ops_count \in Int
    BY <1>1 DEF CountWrite, Locked, InHand, PortsUnderWay, Typed
  <2>2. Cardinality(Marked(toServer)) \in Nat /\ Marked(toServer)' = Marked(toServer)
    BY <2>1, MarkedFinite DEF Typed, Marked
  <2> QED BY <2>1, <2>2, UnderWayFinite DEF Covered
<1>2. CASE Send
  <2>1. bg_ops_count' = bg_ops_count /\ InHand' = 0 /\ InHand = (IF IsBackground(cmd) THEN 1 ELSE 0)
        /\ PortsUnderWay' = PortsUnderWay /\ bg_ops_count \in Int
    BY <1>2 DEF Send, InHand, PortsUnderWay, Typed
  <2>2. cmd \in Commands /\ toServer \in Seq(Commands) /\ toServer' \in {toServer, Append(toServer, cmd)}
    BY <1>2 DEF Send, Typed
  <2>3. Cardinality(Marked(toServer)) \in Nat
    BY <2>2, MarkedFinite
  <2>4. \/ Cardinality(Marked(toServer')) = Cardinality(Marked(toServer)) + InHand
        \/ Cardinality(Marked(toServer')) = Cardinality(Marked(toServer))
    BY <2>1, <2>2, MarkedAppend
  <2>5. Marked(toServer)' = Marked(toServer')
    BY DEF Marked
  <2> QED BY <2>1, <2>3, <2>4, <2>5, UnderWayFinite DEF Covered
<1>3. ASSUME NEW c \in Commands, Type(c)
      PROVE  Covered'
  <2>1. bg_ops_count' = bg_ops_count /\ toServer' = toServer /\ InHand = 0 /\ InHand' = 0
        /\ UNCHANGED <<toClient, msg, thread, reader>>
    BY <1>3 DEF Type, InHand
  <2> QED BY <2>1, CoveredKept, SameUnderWay
<1>4. CASE Enter \/ Test \/ Sleep \/ SpuriousWakeup \/ UnlockAndPrompt \/ TryExit \/ CountRead \/ SetWaiting
  <2>1. UNCHANGED <<bg_ops_count, toServer, toClient, msg, thread, reader>> /\ InHand' = InHand
    BY <1>4 DEF Enter, Test, Sleep, SpuriousWakeup, UnlockAndPrompt, TryExit, CountRead, SetWaiting, InHand
  <2>2. InHand \in Nat
    BY DEF InHand
  <2> QED BY <2>1, <2>2, CoveredKept, SameUnderWay
<1>5. CASE EndOfInput \/ EmptyLine \/ TypeExit
  <2>1. UNCHANGED <<bg_ops_count, toServer, toClient, msg, thread, reader>> /\ InHand' = 0 /\ InHand = 0
    BY <1>5 DEF EndOfInput, EmptyLine, TypeExit, InHand
  <2> QED BY <2>1, CoveredKept, SameUnderWay
<1> QED BY <1>1, <1>2, <1>3, <1>4, <1>5 DEF WriterStep, User

LEMMA ReaderCovered ==
  ASSUME Typed, Ports, Covered, ReaderStep \/ MainStep
  PROVE  Covered'
<1> USE DEF Turns, flags, count, net, history
<1>1. UNCHANGED <<bg_ops_count, toServer, cmd>> /\ (writer' \in {"set", "send"} => writer' = writer)
  BY DEF ReaderStep, Loop, Receive, HangUp, WakeWriter, Show, Reset, MainStep, CancelReader, Return, Woken
<1>2. InHand' <= InHand
  BY <1>1 DEF InHand
<1>3. PortsUnderWay' \subseteq PortsUnderWay
  <2>1. CASE Receive
    <3>1. toClient \in Seq(Message) /\ toClient # <<>>
      BY <2>1 DEF Typed, Receive
    <3>2. msg' = toClient[1] /\ 1 \in DOMAIN toClient
      BY <2>1, <3>1, TailOf DEF Receive
    <3>3. \A i \in DOMAIN toClient' : i + 1 \in DOMAIN toClient /\ toClient'[i] = toClient[i + 1]
      BY <2>1, <3>1, TailOf DEF Receive
    <3> QED BY <2>1, <3>2, <3>3 DEF Receive, PortsUnderWay
  <2>2. CASE Show
    <3>1. reader = "show" /\ reader' # "show" /\ toClient' = toClient
          /\ \A t \in Transfer : thread'[t] = IF t = msg.port THEN "connect" ELSE thread[t]
      BY <2>2 DEF Show
    <3> QED BY <3>1 DEF PortsUnderWay
  <2>3. CASE Loop \/ HangUp \/ WakeWriter \/ Reset \/ MainStep
    <3>1. UNCHANGED <<toClient, thread>> /\ (reader' = "show" => reader = "show" /\ msg' = msg)
      BY <2>3 DEF Loop, HangUp, WakeWriter, Reset, MainStep, CancelReader, Return
    <3> QED BY <3>1 DEF PortsUnderWay
  <2> QED BY <2>1, <2>2, <2>3 DEF ReaderStep
<1> QED BY <1>1, <1>2, <1>3, CoveredKept

LEMMA ThreadCovered ==
  ASSUME Typed, Ports, Locked, Covered, NEW t \in Transfer, ThreadStep(t)
  PROVE  Covered'
<1> USE DEF Moves, flags, count, net, history
<1>1. UNCHANGED <<toServer, toClient, msg, reader, cmd, writer>>
      /\ \A u \in Transfer : u # t => thread'[u] = thread[u]
  BY DEF ThreadStep, Connect, Finish, Sigpipe, TestCount, ReadCount, WriteCount, Typed
<1>2. InHand' = InHand /\ InHand \in Nat
  BY <1>1 DEF InHand
<1>3. CASE WriteCount(t)
  <2>1. thread[t] = "store" /\ thread'[t] = "gone" /\ bg_ops_count' = bg_ops_count - 1
    BY <1>3 DEF WriteCount, Typed, Locked
  <2>2. t \in PortsUnderWay
    BY <2>1 DEF PortsUnderWay
  <2>3. t # NoPort /\ (\A i \in DOMAIN toClient : toClient[i].port # t)
        /\ ~(reader = "show" /\ msg.port = t)
    BY <2>1, ClientAssumption DEF Ports
  <2>4. PortsUnderWay' = PortsUnderWay \ {t}
    BY <1>1, <2>1, <2>3 DEF PortsUnderWay
  <2>5. Cardinality(PortsUnderWay') = Cardinality(PortsUnderWay) - 1
    BY <2>2, <2>4, UnderWayFinite, FS_RemoveElement
  <2>6. Cardinality(Marked(toServer)) \in Nat /\ Marked(toServer)' = Marked(toServer) /\ bg_ops_count \in Int
    BY <1>1, MarkedFinite DEF Typed, Marked
  <2> QED BY <1>2, <2>1, <2>5, <2>6, UnderWayFinite DEF Covered
<1>4. CASE ~WriteCount(t)
  <2>1. bg_ops_count' = bg_ops_count /\ thread[t] \notin {"none", "gone"}
    BY <1>4 DEF ThreadStep, Connect, Finish, Sigpipe, TestCount, ReadCount
  <2>2. PortsUnderWay' \subseteq PortsUnderWay
    BY <1>1, <2>1 DEF PortsUnderWay
  <2> QED BY <1>1, <1>2, <2>1, <2>2, CoveredKept
<1> QED BY <1>3, <1>4

(* A text adds nothing.                                                    *)
LEMMA TextCovers ==
  ASSUME Typed, NEW m \in Message, m.port = NoPort, UNCHANGED <<msg, thread, reader>>,
         toClient' = toClient \/ toClient' = Append(toClient, m)
  PROVE  PortsUnderWay' \subseteq PortsUnderWay
<1>1. \A i \in DOMAIN toClient' : toClient'[i].port = NoPort \/
                                    (i \in DOMAIN toClient /\ toClient'[i] = toClient[i])
  BY AppendOf DEF Typed
<1> QED BY <1>1, ClientAssumption DEF PortsUnderWay

LEMMA ServerCovered ==
  ASSUME Typed, NoForegroundTransfer, Covered, Server
  PROVE  Covered'
<1> USE DEF Room, flags, count, net, history
<1>1. UNCHANGED <<bg_ops_count, msg, thread, reader, cmd, writer>> /\ bg_ops_count \in Int
  BY DEF Server, Reply, Notify, Disconnect, Fork, Conclude, Typed
<1>2. InHand' = InHand /\ InHand \in Nat
  BY <1>1 DEF InHand
<1>3. Cardinality(Marked(toServer)) \in Nat /\ Marked(toServer)' = Marked(toServer')
  BY MarkedFinite DEF Typed, Marked
<1>4. CASE Reply
  <2>1. toServer \in Seq(Commands) /\ toServer # <<>> /\ toServer' = Tail(toServer) /\ Head(toServer) \in Commands
    BY <1>4, TailOf DEF Reply, Typed
  <2>2. Cardinality(Marked(toServer')) <= Cardinality(Marked(toServer))
        /\ Cardinality(Marked(toServer')) \in Int
    BY <1>3, <2>1, MarkedTail
  <2>3. PortsUnderWay' \subseteq PortsUnderWay
    BY <1>1, <1>4, <2>1, TextCovers, MadeWell, MessagesTyped DEF Reply
  <2>4. Cardinality(PortsUnderWay') <= Cardinality(PortsUnderWay)
        /\ Cardinality(PortsUnderWay') \in Nat /\ Cardinality(PortsUnderWay) \in Nat
    BY <2>3, FewerUnderWay, UnderWayFinite
  <2> QED BY <1>1, <1>2, <1>3, <2>2, <2>4 DEF Covered
<1>5. ASSUME NEW t \in Transfer, Fork(t)
      PROVE  Covered'
  <2> DEFINE c == Head(toServer)
  <2>1. toServer \in Seq(Commands) /\ toServer # <<>> /\ toServer' = Tail(toServer) /\ c \in Commands
        /\ c = toServer[1] /\ 1 \in DOMAIN toServer /\ IsTransfer(c)
    BY <1>5, TailOf DEF Fork, Typed
  <2>2. IsBackground(c)
    BY <2>1 DEF NoForegroundTransfer, IsTransfer, IsBackground
  <2>3. Cardinality(Marked(toServer')) = Cardinality(Marked(toServer)) - 1
    BY <2>1, <2>2, MarkedTail DEF IsBackground
  <2>4. toClient' = Append(toClient, Port(c, t)) /\ toClient \in Seq(Message)
        /\ Port(c, t) \in Message /\ Port(c, t).port = t
    BY <1>5, <2>1, MadeWell, MessagesTyped DEF Fork, Typed
  <2>5. \A i \in DOMAIN toClient' : toClient'[i].port = t \/
                                    (i \in DOMAIN toClient /\ toClient'[i] = toClient[i])
    BY <2>4, AppendOf
  <2>6. PortsUnderWay' \subseteq PortsUnderWay \cup {t}
    BY <1>1, <2>5 DEF PortsUnderWay
  <2>7. IsFiniteSet(PortsUnderWay \cup {t})
        /\ Cardinality(PortsUnderWay \cup {t}) <= Cardinality(PortsUnderWay) + 1
        /\ Cardinality(PortsUnderWay \cup {t}) \in Nat
    <3>1. IsFiniteSet(PortsUnderWay) /\ Cardinality(PortsUnderWay) \in Nat
      BY UnderWayFinite
    <3>2. IsFiniteSet(PortsUnderWay \cup {t})
      BY <3>1, FS_AddElement
    <3>3. Cardinality(PortsUnderWay \cup {t}) =
            IF t \in PortsUnderWay THEN Cardinality(PortsUnderWay) ELSE Cardinality(PortsUnderWay) + 1
      BY <3>1, FS_AddElement
    <3> QED BY <3>1, <3>2, <3>3
  <2>8. Cardinality(PortsUnderWay') <= Cardinality(PortsUnderWay \cup {t})
        /\ Cardinality(PortsUnderWay') \in Nat
    BY <2>6, <2>7, FS_Subset, FS_CardinalityType
  <2> QED BY <1>1, <1>2, <1>3, <2>3, <2>7, <2>8, UnderWayFinite DEF Covered
<1>6. CASE Notify
  <2>1. PortsUnderWay' \subseteq PortsUnderWay /\ toServer' = toServer
    BY <1>1, <1>6, TextCovers, MadeWell, MessagesTyped DEF Notify
  <2> QED BY <1>1, <1>2, <2>1, CoveredKept
<1>7. CASE Disconnect
  <2>1. PortsUnderWay' = PortsUnderWay /\ Marked(toServer') = {}
    BY <1>1, <1>7, EmptyQueue DEF Disconnect, PortsUnderWay, Marked
  <2>2. Cardinality(Marked(toServer')) = 0
    BY <2>1, FS_EmptySet
  <2> QED BY <1>1, <1>2, <1>3, <2>1, <2>2, UnderWayFinite DEF Covered
<1>8. ASSUME NEW t \in Transfer, Conclude(t)
      PROVE  Covered'
  <2>1. child[t].for \in Commands
    BY DEF Typed, Child
  <2>2. PortsUnderWay' \subseteq PortsUnderWay /\ toServer' = toServer
    BY <1>1, <1>8, <2>1, TextCovers, MadeWell, MessagesTyped DEF Conclude
  <2> QED BY <1>1, <1>2, <2>2, CoveredKept
<1> QED BY <1>4, <1>5, <1>6, <1>7, <1>8 DEF Server

LEMMA CountKept ==
  ASSUME Typed, Ports, CountInv, Next
  PROVE  CountInv'
<1> SUFFICES ASSUME ~miscounted'
             PROVE  Locked' /\ NoForegroundTransfer' /\ Covered'
  BY DEF CountInv
<1>1. ~miscounted
  BY DEF Next, WriterStep, Enter, Test, Sleep, UnlockAndPrompt, TryExit, CountRead, CountWrite,
     SetWaiting, Send, SpuriousWakeup, User, EndOfInput, EmptyLine, TypeExit, Type, ReaderStep,
     Loop, Receive, HangUp, WakeWriter, Show, Reset, MainStep, CancelReader, Return, Server,
     Reply, Notify, Disconnect, Fork, Conclude, ThreadStep, Connect, Finish, Sigpipe, TestCount,
     ReadCount, WriteCount, history, Typed
<1>2. Locked /\ NoForegroundTransfer /\ Covered
  BY <1>1 DEF CountInv
<1>3. Locked'
  BY <1>2, WriterLocked, ThreadLocked, OthersLocked DEF Next
<1>4. NoForegroundTransfer'
  BY <1>2, NoForegroundKept
<1>5. Covered'
  BY <1>2, WriterCovered, ReaderCovered, ThreadCovered, ServerCovered DEF Next
<1> QED BY <1>3, <1>4, <1>5

-----------------------------------------------------------------------------
(***************************************************************************)
(* The foreground command and its answer.                                  *)
(***************************************************************************)
Kept == Honest /\ OneForeground /\ (SomeForeground => Waits)

LEMMA PlacesKept ==
  ASSUME OneForeground, Shown' => Shown,
         DOMAIN toServer' = DOMAIN toServer, DOMAIN toClient' = DOMAIN toClient,
         \A i \in DOMAIN toServer : (InQueue(i))' <=> InQueue(i),
         \A i \in DOMAIN toClient : (Arriving(i))' <=> Arriving(i),
         \A t \in Transfer : (Served(t))' <=> Served(t)
  PROVE  OneForeground' /\ (SomeForeground' => SomeForeground)
<1>1. OneForeground'
  BY DEF OneForeground
<1>2. SomeForeground' => SomeForeground
  BY DEF SomeForeground
<1> QED BY <1>1, <1>2

LEMMA NothingMoves ==
  ASSUME OneForeground, Shown' => Shown, UNCHANGED <<toServer, toClient, child>>
  PROVE  OneForeground' /\ (SomeForeground' => SomeForeground)
<1>1. \A i \in DOMAIN toServer : (InQueue(i))' <=> InQueue(i)
  BY DEF InQueue
<1>2. \A i \in DOMAIN toClient : (Arriving(i))' <=> Arriving(i)
  BY DEF Arriving
<1>3. \A t \in Transfer : (Served(t))' <=> Served(t)
  BY DEF Served
<1> QED BY <1>1, <1>2, <1>3, PlacesKept

LEMMA WriterForeground ==
  ASSUME Typed, Kept, open, ~misused', WriterStep \/ User \/ SpuriousWakeup
  PROVE  Kept'
<1> USE DEF Kept, Goes, flags, count, net, history
<1>1. CASE Send
  <2> DEFINE n == Len(toServer) + 1
  <2>1. ~SomeForeground
    BY <1>1 DEF Send, Waits
  <2>2. /\ toServer' = Append(toServer, cmd) /\ toServer \in Seq(Commands) /\ cmd \in Commands
        /\ UNCHANGED <<toClient, child, reader, msg, waiting_for_response>>
        /\ writer' = "top" /\ cmd' = "plain" /\ writer = "send"
    BY <1>1 DEF Send, Typed, NoCommand
  <2>3. /\ DOMAIN toServer' = DOMAIN toServer \cup {n} /\ n \notin DOMAIN toServer
        /\ toServer'[n] = cmd /\ \A i \in DOMAIN toServer : toServer'[i] = toServer[i]
    BY <2>2, AppendOf
  <2> HIDE DEF n
  <2>4. \A i \in DOMAIN toServer' : (InQueue(i))' <=> i = n /\ cmd \in Foreground
    BY <2>1, <2>3 DEF SomeForeground, InQueue
  <2>5. \A i \in DOMAIN toClient' : ~(Arriving(i))'
    BY <2>1, <2>2 DEF SomeForeground, Arriving
  <2>6. (\A t \in Transfer : ~(Served(t))') /\ ~Shown'
    BY <2>1, <2>2 DEF SomeForeground, Served, Shown
  <2>7. OneForeground'
    BY <2>4, <2>5, <2>6 DEF OneForeground
  <2>8. Honest'
    BY <2>2, <2>3 DEF Honest, Misread
  <2>9. SomeForeground' => Waits'
    <3>1. SomeForeground' => cmd \in Foreground
      BY <2>4, <2>5, <2>6 DEF SomeForeground
    <3>2. cmd \in Foreground => waiting_for_response
      BY <2>2 DEF Honest, Foreground, IsBackground
    <3> QED BY <2>2, <3>1, <3>2 DEF Waits
  <2> QED BY <2>7, <2>8, <2>9
<1>2. CASE ~Send
  <2>1. UNCHANGED <<toServer, toClient, child, reader, msg>>
    BY <1>2 DEF WriterStep, Enter, Test, Sleep, UnlockAndPrompt, TryExit, CountRead, CountWrite,
       SetWaiting, SpuriousWakeup, User, EndOfInput, EmptyLine, TypeExit, Type
  <2>2. Shown' <=> Shown
    BY <2>1 DEF Shown
  <2>3. OneForeground' /\ (SomeForeground' => SomeForeground)
    BY <2>1, <2>2, NothingMoves
  <2>4. Waits => Waits'
    <3>1. CASE Enter \/ Test \/ Sleep \/ SpuriousWakeup \/ UnlockAndPrompt
      BY <3>1 DEF Enter, Test, Sleep, SpuriousWakeup, UnlockAndPrompt, Waits
    <3>2. CASE TryExit \/ CountRead \/ CountWrite \/ SetWaiting \/ User
      BY <3>2 DEF TryExit, CountRead, CountWrite, SetWaiting, User, EndOfInput, EmptyLine, TypeExit, Type, Waits
    <3> QED BY <1>2, <3>1, <3>2 DEF WriterStep
  <2>5. Honest'
    <3>1. CASE User
      <4>1. cmd' \notin Misread /\ writer' # "send"
        BY <3>1 DEF User, EndOfInput, EmptyLine, TypeExit, Type, Honest, Misread,
           IsBackground, InBackground, Commands
      <4> QED BY <2>1, <4>1 DEF Honest
    <3>2. CASE ~User
      <4>1. cmd' = cmd /\ (writer' = "send" => (waiting_for_response' <=> ~IsBackground(cmd)))
        BY <1>2, <3>2 DEF WriterStep, Enter, Test, Sleep, UnlockAndPrompt, TryExit, CountRead, CountWrite,
           SetWaiting, SpuriousWakeup, IsBackground
      <4> QED BY <2>1, <4>1 DEF Honest
    <3> QED BY <3>1, <3>2
  <2> QED BY <2>3, <2>4, <2>5
<1> QED BY <1>1, <1>2

LEMMA ReaderForeground ==
  ASSUME Typed, Ports, Kept, open, ReaderStep \/ MainStep
  PROVE  Kept'
<1> USE DEF Kept, Turns, Woken, flags, count, net, history
<1>1. CASE Receive
  <2>1. toClient \in Seq(Message) /\ toClient # <<>>
    BY <1>1 DEF Typed, Receive
  <2>2. msg' = toClient[1] /\ 1 \in DOMAIN toClient
    BY <1>1, <2>1, TailOf DEF Receive
  <2>3. \A i \in DOMAIN toClient' :
          i \in Int /\ i + 1 \in DOMAIN toClient /\ i + 1 # 1 /\ toClient'[i] = toClient[i + 1]
    BY <1>1, <2>1, TailOf DEF Receive
  <2>4. UNCHANGED <<toServer, child, writer, cmd, waiting_for_response, should_exit>>
        /\ reader = "read" /\ reader' = "show"
    BY <1>1 DEF Receive
  <2>5. ~Shown /\ (Shown' <=> Arriving(1))
    BY <2>2, <2>4 DEF Shown, Arriving
  <2>6. \A i \in DOMAIN toClient' : (Arriving(i))' <=> Arriving(i + 1)
    BY <2>3 DEF Arriving
  <2>7. (\A t \in Transfer : (Served(t))' <=> Served(t)) /\ Waits' = Waits
        /\ \A i \in DOMAIN toServer : (InQueue(i))' <=> InQueue(i)
    BY <2>4 DEF Served, InQueue, Waits
  <2>8. SomeForeground' => SomeForeground
    BY <2>2, <2>3, <2>4, <2>5, <2>6, <2>7 DEF SomeForeground
  <2>9. OneForeground'
    <3>1. \A i, j \in DOMAIN toClient' : (Arriving(i))' /\ (Arriving(j))' => i = j
      <4> SUFFICES ASSUME NEW i \in DOMAIN toClient', NEW j \in DOMAIN toClient',
                          (Arriving(i))', (Arriving(j))'
                   PROVE  i = j
        OBVIOUS
      <4>1. i + 1 = j + 1
        BY <2>3, <2>6 DEF OneForeground
      <4> QED BY <2>3, <4>1
    <3>2. Shown' => \A i \in DOMAIN toClient' : ~(Arriving(i))'
      BY <2>2, <2>3, <2>5, <2>6 DEF OneForeground
    <3>3. \A i \in DOMAIN toClient' : (Arriving(i))' => \A t \in Transfer : ~Served(t)
      BY <2>3, <2>6 DEF OneForeground
    <3>4. \A i \in DOMAIN toServer : InQueue(i) => ~Shown' /\ \A j \in DOMAIN toClient' : ~(Arriving(j))'
      BY <2>2, <2>3, <2>5, <2>6 DEF OneForeground
    <3>5. Shown' => \A t \in Transfer : ~Served(t)
      BY <2>2, <2>5 DEF OneForeground
    <3> QED BY <2>4, <2>7, <3>1, <3>2, <3>3, <3>4, <3>5 DEF OneForeground
  <2>10. Honest'
    BY <2>2, <2>3, <2>4 DEF Honest
  <2> QED BY <2>7, <2>8, <2>9, <2>10
<1>2. CASE Reset
  <2>1. /\ reader = "reset" /\ reader' = "loop" /\ msg' = Notification /\ waiting_for_response' = FALSE
        /\ UNCHANGED <<toServer, toClient, child, cmd>>
        /\ writer' = Woken(writer)
    BY <1>2 DEF Reset, NoMessage
  <2>2. msg.type = "TEXT" /\ msg.of \in Foreground
    <3>1. msg.type = "TEXT" /\ ~msg.is_background /\ WellMade(msg) /\ msg.of \notin Misread
      BY <2>1 DEF Ports, Honest
    <3>2. msg.of \in Commands \cup {"none"}
      BY DEF Typed, Message
    <3> QED BY <3>1, <3>2 DEF WellMade, InBackground, Commands, Foreground, Misread
  <2>3. Shown
    BY <2>1, <2>2 DEF Shown
  <2>4. ~Shown'
    BY <2>1 DEF Shown
  <2>5. \A i \in DOMAIN toServer' : ~(InQueue(i))'
    BY <2>1, <2>3 DEF OneForeground, InQueue
  <2>6. \A i \in DOMAIN toClient' : ~(Arriving(i))'
    BY <2>1, <2>3 DEF OneForeground, Arriving
  <2>7. \A t \in Transfer : ~(Served(t))'
    BY <2>1, <2>3 DEF OneForeground, Served
  <2>8. ~SomeForeground' /\ OneForeground'
    BY <2>4, <2>5, <2>6, <2>7 DEF SomeForeground, OneForeground
  <2>9. writer' # "send"
    BY <2>1, <2>3 DEF SomeForeground, Waits
  <2>10. Honest'
    BY <2>1, <2>9, MadeWell DEF Honest, Misread
  <2> QED BY <2>8, <2>10
<1>3. CASE HangUp
  BY <1>3 DEF HangUp
<1>4. CASE Show
  <2>1. /\ UNCHANGED <<toServer, toClient, child, writer, cmd, waiting_for_response, should_exit>>
        /\ reader = "show" /\ reader' \in {"loop", "reset"}
        /\ msg' = IF reader' = "reset" THEN msg ELSE Notification
    BY <1>4 DEF Show, NoMessage
  <2>2. Shown' => Shown
    BY <2>1 DEF Shown
  <2>3. msg'.of \notin Misread
    BY <2>1, MadeWell DEF Honest, Misread
  <2>4. OneForeground' /\ (SomeForeground' => SomeForeground)
    BY <2>1, <2>2, NothingMoves
  <2>5. Waits' = Waits /\ Honest'
    BY <2>1, <2>3 DEF Waits, Honest
  <2> QED BY <2>4, <2>5
<1>5. CASE Loop \/ WakeWriter \/ MainStep
  <2>1. UNCHANGED <<toServer, toClient, child, cmd, waiting_for_response, should_exit>>
        /\ (msg' = msg \/ msg' = Notification)
        /\ (reader' \notin {"show", "reset"} \/ (reader' = reader /\ msg' = msg))
        /\ (writer' = writer \/ (writer = "asleep" /\ writer' = "test"))
    BY <1>5 DEF Loop, WakeWriter, MainStep, CancelReader, Return, NoMessage
  <2>2. Shown' => Shown
    BY <2>1 DEF Shown
  <2>3. msg'.of \notin Misread
    BY <2>1, MadeWell DEF Honest, Misread
  <2>4. OneForeground' /\ (SomeForeground' => SomeForeground)
    BY <2>1, <2>2, NothingMoves
  <2>5. (Waits => Waits') /\ Honest'
    BY <2>1, <2>3 DEF Waits, Honest
  <2> QED BY <2>4, <2>5
<1> QED BY <1>1, <1>2, <1>3, <1>4, <1>5 DEF ReaderStep

LEMMA ThreadForeground ==
  ASSUME Typed, Kept, NEW t \in Transfer, ThreadStep(t)
  PROVE  Kept'
<1> USE DEF Kept, Moves, flags, count, net, history
<1>1. UNCHANGED <<toServer, toClient, reader, msg, writer, cmd, waiting_for_response, should_exit>>
  BY DEF ThreadStep, Connect, Finish, Sigpipe, TestCount, ReadCount, WriteCount
<1>2. \A u \in Transfer : (Served(u))' <=> Served(u)
  <2>1. CASE Connect(t)
    <3>1. CASE child' = [child EXCEPT ![t].at = "serve"] /\ child[t].at = "accept"
      <4>1. child'[t].at = "serve" /\ child'[t].for = child[t].for
            /\ \A u \in Transfer : u # t => child'[u] = child[u]
        BY <3>1 DEF Typed, Child
      <4> QED BY <3>1, <4>1 DEF Served
    <3>2. CASE UNCHANGED child
      BY <3>2 DEF Served
    <3> QED BY <2>1, <3>1, <3>2 DEF Connect
  <2>2. CASE ~Connect(t)
    <3>1. child' = child
      BY <2>2 DEF ThreadStep, Finish, Sigpipe, TestCount, ReadCount, WriteCount
    <3> QED BY <3>1 DEF Served
  <2> QED BY <2>1, <2>2
<1>3. /\ \A i \in DOMAIN toServer : (InQueue(i))' <=> InQueue(i)
      /\ \A i \in DOMAIN toClient : (Arriving(i))' <=> Arriving(i)
      /\ Shown' <=> Shown
  BY <1>1 DEF InQueue, Arriving, Shown
<1>4. OneForeground' /\ (SomeForeground' => SomeForeground)
  BY <1>1, <1>2, <1>3, PlacesKept
<1>5. \A u \in Transfer : child'[u].for = child[u].for
  BY DEF ThreadStep, Connect, Finish, Sigpipe, TestCount, ReadCount, WriteCount, Typed, Child
<1>6. Waits' = Waits /\ Honest'
  BY <1>1, <1>5 DEF Waits, Honest
<1> QED BY <1>4, <1>6

(* A text goes into the queue behind the others.                           *)
LEMMA QueueGrows ==
  ASSUME Typed, NEW m \in Message, toClient' = Append(toClient, m)
  PROVE  LET n == Len(toClient) + 1 IN
         /\ DOMAIN toClient' = DOMAIN toClient \cup {n} /\ n \notin DOMAIN toClient
         /\ toClient'[n] = m
         /\ \A i \in DOMAIN toClient : toClient'[i] = toClient[i] /\ ((Arriving(i))' <=> Arriving(i))
         /\ \A k : k = n => ((Arriving(k))' <=> m.type = "TEXT" /\ m.of \in Foreground)
<1> DEFINE n == Len(toClient) + 1
<1>1. /\ DOMAIN toClient' = DOMAIN toClient \cup {n} /\ n \notin DOMAIN toClient
      /\ toClient'[n] = m /\ \A i \in DOMAIN toClient : toClient'[i] = toClient[i]
  BY AppendOf DEF Typed
<1> HIDE DEF n
<1>2. \A k : k = n => toClient'[k] = m
  BY <1>1
<1>3. \A k : k = n => ((Arriving(k))' <=> m.type = "TEXT" /\ m.of \in Foreground)
  BY <1>2 DEF Arriving
<1>4. \A i \in DOMAIN toClient : (Arriving(i))' <=> Arriving(i)
  BY <1>1 DEF Arriving
<1> QED BY <1>1, <1>3, <1>4 DEF n

LEMMA ServerForeground ==
  ASSUME Typed, Ports, Kept, open', Server
  PROVE  Kept'
<1> USE DEF Kept, Room, flags, count, net, history
<1>1. UNCHANGED <<msg, reader, cmd, writer, waiting_for_response, should_exit>>
  BY DEF Server, Reply, Notify, Disconnect, Fork, Conclude
<1>2. Waits' = Waits /\ (Shown' <=> Shown)
  BY <1>1 DEF Waits, Shown
<1>3. CASE Reply \/ \E t \in Transfer : Fork(t)
  <2> DEFINE c == Head(toServer)
  <2>1. toServer \in Seq(Commands) /\ toServer # <<>> /\ toServer' = Tail(toServer)
    BY <1>3 DEF Reply, Fork, Typed
  <2>2. c \in Commands /\ c = toServer[1] /\ 1 \in DOMAIN toServer
    BY <2>1, TailOf
  <2>3. \A i \in DOMAIN toServer' :
          i \in Int /\ i + 1 \in DOMAIN toServer /\ i + 1 # 1 /\ toServer'[i] = toServer[i + 1]
    BY <2>1, TailOf
  <2>4. \A i \in DOMAIN toServer' : (InQueue(i))' <=> InQueue(i + 1)
    BY <2>3 DEF InQueue
  <2>5. InQueue(1) <=> c \in Foreground
    BY <2>2 DEF InQueue
  <2>6. c \notin Misread /\ \A i \in DOMAIN toServer' : toServer'[i] \notin Misread
    BY <2>2, <2>3 DEF Honest
  <2>7. \A i, j \in DOMAIN toServer' : (InQueue(i))' /\ (InQueue(j))' => i = j
    <3> SUFFICES ASSUME NEW i \in DOMAIN toServer', NEW j \in DOMAIN toServer',
                        (InQueue(i))', (InQueue(j))'
                 PROVE  i = j
      OBVIOUS
    <3>1. i + 1 = j + 1
      BY <2>3, <2>4 DEF OneForeground
    <3> QED BY <2>3, <3>1
  <2>8. InQueue(1) => \A i \in DOMAIN toServer' : ~(InQueue(i))'
    BY <2>2, <2>3, <2>4 DEF OneForeground
  <2>9. ASSUME NEW i \in DOMAIN toServer', (InQueue(i))'
        PROVE  /\ ~Shown /\ SomeForeground
               /\ \A j \in DOMAIN toClient : ~Arriving(j)
               /\ \A t \in Transfer : ~Served(t)
    BY <2>3, <2>4, <2>9 DEF OneForeground, SomeForeground
  <2>10. InQueue(1) => /\ ~Shown /\ SomeForeground
                       /\ \A j \in DOMAIN toClient : ~Arriving(j)
                       /\ \A t \in Transfer : ~Served(t)
    BY <2>2 DEF OneForeground, SomeForeground
  <2>11. CASE Reply
    <3> DEFINE n == Len(toClient) + 1
    <3>1. toClient' = Append(toClient, Text(c)) /\ child' = child
      BY <2>11 DEF Reply
    <3>2. Text(c) \in Message /\ Text(c).type = "TEXT" /\ Text(c).of = c
      BY <2>2, MadeWell, MessagesTyped
    <3> HIDE DEF c
    <3>3. /\ DOMAIN toClient' = DOMAIN toClient \cup {n} /\ n \notin DOMAIN toClient
          /\ toClient'[n] = Text(c)
          /\ \A i \in DOMAIN toClient : toClient'[i] = toClient[i] /\ ((Arriving(i))' <=> Arriving(i))
          /\ \A k : k = n => ((Arriving(k))' <=> c \in Foreground)
      BY <3>1, <3>2, QueueGrows
    <3>4. \A t \in Transfer : (Served(t))' <=> Served(t)
      BY <3>1 DEF Served
    <3> HIDE DEF n
    <3>5. PICK k : k = n
      OBVIOUS
    <3>6. (Arriving(k))' <=> InQueue(1)
      BY <2>5, <3>3, <3>5
    <3>7. \A i \in DOMAIN toClient' : i = k \/ (i \in DOMAIN toClient /\ ((Arriving(i))' <=> Arriving(i)))
      BY <3>3, <3>5
    <3>8. OneForeground'
      BY <1>2, <2>7, <2>8, <2>9, <2>10, <3>4, <3>6, <3>7 DEF OneForeground
    <3>9. SomeForeground' => SomeForeground
      BY <1>2, <2>9, <2>10, <3>4, <3>6, <3>7 DEF SomeForeground
    <3>10. Honest'
      BY <1>1, <2>6, <3>1, <3>2, <3>3 DEF Honest
    <3> QED BY <1>2, <3>8, <3>9, <3>10
  <2>12. ASSUME NEW t \in Transfer, Fork(t)
         PROVE  Kept'
    <3> DEFINE n == Len(toClient) + 1
    <3>1. toClient' = Append(toClient, Port(c, t)) /\ child[t].at = "none"
          /\ child' = [child EXCEPT ![t] = [at |-> "accept", for |-> c]]
      BY <2>12 DEF Fork
    <3>2. Port(c, t) \in Message /\ Port(c, t).type # "TEXT" /\ Port(c, t).of = c
      BY <2>2, MadeWell, MessagesTyped
    <3>3. child'[t] = [at |-> "accept", for |-> c] /\ \A u \in Transfer : u # t => child'[u] = child[u]
      BY <3>1 DEF Typed
    <3> HIDE DEF c
    <3>4. /\ DOMAIN toClient' = DOMAIN toClient \cup {n}
          /\ toClient'[n] = Port(c, t)
          /\ \A i \in DOMAIN toClient : toClient'[i] = toClient[i] /\ ((Arriving(i))' <=> Arriving(i))
          /\ \A k : k = n => ~(Arriving(k))'
      BY <3>1, <3>2, QueueGrows
    <3> HIDE DEF n
    <3>5. \A u \in Transfer : u # t => ((Served(u))' <=> Served(u))
      BY <3>3 DEF Served
    <3>6. ((Served(t))' <=> InQueue(1)) /\ ~Served(t)
      BY <2>5, <3>1, <3>3 DEF Served
    <3>7. PICK k : k = n
      OBVIOUS
    <3>8. \A i \in DOMAIN toClient' : (Arriving(i))' => i \in DOMAIN toClient /\ Arriving(i)
      BY <3>4, <3>7
    <3>9. \A i \in DOMAIN toClient : i \in DOMAIN toClient'
      BY <3>4
    <3>10. OneForeground'
      BY <1>2, <2>7, <2>8, <2>9, <2>10, <3>5, <3>6, <3>8, <3>9 DEF OneForeground
    <3>11. SomeForeground' => SomeForeground
      BY <1>2, <2>9, <2>10, <3>5, <3>6, <3>8 DEF SomeForeground
    <3>12. Honest'
      <4>1. \A u \in Transfer : child'[u].for \notin Misread
        <5>1. child'[t].for \notin Misread
          BY <2>6, <3>1 DEF Typed
        <5>2. \A u \in Transfer : child[u].for \notin Misread
          BY DEF Honest
        <5> QED BY <3>3, <5>1, <5>2
      <4>2. \A i \in DOMAIN toClient' : toClient'[i].of \notin Misread
        BY <2>6, <3>2, <3>4 DEF Honest
      <4> QED BY <1>1, <2>6, <4>1, <4>2 DEF Honest
    <3> QED BY <1>2, <3>10, <3>11, <3>12
  <2> QED BY <1>3, <2>11, <2>12
<1>4. CASE Notify
  <2> DEFINE n == Len(toClient) + 1
  <2>1. toClient' = Append(toClient, Notification) /\ UNCHANGED <<toServer, child>>
    BY <1>4 DEF Notify
  <2>2. Notification \in Message /\ Notification.of \notin Foreground /\ Notification.of \notin Misread
    BY MadeWell, MessagesTyped DEF Foreground, Misread
  <2>3. /\ DOMAIN toClient' = DOMAIN toClient \cup {n}
        /\ toClient'[n] = Notification
        /\ \A i \in DOMAIN toClient : toClient'[i] = toClient[i] /\ ((Arriving(i))' <=> Arriving(i))
        /\ \A k : k = n => ~(Arriving(k))'
    BY <2>1, <2>2, QueueGrows
  <2> HIDE DEF n
  <2>4. PICK k : k = n
    OBVIOUS
  <2>5. \A i \in DOMAIN toClient' : (Arriving(i))' => i \in DOMAIN toClient /\ Arriving(i)
    BY <2>3, <2>4
  <2>6. /\ \A i \in DOMAIN toServer : (InQueue(i))' <=> InQueue(i)
        /\ \A t \in Transfer : (Served(t))' <=> Served(t)
    BY <2>1 DEF InQueue, Served
  <2>7. OneForeground'
    BY <1>2, <2>1, <2>5, <2>6 DEF OneForeground
  <2>8. SomeForeground' => SomeForeground
    BY <1>2, <2>1, <2>5, <2>6 DEF SomeForeground
  <2>9. Honest'
    BY <1>1, <2>1, <2>2, <2>3 DEF Honest
  <2> QED BY <1>2, <2>7, <2>8, <2>9
<1>5. CASE Disconnect
  BY <1>5 DEF Disconnect
<1>6. ASSUME NEW t \in Transfer, Conclude(t)
      PROVE  Kept'
  <2> DEFINE n == Len(toClient) + 1
             c == child[t].for
  <2>1. toClient' = Append(toClient, Text(c)) /\ child[t].at = "serve" /\ toServer' = toServer
    BY <1>6 DEF Conclude
  <2>2. c \in Commands
    BY DEF Typed, Child
  <2>3. Text(c) \in Message /\ Text(c).type = "TEXT" /\ Text(c).of = c
    BY <2>2, MadeWell, MessagesTyped
  <2>4. child'[t].at = "over" /\ \A u \in Transfer : u # t => child'[u] = child[u]
    BY <1>6 DEF Conclude, Typed, NoChild
  <2>5. Served(t) <=> c \in Foreground
    BY <2>1 DEF Served
  <2> HIDE DEF c
  <2>6. /\ DOMAIN toClient' = DOMAIN toClient \cup {n} /\ n \notin DOMAIN toClient
        /\ toClient'[n] = Text(c)
        /\ \A i \in DOMAIN toClient : toClient'[i] = toClient[i] /\ ((Arriving(i))' <=> Arriving(i))
        /\ \A k : k = n => ((Arriving(k))' <=> c \in Foreground)
    BY <2>1, <2>3, QueueGrows
  <2> HIDE DEF n
  <2>7. PICK k : k = n
    OBVIOUS
  <2>8. (Arriving(k))' <=> Served(t)
    BY <2>5, <2>6, <2>7
  <2>9. \A i \in DOMAIN toClient' : i = k \/ (i \in DOMAIN toClient /\ ((Arriving(i))' <=> Arriving(i)))
    BY <2>6, <2>7
  <2>10. ~(Served(t))' /\ \A u \in Transfer : u # t => ((Served(u))' <=> Served(u))
    BY <2>4 DEF Served
  <2>11. \A i \in DOMAIN toServer : (InQueue(i))' <=> InQueue(i)
    BY <2>1 DEF InQueue
  <2>12. OneForeground'
    BY <1>2, <2>1, <2>8, <2>9, <2>10, <2>11 DEF OneForeground
  <2>13. SomeForeground' => SomeForeground
    BY <1>2, <2>1, <2>8, <2>9, <2>10, <2>11 DEF SomeForeground
  <2>14. c \notin Misread /\ \A u \in Transfer : child'[u].for \notin Misread
    <3>1. c \notin Misread /\ \A u \in Transfer : child[u].for \notin Misread
      BY DEF Honest, c
    <3>2. child'[t].for = "plain"
      BY <1>6 DEF Conclude, Typed, NoChild
    <3> QED BY <2>4, <3>1, <3>2 DEF Misread
  <2>15. Honest'
    BY <1>1, <2>1, <2>3, <2>6, <2>14 DEF Honest
  <2> QED BY <1>2, <2>12, <2>13, <2>15
<1> QED BY <1>3, <1>4, <1>5, <1>6 DEF Server

LEMMA ForegroundKept ==
  ASSUME Typed, Ports, ForegroundInv, Next
  PROVE  ForegroundInv'
<1> SUFFICES ASSUME open', ~misused'
             PROVE  Kept'
  BY DEF ForegroundInv, Kept
<1>1. open /\ ~misused
  BY DEF Next, WriterStep, Enter, Test, Sleep, UnlockAndPrompt, TryExit, CountRead, CountWrite,
     SetWaiting, Send, SpuriousWakeup, User, EndOfInput, EmptyLine, TypeExit, Type, ReaderStep,
     Loop, Receive, HangUp, WakeWriter, Show, Reset, MainStep, CancelReader, Return, Server,
     Reply, Notify, Disconnect, Fork, Conclude, ThreadStep, Connect, Finish, Sigpipe, TestCount,
     ReadCount, WriteCount, history, net, Typed
<1>2. Kept
  BY <1>1 DEF ForegroundInv, Kept
<1> QED BY <1>1, <1>2, WriterForeground, ReaderForeground, ThreadForeground, ServerForeground DEF Next

-----------------------------------------------------------------------------
(***************************************************************************)
(* The invariant.                                                          *)
(***************************************************************************)
LEMMA ClientStarts ==
  ASSUME Init
  PROVE  ClientInv
<1> USE ClientAssumption, EmptyQueue, MadeWell DEF Init
<1>1. Typed
  <2>1. /\ cmd \in Commands /\ msg \in Message /\ child \in [Transfer -> Child]
    BY MessagesTyped DEF NoCommand, NoMessage, Commands, NoChild, Child
  <2>2. toServer \in Seq(Commands) /\ toClient \in Seq(Message)
    OBVIOUS
  <2>3. loaded \in [Thread -> Int] /\ thread \in [Transfer -> {"none", "connect", "moving", "lock", "load", "store", "gone"}]
    BY DEF Thread
  <2> QED BY <2>1, <2>2, <2>3, ZenonT(40) DEF Typed
<1>2. RoomKept /\ BoundedAbove
  BY DEF RoomKept, BoundedAbove
<1>3. Ports
  BY DEF Ports, NoMessage, NoChild
<1>4. Gone = {}
  BY DEF Gone
<1>5. BoundedBelow
  BY <1>4, FS_EmptySet DEF BoundedBelow, Under
<1>6. PortsUnderWay = {} /\ Marked(toServer) = {}
  BY DEF PortsUnderWay, Marked
<1>7. CountInv
  BY <1>6, FS_EmptySet DEF CountInv, Locked, Under, NoForegroundTransfer, Covered, InHand, NoCommand
<1>8. ForegroundInv
  BY DEF ForegroundInv, Honest, OneForeground, SomeForeground, Served, Shown, Misread, NoCommand, NoMessage, NoChild
<1> QED BY <1>1, <1>2, <1>3, <1>5, <1>7, <1>8 DEF ClientInv

LEMMA ClientStep ==
  ASSUME ClientInv, [Next]_vars
  PROVE  ClientInv'
<1>1. CASE Next
  <2>1. Bounded'
    BY <1>1, WriterBounded, ReaderBounded, ThreadBounded, ServerBounded DEF Next, ClientInv, Bounded
  <2>2. Ports'
    <3>1. CASE WriterStep \/ User \/ SpuriousWakeup
      <4>1. UNCHANGED <<toClient, msg, reader, thread, child>>
        BY <3>1 DEF WriterStep, Enter, Test, Sleep, UnlockAndPrompt, TryExit, CountRead, CountWrite,
           SetWaiting, Send, SpuriousWakeup, User, EndOfInput, EmptyLine, TypeExit, Type, net
      <4> QED BY <4>1 DEF Ports, ClientInv, WellMade
    <3>2. CASE ReaderStep \/ MainStep \/ Server \/ \E t \in Transfer : ThreadStep(t)
      BY <3>2, ReaderPorts, ThreadPorts, ServerPorts DEF ClientInv
    <3> QED BY <1>1, <3>1, <3>2 DEF Next
  <2>3. BoundedBelow'
    BY <1>1, WriterBelow, ThreadBelow, OthersBelow DEF Next, ClientInv
  <2>4. CountInv' /\ ForegroundInv'
    BY <1>1, CountKept, ForegroundKept DEF ClientInv
  <2> QED BY <2>1, <2>2, <2>3, <2>4 DEF ClientInv, Bounded
<1>2. CASE UNCHANGED vars
  <2> USE <1>2 DEF vars, ClientInv
  <2>1. Typed' /\ RoomKept' /\ BoundedAbove' /\ Ports'
    BY DEF Typed, RoomKept, BoundedAbove, Ports, WellMade
  <2>2. BoundedBelow'
    BY BelowKept
  <2>3. CountInv'
    <3>1. Locked => Locked'
      BY LockedKept
    <3>2. NoForegroundTransfer' = NoForegroundTransfer
      BY DEF NoForegroundTransfer
    <3>3. Covered' = Covered
      BY DEF Covered, PortsUnderWay, Marked, InHand
    <3> QED BY <3>1, <3>2, <3>3 DEF CountInv
  <2>4. ForegroundInv'
    <3>1. Shown' = Shown /\ Waits' = Waits /\ Honest' = Honest
      BY DEF Shown, Waits, Honest
    <3>2. OneForeground => OneForeground' /\ (SomeForeground' => SomeForeground)
      BY <3>1, NothingMoves
    <3> QED BY <3>1, <3>2 DEF ForegroundInv
  <2> QED BY <2>1, <2>2, <2>3, <2>4
<1> QED BY <1>1, <1>2

LEMMA ClientInvariant == Spec => []ClientInv
<1>1. Init => ClientInv
  BY ClientStarts
<1>2. ClientInv /\ [Next]_vars => ClientInv'
  BY ClientStep
<1> QED BY <1>1, <1>2, PTL DEF Spec

-----------------------------------------------------------------------------
(***************************************************************************)
(* What the writer waits for.                                              *)
(***************************************************************************)
(* On its way from a command to the next prompt the writer has a command   *)
(* of the foreground to wait for; what the flag says at the test, nobody   *)
(* takes back before the writer sleeps.                                    *)
Awaited ==
  /\ writer \in {"top", "test", "wait", "asleep"} /\ waiting_for_response => SomeForeground
  /\ writer \in {"wait", "asleep"} => waiting_for_response
  /\ writer = "past" /\ waiting_for_response => should_exit
  /\ writer \in {"prompt", "exit", "count", "counted", "set"} => ~waiting_for_response
AwaitedInv == open /\ ~misused => Awaited

(* The answer that is shown is kept until the reader resets the flag.      *)
LEMMA ShownStays ==
  ASSUME Typed, Ports, Shown, Next
  PROVE  Shown' \/ Reset \/ CancelReader
<1> USE DEF Turns, flags, count, net, history
<1>1. CASE Show
  <2>1. msg.type = "TEXT" /\ ~msg.is_background
    <3>1. msg.type = "TEXT" /\ msg.of \in Foreground /\ WellMade(msg)
      BY DEF Shown, Ports
    <3>2. msg.is_background \in BOOLEAN
      BY DEF Typed, Message
    <3> QED BY <3>1, <3>2 DEF WellMade, Foreground, InBackground
  <2>2. reader' = "reset" /\ msg' = msg
    BY <1>1, <2>1 DEF Show
  <2> QED BY <2>2 DEF Shown
<1>2. CASE WriterStep \/ SpuriousWakeup \/ User \/ Server \/ \E t \in Transfer : ThreadStep(t)
  <2>1. reader' = reader /\ msg' = msg
    BY <1>2 DEF WriterStep, Enter, Test, Sleep, UnlockAndPrompt, TryExit, CountRead, CountWrite,
       SetWaiting, Send, SpuriousWakeup, User, EndOfInput, EmptyLine, TypeExit, Type, Server,
       Reply, Notify, Disconnect, Fork, Conclude, ThreadStep, Connect, Finish, Sigpipe,
       TestCount, ReadCount, WriteCount
  <2> QED BY <2>1 DEF Shown
<1>3. CASE Loop \/ Receive \/ HangUp \/ WakeWriter \/ Return
  BY <1>3 DEF Loop, Receive, HangUp, WakeWriter, Return, Shown
<1> QED BY <1>1, <1>2, <1>3 DEF Next, ReaderStep, MainStep

(* A command stays in the queue until it is answered or a child is forked. *)
LEMMA CommandStays ==
  ASSUME Typed, NEW i \in DOMAIN toServer, InQueue(i), Next, open'
  PROVE  SomeForeground'
<1> USE DEF flags, count, net, history
<1>1. CASE toServer' = toServer
  BY <1>1 DEF InQueue, SomeForeground
<1>2. CASE Send
  <2>1. toServer' = toServer \/ (/\ toServer' = Append(toServer, cmd)
                                /\ toServer \in Seq(Commands) /\ cmd \in Commands)
    BY <1>2 DEF Send, Typed
  <2>2. i \in DOMAIN toServer' /\ toServer'[i] = toServer[i]
    BY <2>1, AppendOf
  <2> QED BY <2>2 DEF InQueue, SomeForeground
<1>3. CASE Reply \/ \E t \in Transfer : Fork(t)
  <2>1. toServer \in Seq(Commands) /\ toServer # <<>> /\ toServer' = Tail(toServer)
    BY <1>3 DEF Reply, Fork, Typed
  <2>2. Head(toServer) \in Commands /\ Head(toServer) = toServer[1]
    BY <2>1, TailOf
  <2>3. CASE i # 1
    <3>1. /\ i \in Int /\ i - 1 \in DOMAIN toServer' /\ (i - 1) + 1 = i
          /\ toServer'[i - 1] = toServer[(i - 1) + 1]
      BY <2>1, <2>3, TailOf
    <3>2. PICK k \in DOMAIN toServer' : toServer'[k] = toServer[i]
      BY <3>1
    <3> QED BY <3>2 DEF InQueue, SomeForeground
  <2>4. CASE i = 1
    <3>1. PICK c \in Commands : c = Head(toServer) /\ c \in Foreground
      BY <2>2, <2>4 DEF InQueue
    <3>2. CASE Reply
      <4>1. toClient' = Append(toClient, Text(c)) /\ Text(c) \in Message
            /\ Text(c).type = "TEXT" /\ Text(c).of = c
        BY <3>1, <3>2, MessagesTyped, MadeWell DEF Reply
      <4>2. PICK k \in DOMAIN toClient' : toClient'[k] = Text(c)
        BY <4>1, AppendOf DEF Typed
      <4> QED BY <3>1, <4>1, <4>2 DEF Arriving, SomeForeground
    <3>3. ASSUME NEW t \in Transfer, Fork(t)
          PROVE  SomeForeground'
      <4>1. child'[t] = [at |-> "accept", for |-> c]
        BY <3>1, <3>3 DEF Fork, Typed
      <4> QED BY <3>1, <4>1 DEF Served, SomeForeground
    <3> QED BY <1>3, <3>2, <3>3
  <2> QED BY <2>3, <2>4
<1>4. open /\ ~Disconnect
  BY DEF Next, WriterStep, Enter, Test, Sleep, UnlockAndPrompt, TryExit, CountRead, CountWrite,
     SetWaiting, Send, SpuriousWakeup, User, EndOfInput, EmptyLine, TypeExit, Type, ReaderStep,
     Loop, Receive, HangUp, WakeWriter, Show, Reset, MainStep, CancelReader, Return, Server,
     Reply, Notify, Disconnect, Fork, Conclude, ThreadStep, Connect, Finish, Sigpipe, TestCount,
     ReadCount, WriteCount
<1>5. Send \/ Reply \/ (\E t \in Transfer : Fork(t)) \/ toServer' = toServer
  BY <1>4 DEF Next, WriterStep, Enter, Test, Sleep, UnlockAndPrompt, TryExit, CountRead, CountWrite,
     SetWaiting, SpuriousWakeup, User, EndOfInput, EmptyLine, TypeExit, Type, ReaderStep,
     Loop, Receive, HangUp, WakeWriter, Show, Reset, MainStep, CancelReader, Return, Server,
     Notify, Conclude, ThreadStep, Connect, Finish, Sigpipe, TestCount, ReadCount, WriteCount
<1> QED BY <1>1, <1>2, <1>3, <1>5

(* An answer on its way is the next to be shown, or moves up.              *)
LEMMA AnswerStays ==
  ASSUME Typed, NEW i \in DOMAIN toClient, Arriving(i), Next
  PROVE  SomeForeground'
<1> USE DEF flags, count, net, history
<1>1. CASE toClient' = toClient
  BY <1>1 DEF Arriving, SomeForeground
<1>2. CASE Receive
  <2>1. toClient \in Seq(Message) /\ toClient # <<>> /\ toClient' = Tail(toClient)
        /\ msg' = Head(toClient) /\ reader' = "show"
    BY <1>2 DEF Receive, Turns, Typed
  <2>2. CASE i # 1
    <3>1. /\ i \in Int /\ i - 1 \in DOMAIN toClient' /\ (i - 1) + 1 = i
          /\ toClient'[i - 1] = toClient[(i - 1) + 1]
      BY <2>1, <2>2, TailOf
    <3>2. PICK k \in DOMAIN toClient' : toClient'[k] = toClient[i]
      BY <3>1
    <3> QED BY <3>2 DEF Arriving, SomeForeground
  <2>3. CASE i = 1
    <3>1. msg' = toClient[i]
      BY <2>1, <2>3, TailOf
    <3> QED BY <2>1, <3>1 DEF Arriving, Shown, SomeForeground
  <2> QED BY <2>2, <2>3
<1>3. ASSUME NEW m \in Message, toClient' = Append(toClient, m)
      PROVE  SomeForeground'
  <2>1. i \in DOMAIN toClient' /\ toClient'[i] = toClient[i]
    BY <1>3, AppendOf DEF Typed
  <2> QED BY <2>1 DEF Arriving, SomeForeground
<1>4. CASE Server
  <2>1. ASSUME toServer # <<>>
        PROVE  Head(toServer) \in Commands
    BY <2>1, TailOf DEF Typed
  <2>2. \A t \in Transfer : child[t].for \in Commands
    BY DEF Typed, Child
  <2>3. toClient' = toClient \/ \E m \in Message : toClient' = Append(toClient, m)
    BY <1>4, <2>1, <2>2, MessagesTyped DEF Server, Reply, Notify, Disconnect, Fork, Conclude
  <2> QED BY <1>1, <1>3, <2>3
<1>5. Receive \/ Server \/ toClient' = toClient
  BY DEF Next, WriterStep, Enter, Test, Sleep, UnlockAndPrompt, TryExit, CountRead, CountWrite,
     SetWaiting, Send, SpuriousWakeup, User, EndOfInput, EmptyLine, TypeExit, Type, ReaderStep,
     Loop, HangUp, WakeWriter, Show, Reset, MainStep, CancelReader, Return,
     ThreadStep, Connect, Finish, Sigpipe, TestCount, ReadCount, WriteCount
<1> QED BY <1>1, <1>2, <1>4, <1>5

(* A child at work for the foreground ends with an answer.                 *)
LEMMA ServiceStays ==
  ASSUME Typed, NEW t \in Transfer, Served(t), Next, open'
  PROVE  SomeForeground'
<1> USE DEF flags, count, net, history
<1>1. CASE child'[t].at \in {"accept", "serve"} /\ child'[t].for = child[t].for
  BY <1>1 DEF Served, SomeForeground
<1>2. CASE Conclude(t)
  <2>1. PICK c \in Commands : c = child[t].for /\ c \in Foreground
    BY DEF Typed, Child, Served
  <2>2. toClient' = Append(toClient, Text(c)) /\ Text(c) \in Message
        /\ Text(c).type = "TEXT" /\ Text(c).of = c
    BY <1>2, <2>1, MessagesTyped, MadeWell DEF Conclude
  <2>3. PICK k \in DOMAIN toClient' : toClient'[k] = Text(c)
    BY <2>2, AppendOf DEF Typed
  <2> QED BY <2>1, <2>2, <2>3 DEF Arriving, SomeForeground
<1>3. ASSUME NEW u \in Transfer, Connect(u) \/ Fork(u) \/ Conclude(u), ~Conclude(t)
      PROVE  child'[t].at \in {"accept", "serve"} /\ child'[t].for = child[t].for
  <2>1. CASE u = t
    <3>1. ~Fork(t) /\ ~Conclude(t)
      BY <1>3 DEF Fork, Served
    <3>2. CASE child' = [child EXCEPT ![t].at = "serve"]
      BY <3>2 DEF Typed, Child
    <3>3. CASE UNCHANGED child
      BY <3>3 DEF Served
    <3> QED BY <1>3, <2>1, <3>1, <3>2, <3>3 DEF Connect
  <2>2. CASE u # t
    <3>1. child'[t] = child[t]
      BY <1>3, <2>2 DEF Connect, Fork, Conclude, Typed
    <3> QED BY <3>1 DEF Served
  <2> QED BY <2>1, <2>2
<1>4. CASE child' = child
  BY <1>1, <1>4 DEF Served
<1>5. (\E u \in Transfer : Connect(u) \/ Fork(u) \/ Conclude(u)) \/ child' = child
  BY DEF Next, WriterStep, Enter, Test, Sleep, UnlockAndPrompt, TryExit, CountRead, CountWrite,
     SetWaiting, Send, SpuriousWakeup, User, EndOfInput, EmptyLine, TypeExit, Type, ReaderStep,
     Loop, Receive, HangUp, WakeWriter, Show, Reset, MainStep, CancelReader, Return, Server,
     Reply, Notify, Disconnect, ThreadStep, Finish, Sigpipe, TestCount, ReadCount, WriteCount
<1> QED BY <1>1, <1>2, <1>3, <1>4, <1>5

LEMMA ForegroundStays ==
  ASSUME Typed, Ports, SomeForeground, Next, open'
  PROVE  SomeForeground' \/ Reset \/ CancelReader
<1>1. CASE Shown
  BY <1>1, ShownStays DEF SomeForeground
<1> QED BY <1>1, CommandStays, AnswerStays, ServiceStays DEF SomeForeground

LEMMA AwaitedKept ==
  ASSUME Typed, Ports, ForegroundInv, AwaitedInv, Next
  PROVE  AwaitedInv'
<1> SUFFICES ASSUME open', ~misused'
             PROVE  Awaited'
  BY DEF AwaitedInv
<1> USE DEF Goes, Turns, Moves, flags, count, net, history
<1>1. open /\ ~misused
  BY DEF Next, WriterStep, Enter, Test, Sleep, UnlockAndPrompt, TryExit, CountRead, CountWrite,
     SetWaiting, Send, SpuriousWakeup, User, EndOfInput, EmptyLine, TypeExit, Type, ReaderStep,
     Loop, Receive, HangUp, WakeWriter, Show, Reset, MainStep, CancelReader, Return, Server,
     Reply, Notify, Disconnect, Fork, Conclude, ThreadStep, Connect, Finish, Sigpipe, TestCount,
     ReadCount, WriteCount, Typed
<1>2. Awaited /\ Honest
  BY <1>1 DEF AwaitedInv, ForegroundInv
<1>3. CASE Send
  <2>1. /\ toServer' = Append(toServer, cmd) /\ toServer \in Seq(Commands) /\ cmd \in Commands
        /\ writer = "send" /\ writer' = "top" /\ waiting_for_response' = waiting_for_response
    BY <1>1, <1>3 DEF Send, Typed
  <2>2. waiting_for_response => cmd \in Foreground
    BY <1>2, <2>1 DEF Honest, Commands, Foreground, IsBackground
  <2>3. PICK k \in DOMAIN toServer' : toServer'[k] = cmd
    BY <2>1, AppendOf
  <2>4. waiting_for_response => SomeForeground'
    BY <2>2, <2>3 DEF SomeForeground, InQueue
  <2> QED BY <2>1, <2>4 DEF Awaited
<1>4. CASE Reset
  <2>1. /\ waiting_for_response' = FALSE /\ writer \notin {"test", "wait"}
        /\ writer' = IF writer = "asleep" THEN "test" ELSE writer
    BY <1>4 DEF Reset, ResponseLockFree, Woken
  <2> QED BY <2>1 DEF Awaited
<1>5. CASE CancelReader
  <2>1. writer' = "done"
    BY <1>5 DEF CancelReader
  <2> QED BY <2>1 DEF Awaited
<1>6. CASE ~Reset /\ ~CancelReader /\ ~Send
  <2>1. SomeForeground => SomeForeground'
    BY <1>6, ForegroundStays
  <2>2. CASE WriterStep \/ SpuriousWakeup \/ User
    <3>1. CASE Enter \/ Test \/ Sleep \/ SpuriousWakeup \/ UnlockAndPrompt
      <4>1. UNCHANGED flags /\ \/ writer = "top" /\ writer' \in {"done", "test"}
                               \/ /\ writer = "test" /\ writer' \in {"wait", "past"}
                                  /\ writer' = "wait" => waiting_for_response
                                  /\ writer' = "past" => ~waiting_for_response \/ should_exit
                               \/ writer = "wait" /\ writer' = "asleep"
                               \/ writer = "asleep" /\ writer' = "test"
                               \/ writer = "past" /\ should_exit /\ writer' = "done"
                               \/ writer = "past" /\ ~should_exit /\ writer' = "prompt"
        BY <3>1 DEF Enter, Test, Sleep, SpuriousWakeup, UnlockAndPrompt
      <4> QED BY <1>2, <2>1, <4>1 DEF Awaited
    <3>2. CASE TryExit \/ CountRead \/ CountWrite \/ SetWaiting
      <4>1. \/ /\ waiting_for_response' = waiting_for_response
               /\ writer \in {"exit", "count", "counted"}
               /\ writer' \in {"top", "done", "counted", "set"}
            \/ writer = "set" /\ writer' = "send"
        BY <3>2 DEF TryExit, CountRead, CountWrite, SetWaiting
      <4> QED BY <1>2, <4>1 DEF Awaited
    <3>3. CASE User
      <4>1. /\ waiting_for_response' = waiting_for_response /\ writer = "prompt"
            /\ writer' \in {"done", "top", "exit", "count", "set"}
        BY <3>3 DEF User, EndOfInput, EmptyLine, TypeExit, Type
      <4> QED BY <1>2, <4>1 DEF Awaited
    <3> QED BY <1>6, <2>2, <3>1, <3>2, <3>3 DEF WriterStep
  <2>3. CASE ReaderStep \/ MainStep \/ Server \/ \E t \in Transfer : ThreadStep(t)
    <3>1. /\ waiting_for_response' = waiting_for_response
          /\ should_exit' = should_exit \/ should_exit' = TRUE
          /\ writer' = writer \/ (writer = "asleep" /\ writer' = "test")
      <4>1. CASE ReaderStep \/ MainStep
        BY <1>6, <4>1 DEF ReaderStep, Loop, Receive, HangUp, WakeWriter, Show, MainStep, Return,
           Woken
      <4>2. CASE Server \/ \E t \in Transfer : ThreadStep(t)
        BY <4>2 DEF Server, Reply, Notify, Disconnect, Fork, Conclude, ThreadStep, Connect,
           Finish, Sigpipe, TestCount, ReadCount, WriteCount
      <4> QED BY <2>3, <4>1, <4>2
    <3> QED BY <1>2, <2>1, <3>1 DEF Awaited
  <2> QED BY <2>2, <2>3 DEF Next
<1> QED BY <1>3, <1>4, <1>5, <1>6

LEMMA AwaitedInvariant == Spec => []AwaitedInv
<1>1. Init => AwaitedInv
  BY DEF Init, AwaitedInv, Awaited
<1>2. ClientInv /\ AwaitedInv /\ [Next]_vars => AwaitedInv'
  <2>1. ASSUME UNCHANGED vars, AwaitedInv
        PROVE  AwaitedInv'
    BY <2>1 DEF vars, AwaitedInv, Awaited, SomeForeground, Shown, InQueue, Arriving, Served
  <2> QED BY <2>1, AwaitedKept DEF ClientInv
<1> QED BY <1>1, <1>2, ClientInvariant, PTL DEF Spec

-----------------------------------------------------------------------------
(***************************************************************************)
(* Theorems.                                                               *)
(***************************************************************************)
(* Every variable keeps its type: bg_ops_count in particular is never      *)
(* below 1 minus the transfer threads, however the threads of              *)
(* start_download and start_upload and the writer mix their reads and      *)
(* writes of it, and the queues never exceed MaxQueue.                     *)
THEOREM ClientTypes == Spec => []TypeOK
<1>1. ClientInv => TypeOK
  <2> SUFFICES ASSUME ClientInv
               PROVE  TypeOK
    OBVIOUS
  <2>1. bg_ops_count \in Int /\ bg_ops_count <= MaxOps /\ Cardinality(Transfer) \in Nat
    BY GoneFinite DEF ClientInv, Typed, BoundedAbove
  <2>2. bg_ops_count >= 1 - Cardinality(Transfer)
    <3>1. CASE Gone = {}
      BY <2>1, <3>1, GoneFinite, FS_EmptySet DEF ClientInv, BoundedBelow
    <3>2. CASE Gone # {}
      BY <2>1, <3>2, GoneFinite DEF ClientInv, BoundedBelow
    <3> QED BY <3>1, <3>2
  <2>3. bg_ops_count \in (1 - Cardinality(Transfer))..MaxOps
    BY <2>1, <2>2, ClientAssumption
  <2> QED BY <2>3 DEF ClientInv, Typed, RoomKept, TypeOK, Thread
<1> QED BY <1>1, ClientInvariant, PTL

(* A foreground command, its answer, or the transfer it started are in one *)
(* place at a time, and the writer waits until the reader has shown the    *)
(* answer: the client prompts with nothing in the foreground left.  And it *)
(* sleeps only while there is something: the flag set before the command   *)
(* is sent falls with the answer, and the writer looks at it under the     *)
(* lock the reader resets it under.                                        *)
THEOREM PromptAndAnswer == Spec => []PromptIffAnswered
<1>1. ClientInv => (open /\ ~misused /\ writer = "prompt" => ~ForegroundOpen)
  <2> SUFFICES ASSUME ClientInv, open, ~misused, writer = "prompt"
               PROVE  ~ForegroundOpen
    OBVIOUS
  <2>1. ~SomeForeground
    BY DEF ClientInv, ForegroundInv, Waits
  <2> SUFFICES ASSUME NEW c \in Foreground
               PROVE  /\ \A i \in DOMAIN toServer : toServer[i] # c
                      /\ \A i \in DOMAIN toClient : toClient[i].of # c
                      /\ \A t \in Transfer : ~(child[t].at \in {"accept", "serve"} /\ child[t].for = c)
                      /\ ~(reader \in {"show", "reset"} /\ msg.of = c)
    BY DEF ForegroundOpen, Answers, Foreground
  <2>2. \A i \in DOMAIN toServer : toServer[i] # c
    BY <2>1 DEF SomeForeground, InQueue
  <2>3. \A t \in Transfer : ~(child[t].at \in {"accept", "serve"} /\ child[t].for = c)
    BY <2>1 DEF SomeForeground, Served
  <2>4. ASSUME NEW i \in DOMAIN toClient, toClient[i].of = c
        PROVE  FALSE
    <3>1. toClient[i].type # "TEXT"
      BY <2>1, <2>4 DEF SomeForeground, Arriving
    <3>2. WellMade(toClient[i])
      BY DEF ClientInv, Ports
    <3>3. toClient[i].port \in Transfer
      BY <3>1, <3>2 DEF WellMade
    <3>4. child[toClient[i].port] = [at |-> "accept", for |-> c]
      BY <2>4, <3>3, ClientAssumption DEF ClientInv, Ports
    <3> QED BY <2>3, <3>3, <3>4
  <2>5. ASSUME reader \in {"show", "reset"}, msg.of = c
        PROVE  FALSE
    <3>1. msg.type # "TEXT"
      BY <2>1, <2>5 DEF SomeForeground, Shown
    <3>2. WellMade(msg) /\ reader = "show"
      BY <2>5, <3>1 DEF ClientInv, Ports
    <3>3. msg.port \in Transfer
      BY <3>1, <3>2 DEF WellMade
    <3>4. child[msg.port] = [at |-> "accept", for |-> c]
      BY <2>5, <3>2, <3>3, ClientAssumption DEF ClientInv, Ports
    <3> QED BY <2>3, <3>3, <3>4
  <2> QED BY <2>2, <2>3, <2>4, <2>5
<1>2. AwaitedInv => (open /\ ~misused /\ writer \in {"wait", "asleep"} => ForegroundOpen)
  <2>1. AwaitedInv /\ open /\ ~misused /\ writer \in {"wait", "asleep"} => SomeForeground
    BY DEF AwaitedInv, Awaited
  <2>2. SomeForeground => ForegroundOpen
    BY DEF SomeForeground, Shown, InQueue, Arriving, Served, Foreground, ForegroundOpen, Answers
  <2> QED BY <2>1, <2>2
<1>3. ClientInv /\ AwaitedInv => PromptIffAnswered
  BY <1>1, <1>2 DEF PromptIffAnswered
<1> QED BY <1>3, ClientInvariant, AwaitedInvariant, PTL

(* bg_ops_count is at least the number of transfers announced or at work,  *)
(* as long as the writer has not unlocked bg_lock over the head of another *)
(* thread and no foreground transfer was asked for: such a transfer is not *)
(* counted, but takes the count down when it ends.                         *)
THEOREM CountEnough == Spec => []CountCovers
<1>1. ClientInv => CountCovers
  <2> SUFFICES ASSUME ClientInv, ~miscounted
               PROVE  bg_ops_count >= Cardinality(PortsUnderWay)
    BY DEF CountCovers
  <2>1. Covered /\ bg_ops_count \in Int /\ toServer \in Seq(Commands)
    BY DEF ClientInv, CountInv, Typed
  <2>2. Cardinality(Marked(toServer)) \in Nat /\ InHand \in Nat
    BY <2>1, MarkedFinite DEF InHand
  <2> QED BY <2>1, <2>2, UnderWayFinite DEF Covered
<1> QED BY <1>1, ClientInvariant, PTL

(* exit lets the user out only when no transfer is under way, with the     *)
(* same two exceptions.                                                    *)
THEOREM ExitIsClean == Spec => ExitLeavesNothing
<1> DEFINE Step == writer = "exit" /\ writer' = "done" /\ ~miscounted =>
             \A t \in Transfer : thread[t] \notin {"connect", "moving"}
<1>1. ASSUME ClientInv, [Next]_vars
      PROVE  Step
  <2> SUFFICES ASSUME writer = "exit", writer' = "done", ~miscounted,
                      NEW t \in Transfer, thread[t] \in {"connect", "moving"}
               PROVE  FALSE
    OBVIOUS
  <2>1. bg_ops_count <= 0
    BY <1>1 DEF Next, WriterStep, Enter, Test, Sleep, UnlockAndPrompt, TryExit, CountRead,
       CountWrite, SetWaiting, Send, SpuriousWakeup, User, EndOfInput, EmptyLine, TypeExit, Type,
       ReaderStep, Loop, Receive, HangUp, WakeWriter, Show, Reset, Woken, MainStep, CancelReader,
       Return, Server, Reply, Notify, Disconnect, Fork, Conclude, ThreadStep, Connect, Finish,
       Sigpipe, TestCount, ReadCount, WriteCount, Goes, vars, ClientInv, Typed
  <2>2. t \in PortsUnderWay
    BY DEF PortsUnderWay
  <2>3. Cardinality(PortsUnderWay) \in Nat /\ Cardinality(PortsUnderWay) # 0
    BY <2>2, UnderWayFinite, FS_EmptySet
  <2>4. Covered /\ Cardinality(Marked(toServer)) \in Nat /\ InHand \in Nat /\ bg_ops_count \in Int
    BY <1>1, MarkedFinite DEF ClientInv, CountInv, Typed, InHand
  <2> QED BY <2>1, <2>3, <2>4 DEF Covered
<1>2. ClientInv /\ [Next]_vars => [Step]_vars
  BY <1>1
<1> HIDE DEF Step
<1>3. Spec => [][Step]_vars
  BY <1>2, ClientInvariant, PTL DEF Spec
<1> QED BY <1>3 DEF ExitLeavesNothing, Step
=============================================================================
