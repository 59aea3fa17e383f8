--------------------------- MODULE ClientThreads ---------------------------
(***************************************************************************)
(* The threads of one client: the writer, which prompts and sends, the     *)
(* reader, which prints what the server sends, and one transfer thread for *)
(* each download or upload.  They share should_exit, waiting_for_response  *)
(* and bg_ops_count, a condition variable with its response_lock, and      *)
(* bg_lock.                                                                *)
(*                                                                         *)
(* The server is the environment: it may answer at any time or never.      *)
(*                                                                         *)
(* The sections of the stdout lock and of response_lock are single steps,  *)
(* but for the wait loop, where the writer holds response_lock at "test"   *)
(* and "wait".                                                             *)
(***************************************************************************)
EXTENDS Integers, Sequences, FiniteSets

CONSTANTS
  Transfer,   \* data ports; each serves one download or upload
  Writer,     \* the writer thread, next to the threads named by Transfer
  NoPort,     \* in a message without a port
  MaxOps,     \* bound on bg_ops_count
  MaxQueue    \* bound on the commands, and on the messages, under way: a
              \* connection that is full lets nobody write to it

ASSUME ClientAssumption ==
  /\ IsFiniteSet(Transfer) /\ Transfer # {}
  /\ Writer \notin Transfer /\ NoPort \notin Transfer
  /\ MaxOps \in Nat /\ MaxQueue \in Nat

VARIABLES
  writer, reader,   \* where the two threads are
  thread,           \* where each transfer thread is
  cmd,              \* the command the writer has in hand
  msg,              \* the message the reader has in hand
  loaded,           \* what a thread has read of bg_ops_count to update it
  should_exit, waiting_for_response, bg_ops_count,
  bg_lock,          \* is the mutex locked (it does not know by whom)
  exited,           \* the process is over
  open,             \* the connection is
  toServer, toClient,
  child             \* the server's process behind each data port

VARIABLES          \* history
  misused,         \* a command in the background for the client is not for the server
  miscounted       \* a foreground transfer was asked for, or the writer unlocked
                   \* bg_lock while another thread was using it

flags   == <<should_exit, waiting_for_response>>
count   == <<bg_ops_count, bg_lock, loaded>>
net     == <<open, toServer, toClient, child>>
history == <<misused, miscounted>>
vars == <<writer, reader, thread, cmd, msg, loaded, should_exit,
          waiting_for_response, bg_ops_count, bg_lock, exited, open,
          toServer, toClient, child, misused, miscounted>>

(* A command with " -b" in it is a background command for the client.  The *)
(* server knows the option of downloads and uploads only, as their fourth  *)
(* word.  It answers "plain -b" as it answers "plain", and a transfer that *)
(* has " -b" elsewhere, "transfer to -b", in the foreground.               *)
Commands == {"plain", "plain -b", "transfer", "transfer -b", "transfer to -b"}
IsTransfer(c)   == c \notin {"plain", "plain -b"}
IsBackground(c) == c \notin {"plain", "transfer"}   \* for the client
InBackground(c) == c = "transfer -b"                \* for the server

(* Field of of a message is history: the command it answers. *)
Message == [type : {"TEXT", "DATA_PORT"}, is_background : BOOLEAN,
            port : Transfer \cup {NoPort}, of : Commands \cup {"none"}]
Text(c)    == [type |-> "TEXT", is_background |-> InBackground(c),
               port |-> NoPort, of |-> c]
Port(c, t) == [type |-> "DATA_PORT", is_background |-> FALSE, port |-> t, of |-> c]
Notification == [type |-> "TEXT", is_background |-> TRUE, port |-> NoPort, of |-> "none"]

(* Nothing in hand: locals of a thread that are not read any more. *)
NoCommand == "plain"
NoMessage == Notification

NoChild == [at |-> "none", for |-> "plain"]
Child   == [at : {"none", "accept", "serve", "over"}, for : Commands]

(* bg_ops_count is never read as more than the transfer threads below 0:   *)
(* each of them tests it once, the last one under a lock nobody takes away. *)
TypeOK ==
  /\ writer \in {"top", "test", "wait", "asleep", "past", "prompt", "exit",
                 "count", "counted", "set", "send", "done"}
  /\ reader \in {"loop", "read", "show", "reset", "bye", "done"}
  /\ thread \in [Transfer -> {"none", "connect", "moving", "lock", "load", "store", "gone"}]
  /\ cmd \in Commands /\ msg \in Message
  /\ loaded \in [Transfer \cup {Writer} -> Int]
  /\ should_exit \in BOOLEAN /\ waiting_for_response \in BOOLEAN
  /\ bg_ops_count \in (1 - Cardinality(Transfer))..MaxOps
  /\ bg_lock \in BOOLEAN /\ exited \in BOOLEAN /\ open \in BOOLEAN
  /\ toServer \in Seq(Commands) /\ Len(toServer) <= MaxQueue
  /\ toClient \in Seq(Message) /\ Len(toClient) <= MaxQueue
  /\ child \in [Transfer -> Child]
  /\ misused \in BOOLEAN /\ miscounted \in BOOLEAN

Init ==
  /\ writer = "top" /\ reader = "loop"
  /\ thread = [t \in Transfer |-> "none"]
  /\ cmd = NoCommand /\ msg = NoMessage
  /\ loaded = [t \in Transfer \cup {Writer} |-> 0]
  /\ should_exit = FALSE /\ waiting_for_response = FALSE
  /\ bg_ops_count = 0 /\ bg_lock = FALSE
  /\ exited = FALSE /\ open = TRUE
  /\ toServer = <<>> /\ toClient = <<>>
  /\ child = [t \in Transfer |-> NoChild]
  /\ misused = FALSE /\ miscounted = FALSE

ResponseLockFree == writer \notin {"test", "wait"}

(* pthread_cond_signal, with the writer at w: it goes back to the test. *)
Woken(w) == IF w = "asleep" THEN "test" ELSE w

Goes(from, to) == ~exited /\ writer = from /\ writer' = to
Turns(from, to) == ~exited /\ reader = from /\ reader' = to
Moves(t, from, to) == ~exited /\ thread[t] = from /\ thread' = [thread EXCEPT ![t] = to]

-----------------------------------------------------------------------------
(* The writer.                                                             *)

Enter ==
  /\ Goes("top", IF should_exit THEN "done" ELSE "test")
  /\ UNCHANGED <<reader, thread, cmd, msg, flags, count, exited, net, history>>

(* The condition of the wait loop. *)
Test ==
  /\ Goes("test", IF waiting_for_response /\ ~should_exit THEN "wait" ELSE "past")
  /\ UNCHANGED <<reader, thread, cmd, msg, flags, count, exited, net, history>>

Sleep ==
  /\ Goes("wait", "asleep")
  /\ UNCHANGED <<reader, thread, cmd, msg, flags, count, exited, net, history>>

(* A wait may end without a signal. *)
SpuriousWakeup ==
  /\ Goes("asleep", "test")
  /\ UNCHANGED <<reader, thread, cmd, msg, flags, count, exited, net, history>>

(* The writer does not hold the bg_lock it unlocks here: undefined, and    *)
(* with the mutexes of the C library whoever holds it has lost it.         *)
UnlockAndPrompt ==
  /\ Goes("past", IF should_exit THEN "done" ELSE "prompt")
  /\ bg_lock' = (should_exit /\ bg_lock)
  /\ miscounted' = (miscounted \/ (~should_exit /\ bg_lock))
  /\ UNCHANGED <<reader, thread, cmd, msg, flags, bg_ops_count, loaded, exited,
                 net, misused>>

(* End of input. *)
EndOfInput ==
  /\ Goes("prompt", "done")
  /\ should_exit' = TRUE
  /\ UNCHANGED <<reader, thread, cmd, msg, waiting_for_response, count, exited,
                 net, history>>

EmptyLine ==
  /\ Goes("prompt", "top")
  /\ UNCHANGED <<reader, thread, cmd, msg, flags, count, exited, net, history>>

Type(c) ==
  /\ Goes("prompt", IF IsBackground(c) THEN "count" ELSE "set")
  /\ IsBackground(c) => bg_ops_count < MaxOps
  /\ Len(toServer) < MaxQueue
  /\ cmd' = c
  /\ misused' = (misused \/ (IsBackground(c) /\ ~InBackground(c)))
  /\ miscounted' = (miscounted \/ c = "transfer")
  /\ UNCHANGED <<reader, thread, msg, flags, count, exited, net>>

TypeExit ==
  /\ Goes("prompt", "exit")
  /\ UNCHANGED <<reader, thread, cmd, msg, flags, count, exited, net, history>>

(* Mutant: exit does not look at the count. *)
ExitAtOnce ==
  /\ ~bg_lock
  /\ Goes("exit", "done") /\ should_exit' = TRUE
  /\ UNCHANGED <<reader, thread, cmd, msg, waiting_for_response, count, exited,
                 net, history>>

(* The answer to exit, in one section of bg_lock. *)
TryExit ==
  /\ ~bg_lock
  /\ Goes("exit", IF bg_ops_count > 0 THEN "top" ELSE "done")
  /\ should_exit' = (should_exit \/ bg_ops_count <= 0)
  /\ UNCHANGED <<reader, thread, cmd, msg, waiting_for_response, count, exited,
                 net, history>>

(* bg_ops_count++ is a read and a write. *)
CountRead ==
  /\ ~bg_lock
  /\ Goes("count", "counted")
  /\ bg_lock' = TRUE
  /\ loaded' = [loaded EXCEPT ![Writer] = bg_ops_count]
  /\ UNCHANGED <<reader, thread, cmd, msg, flags, bg_ops_count, exited, net, history>>

CountWrite ==
  /\ Goes("counted", "set")
  /\ bg_ops_count' = loaded[Writer] + 1
  /\ bg_lock' = FALSE
  /\ loaded' = [loaded EXCEPT ![Writer] = 0]
  /\ UNCHANGED <<reader, thread, cmd, msg, flags, exited, net, history>>

SetWaiting ==
  /\ Goes("set", "send")
  /\ waiting_for_response' = ~IsBackground(cmd)
  /\ UNCHANGED <<reader, thread, cmd, msg, should_exit, count, exited, net, history>>

(* Writing to a connection that is gone is lost, or kills the process. *)
Send ==
  /\ Goes("send", "top")
  /\ \/ open /\ toServer' = Append(toServer, cmd) /\ UNCHANGED exited
     \/ ~open /\ UNCHANGED toServer /\ exited' \in BOOLEAN
  /\ cmd' = NoCommand
  /\ UNCHANGED <<reader, thread, msg, flags, count, open, toClient, child, history>>

-----------------------------------------------------------------------------
(* The reader.                                                             *)

Loop ==
  /\ Turns("loop", IF should_exit THEN "done" ELSE "read")
  /\ UNCHANGED <<writer, thread, cmd, msg, flags, count, exited, net, history>>

Receive ==
  /\ toClient # <<>>
  /\ Turns("read", "show")
  /\ msg' = Head(toClient) /\ toClient' = Tail(toClient)
  /\ UNCHANGED <<writer, thread, cmd, flags, count, exited, open, toServer, child, history>>

(* The connection is over: the flag first, then the signal, neither of     *)
(* them under response_lock.                                               *)
HangUp ==
  /\ ~open
  /\ Turns("read", "bye")
  /\ should_exit' = TRUE
  /\ UNCHANGED <<writer, thread, cmd, msg, waiting_for_response, count, exited, net, history>>

WakeWriter ==
  /\ Turns("bye", "done")
  /\ writer' = Woken(writer)
  /\ UNCHANGED <<thread, cmd, msg, flags, count, exited, net, history>>

(* Mutant: the port of a transfer taken for its answer. *)
ShowAndReset ==
  /\ Turns("show", IF msg.is_background THEN "loop" ELSE "reset")
  /\ thread' = [t \in Transfer |-> IF t = msg.port THEN "connect" ELSE thread[t]]
  /\ msg' = IF reader' = "reset" THEN msg ELSE NoMessage
  /\ UNCHANGED <<writer, cmd, flags, count, exited, net, history>>

(* A message is printed; a port also starts the thread of its transfer. *)
Show ==
  /\ Turns("show", IF msg.is_background \/ msg.type = "DATA_PORT" THEN "loop" ELSE "reset")
  /\ thread' = [t \in Transfer |-> IF t = msg.port THEN "connect" ELSE thread[t]]
  /\ msg' = IF reader' = "reset" THEN msg ELSE NoMessage
  /\ UNCHANGED <<writer, cmd, flags, count, exited, net, history>>

(* Mutant: nobody is told. *)
ResetInSilence ==
  /\ ResponseLockFree
  /\ Turns("reset", "loop")
  /\ waiting_for_response' = FALSE
  /\ msg' = NoMessage
  /\ UNCHANGED <<writer, thread, cmd, should_exit, count, exited, net, history>>

Reset ==
  /\ ResponseLockFree
  /\ Turns("reset", "loop")
  /\ waiting_for_response' = FALSE
  /\ writer' = Woken(writer)
  /\ msg' = NoMessage
  /\ UNCHANGED <<thread, cmd, should_exit, count, exited, net, history>>

-----------------------------------------------------------------------------
(* The transfer threads.                                                   *)

(* Without a connection the server's process stays where it is. *)
Connect(t) ==
  /\ \/ /\ child[t].at = "accept"
        /\ Moves(t, "connect", "moving")
        /\ child' = [child EXCEPT ![t].at = "serve"]
     \/ /\ Moves(t, "connect", "lock")
        /\ UNCHANGED child
  /\ UNCHANGED <<writer, reader, cmd, msg, flags, count, exited, open,
                 toServer, toClient, history>>

Finish(t) ==
  /\ Moves(t, "moving", "lock")
  /\ UNCHANGED <<writer, reader, cmd, msg, flags, count, exited, net, history>>

(* An upload whose other end has closed meets SIGPIPE. *)
Sigpipe(t) ==
  /\ ~exited /\ thread[t] = "moving" /\ child[t].at = "over"
  /\ exited' = TRUE
  /\ UNCHANGED <<writer, reader, thread, cmd, msg, flags, count, net, history>>

(* Mutants: a decrement outside the lock, and one without a test. *)
TestUnlocked(t) ==
  /\ IF bg_ops_count > 0
     THEN Moves(t, "lock", "load") /\ bg_lock' = TRUE
     ELSE Moves(t, "lock", "gone") /\ UNCHANGED bg_lock
  /\ UNCHANGED <<writer, reader, cmd, msg, flags, bg_ops_count, loaded, exited, net, history>>

TestNothing(t) ==
  /\ ~bg_lock
  /\ Moves(t, "lock", "load") /\ bg_lock' = TRUE
  /\ UNCHANGED <<writer, reader, cmd, msg, flags, bg_ops_count, loaded, exited, net, history>>

(* Under bg_lock: test the count, read it, write it. *)
TestCount(t) ==
  /\ ~bg_lock
  /\ IF bg_ops_count > 0
     THEN Moves(t, "lock", "load") /\ bg_lock' = TRUE
     ELSE Moves(t, "lock", "gone") /\ UNCHANGED bg_lock
  /\ UNCHANGED <<writer, reader, cmd, msg, flags, bg_ops_count, loaded, exited, net, history>>

ReadCount(t) ==
  /\ Moves(t, "load", "store")
  /\ loaded' = [loaded EXCEPT ![t] = bg_ops_count]
  /\ UNCHANGED <<writer, reader, cmd, msg, flags, bg_ops_count, bg_lock, exited, net, history>>

WriteCount(t) ==
  /\ Moves(t, "store", "gone")
  /\ bg_ops_count' = loaded[t] - 1
  /\ bg_lock' = FALSE
  /\ loaded' = [loaded EXCEPT ![t] = 0]
  /\ UNCHANGED <<writer, reader, cmd, msg, flags, exited, net, history>>

-----------------------------------------------------------------------------
(* main, which joins the writer, cancels the reader and returns.           *)

(* Mutant: the reader is left to find out by itself. *)
JoinReader ==
  /\ writer = "done" /\ should_exit
  /\ Turns("show", "done")
  /\ msg' = NoMessage
  /\ UNCHANGED <<writer, thread, cmd, flags, count, exited, net, history>>

(* A cancelled thread ends at its next read or print. *)
CancelReader ==
  /\ ~exited /\ writer = "done"
  /\ reader \in {"read", "show"} /\ reader' = "done"
  /\ msg' = NoMessage
  /\ UNCHANGED <<writer, thread, cmd, flags, count, exited, net, history>>

Return ==
  /\ ~exited /\ writer = "done" /\ reader = "done"
  /\ exited' = TRUE
  /\ UNCHANGED <<writer, reader, thread, cmd, msg, flags, count, net, history>>

-----------------------------------------------------------------------------
(* The server's handler, its children, and the network, for as long as the *)
(* client is there.                                                        *)

Room == ~exited /\ open /\ Len(toClient) < MaxQueue

(* The answer to a command, or the refusal of a transfer. *)
Reply ==
  /\ Room /\ toServer # <<>>
  /\ toServer' = Tail(toServer)
  /\ toClient' = Append(toClient, Text(Head(toServer)))
  /\ UNCHANGED <<writer, reader, thread, cmd, msg, flags, count, exited, open, child, history>>

(* A child for the transfer, and its port for the client. *)
Fork(t) ==
  /\ Room /\ toServer # <<>> /\ IsTransfer(Head(toServer))
  /\ child[t].at = "none"
  /\ child' = [child EXCEPT ![t] = [at |-> "accept", for |-> Head(toServer)]]
  /\ toServer' = Tail(toServer)
  /\ toClient' = Append(toClient, Port(Head(toServer), t))
  /\ UNCHANGED <<writer, reader, thread, cmd, msg, flags, count, exited, open, history>>

(* "concluded" or "failed". *)
Conclude(t) ==
  /\ ~exited /\ child[t].at = "serve"
  /\ child' = [child EXCEPT ![t] = [NoChild EXCEPT !.at = "over"]]
  /\ \/ Room /\ toClient' = Append(toClient, Text(child[t].for))
     \/ ~open /\ UNCHANGED toClient
  /\ UNCHANGED <<writer, reader, thread, cmd, msg, flags, count, exited, open,
                 toServer, history>>

Notify ==
  /\ Room
  /\ toClient' = Append(toClient, Notification)
  /\ UNCHANGED <<writer, reader, thread, cmd, msg, flags, count, exited, open,
                 toServer, child, history>>

(* What was on its way may arrive or not. *)
Disconnect ==
  /\ ~exited /\ open /\ open' = FALSE
  /\ toServer' = <<>>
  /\ UNCHANGED <<writer, reader, thread, cmd, msg, flags, count, exited,
                 toClient, child, history>>

-----------------------------------------------------------------------------
WriterStep == Enter \/ Test \/ Sleep \/ UnlockAndPrompt \/ TryExit
                \/ CountRead \/ CountWrite \/ SetWaiting \/ Send
ReaderStep == Loop \/ Receive \/ HangUp \/ WakeWriter \/ Show \/ Reset
ThreadStep(t) == Connect(t) \/ Finish(t) \/ Sigpipe(t)
                   \/ TestCount(t) \/ ReadCount(t) \/ WriteCount(t)
MainStep == CancelReader \/ Return
User == EndOfInput \/ EmptyLine \/ TypeExit \/ \E c \in Commands : Type(c)
Server == Reply \/ Notify \/ Disconnect \/ \E t \in Transfer : Fork(t) \/ Conclude(t)

Next ==
  \/ WriterStep \/ SpuriousWakeup \/ ReaderStep \/ MainStep \/ User \/ Server
  \/ \E t \in Transfer : ThreadStep(t)

Spec == Init /\ [][Next]_vars

(* The threads of the client run, and a thread that finds response_lock    *)
(* free again and again takes it in the end.  The user, the server and the *)
(* data connections owe nothing, and no wait has to end by itself.         *)
Fairness ==
  /\ WF_vars(WriterStep) /\ WF_vars(ReaderStep) /\ SF_vars(Reset) /\ WF_vars(MainStep)
  /\ \A t \in Transfer : WF_vars(TestCount(t) \/ ReadCount(t) \/ WriteCount(t))
LiveSpec == Spec /\ Fairness

-----------------------------------------------------------------------------
(* Properties.                                                             *)

(* The client asks for the next command when the last foreground command   *)
(* has been answered: its transfer has concluded and the answer has been   *)
(* printed.  It sleeps only while that command is still under way, so that *)
(* an answer that comes before the wait does not leave it asleep.  A       *)
(* background command the server answers in the foreground spoils it.      *)
Answers(m, c) == m.of = c
ForegroundOpen ==
  \E c \in {"plain", "transfer"} :
    \/ \E i \in DOMAIN toServer : toServer[i] = c
    \/ \E i \in DOMAIN toClient : Answers(toClient[i], c)
    \/ \E t \in Transfer : child[t].at \in {"accept", "serve"} /\ child[t].for = c
    \/ reader \in {"show", "reset"} /\ Answers(msg, c)
PromptIffAnswered ==
  open /\ ~misused =>
    /\ writer = "prompt" => ~ForegroundOpen
    /\ writer \in {"wait", "asleep"} => ForegroundOpen

(* bg_ops_count is at least the number of transfers whose port is on its   *)
(* way or whose thread is at work, so that exit does not cut one off: the  *)
(* count goes up before the command leaves, and comes down when the thread *)
(* is through.  True until the writer takes bg_lock from under another     *)
(* thread or a foreground transfer, which is not counted, comes down too.  *)
PortsUnderWay ==
  {t \in Transfer :
     \/ \E i \in DOMAIN toClient : toClient[i].port = t
     \/ reader = "show" /\ msg.port = t
     \/ thread[t] \notin {"none", "gone"}}
CountCovers ==
  ~miscounted => bg_ops_count >= Cardinality(PortsUnderWay)

(* Who typed exit and was let out has no transfer under way, unless the    *)
(* count has been spoiled as above: a foreground transfer that ends        *)
(* meanwhile takes the place of the background one in the count.           *)
ExitLeavesNothing ==
  [][writer = "exit" /\ writer' = "done" /\ ~miscounted =>
       \A t \in Transfer : thread[t] \notin {"connect", "moving"}]_vars

(* An answer that the reader has printed brings back the prompt, or the    *)
(* client is on its way out, however the printing falls between the        *)
(* writer's steps from the prompt to the wait.                             *)
AnswerEndsWait ==
  reader = "reset" /\ ~misused ~> writer = "prompt" \/ writer = "done" \/ exited

(* When the writer is through, the process exits, whatever the reader was  *)
(* blocked in.                                                             *)
MainExits == writer = "done" ~> exited

(* A writer asleep when the connection ends is woken to exit.              *)
SleeperIsWoken == should_exit /\ writer = "asleep" ~> writer # "asleep" \/ exited
=============================================================================
