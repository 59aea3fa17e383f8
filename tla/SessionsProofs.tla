--------------------------- MODULE SessionsProofs ---------------------------
(***************************************************************************)
(* Proofs about Sessions, for any numbers of sessions, processes and       *)
(* directories: sessions and processes belong together one to one, and     *)
(* what follows from that for working directories and answers.             *)
(***************************************************************************)
EXTENDS Sessions, TLAPS

SessionType ==
  [at : {"gone", "read", "wait", "payload", "reply"}, user : BOOLEAN,
   workdir : Place, cmd : Command, worker : Worker \cup {NoOne},
   moved : BOOLEAN, told : Place]
WorkerType ==
  [at : {"free", "sandbox", "act", "answer", "next", "over"},
   session : Session \cup {NoOne}, cmd : Command, workdir : Place,
   ok : BOOLEAN, answer : {"none", "ok", "failed"}]

Typed ==
  /\ session \in [Session -> SessionType] /\ worker \in [Worker -> WorkerType]
  /\ orphan \subseteq Worker

Tree == dirs \subseteq Dir /\ \A d \in dirs : Parent[d] \in There

(* The process a session has is that session's, and no other's.            *)
Linked ==
  /\ \A s \in Session : session[s].worker # NoOne => worker[session[s].worker].session = s
  /\ \A s \in Session : session[s].at \in {"wait", "payload"} => session[s].worker # NoOne
  /\ \A w \in Worker : worker[w].at = "free" => worker[w].session = NoOne

(* Between the helper's answer to a cd and the handler's, and only there,  *)
(* the working directory may be one the client does not know.              *)
Knows ==
  \A s \in Session : IF session[s].moved THEN session[s].at = "reply"
                                         ELSE session[s].told = session[s].workdir

(* A process at work has given no answer, and unless it is an orphan there *)
(* is a session that waits for one; a process that is done has given it.   *)
Answering ==
  \A w \in Worker :
    /\ worker[w].at \in {"sandbox", "act", "answer"} =>
         /\ worker[w].answer = "none"
         /\ w \in orphan \/ /\ worker[w].session \in Session
                            /\ session[worker[w].session].at = "wait"
                            /\ session[worker[w].session].worker = w
    /\ worker[w].at = "next" => worker[w].answer # "none"

Inv == Typed /\ Tree /\ Linked /\ Knows /\ Answering

-----------------------------------------------------------------------------
(* Steps of the helper.  Process w, at work, goes on or ends with or       *)
(* without an answer; or it finds that nobody waits for it.                *)
AtWork == {"sandbox", "act", "answer"}

GoesOn(w, new) ==
  /\ worker[w].at \in AtWork /\ new.at # "free" /\ new.session = worker[w].session
  /\ new.at \in AtWork => new.answer = "none"
  /\ new.at = "next" => new.answer # "none"
  /\ orphan' = orphan

Moves(w) ==
  /\ session' = session
  /\ \E new \in WorkerType :
       /\ worker' = [worker EXCEPT ![w] = new]
       /\ \/ GoesOn(w, new)
          \/ Detached(w) /\ new = NoWorker /\ orphan' = orphan \ {w}

(* A step of either kind leaves sessions and processes linked.             *)
LEMMA MovesKeeps ==
  ASSUME Inv, NEW w \in Worker, Moves(w)
  PROVE  Typed' /\ Linked' /\ Knows' /\ Answering'
<1> USE DEF Inv, Typed
<1>1. PICK new \in WorkerType :
        /\ worker' = [worker EXCEPT ![w] = new]
        /\ \/ GoesOn(w, new)
           \/ Detached(w) /\ new = NoWorker /\ orphan' = orphan \ {w}
  BY DEF Moves
<1>2. session' = session
  BY DEF Moves
<1>3. worker'[w] = new /\ \A v \in Worker : v # w => worker'[v] = worker[v]
  BY <1>1
<1>4. Typed'
  BY <1>1, <1>2 DEF GoesOn
<1>5. Knows'
  BY <1>2 DEF Knows
<1>6. CASE GoesOn(w, new)
  <2>1. worker[w].at # "free" /\ orphan' = orphan
    BY <1>6 DEF GoesOn, AtWork
  <2>2. \A s \in Session : session[s].worker \in Worker \cup {NoOne}
    BY DEF SessionType
  <2>3. Linked'
    BY <1>2, <1>3, <1>6, <2>1, <2>2 DEF Linked, GoesOn
  <2>4. Answering'
    BY <1>2, <1>3, <1>6, <2>1 DEF Answering, GoesOn, AtWork
  <2> QED BY <1>4, <1>5, <2>3, <2>4
<1>7. CASE Detached(w) /\ new = NoWorker /\ orphan' = orphan \ {w}
  <2>1. \A s \in Session : session[s].worker \in Worker \cup {NoOne}
    BY DEF SessionType
  <2>2. \A s \in Session : session[s].worker # w
    BY <1>7, <2>1, SessionsAssumption DEF Detached, Linked
  <2>3. new.at = "free" /\ new.session = NoOne
    BY <1>7 DEF NoWorker
  <2>4. Linked'
    BY <1>2, <1>3, <2>1, <2>2, <2>3 DEF Linked
  <2>5. Answering'
    BY <1>2, <1>3, <1>7, <2>3 DEF Answering
  <2> QED BY <1>4, <1>5, <2>4, <2>5
<1> QED BY <1>1, <1>6, <1>7

(* What is written into a process is one.                                  *)
LEMMA Records ==
  /\ NoCommand \in Command /\ NoWorker \in WorkerType /\ NoSession \in SessionType
  /\ \A w \in Worker, answer \in {"none", "ok", "failed"} :
       worker[w] \in WorkerType => Over(w, answer) \in WorkerType
BY DEF NoCommand, Command, Op, NoWorker, NoSession, WorkerType, SessionType, Over, Place

LEMMA ActsMoves ==
  ASSUME Inv, NEW w \in Worker, worker[w].at = "act", NEW ok \in BOOLEAN, Acts(w, ok),
         UNCHANGED <<session, orphan>>
  PROVE  Moves(w)
<1> DEFINE new == [worker[w] EXCEPT !.at = "answer", !.ok = ok, !.cmd =
    IF worker[w].cmd.op = "mkdir" THEN [op |-> "mkdir", dir |-> Home] ELSE NoCommand]
<1>1. worker[w] \in WorkerType
  BY DEF Inv, Typed
<1>2. [op |-> "mkdir", dir |-> Home] \in Command
  BY DEF Command, Op, Place
<1>3. new \in WorkerType
  BY <1>1, <1>2, Records DEF WorkerType
<1>4. worker' = [worker EXCEPT ![w] = new]
  BY DEF Acts
<1>5. GoesOn(w, new)
  BY <1>1 DEF GoesOn, AtWork, Inv, Answering, WorkerType
<1> QED BY <1>3, <1>4, <1>5 DEF Moves

LEMMA WorkerStepMoves ==
  ASSUME Inv, NEW w \in Worker, WorkerStep(w)
  PROVE  Moves(w)
<1>1. worker[w] \in WorkerType
  BY DEF Inv, Typed
<1>2. worker[w].at \in AtWork => worker[w].answer = "none"
  BY DEF Inv, Answering, AtWork
<1>3. CASE LookUp(w)
  <2>1. PICK answer \in {"ok", "failed"} :
          worker' = [worker EXCEPT ![w].at = "next", ![w].answer = answer]
    BY <1>3 DEF LookUp
  <2> DEFINE new == [worker[w] EXCEPT !.at = "next", !.answer = answer]
  <2>2. new \in WorkerType /\ GoesOn(w, new)
    BY <1>1, <1>3 DEF WorkerType, GoesOn, AtWork, LookUp
  <2> QED BY <1>3, <2>1, <2>2 DEF Moves, LookUp
<1>4. CASE Sandbox(w)
  <2> DEFINE new == [worker[w] EXCEPT !.at = "act", !.workdir = Home]
  <2>1. new \in WorkerType /\ GoesOn(w, new)
    BY <1>1, <1>2, <1>4 DEF WorkerType, GoesOn, AtWork, Sandbox, Place
  <2> QED BY <1>4, <2>1 DEF Moves, Sandbox
<1>5. ASSUME worker[w].at \in AtWork, session' = session,
             NEW answer \in {"none", "failed"},
             worker' = [worker EXCEPT ![w] = IF Detached(w) THEN NoWorker ELSE Over(w, answer)],
             orphan' = IF Detached(w) THEN orphan \ {w} ELSE orphan
      PROVE  Moves(w)
  <2>1. Over(w, answer) \in WorkerType
    BY <1>1, Records
  <2>2. ~Detached(w) => GoesOn(w, Over(w, answer))
    BY <1>5 DEF GoesOn, Over, NoWorker, AtWork
  <2> QED BY <1>5, <2>1, <2>2, Records DEF Moves
<1>6. CASE SandboxFails(w)
  BY <1>5, <1>6 DEF SandboxFails, AtWork
<1>7. CASE NoRoot(w)
  BY <1>5, <1>7 DEF NoRoot, AtWork
<1>8. CASE Look(w) \/ Mkdir(w) \/ Rmdir(w) \/ ActFails(w)
  BY <1>8, ActsMoves DEF Look, Mkdir, Rmdir, ActFails
<1>9. CASE Answer(w)
  <2> DEFINE new == [worker[w] EXCEPT !.at = "next", !.ok = FALSE, !.cmd = NoCommand,
                       !.answer = IF worker[w].ok THEN "ok" ELSE "failed"]
  <2>1. CASE Detached(w)
    BY <1>9, <2>1, Records DEF Moves, Answer
  <2>2. CASE ~Detached(w)
    <3>1. new \in WorkerType
      BY <1>1, Records DEF WorkerType
    <3>2. worker' = [worker EXCEPT ![w] = new] /\ orphan' = orphan /\ session' = session
      BY <1>9, <2>2 DEF Answer
    <3>3. GoesOn(w, new)
      BY <1>1, <1>9, <3>2 DEF WorkerType, GoesOn, AtWork, Answer
    <3> QED BY <3>1, <3>2, <3>3 DEF Moves
  <2> QED BY <2>1, <2>2
<1> QED BY <1>3, <1>4, <1>6, <1>7, <1>8, <1>9 DEF WorkerStep

-----------------------------------------------------------------------------
(* Steps of a handler.  It goes on with the process it has, and with none  *)
(* of the helper's; or it asks one; or it is done with its command.        *)
Keeps(s, new) ==
  /\ new.worker = session[s].worker \/ new.worker = NoOne
  /\ new.at \in {"wait", "payload"} => new.worker # NoOne
  /\ IF new.moved THEN new.at = "reply" ELSE new.told = new.workdir

Rests(s) ==
  \E new \in SessionType :
    /\ session' = [session EXCEPT ![s] = new] /\ Keeps(s, new)
    /\ worker' = worker
    /\ orphan' = orphan \/ (session[s].worker \in Worker /\ orphan' = orphan \cup {session[s].worker})
    /\ session[s].at = "wait" =>
         worker[session[s].worker].at \notin AtWork \/ session[s].worker \in orphan'

LEMMA RestsKeeps ==
  ASSUME Inv, NEW s \in Session, Rests(s)
  PROVE  Typed' /\ Linked' /\ Knows' /\ Answering'
<1> USE DEF Inv, Typed
<1>1. PICK new \in SessionType :
        /\ session' = [session EXCEPT ![s] = new] /\ Keeps(s, new)
        /\ worker' = worker
        /\ orphan' = orphan
             \/ (session[s].worker \in Worker /\ orphan' = orphan \cup {session[s].worker})
        /\ session[s].at = "wait" =>
             worker[session[s].worker].at \notin AtWork \/ session[s].worker \in orphan'
  BY DEF Rests
<1>2. session'[s] = new /\ \A r \in Session : r # s => session'[r] = session[r]
  BY <1>1
<1>3. Typed'
  BY <1>1
<1>4. Linked'
  BY <1>1, <1>2 DEF Linked, Keeps
<1>5. Knows'
  BY <1>1, <1>2 DEF Knows, Keeps
<1>6. Answering'
  BY <1>1, <1>2 DEF Answering, AtWork
<1> QED BY <1>3, <1>4, <1>5, <1>6

LEMMA HandlerRests ==
  ASSUME Inv, NEW s \in Session,
         Connect(s) \/ Refuse(s) \/ Receive(s) \/ ReadEntries(s) \/ Interrupt(s)
  PROVE  Rests(s)
<1>1. session[s] \in SessionType
  BY DEF Inv, Typed
<1>2. IF session[s].moved THEN session[s].at = "reply"
                          ELSE session[s].told = session[s].workdir
  BY DEF Inv, Knows
<1>3. session[s].at \in {"wait", "payload"} => session[s].worker # NoOne
  BY DEF Inv, Linked
<1>4. CASE Connect(s)
  <2> DEFINE new == [NoSession EXCEPT !.at = "read"]
  <2>1. new \in SessionType /\ Keeps(s, new)
    BY Records DEF SessionType, Keeps, NoSession
  <2> QED BY <1>4, <2>1 DEF Rests, Connect
<1>5. CASE Refuse(s) \/ ReadEntries(s)
  <2> DEFINE new == [session[s] EXCEPT !.at = "reply"]
  <2>1. new \in SessionType /\ Keeps(s, new)
    BY <1>1, <1>2 DEF SessionType, Keeps
  <2>2. session' = [session EXCEPT ![s] = new] /\ session[s].at # "wait"
    BY <1>5 DEF Refuse, ReadEntries
  <2> QED BY <1>5, <2>1, <2>2 DEF Rests, Refuse, ReadEntries
<1>6. CASE Receive(s)
  <2> DEFINE new == [session[s] EXCEPT
       !.at = IF Ok(s) /\ session[s].cmd.op = "ls" THEN "payload" ELSE "reply",
       !.cmd = NoCommand, !.moved = Ok(s) /\ session[s].cmd.op = "cd",
       !.user = @ \/ (Ok(s) /\ session[s].cmd.op = "login"),
       !.workdir = IF Ok(s) /\ session[s].cmd.op = "cd" THEN session[s].cmd.dir ELSE @]
  <2>1. session[s].at = "wait" /\ session[s].worker \in Worker
    BY <1>1, <1>3, <1>6 DEF Receive, Answered, SessionType
  <2>2. new \in SessionType
    BY <1>1, Records DEF SessionType, Command
  <2>3. Keeps(s, new)
    BY <1>1, <1>2, <1>3, <2>1 DEF SessionType, Keeps
  <2>4. worker[session[s].worker].at \notin AtWork
    BY <1>6, <2>1 DEF Receive, Answered, Inv, Answering, AtWork
  <2>5. session' = [session EXCEPT ![s] = new]
    BY <1>6 DEF Receive
  <2> QED BY <1>6, <2>2, <2>3, <2>4, <2>5 DEF Rests, Receive
<1>7. CASE Interrupt(s)
  <2> DEFINE new == [session[s] EXCEPT !.at = "reply", !.cmd = NoCommand]
  <2>1. new \in SessionType /\ Keeps(s, new)
    BY <1>1, <1>2, Records DEF SessionType, Keeps
  <2>2. session[s].worker \in Worker
    BY <1>1, <1>3, <1>7 DEF Interrupt, SessionType
  <2> QED BY <1>7, <2>1, <2>2 DEF Rests, Interrupt
<1> QED BY <1>4, <1>5, <1>6, <1>7

(* A process is asked that was free, so that it is no other session's.     *)
LEMMA AskKeeps ==
  ASSUME Inv, NEW s \in Session, NEW w \in Worker, NEW c \in Command, Ask(s, w, c)
  PROVE  Typed' /\ Linked' /\ Knows' /\ Answering'
<1> DEFINE news == [session[s] EXCEPT !.at = "wait", !.cmd = c, !.worker = w]
           neww == [NoWorker EXCEPT !.at = "sandbox", !.session = s, !.cmd = c,
                                    !.workdir = session[s].workdir]
<1> USE DEF Inv, Typed
<1>1. session[s] \in SessionType /\ \A r \in Session : session[r].worker \in Worker \cup {NoOne}
  BY DEF SessionType
<1>2. /\ session' = [session EXCEPT ![s] = news] /\ worker' = [worker EXCEPT ![w] = neww]
      /\ session[s].at = "read" /\ worker[w].at = "free" /\ orphan' = orphan
  BY DEF Ask
<1>3. news \in SessionType /\ neww \in WorkerType
  BY <1>1, Records DEF SessionType, WorkerType
<1>4. Typed'
  BY <1>2, <1>3
<1>5. /\ session'[s] = news /\ \A r \in Session : r # s => session'[r] = session[r]
      /\ worker'[w] = neww /\ \A v \in Worker : v # w => worker'[v] = worker[v]
  BY <1>2
<1>6. /\ news.at = "wait" /\ news.worker = w /\ news.moved = session[s].moved
      /\ news.told = session[s].told /\ news.workdir = session[s].workdir
      /\ neww.at = "sandbox" /\ neww.session = s /\ neww.answer = "none"
  BY <1>1 DEF SessionType, NoWorker
<1>7. w # NoOne /\ \A r \in Session : session[r].worker # w
  BY <1>1, <1>2, SessionsAssumption DEF Linked
<1> HIDE DEF news, neww
<1>8. Linked'
  BY <1>1, <1>5, <1>6, <1>7 DEF Linked
<1>9. Knows'
  BY <1>2, <1>5, <1>6 DEF Knows
<1>10. Answering'
  BY <1>2, <1>5, <1>6, <1>7 DEF Answering, AtWork
<1> QED BY <1>4, <1>8, <1>9, <1>10

(* A process that is asked no more ends, and no other session has it.      *)
LEMMA HangupKeeps ==
  ASSUME Inv, NEW s \in Session, NEW new \in SessionType,
         session' = [session EXCEPT ![s] = new], Hangup(s),
         session[s].at \in {"read", "reply"}, new.at \in {"read", "gone"},
         new.worker = NoOne, ~new.moved, new.told = new.workdir
  PROVE  Typed' /\ Linked' /\ Knows' /\ Answering'
<1> USE DEF Inv, Typed
<1> DEFINE ended == {w \in Worker : w = session[s].worker /\ worker[w].at \in {"next", "over"}}
<1>1. /\ worker' = [w \in Worker |-> IF w \in ended THEN NoWorker ELSE worker[w]]
      /\ orphan' = orphan \ ended
  BY DEF Hangup
<1>2. session'[s] = new /\ \A r \in Session : r # s => session'[r] = session[r]
  OBVIOUS
<1>3. \A w \in Worker : worker'[w] = IF w \in ended THEN NoWorker ELSE worker[w]
  BY <1>1
<1>4. Typed'
  BY <1>1, Records
<1>5. \A r \in Session : session[r].worker \in Worker \cup {NoOne}
  BY DEF SessionType
<1>6. \A r \in Session : r # s => session[r].worker \notin ended
  BY SessionsAssumption DEF Linked
<1>7. NoWorker.at = "free" /\ NoWorker.session = NoOne
  BY DEF NoWorker
<1>8. Linked'
  BY <1>2, <1>3, <1>5, <1>6, <1>7 DEF Linked
<1>9. Knows'
  BY <1>2 DEF Knows
<1>10. \A w \in ended : worker[w].at \in {"next", "over"}
  OBVIOUS
<1> HIDE DEF ended
<1>11. Answering'
  BY <1>1, <1>2, <1>3, <1>7, <1>10 DEF Answering, AtWork
<1> QED BY <1>4, <1>8, <1>9, <1>11

LEMMA HandlerLeaves ==
  ASSUME Inv, NEW s \in Session, Reply(s) \/ Leave(s)
  PROVE  Typed' /\ Linked' /\ Knows' /\ Answering'
<1>1. session[s] \in SessionType
  BY DEF Inv, Typed
<1>2. IF session[s].moved THEN session[s].at = "reply"
                          ELSE session[s].told = session[s].workdir
  BY DEF Inv, Knows
<1>3. CASE Reply(s)
  <2> DEFINE new == [session[s] EXCEPT !.at = "read", !.worker = NoOne, !.moved = FALSE,
       !.told = IF session[s].moved THEN session[s].workdir ELSE @]
  <2>1. /\ new \in SessionType /\ new.at = "read" /\ new.worker = NoOne
        /\ ~new.moved /\ new.told = new.workdir
    BY <1>1, <1>2 DEF SessionType
  <2>2. session' = [session EXCEPT ![s] = new]
    BY <1>3 DEF Reply
  <2> QED BY <1>3, <2>1, <2>2, HangupKeeps DEF Reply
<1>4. CASE Leave(s)
  <2>1. /\ NoSession.at = "gone" /\ NoSession.worker = NoOne /\ ~NoSession.moved
        /\ NoSession.told = NoSession.workdir
    BY DEF NoSession
  <2> QED BY <1>4, <2>1, Records, HangupKeeps DEF Leave
<1> QED BY <1>3, <1>4

-----------------------------------------------------------------------------
(* Directories: two steps of the helper change them.                       *)
LEMMA DirsSteps ==
  ASSUME Next
  PROVE  dirs' = dirs \/ \E w \in Worker : Mkdir(w) \/ Rmdir(w)
<1>1. ASSUME NEW s \in Session, NEW w \in Worker, Asks(s, w)
      PROVE  dirs' = dirs
  <2>1. \E c : Ask(s, w, c)
    BY <1>1, Zenon DEF Asks, Login, FileCommand, Ls, Cd, MakeDir, Delete
  <2> QED BY <2>1 DEF Ask
<1>2. ASSUME NEW s \in Session,
             \/ Connect(s) \/ Refuse(s) \/ HandlerStep(s) \/ Interrupt(s) \/ Leave(s)
      PROVE  dirs' = dirs
  BY <1>2 DEF HandlerStep, Connect, Refuse, Receive, ReadEntries, Reply, Interrupt, Leave
<1>3. ASSUME NEW w \in Worker, WorkerStep(w)
      PROVE  dirs' = dirs \/ Mkdir(w) \/ Rmdir(w)
  BY <1>3 DEF WorkerStep, LookUp, Sandbox, SandboxFails, Look, ActFails, Answer, NoRoot
<1> QED BY <1>1, <1>2, <1>3 DEF Next

LEMMA TreeKept ==
  ASSUME Inv, Next
  PROVE  Tree'
<1>1. CASE dirs' = dirs
  BY <1>1 DEF Inv, Tree, There
<1>2. ASSUME NEW w \in Worker, Mkdir(w)
      PROVE  Tree'
  BY <1>2 DEF Mkdir, Inv, Tree, There
<1>3. ASSUME NEW w \in Worker, Rmdir(w)
      PROVE  Tree'
  BY <1>3, SessionsAssumption DEF Rmdir, Inv, Tree, There
<1>4. dirs' = dirs \/ \E w \in Worker : Mkdir(w) \/ Rmdir(w)
  BY DirsSteps
<1> QED BY <1>1, <1>2, <1>3, <1>4

LEMMA InvInit == Init => Inv
<1> SUFFICES ASSUME Init PROVE Inv
  OBVIOUS
<1>1. Typed
  BY Records DEF Init, Typed
<1>2. Tree
  BY DEF Init, Tree
<1>3. Linked /\ Knows /\ Answering
  BY DEF Init, Linked, Knows, Answering, NoSession, NoWorker
<1> QED BY <1>1, <1>2, <1>3 DEF Inv

LEMMA InvNext == Inv /\ [Next]_vars => Inv'
<1> SUFFICES ASSUME Inv, [Next]_vars PROVE Inv'
  OBVIOUS
<1>1. CASE Next
  <2>1. Tree'
    BY <1>1, TreeKept
  <2>2. ASSUME NEW s \in Session, NEW w \in Worker, Asks(s, w)
        PROVE  Typed' /\ Linked' /\ Knows' /\ Answering'
    <3>1. NoCommand \in Command
          /\ \A op \in Op, d \in Place : [op |-> op, dir |-> d] \in Command
      BY Records DEF Command
    <3>2. {"login", "cd", "ls", "mkdir", "delete"} \subseteq Op /\ Home \in Place /\ Dir \subseteq Place
      BY DEF Op, Place
    <3>3. \E c \in Command : Ask(s, w, c)
      BY <2>2, <3>1, <3>2 DEF Asks, Login, FileCommand, Ls, Cd, MakeDir, Delete
    <3> QED BY <3>3, AskKeeps
  <2>3. ASSUME NEW s \in Session,
               Connect(s) \/ Refuse(s) \/ Receive(s) \/ ReadEntries(s) \/ Interrupt(s)
        PROVE  Typed' /\ Linked' /\ Knows' /\ Answering'
    BY <2>3, HandlerRests, RestsKeeps
  <2>4. ASSUME NEW s \in Session, Reply(s) \/ Leave(s)
        PROVE  Typed' /\ Linked' /\ Knows' /\ Answering'
    BY <2>4, HandlerLeaves
  <2>5. ASSUME NEW w \in Worker, WorkerStep(w)
        PROVE  Typed' /\ Linked' /\ Knows' /\ Answering'
    BY <2>5, WorkerStepMoves, MovesKeeps
  <2> QED BY <1>1, <2>1, <2>2, <2>3, <2>4, <2>5 DEF Next, HandlerStep, Inv
<1>2. CASE UNCHANGED vars
  BY <1>2 DEF vars, Inv, Typed, Tree, Linked, Knows, Answering, There
<1> QED BY <1>1, <1>2

THEOREM Invariance == Spec => []Inv
BY InvInit, InvNext, PTL DEF Spec

-----------------------------------------------------------------------------
(* TypeOK, which says of the tree of directories that it has no holes, and *)
(* of a handler that it waits for a process that works for it.             *)
THEOREM TypeCorrect == Spec => []TypeOK
<1>1. Inv => TypeOK
  BY DEF Inv, Typed, SessionType, WorkerType, Tree, Linked, TypeOK
<1> QED BY <1>1, Invariance, PTL

(* Client and handler agree on the working directory between commands,     *)
(* whatever became of the commands before (handleCd).                      *)
THEOREM WorkdirTold == Spec => []ToldIsWorkdir
<1>1. Inv => ToldIsWorkdir
  BY DEF Inv, Knows, ToldIsWorkdir
<1> QED BY <1>1, Invariance, PTL

(* A handler in readAll of the helper's answer does not wait in vain.      *)
THEOREM NobodyWaitsInVain == Spec => []EveryCommandAnswered
<1>1. ASSUME Inv PROVE EveryCommandAnswered
  <2> SUFFICES ASSUME NEW s \in Session, session[s].at = "wait"
               PROVE  Answered(s) \/ worker[session[s].worker].at \in AtWork
    BY DEF EveryCommandAnswered, AtWork
  <2> DEFINE w == session[s].worker
  <2>1. w \in Worker /\ worker[w].session = s
    BY <1>1 DEF Inv, Typed, SessionType, Linked
  <2>2. worker[w].at \in AtWork \cup {"free", "next", "over"}
    BY <1>1, <2>1 DEF Inv, Typed, WorkerType, AtWork
  <2>3. worker[w].at # "free"
    BY <1>1, <2>1, SessionsAssumption DEF Inv, Linked
  <2>4. worker[w].at = "next" => worker[w].answer # "none"
    BY <1>1, <2>1 DEF Inv, Answering
  <2> QED BY <2>2, <2>3, <2>4 DEF Answered
<1> QED BY <1>1, Invariance, PTL

(* A command takes effect before its answer, unless a signal ended the     *)
(* wait (readAll in sendHelperRequest).                                    *)
THEOREM EffectsInOrder == Spec => EffectBeforeAnswer
<1> DEFINE A == dirs' # dirs =>
       \E w \in Worker :
         /\ worker[w].at = "act" /\ worker'[w].at = "answer"
         /\ \/ w \in orphan
            \/ session[worker[w].session].at = "wait"
               /\ session[worker[w].session].worker = w
<1>1. Inv /\ [Next]_vars => [A]_vars
  <2> SUFFICES ASSUME Inv, Next PROVE A
    OBVIOUS
  <2>1. CASE dirs' = dirs
    BY <2>1
  <2>2. ASSUME NEW w \in Worker, Mkdir(w) \/ Rmdir(w)
        PROVE  A
    <3>1. worker[w].at = "act" /\ worker'[w].at = "answer"
      BY <2>2 DEF Mkdir, Rmdir, Acts, Inv, Typed, WorkerType
    <3>2. \/ w \in orphan
          \/ /\ session[worker[w].session].at = "wait"
             /\ session[worker[w].session].worker = w
      BY <3>1 DEF Inv, Answering
    <3> QED BY <3>1, <3>2
  <2>3. dirs' = dirs \/ \E w \in Worker : Mkdir(w) \/ Rmdir(w)
    BY DirsSteps
  <2> QED BY <2>1, <2>2, <2>3
<1> QED BY <1>1, Invariance, PTL DEF Spec, EffectBeforeAnswer

-----------------------------------------------------------------------------
(***************************************************************************)
(* Handlers and helper do what DirectoryService promises.                  *)
(***************************************************************************)
(* Whoever did not give up has its process, which works on its command; a  *)
(* cd to be told of is one that worked.                                    *)
PairedWorker(w) ==
  /\ worker[w].at # "answer" => ~worker[w].ok
  /\ worker[w].at = "over" => worker[w].answer # "ok"
  /\ w \in orphan => worker[w].at # "free"
  /\ worker[w].at # "free" /\ w \notin orphan =>
       /\ worker[w].session \in Session /\ session[worker[w].session].worker = w
       /\ worker[w].at \in {"sandbox", "act"} =>
            session[worker[w].session].cmd = worker[w].cmd
PairedSession(s) ==
  /\ session[s].at \in {"gone", "read"} => session[s].worker = NoOne
  /\ session[s].at = "gone" => session[s].told = Home
  /\ session[s].at \in {"wait", "payload"} => session[s].worker \notin orphan
  /\ session[s].moved => /\ session[s].worker \in Worker \ orphan
                         /\ worker[session[s].worker].at = "next"
                         /\ worker[session[s].worker].answer = "ok"
Paired == /\ \A w \in Worker : PairedWorker(w)
          /\ \A s \in Session : PairedSession(s)

(* A process enters the directory of its call, takes effect, fails, has    *)
(* its answer sent; or it ends, as nobody waits for it.                    *)
Enters(old, new) ==
  /\ old.at = "sandbox" /\ old.cmd.op # "login" /\ old.workdir \in There
  /\ new.at = "act" /\ new.cmd = old.cmd /\ dirs' = dirs
LogsIn(old, new) ==
  /\ old.at = "sandbox" /\ old.cmd.op = "login"
  /\ new.at = "next" /\ new.answer = "ok" /\ dirs' = dirs
Works(old, new) ==
  old.at = "act" /\ new.at = "answer" /\ new.ok /\ Service!Effect(old.cmd)
Fails(old, new) ==
  /\ \/ old.at = "sandbox" /\ new.at = "next" /\ new.answer = "failed"
     \/ old.at = "act" /\ new.at = "answer" /\ ~new.ok /\ new.answer = "none"
     \/ old.at \in {"sandbox", "answer"} /\ new.at = "over"
  /\ dirs' = dirs
Sends(old, new) ==
  /\ old.at = "answer" /\ new.at = "next" /\ dirs' = dirs
  /\ new.answer = IF old.ok THEN "ok" ELSE "failed"
Changes(w, new) ==
  \/ /\ orphan' = orphan /\ new.session = worker[w].session
     /\ new.at # "answer" => ~new.ok
     /\ new.at = "over" => new.answer # "ok"
     /\ \/ Enters(worker[w], new) \/ LogsIn(worker[w], new) \/ Works(worker[w], new)
        \/ Fails(worker[w], new) \/ Sends(worker[w], new)
  \/ /\ Detached(w) /\ new = NoWorker /\ orphan' = orphan \ {w} /\ dirs' = dirs
     /\ worker[w].at \in {"sandbox", "answer"}

LEMMA WorkerChanges ==
  ASSUME Inv, Paired, NEW w \in Worker, WorkerStep(w)
  PROVE  /\ session' = session
         /\ \E new \in WorkerType : worker' = [worker EXCEPT ![w] = new] /\ Changes(w, new)
<1>1. /\ worker \in [Worker -> WorkerType] /\ worker[w] \in WorkerType
      /\ (worker[w].at # "answer" => ~worker[w].ok)
      /\ (worker[w].at \in AtWork => worker[w].answer = "none")
  BY DEF Inv, Typed, Paired, PairedWorker, Answering, AtWork
<1>2. CASE LookUp(w)
  <2>1. PICK answer \in {"ok", "failed"} :
          worker' = [worker EXCEPT ![w].at = "next", ![w].answer = answer]
    BY <1>2 DEF LookUp
  <2> DEFINE new == [worker[w] EXCEPT !.at = "next", !.answer = answer]
  <2>2. new \in WorkerType /\ worker' = [worker EXCEPT ![w] = new]
    BY <1>1, <2>1 DEF WorkerType
  <2>3. /\ new.at = "next" /\ new.answer = answer /\ ~new.ok
        /\ new.session = worker[w].session
    BY <1>1, <1>2 DEF WorkerType, LookUp
  <2> HIDE DEF new
  <2>4. Changes(w, new) /\ session' = session
    BY <1>2, <2>1, <2>3 DEF LookUp, Changes, LogsIn, Fails
  <2> QED BY <2>2, <2>4
<1>3. CASE Sandbox(w)
  <2> DEFINE new == [worker[w] EXCEPT !.at = "act", !.workdir = Home]
  <2>1. new \in WorkerType /\ worker' = [worker EXCEPT ![w] = new]
    BY <1>1, <1>3 DEF WorkerType, Sandbox, Place
  <2>2. /\ new.at = "act" /\ new.cmd = worker[w].cmd /\ ~new.ok
        /\ new.session = worker[w].session
    BY <1>1, <1>3 DEF WorkerType, Sandbox
  <2> HIDE DEF new
  <2>3. Changes(w, new) /\ session' = session
    BY <1>3, <2>2 DEF Sandbox, Changes, Enters
  <2> QED BY <2>1, <2>3
<1>4. ASSUME worker[w].at \in {"sandbox", "answer"}, session' = session, dirs' = dirs,
             NEW answer \in {"none", "failed"},
             worker' = [worker EXCEPT ![w] = IF Detached(w) THEN NoWorker ELSE Over(w, answer)],
             orphan' = IF Detached(w) THEN orphan \ {w} ELSE orphan
      PROVE  \E new \in WorkerType : worker' = [worker EXCEPT ![w] = new] /\ Changes(w, new)
  <2>1. Over(w, answer) \in WorkerType
    BY <1>1, Records
  <2>2. ~Detached(w) => Changes(w, Over(w, answer))
    BY <1>4 DEF Changes, Fails, Over, NoWorker
  <2>3. Detached(w) => Changes(w, NoWorker)
    BY <1>4 DEF Changes
  <2> QED BY <1>4, <2>1, <2>2, <2>3, Records
<1>5. CASE SandboxFails(w)
  BY <1>4, <1>5 DEF SandboxFails
<1>6. CASE NoRoot(w)
  BY <1>4, <1>6 DEF NoRoot
<1>7. ASSUME NEW ok \in BOOLEAN, worker[w].at = "act", Acts(w, ok),
             session' = session, orphan' = orphan,
             IF ok THEN Service!Effect(worker[w].cmd) ELSE dirs' = dirs
      PROVE  \E new \in WorkerType : worker' = [worker EXCEPT ![w] = new] /\ Changes(w, new)
  <2> DEFINE new == [worker[w] EXCEPT !.at = "answer", !.ok = ok, !.cmd =
    IF worker[w].cmd.op = "mkdir" THEN [op |-> "mkdir", dir |-> Home] ELSE NoCommand]
  <2>1. [op |-> "mkdir", dir |-> Home] \in Command
    BY DEF Command, Op, Place
  <2>2. new \in WorkerType /\ worker' = [worker EXCEPT ![w] = new]
    BY <1>1, <1>7, <2>1, Records DEF WorkerType, Acts
  <2>3. /\ new.at = "answer" /\ new.ok = ok /\ new.session = worker[w].session
        /\ new.answer = "none"
    BY <1>1, <1>7 DEF WorkerType, AtWork
  <2> HIDE DEF new
  <2>4. Changes(w, new)
    BY <1>7, <2>3 DEF Changes, Works, Fails
  <2> QED BY <2>2, <2>4
<1>8. CASE Look(w) \/ Mkdir(w) \/ Rmdir(w)
  <2>1. Service!Effect(worker[w].cmd)
    BY <1>8 DEF Look, Mkdir, Rmdir, Service!Effect, Service!There, There
  <2> QED BY <1>7, <1>8, <2>1 DEF Look, Mkdir, Rmdir
<1>9. CASE ActFails(w)
  BY <1>7, <1>9 DEF ActFails
<1>10. CASE Answer(w)
  <2> DEFINE new == [worker[w] EXCEPT !.at = "next", !.ok = FALSE, !.cmd = NoCommand,
                       !.answer = IF worker[w].ok THEN "ok" ELSE "failed"]
  <2>1. CASE Detached(w)
    BY <1>10, <2>1, Records DEF Answer, Changes
  <2>2. CASE ~Detached(w)
    <3>1. new \in WorkerType
      BY <1>1, Records DEF WorkerType
    <3>2. /\ worker' = [worker EXCEPT ![w] = new] /\ orphan' = orphan
          /\ session' = session /\ dirs' = dirs /\ worker[w].at = "answer"
      BY <1>10, <2>2 DEF Answer
    <3>3. /\ new.at = "next" /\ ~new.ok /\ new.session = worker[w].session
          /\ new.answer = IF worker[w].ok THEN "ok" ELSE "failed"
      BY <1>1 DEF WorkerType
    <3> HIDE DEF new
    <3>4. Changes(w, new)
      BY <3>2, <3>3 DEF Changes, Sends
    <3> QED BY <3>1, <3>2, <3>4
  <2> QED BY <2>1, <2>2
<1> QED BY <1>2, <1>3, <1>5, <1>6, <1>8, <1>9, <1>10 DEF WorkerStep

(* None of this unpairs anybody: who finds nobody waiting for it is an     *)
(* orphan.                                                                 *)
LEMMA WorkerPaired ==
  ASSUME Inv, Paired, NEW w \in Worker, WorkerStep(w)
  PROVE  Paired'
<1>1. session' = session
  BY WorkerChanges
<1>2. PICK new \in WorkerType : worker' = [worker EXCEPT ![w] = new] /\ Changes(w, new)
  BY WorkerChanges
<1>3. worker'[w] = new /\ \A v \in Worker : v # w => worker'[v] = worker[v]
  BY <1>2 DEF Inv, Typed
<1>4. worker[w].at \in AtWork
  BY <1>2 DEF Changes, Enters, LogsIn, Works, Fails, Sends, AtWork
<1>5. /\ \A v \in Worker : v # w => (v \in orphan' <=> v \in orphan)
      /\ orphan' \subseteq orphan
  BY <1>2 DEF Changes
<1>6. ASSUME NEW v \in Worker
      PROVE  PairedWorker(v)'
  <2>1. CASE v # w
    BY <1>1, <1>3, <1>5, <2>1 DEF Paired, PairedWorker
  <2>2. CASE v = w /\ new = NoWorker /\ orphan' = orphan \ {w}
    BY <1>3, <2>2 DEF PairedWorker, NoWorker
  <2>3. CASE v = w /\ orphan' = orphan /\ ~(new = NoWorker /\ orphan' = orphan \ {w})
    <3>1. /\ new.session = worker[w].session /\ (new.at # "answer" => ~new.ok)
          /\ (new.at = "over" => new.answer # "ok")
          /\ (new.at \in {"sandbox", "act"} => /\ worker[w].at \in {"sandbox", "act"}
                                               /\ new.cmd = worker[w].cmd)
          /\ new.at # "free"
      BY <1>2, <2>3 DEF Changes, Enters, LogsIn, Works, Fails, Sends
    <3> QED BY <1>1, <1>3, <1>4, <2>3, <3>1 DEF Paired, PairedWorker, AtWork
  <2> QED BY <1>2, <2>1, <2>2, <2>3 DEF Changes
<1>7. ASSUME NEW s \in Session
      PROVE  PairedSession(s)'
  <2>1. session[s].moved => session[s].worker # w
    BY <1>4 DEF Paired, PairedSession, AtWork
  <2> QED BY <1>1, <1>3, <1>5, <2>1 DEF Paired, PairedSession
<1> QED BY <1>6, <1>7 DEF Paired

(* The calls as DirectoryService sees them: those given up are nobody's.   *)
Of(w) == IF w \in orphan THEN NoOne ELSE worker[w].session
To(w) == LET s == worker[w].session IN
         IF session[s].at = "wait" /\ session[s].cmd.op = "cd"
         THEN session[s].cmd.dir ELSE session[s].workdir
NoCall == [stage |-> "none", of |-> NoOne]

LEMMA Views ==
  ASSUME NEW w \in Worker
  PROVE  /\ worker[w].at = "free" => CallView(w) = NoCall
         /\ worker[w].at = "sandbox" => CallView(w) =
              [stage |-> "asked", of |-> Of(w), cmd |-> worker[w].cmd,
               in |-> worker[w].workdir]
         /\ worker[w].at = "act" => CallView(w) =
              [stage |-> "inside", of |-> Of(w), cmd |-> worker[w].cmd]
         /\ worker[w].at \in {"answer", "next", "over"} => CallView(w) =
              IF w \in orphan THEN NoCall
              ELSE IF (worker[w].ok \/ worker[w].answer = "ok") /\ worker[w].at # "over"
                   THEN [stage |-> "done", of |-> worker[w].session, to |-> To(w)]
                   ELSE [stage |-> "failed", of |-> worker[w].session]
BY DEF CallView, Of, To, NoCall

(* What a call looks like depends on its process and, when that is done,   *)
(* on the directory to be told of.                                         *)
LEMMA SameCall ==
  ASSUME Inv, NEW v \in Worker, worker'[v] = worker[v], v \in orphan' <=> v \in orphan,
         \/ worker[v].at \in {"free", "sandbox", "act", "over"} \/ v \in orphan
         \/ ~(worker[v].ok \/ worker[v].answer = "ok")
         \/ To(v)' = To(v)
  PROVE  CallView(v)' = CallView(v)
<1>1. CASE worker[v].at \in {"free", "sandbox", "act", "over"}
  BY <1>1 DEF CallView
<1>2. CASE worker[v].at \in {"answer", "next"} /\ v \in orphan
  BY <1>2 DEF CallView
<1>3. CASE /\ worker[v].at \notin {"free", "sandbox", "act", "over"} /\ v \notin orphan
           /\ ~(worker[v].ok \/ worker[v].answer = "ok")
  BY <1>3 DEF CallView
<1>4. CASE /\ worker[v].at \notin {"free", "sandbox", "act", "over"} /\ v \notin orphan
           /\ To(v)' = To(v)
  BY <1>4 DEF CallView, To
<1>5. worker[v].at \in {"free", "sandbox", "act", "answer", "next", "over"}
  BY DEF Inv, Typed, WorkerType
<1> QED BY <1>1, <1>2, <1>3, <1>4, <1>5

LEMMA OtherSession ==
  ASSUME Inv, NEW v \in Worker, worker'[v] = worker[v], v \in orphan' <=> v \in orphan,
         worker[v].at # "free" /\ v \notin orphan =>
           session'[worker[v].session] = session[worker[v].session]
  PROVE  CallView(v)' = CallView(v)
<1>1. worker[v].at = "free" \/ v \in orphan \/ To(v)' = To(v)
  BY DEF To
<1> QED BY <1>1, SameCall

(* A step of one process is one of its call, or none to be seen.           *)
LEMMA OneCall ==
  ASSUME NEW w \in Worker,
         \A v \in Worker : v # w => CallView(v)' = CallView(v)
  PROVE  /\ Calls[w] = CallView(w) /\ Calls'[w] = CallView(w)'
         /\ Calls' = [Calls EXCEPT ![w] = CallView(w)']
         /\ CallView(w)' = CallView(w) => Calls' = Calls
BY DEF Calls

(* The command of a process that works for a session that waits.           *)
LEMMA Waited ==
  ASSUME Inv, Paired, NEW w \in Worker, worker[w].at \in AtWork, w \notin orphan
  PROVE  /\ worker[w].session \in Session /\ session[worker[w].session].at = "wait"
         /\ session[worker[w].session].worker = w
         /\ session[worker[w].session].workdir = session[worker[w].session].told
         /\ worker[w].at \in {"sandbox", "act"} =>
              session[worker[w].session].cmd = worker[w].cmd
BY DEF Inv, Answering, AtWork, Knows, Paired, PairedWorker

LEMMA WorkerServes ==
  ASSUME Inv, Paired, NEW w \in Worker, WorkerStep(w)
  PROVE  Service!Step \/ UNCHANGED <<dirs, Told, Calls>>
<1>1. session' = session
  BY WorkerChanges
<1>2. PICK new \in WorkerType : worker' = [worker EXCEPT ![w] = new] /\ Changes(w, new)
  BY WorkerChanges
<1>3. worker'[w] = new /\ \A v \in Worker : v # w => worker'[v] = worker[v]
  BY <1>2 DEF Inv, Typed
<1>4. Told' = Told
  BY <1>1 DEF Told
<1>5. \A v \in Worker : v # w => CallView(v)' = CallView(v)
  <2>1. \A v \in Worker : v # w => (v \in orphan' <=> v \in orphan)
    BY <1>2 DEF Changes
  <2> QED BY <1>1, <1>3, <2>1 DEF CallView
<1>6. /\ Calls[w] = CallView(w) /\ Calls'[w] = CallView(w)'
      /\ Calls' = [Calls EXCEPT ![w] = CallView(w)']
      /\ (CallView(w)' = CallView(w) => Calls' = Calls)
  BY <1>5, OneCall
<1>7. /\ worker[w].at # "answer" => ~worker[w].ok
      /\ w \in orphan => worker[w].at # "free"
      /\ worker[w].at # "free" /\ w \notin orphan => worker[w].session \in Session
      /\ NoOne \notin Session /\ worker[w].at \in AtWork
      /\ worker[w].at \in AtWork => worker[w].answer = "none"
  <2>1. worker[w].at \in AtWork
    BY <1>2 DEF Changes, Enters, LogsIn, Works, Fails, Sends, AtWork
  <2> QED BY <2>1, SessionsAssumption DEF Paired, PairedWorker, Inv, Answering, AtWork
<1>8. CASE new = NoWorker /\ orphan' = orphan \ {w} /\ Detached(w) /\ dirs' = dirs
           /\ worker[w].at \in {"sandbox", "answer"}
  <2>1. w \in orphan
    BY <1>8 DEF Detached, Paired, PairedWorker
  <2>2. CallView(w)' = NoCall
    BY <1>3, <1>8 DEF CallView, NoCall, NoWorker
  <2>3. CASE worker[w].at = "answer"
    BY <1>4, <1>6, <1>8, <2>1, <2>2, <2>3, Views
  <2>4. CASE worker[w].at = "sandbox"
    <3>1. CallView(w).stage = "asked" /\ CallView(w).of = NoOne
      BY <2>1, <2>4, Views DEF Of
    <3>2. Service!Fail(w) /\ Calls'[w] # Calls[w]
      BY <1>4, <1>6, <1>8, <2>2, <3>1 DEF Service!Fail, Service!At, Service!Ends,
         Service!Becomes, Service!None, NoCall
    <3> QED BY <3>2 DEF Service!Step
  <2> QED BY <1>8, <2>3, <2>4
<1>9. CASE orphan' = orphan /\ new.session = worker[w].session
           /\ (new.at # "answer" => ~new.ok) /\ (new.at = "over" => new.answer # "ok")
  <2>1. Of(w)' = Of(w)
    BY <1>3, <1>9 DEF Of
  <2>2. CASE Enters(worker[w], new)
    <3>1. /\ CallView(w) = [stage |-> "asked", of |-> Of(w), cmd |-> worker[w].cmd,
                            in |-> worker[w].workdir]
          /\ CallView(w)' = [stage |-> "inside", of |-> Of(w), cmd |-> worker[w].cmd]
      BY <1>3, <2>1, <2>2, Views DEF Enters, CallView, Of
    <3>2. worker[w].workdir \in Service!There /\ worker[w].cmd.op # "login" /\ dirs' = dirs
      BY <2>2 DEF Enters, Service!There, There
    <3>3. Service!Enter(w) /\ Calls'[w] # Calls[w]
      BY <1>4, <1>6, <3>1, <3>2 DEF Service!Enter, Service!At, Service!Becomes, Service!Inside
    <3> QED BY <3>3 DEF Service!Step
  <2>3. CASE LogsIn(worker[w], new)
    <3>1. CallView(w) = [stage |-> "asked", of |-> Of(w), cmd |-> worker[w].cmd,
                         in |-> worker[w].workdir]
      BY <2>3, Views DEF LogsIn
    <3>2. w \in orphan => CallView(w)' = NoCall
      BY <1>3, <1>9, <2>3 DEF LogsIn, CallView, NoCall
    <3>3. w \notin orphan => CallView(w)' =
            [stage |-> "done", of |-> Of(w), to |-> Told[Of(w)]]
      <4>1. ASSUME w \notin orphan
            PROVE  /\ Of(w) \in Session /\ Of(w) = worker[w].session
                   /\ To(w)' = Told[Of(w)]
        <5>1. /\ worker[w].session \in Session
              /\ session[worker[w].session].workdir = session[worker[w].session].told
              /\ session[worker[w].session].cmd.op = "login"
          BY <1>7, <2>3, <4>1, Waited DEF LogsIn, AtWork
        <5> QED BY <1>1, <1>3, <1>9, <4>1, <5>1 DEF Of, To, Told
      <4>2. w \notin orphan => CallView(w)' = [stage |-> "done", of |-> Of(w), to |-> To(w)']
        BY <1>1, <1>3, <1>9, <2>3 DEF LogsIn, CallView, Of, To
      <4> QED BY <4>1, <4>2
    <3>4. Service!LogIn(w) /\ Calls'[w] # Calls[w]
      <4>1. /\ Calls[w].stage = "asked" /\ Calls[w].of = Of(w)
            /\ Calls[w].cmd = worker[w].cmd /\ (Of(w) = NoOne <=> w \in orphan)
        BY <1>6, <1>7, <3>1 DEF Of, AtWork
      <4>2. CallView(w)' = IF Calls[w].of = NoOne THEN Service!None
                           ELSE Service!Done(Calls[w].of, Told[Calls[w].of])
        BY <3>2, <3>3, <4>1 DEF NoCall, Service!None, Service!Done
      <4>3. Service!Ends(w, Service!Done(Calls[w].of, Told[Calls[w].of]))
        BY <1>6, <4>2 DEF Service!Ends, Service!Becomes
      <4>4. CallView(w)'.stage \in {"none", "done"}
        BY <4>2 DEF Service!None, Service!Done
      <4> QED BY <1>4, <1>6, <2>3, <4>1, <4>3, <4>4 DEF LogsIn, Service!LogIn, Service!At
    <3> QED BY <3>4 DEF Service!Step
  <2>4. CASE Works(worker[w], new)
    <3>1. CallView(w) = [stage |-> "inside", of |-> Of(w), cmd |-> worker[w].cmd]
      BY <2>4, Views DEF Works
    <3>2. w \in orphan => CallView(w)' = NoCall
      BY <1>3, <1>9, <2>4 DEF Works, CallView, NoCall
    <3>3. w \notin orphan => CallView(w)' =
            [stage |-> "done", of |-> Of(w),
             to |-> IF worker[w].cmd.op = "cd" THEN worker[w].cmd.dir ELSE Told[Of(w)]]
      <4>1. ASSUME w \notin orphan
            PROVE  To(w)' = IF worker[w].cmd.op = "cd" THEN worker[w].cmd.dir
                                                      ELSE Told[Of(w)]
        <5>1. /\ worker[w].session \in Session
              /\ session[worker[w].session].at = "wait"
              /\ session[worker[w].session].workdir = session[worker[w].session].told
              /\ session[worker[w].session].cmd = worker[w].cmd
          BY <1>7, <2>4, <4>1, Waited DEF Works, AtWork
        <5> QED BY <1>1, <1>3, <1>9, <4>1, <5>1 DEF Of, To, Told
      <4>2. w \notin orphan => CallView(w)' = [stage |-> "done", of |-> Of(w), to |-> To(w)']
        BY <1>1, <1>3, <1>9, <2>4 DEF Works, CallView, Of, To
      <4> QED BY <4>1, <4>2
    <3>4. Service!TakeEffect(w) /\ Calls'[w] # Calls[w]
      <4>1. /\ Calls[w].stage = "inside" /\ Calls[w].of = Of(w)
            /\ Calls[w].cmd = worker[w].cmd /\ (Of(w) = NoOne <=> w \in orphan)
        BY <1>6, <1>7, <3>1 DEF Of, AtWork
      <4>2. CallView(w)' = IF Calls[w].of = NoOne THEN Service!None
                           ELSE Service!Done(Calls[w].of, IF Calls[w].cmd.op = "cd"
                             THEN Calls[w].cmd.dir ELSE Told[Calls[w].of])
        BY <3>2, <3>3, <4>1 DEF NoCall, Service!None, Service!Done
      <4>3. Service!Ends(w, Service!Done(Calls[w].of, IF Calls[w].cmd.op = "cd"
                             THEN Calls[w].cmd.dir ELSE Told[Calls[w].of]))
        BY <1>6, <4>2 DEF Service!Ends, Service!Becomes
      <4>4. CallView(w)'.stage \in {"none", "done"}
        BY <4>2 DEF Service!None, Service!Done
      <4> QED BY <1>4, <1>6, <2>4, <4>1, <4>3, <4>4 DEF Works, Service!TakeEffect, Service!At
    <3> QED BY <3>4 DEF Service!Step
  <2>5. CASE Fails(worker[w], new)
    <3>1. CallView(w)' = IF w \in orphan THEN NoCall ELSE [stage |-> "failed", of |-> Of(w)]
      BY <1>3, <1>9, <2>5 DEF Fails, CallView, NoCall, Of
    <3>2. worker[w].at \in {"sandbox", "act"} =>
            CallView(w).stage \in {"asked", "inside"} /\ CallView(w).of = Of(w)
      BY Views
    <3>3. worker[w].at = "answer" =>
            CallView(w) = IF w \in orphan THEN NoCall
                          ELSE IF worker[w].ok
                            THEN [stage |-> "done", of |-> Of(w), to |-> To(w)]
                            ELSE [stage |-> "failed", of |-> Of(w)]
      BY <1>7, Views DEF Of, AtWork
    <3>4. CallView(w)' = CallView(w) \/
            /\ CallView(w).stage \in {"asked", "inside", "done"}
            /\ CallView(w).of = Of(w) /\ CallView(w)' # CallView(w)
      BY <1>7, <2>5, <3>1, <3>2, <3>3 DEF NoCall, AtWork
    <3>5. CASE CallView(w)' = CallView(w)
      BY <1>4, <1>6, <2>5, <3>5 DEF Fails
    <3>6. CASE CallView(w)' # CallView(w)
      <4>1. Service!Fail(w) /\ Calls'[w] # Calls[w]
        BY <1>4, <1>6, <1>7, <2>5, <3>1, <3>4, <3>6 DEF Fails, Of, NoCall, Service!Fail,
           Service!At, Service!Ends, Service!Becomes, Service!None, Service!Failed
      <4> QED BY <4>1 DEF Service!Step
    <3> QED BY <3>5, <3>6
  <2>6. CASE Sends(worker[w], new)
    <3>1. CallView(w)' = CallView(w)
      BY <1>1, <1>3, <1>7, <1>9, <2>6 DEF Sends, CallView, AtWork
    <3> QED BY <1>4, <1>6, <2>6, <3>1 DEF Sends
  <2>7. \/ Enters(worker[w], new) \/ LogsIn(worker[w], new) \/ Works(worker[w], new)
        \/ Fails(worker[w], new) \/ Sends(worker[w], new) \/ new = NoWorker
    BY <1>2 DEF Changes
  <2>8. CASE new = NoWorker
    BY <1>2, <1>8, <2>2, <2>3, <2>4, <2>5, <2>6 DEF Changes
  <2> QED BY <2>2, <2>3, <2>4, <2>5, <2>6, <2>7, <2>8
<1> QED BY <1>2, <1>8, <1>9 DEF Changes

(* What a handler does with its own session.                               *)
LEMMA HandlerChanges ==
  ASSUME Inv, Paired, NEW s \in Session,
         Connect(s) \/ Refuse(s) \/ Receive(s) \/ ReadEntries(s) \/ Interrupt(s)
  PROVE  /\ \A r \in Session : r # s => session'[r] = session[r]
         /\ worker' = worker /\ dirs' = dirs /\ session'[s].told = session[s].told
         /\ session'[s].worker = session[s].worker
         /\ session'[s].at \in {"gone", "read"} => session[s].at = "gone"
         /\ session'[s].at = "gone" => session'[s].told = Home
<1>1. session \in [Session -> SessionType] /\ session[s] \in SessionType
  BY DEF Inv, Typed
<1>2. CASE Connect(s)
  <2>1. session[s].worker = NoOne /\ session[s].told = Home
    BY <1>2 DEF Connect, Paired, PairedSession
  <2>2. /\ session'[s] = [NoSession EXCEPT !.at = "read"]
        /\ \A r \in Session : r # s => session'[r] = session[r]
    BY <1>1, <1>2 DEF Connect
  <2> QED BY <1>2, <2>1, <2>2 DEF Connect, NoSession
<1>3. CASE Refuse(s) \/ ReadEntries(s)
  BY <1>1, <1>3 DEF Refuse, ReadEntries, SessionType
<1>4. CASE Receive(s)
  BY <1>1, <1>4 DEF Receive, SessionType
<1>5. CASE Interrupt(s)
  BY <1>1, <1>5 DEF Interrupt, SessionType
<1> QED BY <1>2, <1>3, <1>4, <1>5

LEMMA HandlerPaired ==
  ASSUME Inv, Paired, NEW s \in Session,
         Connect(s) \/ Refuse(s) \/ Receive(s) \/ ReadEntries(s) \/ Interrupt(s)
  PROVE  Paired'
<1>1. /\ \A r \in Session : r # s => session'[r] = session[r]
      /\ worker' = worker /\ session'[s].told = session[s].told
      /\ session'[s].worker = session[s].worker
      /\ (session'[s].at \in {"gone", "read"} => session[s].at = "gone")
      /\ (session'[s].at = "gone" => session'[s].told = Home)
  BY HandlerChanges
<1>2. session \in [Session -> SessionType] /\ session[s] \in SessionType
  BY DEF Inv, Typed
<1>3. ASSUME NEW w \in Worker, w \notin orphan, w \notin orphan', worker[w].session = s,
             worker[w].at \in {"sandbox", "act"}
      PROVE  session'[s].cmd = session[s].cmd
  <2>1. session[s].at = "wait" /\ session[s].worker = w /\ worker[w].answer = "none"
    BY <1>3 DEF Inv, Answering
  <2>2. ~Receive(s)
    BY <1>3, <2>1 DEF Receive, Answered
  <2>3. ~Interrupt(s)
    BY <1>3, <2>1 DEF Interrupt
  <2> QED BY <2>1, <2>2, <2>3 DEF Connect, Refuse, ReadEntries
<1>4. \/ orphan' = orphan
      \/ orphan' = orphan \cup {session[s].worker} /\ session[s].worker # NoOne
  BY DEF Connect, Refuse, Receive, ReadEntries, Interrupt, Inv, Linked
<1>5. session[s].worker # NoOne => worker[session[s].worker].at # "free"
  BY <1>2, SessionsAssumption DEF Inv, Linked, SessionType
<1>6. \A w \in Worker : PairedWorker(w)'
  BY <1>1, <1>3, <1>4, <1>5 DEF Paired, PairedWorker
<1>7. ASSUME NEW r \in Session, r # s
      PROVE  PairedSession(r)'
  <2>1. /\ session[r].worker # NoOne => session[r].worker # session[s].worker
        /\ session[r].at \in {"wait", "payload"} => session[r].worker # NoOne
        /\ NoOne \notin Worker
    BY <1>7, SessionsAssumption DEF Inv, Linked
  <2> QED BY <1>1, <1>4, <1>7, <2>1 DEF Paired, PairedSession
<1>8. session'[s].moved =>
        /\ session[s].worker \in Worker \ orphan' /\ worker[session[s].worker].at = "next"
        /\ worker[session[s].worker].answer = "ok"
  <2>1. CASE Connect(s)
    BY <1>2, <2>1 DEF Connect, NoSession, Inv, Typed
  <2>2. CASE Refuse(s) \/ ReadEntries(s) \/ Interrupt(s)
    <3>1. session'[s].moved = session[s].moved /\ session[s].at # "reply"
      BY <1>2, <2>2 DEF Refuse, ReadEntries, Interrupt, SessionType
    <3> QED BY <3>1 DEF Inv, Knows
  <2>3. CASE Receive(s)
    <3> DEFINE w == session[s].worker
    <3>1. /\ w \in Worker /\ session[s].at = "wait" /\ orphan' = orphan
          /\ worker[w].session = s /\ worker[w] \in WorkerType
      BY <1>2, <2>3 DEF Receive, Answered, Inv, Linked, SessionType, Typed
    <3>2. session'[s].moved => Ok(s)
      BY <1>2, <2>3 DEF Receive, SessionType
    <3>3. Ok(s) => worker[w].at = "next"
      <4>1. Ok(s) => worker[w].at \notin {"sandbox", "act", "answer"} /\ worker[w].at # "over"
        BY <3>1 DEF Ok, Inv, Answering, Paired, PairedWorker
      <4>2. worker[w].at # "free"
        BY <1>5, <3>1, SessionsAssumption
      <4> QED BY <3>1, <4>1, <4>2 DEF WorkerType
    <3>4. w \notin orphan
      BY <3>1 DEF Paired, PairedSession
    <3> QED BY <3>1, <3>2, <3>3, <3>4 DEF Ok
  <2> QED BY <2>1, <2>2, <2>3
<1>9. session'[s].at \in {"wait", "payload"} =>
        orphan' = orphan /\ session[s].at \in {"wait", "payload"}
  BY <1>2 DEF Connect, Refuse, Receive, Answered, ReadEntries, Interrupt, NoSession,
     SessionType, Inv, Typed
<1>10. PairedSession(s)'
  BY <1>1, <1>8, <1>9 DEF Paired, PairedSession
<1> QED BY <1>6, <1>7, <1>10 DEF Paired

LEMMA AskPaired ==
  ASSUME Inv, Paired, NEW s \in Session, NEW w \in Worker, NEW c \in Command, Ask(s, w, c)
  PROVE  /\ Paired'
         /\ \A r \in Session : r # s => session'[r] = session[r]
         /\ \A v \in Worker : v # w => worker'[v] = worker[v]
         /\ session[s].at = "read" /\ worker[w].at = "free" /\ w \notin orphan
         /\ orphan' = orphan /\ dirs' = dirs
         /\ session'[s].told = session[s].told
         /\ worker'[w].at = "sandbox" /\ worker'[w].session = s /\ worker'[w].cmd = c
         /\ worker'[w].workdir = session[s].workdir
<1>1. session \in [Session -> SessionType] /\ session[s] \in SessionType
      /\ worker \in [Worker -> WorkerType]
  BY DEF Inv, Typed
<1>2. /\ session[s].at = "read" /\ worker[w].at = "free" /\ w \notin orphan
      /\ orphan' = orphan /\ dirs' = dirs /\ ~session[s].moved
  BY DEF Ask, Paired, PairedWorker, Inv, Knows
<1>3. /\ \A r \in Session : r # s => session'[r] = session[r]
      /\ session'[s].at = "wait" /\ session'[s].cmd = c /\ session'[s].worker = w
      /\ session'[s].told = session[s].told /\ ~session'[s].moved
  BY <1>1, <1>2 DEF Ask, SessionType
<1>4. worker' = [worker EXCEPT ![w] = [NoWorker EXCEPT !.at = "sandbox", !.session = s,
                                        !.cmd = c, !.workdir = session[s].workdir]]
  BY DEF Ask
<1>5. /\ \A v \in Worker : v # w => worker'[v] = worker[v]
      /\ worker'[w].at = "sandbox" /\ worker'[w].session = s /\ worker'[w].cmd = c
      /\ worker'[w].workdir = session[s].workdir /\ ~worker'[w].ok
  BY <1>1, <1>4 DEF NoWorker
<1>6. session[s].worker = NoOne /\ NoOne \notin Worker
      /\ \A r \in Session : session[r].worker # w
  BY <1>1, <1>2, SessionsAssumption DEF Paired, PairedSession, Inv, Linked
<1>7. \A v \in Worker : PairedWorker(v)'
  BY <1>2, <1>3, <1>5, <1>6 DEF Paired, PairedWorker
<1>8. \A r \in Session : PairedSession(r)'
  BY <1>2, <1>3, <1>5, <1>6 DEF Paired, PairedSession
<1> QED BY <1>2, <1>3, <1>5, <1>7, <1>8 DEF Paired

(* At the end of a command the process that a session has is one that is   *)
(* done, or an orphan.                                                     *)
LEMMA Dismissed ==
  ASSUME Inv, Paired, NEW s \in Session, Reply(s) \/ Leave(s)
  PROVE  /\ \A r \in Session : r # s => session'[r] = session[r]
         /\ session[s].at \in {"read", "reply"} /\ session'[s].at \in {"read", "gone"}
         /\ session'[s].worker = NoOne /\ ~session'[s].moved /\ dirs' = dirs
         /\ Leave(s) => session'[s].told = Home
         /\ Reply(s) => session'[s].at = "read" /\ session'[s].told =
              IF session[s].moved THEN session[s].workdir ELSE session[s].told
         /\ \A v \in Worker :
              IF v = session[s].worker /\ worker[v].at \in {"next", "over"}
              THEN worker'[v] = NoWorker /\ v \notin orphan'
              ELSE worker'[v] = worker[v] /\ (v \in orphan' <=> v \in orphan)
         /\ \A v \in Worker : worker[v].at # "free" /\ v \notin orphan
                              /\ worker[v].session = s =>
              v = session[s].worker /\ worker[v].at \in {"next", "over"}
         /\ orphan' \subseteq orphan
<1>1. session \in [Session -> SessionType] /\ session[s] \in SessionType
      /\ worker \in [Worker -> WorkerType]
  BY DEF Inv, Typed
<1>2. /\ \A r \in Session : r # s => session'[r] = session[r]
      /\ session[s].at \in {"read", "reply"} /\ session'[s].at \in {"read", "gone"}
      /\ session'[s].worker = NoOne /\ ~session'[s].moved /\ dirs' = dirs
  BY <1>1 DEF Reply, Leave, SessionType, NoSession
<1>3. Leave(s) => session'[s].told = Home
  BY <1>1 DEF Leave, NoSession
<1>4. Reply(s) => session'[s].at = "read" /\ session'[s].told =
              IF session[s].moved THEN session[s].workdir ELSE session[s].told
  BY <1>1 DEF Reply, SessionType
<1>5. /\ \A v \in Worker :
           IF v = session[s].worker /\ worker[v].at \in {"next", "over"}
           THEN worker'[v] = NoWorker /\ v \notin orphan'
           ELSE worker'[v] = worker[v] /\ (v \in orphan' <=> v \in orphan)
      /\ orphan' \subseteq orphan
  <2>1. Hangup(s)
    BY DEF Reply, Leave
  <2> QED BY <2>1 DEF Hangup
<1>6. ASSUME NEW v \in Worker, worker[v].at # "free", v \notin orphan, worker[v].session = s
      PROVE  v = session[s].worker /\ worker[v].at \in {"next", "over"}
  <2>1. v = session[s].worker
    BY <1>6 DEF Paired, PairedWorker
  <2>2. worker[v].at \notin AtWork
    BY <1>2, <1>6 DEF Inv, Answering, AtWork
  <2> QED BY <1>1, <1>6, <2>1, <2>2 DEF WorkerType, AtWork
<1> QED BY <1>2, <1>3, <1>4, <1>5, <1>6

LEMMA LeavesPaired ==
  ASSUME Inv, Paired, NEW s \in Session, Reply(s) \/ Leave(s)
  PROVE  Paired'
<1>1. /\ \A r \in Session : r # s => session'[r] = session[r]
      /\ session'[s].worker = NoOne /\ ~session'[s].moved
      /\ session'[s].at \in {"read", "gone"}
      /\ session'[s].at = "gone" => session'[s].told = Home
      /\ \A v \in Worker :
           IF v = session[s].worker /\ worker[v].at \in {"next", "over"}
           THEN worker'[v] = NoWorker /\ v \notin orphan'
           ELSE worker'[v] = worker[v] /\ (v \in orphan' <=> v \in orphan)
      /\ \A v \in Worker : worker[v].at # "free" /\ v \notin orphan
                           /\ worker[v].session = s =>
           v = session[s].worker /\ worker[v].at \in {"next", "over"}
      /\ orphan' \subseteq orphan
  BY Dismissed
<1>2. NoWorker.at = "free" /\ ~NoWorker.ok
  BY DEF NoWorker
<1>3. ASSUME NEW v \in Worker
      PROVE  PairedWorker(v)'
  BY <1>1, <1>2 DEF Paired, PairedWorker
<1>4. ASSUME NEW r \in Session, r # s
      PROVE  PairedSession(r)'
  <2>1. session[r].worker # NoOne => session[r].worker # session[s].worker
    BY <1>4 DEF Inv, Linked
  <2>2. session[r].moved => session[r].worker \in Worker \ orphan
    BY DEF Paired, PairedSession
  <2> QED BY <1>1, <1>4, <2>1, <2>2, SessionsAssumption DEF Paired, PairedSession
<1>5. PairedSession(s)'
  BY <1>1 DEF PairedSession
<1> QED BY <1>3, <1>4, <1>5 DEF Paired

(* What a handler does between request and answer is not seen from outside *)
(* (sendHelperRequest), unless it gives up.                                *)
LEMMA HandlerServes ==
  ASSUME Inv, Paired, NEW s \in Session,
         Connect(s) \/ Refuse(s) \/ Receive(s) \/ ReadEntries(s)
  PROVE  UNCHANGED <<dirs, Told, Calls>>
<1>1. /\ \A r \in Session : r # s => session'[r] = session[r]
      /\ worker' = worker /\ dirs' = dirs /\ session'[s].told = session[s].told
  BY HandlerChanges
<1>2. orphan' = orphan
  BY DEF Connect, Refuse, Receive, ReadEntries
<1>3. session \in [Session -> SessionType] /\ session[s] \in SessionType
  BY DEF Inv, Typed
<1>4. Told' = Told
  BY <1>1 DEF Told
<1>5. ASSUME NEW v \in Worker
      PROVE  CallView(v)' = CallView(v)
  <2>1. CASE worker[v].at \in {"free", "sandbox", "act", "over"} \/ v \in orphan
    BY <1>1, <1>2, <2>1, SameCall
  <2>2. CASE worker[v].at \in {"answer", "next"} /\ v \notin orphan
    <3>1. worker[v].session \in Session /\ session[worker[v].session].worker = v
      BY <2>2 DEF Paired, PairedWorker
    <3>2. CASE worker[v].session # s
      BY <1>1, <1>2, <3>1, <3>2, OtherSession
    <3>3. CASE worker[v].session = s
      <4>1. CASE Connect(s) \/ Refuse(s)
        BY <3>1, <3>3, <4>1, SessionsAssumption DEF Connect, Refuse, Paired, PairedSession
      <4>2. CASE ReadEntries(s)
        <5>1. /\ session[s].at = "payload" /\ session'[s].at = "reply"
              /\ session'[s].workdir = session[s].workdir
          BY <1>3, <4>2 DEF ReadEntries, SessionType
        <5>2. To(v)' = To(v)
          BY <1>1, <3>3, <5>1 DEF To
        <5> QED BY <1>1, <1>2, <5>2, SameCall
      <4>3. CASE Receive(s)
        <5>1. worker[v].at = "next" /\ session[s].at = "wait" /\ ~worker[v].ok
          BY <2>2, <3>1, <3>3, <4>3 DEF Receive, Answered, Inv, Answering, Paired,
             PairedWorker
        <5>2. /\ session'[s].at # "wait"
              /\ Ok(s) => session'[s].workdir =
                   IF session[s].cmd.op = "cd" THEN session[s].cmd.dir ELSE session[s].workdir
              /\ Ok(s) <=> worker[v].answer = "ok"
          BY <1>3, <3>1, <3>3, <4>3 DEF Receive, SessionType, Ok
        <5>3. worker[v].answer = "ok" => To(v)' = To(v)
          BY <1>1, <3>3, <5>1, <5>2 DEF To
        <5> QED BY <1>1, <1>2, <5>1, <5>3, SameCall
      <4> QED BY <4>1, <4>2, <4>3
    <3> QED BY <3>2, <3>3
  <2>3. worker[v] \in WorkerType
    BY DEF Inv, Typed
  <2> QED BY <2>1, <2>2, <2>3 DEF WorkerType
<1> QED BY <1>1, <1>4, <1>5 DEF Calls

(* SIGUSR1: the call is nobody's from then on.                             *)
LEMMA InterruptServes ==
  ASSUME Inv, Paired, NEW s \in Session, Interrupt(s)
  PROVE  Service!Step \/ UNCHANGED <<dirs, Told, Calls>>
<1>0. PICK w \in Worker : w = session[s].worker
  BY SessionsAssumption DEF Interrupt, Inv, Typed, SessionType, Linked
<1>1. /\ \A r \in Session : r # s => session'[r] = session[r]
      /\ worker' = worker /\ dirs' = dirs /\ session'[s].told = session[s].told
      /\ orphan' = orphan \cup {w}
  BY <1>0, HandlerChanges DEF Interrupt
<1>2. /\ w \notin orphan /\ worker[w].session = s /\ worker[w].at # "free"
      /\ worker[w] \in WorkerType
  BY <1>0, SessionsAssumption DEF Interrupt, Inv, Typed, Linked, Paired, PairedSession
<1>3. Told' = Told
  BY <1>1 DEF Told
<1>4. ASSUME NEW v \in Worker, v # w
      PROVE  CallView(v)' = CallView(v)
  <2>1. v \in orphan' <=> v \in orphan
    BY <1>1, <1>4
  <2>2. worker[v].at # "free" /\ v \notin orphan => worker[v].session # s
    BY <1>0, <1>4 DEF Paired, PairedWorker
  <2>3. worker[v].at # "free" /\ v \notin orphan =>
          session'[worker[v].session] = session[worker[v].session]
    BY <1>1, <2>2 DEF Paired, PairedWorker
  <2> QED BY <1>1, <2>1, <2>3, OtherSession
<1>5. /\ Calls[w] = CallView(w) /\ Calls'[w] = CallView(w)'
      /\ Calls' = [Calls EXCEPT ![w] = CallView(w)']
  BY <1>2, <1>4, OneCall
<1>6. /\ Calls[w].stage \in {"asked", "inside", "done", "failed"} /\ Calls[w].of = s
      /\ Calls[w].stage \in {"asked", "inside"} <=> worker[w].at \in {"sandbox", "act"}
  BY <1>2, <1>5, Views DEF WorkerType, Of
<1>7. CallView(w)' = IF worker[w].at \in {"sandbox", "act"}
                     THEN [Calls[w] EXCEPT !.of = NoOne] ELSE NoCall
  <2>1. CASE worker[w].at = "sandbox"
    <3>1. CallView(w)' = [stage |-> "asked", of |-> NoOne, cmd |-> worker[w].cmd,
                          in |-> worker[w].workdir]
      BY <1>1, <2>1 DEF CallView
    <3>2. CallView(w) = [stage |-> "asked", of |-> s, cmd |-> worker[w].cmd,
                         in |-> worker[w].workdir]
      BY <1>2, <2>1, Views DEF Of
    <3> QED BY <1>5, <2>1, <3>1, <3>2
  <2>2. CASE worker[w].at = "act"
    <3>1. CallView(w)' = [stage |-> "inside", of |-> NoOne, cmd |-> worker[w].cmd]
      BY <1>1, <2>2 DEF CallView
    <3>2. CallView(w) = [stage |-> "inside", of |-> s, cmd |-> worker[w].cmd]
      BY <1>2, <2>2, Views DEF Of
    <3> QED BY <1>5, <2>2, <3>1, <3>2
  <2>3. CASE worker[w].at \in {"answer", "next", "over"}
    BY <1>1, <2>3 DEF CallView, NoCall
  <2> QED BY <1>2, <2>1, <2>2, <2>3 DEF WorkerType
<1>8. NoOne \notin Session
  BY SessionsAssumption
<1>9. Service!GiveUp(w)
  BY <1>1, <1>3, <1>5, <1>6, <1>7, <1>8 DEF Service!GiveUp, Service!At, Service!Becomes,
     Service!None, NoCall
<1>10. Calls'[w] # Calls[w]
  <2>1. Calls'[w].of = NoOne
    <3>1. worker[w].at \in {"sandbox", "act"} => "of" \in DOMAIN Calls[w]
      BY <1>2, <1>5, Views
    <3> QED BY <1>5, <1>7, <3>1 DEF NoCall
  <2> QED BY <1>6, <1>8, <2>1
<1> QED BY <1>2, <1>9, <1>10 DEF Service!Step

(* A request: the session has no other, and the copy of its working        *)
(* directory is what its client was told.                                  *)
LEMMA AskServes ==
  ASSUME Inv, Paired, NEW s \in Session, NEW w \in Worker, NEW c \in Command, Ask(s, w, c)
  PROVE  Service!Step
<1>1. /\ \A r \in Session : r # s => session'[r] = session[r]
      /\ \A v \in Worker : v # w => worker'[v] = worker[v]
      /\ session[s].at = "read" /\ worker[w].at = "free" /\ w \notin orphan
      /\ orphan' = orphan /\ dirs' = dirs
      /\ session'[s].told = session[s].told
      /\ worker'[w].at = "sandbox" /\ worker'[w].session = s /\ worker'[w].cmd = c
      /\ worker'[w].workdir = session[s].workdir
  BY AskPaired
<1>2. Told' = Told /\ Told[s] = session[s].told
  BY <1>1 DEF Told
<1>3. session[s].workdir = session[s].told
  BY <1>1 DEF Inv, Knows
<1>4. ASSUME NEW v \in Worker, worker[v].at # "free", v \notin orphan
      PROVE  worker[v].session \in Session \ {s}
  BY <1>1, <1>4, SessionsAssumption DEF Paired, PairedWorker, PairedSession
<1>5. ASSUME NEW v \in Worker, v # w
      PROVE  CallView(v)' = CallView(v)
  <2>1. worker'[v] = worker[v] /\ (v \in orphan' <=> v \in orphan)
    BY <1>1, <1>5
  <2>2. worker[v].at # "free" /\ v \notin orphan =>
          session'[worker[v].session] = session[worker[v].session]
    BY <1>1, <1>4
  <2> QED BY <2>1, <2>2, OtherSession
<1>6. /\ Calls[w] = CallView(w) /\ Calls'[w] = CallView(w)'
      /\ Calls' = [Calls EXCEPT ![w] = CallView(w)']
  BY <1>5, OneCall
<1>7. ASSUME NEW v \in Worker
      PROVE  Calls[v].of # s
  <2>1. Calls[v] = CallView(v) /\ worker[v] \in WorkerType /\ s # NoOne
    BY SessionsAssumption DEF Calls, Inv, Typed
  <2>2. CallView(v).of \in {NoOne} \/ (/\ worker[v].at # "free" /\ v \notin orphan
                                      /\ CallView(v).of = worker[v].session)
    BY <2>1, Views DEF WorkerType, NoCall, Of
  <2> QED BY <1>4, <2>1, <2>2
<1>8. Calls[w] = NoCall
  BY <1>1, <1>6, Views
<1>9. Calls'[w] = [stage |-> "asked", of |-> s, cmd |-> c, in |-> Told[s]]
  BY <1>1, <1>2, <1>3, <1>6 DEF CallView
<1>10. c \in Service!Command
  BY DEF Command, Op, Place, Service!Command, Service!Place
<1>11. Service!Ask(s, w)
  BY <1>1, <1>2, <1>6, <1>7, <1>8, <1>9, <1>10 DEF Service!Ask, Service!At, Service!Asked,
     Service!Becomes, NoCall
<1>12. Calls'[w] # Calls[w]
  BY <1>8, <1>9 DEF NoCall
<1> QED BY <1>11, <1>12 DEF Service!Step

(* The answer to the client, and the end of a connection.                  *)
LEMMA LeavesServe ==
  ASSUME Inv, Paired, NEW s \in Session, Reply(s) \/ Leave(s)
  PROVE  Service!Step \/ UNCHANGED <<dirs, Told, Calls>>
<1>0. PICK w : w = session[s].worker
  OBVIOUS
<1> DEFINE Mine == w \in Worker /\ worker[w].at \in {"next", "over"} /\ w \notin orphan
<1>1. /\ \A r \in Session : r # s => session'[r] = session[r]
      /\ session[s].at \in {"read", "reply"} /\ dirs' = dirs
      /\ Leave(s) => session'[s].told = Home
      /\ Reply(s) => session'[s].told =
           IF session[s].moved THEN session[s].workdir ELSE session[s].told
      /\ \A v \in Worker :
           IF v = w /\ worker[v].at \in {"next", "over"}
           THEN worker'[v] = NoWorker /\ v \notin orphan'
           ELSE worker'[v] = worker[v] /\ (v \in orphan' <=> v \in orphan)
      /\ \A v \in Worker : worker[v].at # "free" /\ v \notin orphan
                           /\ worker[v].session = s =>
           v = w /\ worker[v].at \in {"next", "over"}
  BY <1>0, Dismissed
<1>2. ASSUME NEW v \in Worker, ~(v = w /\ Mine)
      PROVE  CallView(v)' = CallView(v) /\ CallView(v).of # s
  <2>1. worker[v] \in WorkerType /\ s # NoOne
    BY SessionsAssumption DEF Inv, Typed
  <2>2. CASE v = w /\ worker[v].at \in {"next", "over"}
    <3>1. CallView(v) = NoCall
      BY <1>2, <2>2, Views
    <3>2. CallView(v)' = NoCall
      BY <1>1, <2>2 DEF CallView, NoWorker, NoCall
    <3> QED BY <2>1, <3>1, <3>2 DEF NoCall
  <2>3. CASE ~(v = w /\ worker[v].at \in {"next", "over"})
    <3>1. worker[v].at # "free" /\ v \notin orphan => worker[v].session \in Session \ {s}
      BY <1>1, <2>3 DEF Paired, PairedWorker
    <3>2. worker'[v] = worker[v] /\ (v \in orphan' <=> v \in orphan)
      BY <1>1, <2>3
    <3>3. CallView(v)' = CallView(v)
      <4>1. worker[v].at # "free" /\ v \notin orphan =>
              session'[worker[v].session] = session[worker[v].session]
        BY <1>1, <3>1
      <4> QED BY <3>2, <4>1, OtherSession
    <3>4. CallView(v).of = NoOne \/ (/\ worker[v].at # "free" /\ v \notin orphan
                                    /\ CallView(v).of = worker[v].session)
      BY <2>1, Views DEF WorkerType, NoCall, Of
    <3> QED BY <2>1, <3>1, <3>3, <3>4
  <2> QED BY <2>2, <2>3
<1>3. Mine => /\ CallView(w)' = NoCall /\ CallView(w).of = s
              /\ CallView(w).stage \in {"done", "failed"}
  <2>1. Mine => worker[w].session = s
    BY <1>0, SessionsAssumption DEF Inv, Linked
  <2>2. Mine => CallView(w)' = NoCall
    BY <1>1 DEF CallView, NoWorker, NoCall
  <2> QED BY <2>1, <2>2, Views DEF Of
<1>4. \A v \in Worker : Calls[v] = CallView(v) /\ Calls'[v] = CallView(v)'
  BY DEF Calls
<1>5. \A r \in Session : Told[r] = session[r].told /\ Told'[r] = session'[r].told
  BY DEF Told
<1>6. CASE Leave(s)
  <2>1. Told' = [Told EXCEPT ![s] = Home]
    BY <1>1, <1>6 DEF Told
  <2>2. \A v \in Worker : Calls[v].of = s => Service!At(v, {"done", "failed"})
    BY <1>2, <1>3, <1>4 DEF Service!At
  <2>3. Calls' = [v \in Worker |-> IF Calls[v].of = s THEN Service!None ELSE Calls[v]]
    <3>1. \A v \in Worker : CallView(v)' = IF Calls[v].of = s THEN NoCall ELSE Calls[v]
      BY <1>2, <1>3, <1>4
    <3>2. Calls' = [v \in Worker |-> CallView(v)']
      BY DEF Calls
    <3> QED BY <3>1, <3>2 DEF Service!None, NoCall
  <2>4. Service!Leave(s)
    BY <1>1, <2>1, <2>2, <2>3 DEF Service!Leave
  <2> QED BY <2>4 DEF Service!Step
<1>7. CASE Reply(s) /\ ~Mine
  <2>1. ~session[s].moved
    <3>1. session[s].moved => w \in Worker \ orphan /\ worker[w].at = "next"
      BY <1>0 DEF Paired, PairedSession
    <3> QED BY <1>7, <3>1
  <2>2. Told' = Told
    BY <1>1, <1>7, <2>1 DEF Told
  <2>3. Calls' = Calls
    BY <1>2, <1>7 DEF Calls
  <2> QED BY <1>1, <2>2, <2>3
<1>8. CASE Reply(s) /\ Mine
  <2>1. session[s].at = "reply" /\ worker[w].session = s
    BY <1>0, <1>8, SessionsAssumption DEF Reply, Inv, Linked
  <2>2. /\ Calls[w] = CallView(w) /\ Calls'[w] = CallView(w)'
        /\ Calls' = [Calls EXCEPT ![w] = CallView(w)']
    BY <1>2, <1>8, OneCall
  <2>3. Calls[w].stage = "failed" => ~session[s].moved
    <3>1. session[s].moved => worker[w].at = "next" /\ worker[w].answer = "ok"
      BY <1>0 DEF Paired, PairedSession
    <3>2. worker[w].at = "next" /\ worker[w].answer = "ok" => CallView(w).stage = "done"
      BY <1>8, Views
    <3> QED BY <2>2, <3>1, <3>2
  <2>4. Calls[w].stage = "done" => Calls[w].to = session[s].workdir
    BY <1>8, <2>1, <2>2, Views DEF To
  <2>5. ~session[s].moved => session[s].told = session[s].workdir
    BY DEF Inv, Knows
  <2>6. Told' = IF Calls[w].stage = "done" THEN [Told EXCEPT ![Calls[w].of] = Calls[w].to]
                                           ELSE Told
    <3>1. Calls[w].of = s /\ Calls[w].stage \in {"done", "failed"}
      BY <1>3, <1>8, <2>2
    <3>2. CASE Calls[w].stage = "done"
      <4>1. session'[s].told = Calls[w].to
        BY <1>1, <1>8, <2>4, <2>5, <3>2
      <4> QED BY <1>1, <3>1, <3>2, <4>1 DEF Told
    <3>3. CASE Calls[w].stage = "failed"
      <4>1. session'[s].told = session[s].told
        BY <1>1, <1>8, <2>3, <3>3
      <4> QED BY <1>1, <3>3, <4>1 DEF Told
    <3> QED BY <3>1, <3>2, <3>3
  <2>7. Service!Return(w)
    BY <1>1, <1>3, <1>8, <2>2, <2>6 DEF Service!Return, Service!At, Service!Becomes,
       Service!None, NoCall
  <2>8. Calls'[w] # Calls[w]
    BY <1>3, <1>8, <2>2 DEF NoCall
  <2> QED BY <1>8, <2>7, <2>8 DEF Service!Step
<1> QED BY <1>6, <1>7, <1>8

LEMMA PairedInit == Init => Paired /\ Service!Start
<1> SUFFICES ASSUME Init PROVE Paired /\ Service!Start
  OBVIOUS
<1>1. Paired
  BY DEF Init, Paired, PairedWorker, PairedSession, NoSession, NoWorker
<1>2. Told = [s \in Session |-> Home]
  BY DEF Init, Told, NoSession
<1>3. Calls = [w \in Worker |-> Service!None]
  BY DEF Init, Calls, CallView, NoWorker, Service!None
<1> QED BY <1>1, <1>2, <1>3 DEF Init, Service!Start

LEMMA Serves ==
  ASSUME Inv, Paired, [Next]_vars
  PROVE  Paired' /\ (Service!Step \/ UNCHANGED <<dirs, Told, Calls>>)
<1>1. CASE UNCHANGED vars
  <2>1. session' = session /\ worker' = worker /\ orphan' = orphan /\ dirs' = dirs
    BY <1>1 DEF vars
  <2>2. Paired'
    BY <2>1 DEF Paired, PairedWorker, PairedSession
  <2>3. Told' = Told /\ Calls' = Calls
    BY <2>1 DEF Told, Calls, CallView
  <2> QED BY <2>1, <2>2, <2>3
<1>2. ASSUME NEW s \in Session, NEW w \in Worker, Asks(s, w)
      PROVE  Paired' /\ Service!Step
  <2>1. NoCommand \in Command
        /\ \A op \in Op, d \in Place : [op |-> op, dir |-> d] \in Command
    BY Records DEF Command
  <2>2. /\ {"login", "cd", "ls", "mkdir", "delete"} \subseteq Op
        /\ Home \in Place /\ Dir \subseteq Place
    BY DEF Op, Place
  <2>3. \E c \in Command : Ask(s, w, c)
    BY <1>2, <2>1, <2>2 DEF Asks, Login, FileCommand, Ls, Cd, MakeDir, Delete
  <2> QED BY <2>3, AskPaired, AskServes
<1>3. ASSUME NEW s \in Session,
             \/ Connect(s) \/ Refuse(s) \/ HandlerStep(s) \/ Interrupt(s) \/ Leave(s)
      PROVE  Paired' /\ (Service!Step \/ UNCHANGED <<dirs, Told, Calls>>)
  <2>1. CASE Connect(s) \/ Refuse(s) \/ Receive(s) \/ ReadEntries(s)
    BY <2>1, HandlerPaired, HandlerServes
  <2>2. CASE Interrupt(s)
    BY <2>2, HandlerPaired, InterruptServes
  <2>3. CASE Reply(s) \/ Leave(s)
    BY <2>3, LeavesPaired, LeavesServe
  <2> QED BY <1>3, <2>1, <2>2, <2>3 DEF HandlerStep
<1>4. ASSUME NEW w \in Worker, WorkerStep(w)
      PROVE  Paired' /\ (Service!Step \/ UNCHANGED <<dirs, Told, Calls>>)
  BY <1>4, WorkerPaired, WorkerServes
<1> QED BY <1>1, <1>2, <1>3, <1>4 DEF Next

(* The handlers, the helper's processes and their connections together are *)
(* a DirectoryService: every command takes effect once, where its client   *)
(* was told to be, before the answer, whatever fails or is given up.       *)
THEOREM ServiceImplemented == Spec => ImplementsService
<1>1. Init => Service!Start /\ Paired
  BY PairedInit
<1>2. Inv /\ Paired /\ [Next]_vars =>
        Paired' /\ [Service!Step]_<<dirs, Told, Calls>>
  BY Serves
<1> QED BY <1>1, <1>2, Invariance, PTL DEF Spec, ImplementsService, Service!Service
=============================================================================
