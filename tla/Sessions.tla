------------------------------ MODULE Sessions ------------------------------
(***************************************************************************)
(* The commands that a handler passes on to the helper (handleLogin,       *)
(* handleCd, handleLs, handleCreateFile, handleDelete and the like): one   *)
(* connection and one process of the helper for each, to which the handler *)
(* sends a copy of its session, and whose answer it waits for and tells    *)
(* its client.  All sessions here are those of one user, whose directories *)
(* they share.                                                             *)
(*                                                                         *)
(* SIGUSR1 ends the wait for an answer, but not the process that works on  *)
(* it: an orphan.                                                          *)
(***************************************************************************)
EXTENDS Naturals, FiniteSets

CONSTANTS Session,  \* handlers of the user's connections
          Worker,   \* processes of the helper, one after the other each
          Home, Dir,\* directories: the home, which stays, and others
          Parent,   \* the directory a member of Dir is in
          NoOne

ASSUME SessionsAssumption ==
  /\ Home \notin Dir /\ Parent \in [Dir -> Dir \cup {Home}]
  /\ NoOne \notin Session \cup Worker

VARIABLES session, worker,
          dirs,     \* the directories that exist
          orphan    \* history: processes whose handler gave up waiting

vars == <<session, worker, dirs, orphan>>

Place == Dir \cup {Home}
There == dirs \cup {Home}
Op    == {"login", "cd", "ls", "mkdir", "delete", "file"}
Command == [op : Op, dir : Place]
NoCommand == [op |-> "file", dir |-> Home]

(* user: logged in; moved: the answer to be given is that of a cd that     *)
(* worked; told: the working directory as the client knows it.             *)
NoSession == [at |-> "gone", user |-> FALSE, workdir |-> Home, cmd |-> NoCommand,
              worker |-> NoOne, moved |-> FALSE, told |-> Home]
NoWorker  == [at |-> "free", session |-> NoOne, cmd |-> NoCommand, workdir |-> Home,
              ok |-> FALSE, answer |-> "none"]

(* Every directory is in one that exists; a handler that waits has a       *)
(* process of the helper to wait for, or its remains.                      *)
TypeOK ==
  /\ session \in [Session -> [at : {"gone", "read", "wait", "payload", "reply"},
                    user : BOOLEAN, workdir : Place, cmd : Command,
                    worker : Worker \cup {NoOne}, moved : BOOLEAN, told : Place]]
  /\ worker \in [Worker -> [at : {"free", "sandbox", "act", "answer", "next", "over"},
                   session : Session \cup {NoOne}, cmd : Command, workdir : Place,
                   ok : BOOLEAN, answer : {"none", "ok", "failed"}]]
  /\ \A s \in Session : session[s].at \in {"wait", "payload"} =>
       session[s].worker # NoOne /\ worker[session[s].worker].session = s
  /\ dirs \subseteq Dir /\ \A d \in dirs : Parent[d] \in There
  /\ orphan \subseteq Worker

Init ==
  /\ session = [s \in Session |-> NoSession]
  /\ worker = [w \in Worker |-> NoWorker]
  /\ dirs = {} /\ orphan = {}

-----------------------------------------------------------------------------
(* The handler.                                                            *)

Connect(s) ==
  /\ session[s].at = "gone"
  /\ session' = [session EXCEPT ![s] = [NoSession EXCEPT !.at = "read"]]
  /\ UNCHANGED <<worker, dirs, orphan>>

(* A command refused: not logged in, logged in already, misused, no helper *)
(* to connect to.                                                          *)
Refuse(s) ==
  /\ session[s].at = "read"
  /\ session' = [session EXCEPT ![s].at = "reply"]
  /\ UNCHANGED <<worker, dirs, orphan>>

(* The connection to the helper, and the request, with a copy of what the  *)
(* process needs of the session.                                           *)
Ask(s, w, c) ==
  /\ session[s].at = "read" /\ worker[w].at = "free"
  /\ session' = [session EXCEPT ![s].at = "wait", ![s].cmd = c, ![s].worker = w]
  /\ worker' = [worker EXCEPT ![w] = [NoWorker EXCEPT !.at = "sandbox", !.session = s,
                                        !.cmd = c, !.workdir = session[s].workdir]]
  /\ UNCHANGED <<dirs, orphan>>

Login(s, w) == ~session[s].user /\ Ask(s, w, [op |-> "login", dir |-> Home])
Cd(s, w, d) == session[s].user /\ Ask(s, w, [op |-> "cd", dir |-> d])
Ls(s, w) == session[s].user /\ Ask(s, w, [op |-> "ls", dir |-> Home])
MakeDir(s, w, d) == session[s].user /\ Ask(s, w, [op |-> "mkdir", dir |-> d])
Delete(s, w, d)  == session[s].user /\ Ask(s, w, [op |-> "delete", dir |-> d])

(* chmod, read, write, create without -d and a move of a file: no directory*)
(* comes or goes with them, and what they are asked for makes no           *)
(* difference here; nor does it for ls.                                    *)
FileCommand(s, w) == session[s].user /\ Ask(s, w, NoCommand)

(* readAll of the answer: it is there, or the process ended without one.   *)
Answered(s) ==
  LET w == session[s].worker IN
    session[s].at = "wait" /\ (worker[w].answer # "none" \/ worker[w].at = "over")
Ok(s) == worker[session[s].worker].answer = "ok"

(* Mutant of Receive: the directory is stored before the status is seen.   *)
ReceiveUnchecked(s) ==
  /\ Answered(s)
  /\ session' = [session EXCEPT
       ![s].at = IF Ok(s) /\ session[s].cmd.op = "ls" THEN "payload" ELSE "reply",
       ![s].cmd = NoCommand, ![s].moved = Ok(s) /\ session[s].cmd.op = "cd",
       ![s].user = @ \/ (Ok(s) /\ session[s].cmd.op = "login"),
       ![s].workdir = IF session[s].cmd.op = "cd" THEN session[s].cmd.dir ELSE @]
  /\ UNCHANGED <<worker, dirs, orphan>>

Receive(s) ==
  /\ Answered(s)
  /\ session' = [session EXCEPT
       ![s].at = IF Ok(s) /\ session[s].cmd.op = "ls" THEN "payload" ELSE "reply",
       ![s].cmd = NoCommand, ![s].moved = Ok(s) /\ session[s].cmd.op = "cd",
       ![s].user = @ \/ (Ok(s) /\ session[s].cmd.op = "login"),
       ![s].workdir = IF Ok(s) /\ session[s].cmd.op = "cd" THEN session[s].cmd.dir ELSE @]
  /\ UNCHANGED <<worker, dirs, orphan>>

(* The entries of ls, or what a read failed with.                          *)
ReadEntries(s) ==
  /\ session[s].at = "payload"
  /\ session' = [session EXCEPT ![s].at = "reply"]
  /\ UNCHANGED <<worker, dirs, orphan>>

(* SIGUSR1, for who is logged in: readAll fails with EINTR.                *)
Interrupt(s) ==
  /\ session[s].at \in {"wait", "payload"} /\ session[s].user
  /\ session' = [session EXCEPT ![s].at = "reply", ![s].cmd = NoCommand]
  /\ orphan' = orphan \cup {session[s].worker}
  /\ UNCHANGED <<worker, dirs>>

(* The handler's end of the connection to the helper is closed, which ends *)
(* a process that waits for the next request; another is an orphan that    *)
(* goes on with what it does.                                              *)
Hangup(s) ==
  LET ended == {w \in Worker : w = session[s].worker /\ worker[w].at \in {"next", "over"}}
  IN /\ worker' = [w \in Worker |-> IF w \in ended THEN NoWorker ELSE worker[w]]
     /\ orphan' = orphan \ ended

Reply(s) ==
  /\ session[s].at = "reply"
  /\ session' = [session EXCEPT ![s].at = "read", ![s].worker = NoOne,
       ![s].moved = FALSE,
       ![s].told = IF session[s].moved THEN session[s].workdir ELSE @]
  /\ Hangup(s)
  /\ UNCHANGED dirs

(* The client is gone, at a read or, with SIGPIPE, at a write.             *)
Leave(s) ==
  /\ session[s].at \in {"read", "reply"}
  /\ session' = [session EXCEPT ![s] = NoSession]
  /\ Hangup(s)
  /\ UNCHANGED dirs

-----------------------------------------------------------------------------
(* The process of the helper.                                              *)

Detached(w) == session[worker[w].session].worker # w

(* The name of a user is looked up, as root; no signal is sent to who is   *)
(* not logged in, so that somebody waits for the answer.                   *)
LookUp(w) ==
  /\ worker[w].at = "sandbox" /\ worker[w].cmd.op = "login"
  /\ \E answer \in {"ok", "failed"} :
       worker' = [worker EXCEPT ![w].at = "next", ![w].answer = answer]
  /\ UNCHANGED <<session, dirs, orphan>>

(* chroot to the home, chdir to the working directory of the session, and  *)
(* the ids of the user.                                                    *)
Sandbox(w) ==
  /\ worker[w].at = "sandbox" /\ worker[w].cmd.op # "login"
  /\ worker[w].workdir \in There
  /\ worker' = [worker EXCEPT ![w].at = "act", ![w].workdir = Home]
  /\ UNCHANGED <<session, dirs, orphan>>

(* Mutant of SandboxFails: back to the next request without an answer.     *)
SandboxFailsSilently(w) ==
  /\ worker[w].at = "sandbox" /\ worker[w].cmd.op # "login"
  /\ worker' = [worker EXCEPT ![w].at = "next"]
  /\ UNCHANGED <<session, dirs, orphan>>

(* What the process leaves behind.                                         *)
Over(w, answer) ==
  [NoWorker EXCEPT !.at = "over", !.session = worker[w].session, !.answer = answer]

(* The working directory may have gone, for a cd too.  An answer, and the  *)
(* process exits.                                                          *)
SandboxFails(w) ==
  /\ worker[w].at = "sandbox" /\ worker[w].cmd.op # "login"
  /\ worker' = [worker EXCEPT ![w] =
       IF Detached(w) THEN NoWorker ELSE Over(w, "failed")]
  /\ orphan' = IF Detached(w) THEN orphan \ {w} ELSE orphan
  /\ UNCHANGED <<session, dirs>>

(* What matters of the command from here on is whether it was mkdir.       *)
Acts(w, ok) ==
  worker' = [worker EXCEPT ![w].at = "answer", ![w].ok = ok, ![w].cmd =
    IF worker[w].cmd.op = "mkdir" THEN [op |-> "mkdir", dir |-> Home] ELSE NoCommand]

Look(w) ==
  /\ worker[w].at = "act" /\ worker[w].cmd.op \in {"cd", "ls", "file"}
  /\ worker[w].cmd.dir \in There /\ Acts(w, TRUE)
  /\ UNCHANGED <<session, dirs, orphan>>

Mkdir(w) ==
  LET d == worker[w].cmd.dir IN
  /\ worker[w].at = "act" /\ worker[w].cmd.op = "mkdir"
  /\ d \in Dir \ dirs /\ Parent[d] \in There
  /\ dirs' = dirs \cup {d} /\ Acts(w, TRUE)
  /\ UNCHANGED <<session, orphan>>

(* Mutant of Rmdir: whatever is in the directory.                          *)
RmdirFull(w) ==
  /\ worker[w].at = "act" /\ worker[w].cmd.op = "delete"
  /\ worker[w].cmd.dir \in dirs
  /\ dirs' = dirs \ {worker[w].cmd.dir} /\ Acts(w, TRUE)
  /\ UNCHANGED <<session, orphan>>

(* An empty directory, be it the working directory of a session.           *)
Rmdir(w) ==
  /\ worker[w].at = "act" /\ worker[w].cmd.op = "delete"
  /\ worker[w].cmd.dir \in dirs /\ \A d \in dirs : Parent[d] # worker[w].cmd.dir
  /\ dirs' = dirs \ {worker[w].cmd.dir} /\ Acts(w, TRUE)
  /\ UNCHANGED <<session, orphan>>

(* A call fails: no such directory, no permission.                         *)
ActFails(w) ==
  /\ worker[w].at = "act"
  /\ Acts(w, FALSE)
  /\ UNCHANGED <<session, dirs, orphan>>

(* The answer, or SIGPIPE if nobody waits for it.                          *)
Answer(w) ==
  /\ worker[w].at = "answer"
  /\ IF Detached(w)
     THEN worker' = [worker EXCEPT ![w] = NoWorker] /\ orphan' = orphan \ {w}
     ELSE /\ worker' = [worker EXCEPT ![w].at = "next", ![w].ok = FALSE, ![w].cmd = NoCommand,
                          ![w].answer = IF worker[w].ok THEN "ok" ELSE "failed"]
          /\ UNCHANGED orphan
  /\ UNCHANGED <<session, dirs>>

(* regainRoot fails: the process exits without an answer, unless it is     *)
(* mkdir's, which answers first.                                           *)
NoRoot(w) ==
  /\ worker[w].at = "answer" /\ worker[w].cmd.op # "mkdir"
  /\ worker' = [worker EXCEPT ![w] = IF Detached(w) THEN NoWorker ELSE Over(w, "none")]
  /\ orphan' = IF Detached(w) THEN orphan \ {w} ELSE orphan
  /\ UNCHANGED <<session, dirs>>

-----------------------------------------------------------------------------
Asks(s, w) ==
  \/ Login(s, w) \/ Ls(s, w) \/ FileCommand(s, w)
  \/ \E d \in Place : Cd(s, w, d)
  \/ \E d \in Dir : MakeDir(s, w, d) \/ Delete(s, w, d)
HandlerStep(s) == Receive(s) \/ ReadEntries(s) \/ Reply(s)
WorkerStep(w) ==
  \/ LookUp(w) \/ Sandbox(w) \/ SandboxFails(w) \/ Look(w) \/ Mkdir(w) \/ Rmdir(w)
  \/ ActFails(w) \/ Answer(w) \/ NoRoot(w)

Next ==
  \/ \E s \in Session : \/ Connect(s) \/ Refuse(s) \/ \E w \in Worker : Asks(s, w)
                        \/ HandlerStep(s) \/ Interrupt(s) \/ Leave(s)
  \/ \E w \in Worker : WorkerStep(w)

Spec == Init /\ [][Next]_vars

-----------------------------------------------------------------------------
(* Properties.                                                             *)

(* The session's working directory is the one its client was told of last, *)
(* though answers get lost and commands fail after they were done.         *)
ToldIsWorkdir ==
  \A s \in Session : session[s].at = "read" => session[s].told = session[s].workdir

(* A directory comes or goes only for a client that has not been answered  *)
(* yet, so that the commands of a session take effect one after the other; *)
(* unless a signal ended the wait for the answer.                          *)
EffectBeforeAnswer ==
  [][dirs' # dirs =>
       \E w \in Worker :
         /\ worker[w].at = "act" /\ worker'[w].at = "answer"
         /\ \/ w \in orphan
            \/ session[worker[w].session].at = "wait"
               /\ session[worker[w].session].worker = w]_vars

(* No handler waits in vain: whatever fails on the helper's side, the      *)
(* working directory that has gone included, there is a process that still *)
(* has to answer, an answer, or the end of the connection.                 *)
EveryCommandAnswered ==
  \A s \in Session : session[s].at = "wait" =>
    Answered(s) \/ worker[session[s].worker].at \in {"sandbox", "act", "answer"}

(* The calls of DirectoryService, read off processes of the helper and the *)
(* handlers they work for.                                                 *)
CallView(w) ==
  LET p == worker[w]
      s == p.session
      of == IF w \in orphan THEN NoOne ELSE s
      answered == p.at \in {"answer", "next", "over"}
      ok == p.ok \/ p.answer = "ok"
      to == IF session[s].at = "wait" /\ session[s].cmd.op = "cd"
            THEN session[s].cmd.dir ELSE session[s].workdir
  IN IF p.at = "free" \/ (answered /\ w \in orphan) THEN [stage |-> "none", of |-> NoOne]
     ELSE IF p.at = "sandbox"
       THEN [stage |-> "asked", of |-> of, cmd |-> p.cmd, in |-> p.workdir]
     ELSE IF p.at = "act" THEN [stage |-> "inside", of |-> of, cmd |-> p.cmd]
     ELSE IF ok /\ p.at # "over" THEN [stage |-> "done", of |-> of, to |-> to]
     ELSE [stage |-> "failed", of |-> of]

Calls == [w \in Worker |-> CallView(w)]
Told == [s \in Session |-> session[s].told]

Service == INSTANCE DirectoryService WITH Call <- Worker, cwd <- Told, call <- Calls

(* Handlers and helper do what DirectoryService promises: a command takes  *)
(* effect once, in the directory its client was told of last, before the   *)
(* client is answered, and changes that directory only if it says so;      *)
(* though signals end waits, answers get lost and commands fail after they *)
(* were done.                                                              *)
ImplementsService == Service!Service
=============================================================================
