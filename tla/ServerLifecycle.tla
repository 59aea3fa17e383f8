-------------------------- MODULE ServerLifecycle --------------------------
(***************************************************************************)
(* Start and shutdown of the server (main, startServer, performFullCleanup)*)
(* with its helper, the handlers of its clients and the creation of        *)
(* accounts (CreateSystemUser), over several servers one after the other   *)
(* in one root directory.  What a server leaves behind meets the next one: *)
(* processes that were not ended, the socket of the helper, the segment of *)
(* the registry, the lock file, accounts and directories.                  *)
(*                                                                         *)
(* Server g is the g-th that was started.  It owns helper g and segment g; *)
(* the name of the segment and the path of the socket refer to the last    *)
(* server that made them.                                                  *)
(***************************************************************************)
EXTENDS Naturals, FiniteSets

CONSTANTS Handler,   \* process ids of handlers, used again after their end
          Maker,     \* processes of a helper that create an account, one each
          Name,      \* names of users, and of directories below the root
          Tmp,       \* the directory of the helper's socket, a valid name too
          MaxServer, \* servers one after the other
          MaxUsers,  \* entries of the table of users online
          NoOne

ASSUME ServerAssumption ==
  /\ Tmp \in Name
  /\ MaxServer \in Nat \ {0} /\ MaxUsers \in Nat \ {0}
  /\ NoOne \notin Handler \cup Maker \cup Name

VARIABLES
  main,      \* the main process: where it is, which server, next entry to scan
  helper,    \* the helpers of the servers
  socket,    \* the server whose socket has the path, 0: nobody's
  segment,   \* the server that made the segment of the name, 0: no segment
  mapped,    \* the segment each server has in its memory
  online,    \* online_users of each segment: process ids
  mux,       \* the semaphore of each segment
  intruded,  \* history: segments whose semaphore was passed without its count
  known,     \* history: process ids a table has listed, which a sender may have
  proc,      \* the handlers
  maker,     \* the processes that create accounts
  lockFile,  \* the server that made the lock file at its path, 0: no file
  account,   \* names with an account
  dirs,      \* directories below the root
  owned,     \* homes given to their user
  created,   \* history: names reported to a client as created
  spoiled    \* history: names whose creation was cut off, or its undo failed

serverVars  == <<main, helper, socket, segment, mapped>>
tableVars   == <<online, mux, intruded, known>>
accountVars == <<account, dirs, owned, created, spoiled>>
vars == <<serverVars, tableVars, proc, maker, lockFile, accountVars>>

Server == 1..MaxServer
Slot   == 1..MaxUsers

MainAt == {"down", "bound", "mapped", "sandbox", "serve",
           "enter", "scan", "unlink", "stopped"}
ProcAt == {"free", "out", "wait", "insert", "in", "leave", "remove"}
MakerAt == {"free", "open", "lock", "check", "add", "mkdir", "chown",
            "undo", "release", "done"}

NoProc == [at |-> "free", server |-> 0, maker |-> NoOne]
NoMaker == [at |-> "free", name |-> NoOne, server |-> 0, file |-> 0, ok |-> FALSE]
Done == [NoMaker EXCEPT !.at = "done"]

TypeOK ==
  /\ main \in [at : MainAt, server : 0..MaxServer, next : 1..MaxUsers + 1]
  /\ helper \in [Server -> {"none", "starting", "accepting", "dead"}]
  /\ {socket, segment, lockFile} \subseteq 0..MaxServer
  /\ mapped \in [Server -> 0..MaxServer]
  /\ online \in [Server -> [Slot -> Handler \cup {NoOne}]]
  /\ mux \in [Server -> Nat] /\ intruded \subseteq Server /\ known \subseteq Handler
  /\ \A h \in Handler :
       /\ proc[h].at \in ProcAt /\ proc[h].server \in 0..MaxServer
       /\ proc[h].maker \in Maker \cup {NoOne}
  /\ \A m \in Maker : maker[m].at \in MakerAt /\ maker[m].name \in Name \cup {NoOne}
  /\ owned \subseteq dirs
  /\ account \cup dirs \cup created \cup spoiled \subseteq Name

Init ==
  /\ main = [at |-> "down", server |-> 0, next |-> 1]
  /\ helper = [g \in Server |-> "none"]
  /\ socket = 0 /\ segment = 0 /\ lockFile = 0
  /\ mapped = [g \in Server |-> 0]
  /\ online = [g \in Server |-> [i \in Slot |-> NoOne]]
  /\ mux = [g \in Server |-> 0] /\ intruded = {} /\ known = {}
  /\ proc = [h \in Handler |-> NoProc]
  /\ maker = [m \in Maker |-> NoMaker]
  /\ account = {} /\ dirs = {} /\ owned = {}
  /\ created = {} /\ spoiled = {}

-----------------------------------------------------------------------------
(* The main process.                                                       *)

Table == mapped[main.server]

Goto(a, b) == main.at = a /\ main' = [main EXCEPT !.at = b]

(* createServer, the directory for the socket, and createUnixSocket, which *)
(* takes over the path of an older socket.                                 *)
Boot ==
  /\ main.at \in {"down", "stopped"} /\ main.server < MaxServer
  /\ main' = [at |-> "bound", server |-> main.server + 1, next |-> 1]
  /\ dirs' = dirs \cup {Tmp}
  /\ socket' = main.server + 1
  /\ UNCHANGED <<helper, segment, mapped, tableVars, proc, maker, lockFile,
                 account, owned, created, spoiled>>

(* Mutant of SegmentAfterCleanup: the start cleans nothing up. *)
SegmentKept == segment

(* SharedMemCleanup as the server starts: it is root and outside the       *)
(* chroot, and finds the segment.  It knows no lock file: the path is set  *)
(* in the helper only.                                                     *)
SegmentAfterCleanup == 0

(* initSharedRegistry: the segment of the name, a new one if there is      *)
(* none, with empty tables and a free semaphore.                           *)
InitRegistry ==
  /\ Goto("bound", "mapped")
  /\ LET g == IF SegmentAfterCleanup = 0 THEN main.server ELSE SegmentAfterCleanup IN
     /\ segment' = g /\ mapped' = [mapped EXCEPT ![main.server] = g]
     /\ online' = [online EXCEPT ![g] = [i \in Slot |-> NoOne]]
     /\ mux' = [mux EXCEPT ![g] = 1]
  /\ UNCHANGED <<helper, socket, intruded, known, proc, maker, lockFile, accountVars>>

ForkHelper ==
  /\ Goto("mapped", "sandbox")
  /\ helper' = [helper EXCEPT ![main.server] = "starting"]
  /\ UNCHANGED <<socket, segment, mapped, tableVars, proc, maker, lockFile, accountVars>>

(* chroot, dropPriviledges and listen.                                     *)
Sandbox ==
  /\ Goto("sandbox", "serve")
  /\ UNCHANGED <<helper, socket, segment, mapped, tableVars, proc, maker, lockFile, accountVars>>

(* main returns where a step of the start fails, and leaves what there is. *)
StartFails ==
  /\ \E a \in {"bound", "mapped", "sandbox"} : Goto(a, "down")
  /\ UNCHANGED <<helper, socket, segment, mapped, tableVars, proc, maker, lockFile, accountVars>>

Connect(h) ==
  /\ main.at = "serve" /\ proc[h].at = "free"
  /\ proc' = [proc EXCEPT ![h] = [NoProc EXCEPT !.at = "out", !.server = main.server]]
  /\ UNCHANGED <<serverVars, tableVars, maker, lockFile, accountVars>>

(* exit on the terminal of the server, and the first step of               *)
(* performFullCleanup: the helper has kept root, the main process has not, *)
(* so that its kill fails, and nobody looks.                               *)
KillHelper ==
  /\ Goto("serve", "enter")
  /\ UNCHANGED <<helper, socket, segment, mapped, tableVars, proc, maker, lockFile, accountVars>>

(* Mutant of EnterCleanup: the table is read without the semaphore. *)
EnterCleanupUnlocked ==
  /\ Goto("enter", "scan")
  /\ UNCHANGED <<helper, socket, segment, mapped, tableVars, proc, maker, lockFile, accountVars>>

(* sem_wait: the signals of the main process are set up with SA_RESTART.   *)
EnterCleanup ==
  /\ Goto("enter", "scan") /\ mux[Table] > 0
  /\ mux' = [mux EXCEPT ![Table] = @ - 1]
  /\ UNCHANGED <<helper, socket, segment, mapped, online, intruded, known, proc, maker, lockFile, accountVars>>

(* SIGTERM for the process of an entry, and waitpid, which does not wait   *)
(* for a process that is not a child.                                      *)
KillListed ==
  /\ main.at = "scan" /\ main.next \in Slot
  /\ main' = [main EXCEPT !.next = @ + 1]
  /\ LET h == online[Table][main.next] IN
       proc' = IF h = NoOne THEN proc ELSE [proc EXCEPT ![h] = NoProc]
  /\ UNCHANGED <<helper, socket, segment, mapped, tableVars, maker, lockFile, accountVars>>

LeaveCleanup ==
  /\ main.next \notin Slot /\ Goto("scan", "unlink")
  /\ mux' = [mux EXCEPT ![Table] = @ + 1]
  /\ UNCHANGED <<helper, socket, segment, mapped, online, intruded, known, proc, maker, lockFile, accountVars>>

(* Mutant of RemoveNames: the lock file is removed too. *)
RemoveNamesAndLock ==
  /\ Goto("unlink", "stopped")
  /\ socket' = 0 /\ lockFile' = 0
  /\ UNCHANGED <<helper, segment, mapped, tableVars, proc, maker, accountVars>>

(* SharedMemCleanup in the chroot: the path of the socket is found there,  *)
(* the segment is not.                                                     *)
RemoveNames ==
  /\ Goto("unlink", "stopped")
  /\ socket' = 0
  /\ UNCHANGED <<helper, segment, mapped, tableVars, proc, maker, lockFile, accountVars>>

(* SIGINT from the terminal ends the processes of this server, its helper  *)
(* and the processes of the helper at once, and cleans nothing up.         *)
Working(m) == maker[m].at \in {"mkdir", "chown", "undo"}
OfServer(m) == maker[m].at \notin {"free", "done"} /\ maker[m].server = main.server
Interrupt ==
  /\ main.at \notin {"down", "stopped"} /\ main' = [main EXCEPT !.at = "down"]
  /\ helper' = [helper EXCEPT ![main.server] = IF @ = "none" THEN @ ELSE "dead"]
  /\ proc' = [h \in Handler |-> IF proc[h].server = main.server THEN NoProc ELSE proc[h]]
  /\ maker' = [m \in Maker |-> IF OfServer(m) THEN Done ELSE maker[m]]
  /\ spoiled' = spoiled \cup {maker[m].name : m \in {n \in Maker : OfServer(n) /\ Working(n)}}
  /\ UNCHANGED <<socket, segment, mapped, tableVars, lockFile, account, dirs, owned, created>>

(* runHelperLoop makes the lock file if there is none.                     *)
RunHelperLoop(g) ==
  /\ helper[g] = "starting" /\ helper' = [helper EXCEPT ![g] = "accepting"]
  /\ lockFile' = IF lockFile = 0 THEN g ELSE lockFile
  /\ UNCHANGED <<main, socket, segment, mapped, tableVars, proc, maker, accountVars>>

-----------------------------------------------------------------------------
(* The handlers.                                                           *)

Move(h, a, b) == proc[h].at = a /\ proc' = [proc EXCEPT ![h].at = b]
Seg(h) == mapped[proc[h].server]

(* connectToHelper finds the socket at its path in the chroot, the one of  *)
(* the last server that was started.                                       *)
Reachable == socket # 0 /\ helper[socket] = "accepting"

(* LOGIN: the helper looks the account up, without the creation lock.      *)
Login(h) ==
  /\ proc[h].at = "out" /\ proc[h].maker = NoOne
  /\ Reachable /\ account # {}
  /\ proc' = [proc EXCEPT ![h].at = "wait"]
  /\ UNCHANGED <<serverVars, tableVars, maker, lockFile, accountVars>>

(* sem_wait, on the way in and on the way out.                             *)
Enter(h) ==
  /\ Move(h, "wait", "insert") \/ Move(h, "leave", "remove")
  /\ mux[Seg(h)] > 0 /\ mux' = [mux EXCEPT ![Seg(h)] = @ - 1]
  /\ UNCHANGED <<serverVars, online, intruded, known, maker, lockFile, accountVars>>

(* SIGUSR1, for an id that was found in a table, interrupts the wait:      *)
(* nobody looks at what sem_wait returns, and the handler goes on.         *)
EnterInterrupted(h) ==
  /\ h \in known
  /\ Move(h, "wait", "insert") \/ Move(h, "leave", "remove")
  /\ mux[Seg(h)] = 0 /\ intruded' = intruded \cup {Seg(h)}
  /\ UNCHANGED <<serverVars, online, mux, known, maker, lockFile, accountVars>>

(* The other sections of a logged in handler, that of its way out which    *)
(* frees requests among them, leave the table alone: of them only what the *)
(* semaphore is left with shows, if the wait for it was interrupted.       *)
PassInterrupted(h) ==
  /\ h \in known /\ proc[h].at \in {"in", "leave"}
  /\ mux[Seg(h)] = 0 /\ mux' = [mux EXCEPT ![Seg(h)] = @ + 1]
  /\ intruded' = intruded \cup {Seg(h)}
  /\ UNCHANGED <<serverVars, online, known, proc, maker, lockFile, accountVars>>

FirstOf(g, p) ==
  {i \in Slot : online[g][i] = p /\ \A j \in 1..i - 1 : online[g][j] # p}
SetFirst(g, p, q) ==
  online' = [online EXCEPT ![g] = [i \in Slot |-> IF i \in FirstOf(g, p) THEN q ELSE @[i]]]

Insert(h) ==
  /\ Move(h, "insert", "in")
  /\ SetFirst(Seg(h), NoOne, h)
  /\ known' = IF FirstOf(Seg(h), NoOne) = {} THEN known ELSE known \cup {h}
  /\ mux' = [mux EXCEPT ![Seg(h)] = @ + 1]
  /\ UNCHANGED <<serverVars, intruded, maker, lockFile, accountVars>>

(* The client has gone; who was not logged in has no entry.                *)
Leave(h) ==
  /\ proc[h].maker = NoOne
  /\ \/ Move(h, "in", "leave")
     \/ proc[h].at = "out" /\ proc' = [proc EXCEPT ![h] = NoProc]
  /\ UNCHANGED <<serverVars, tableVars, maker, lockFile, accountVars>>

(* Mutant of Remove: no sem_post. *)
RemoveHolding(h) ==
  /\ proc[h].at = "remove" /\ proc' = [proc EXCEPT ![h] = NoProc]
  /\ SetFirst(Seg(h), h, NoOne)
  /\ UNCHANGED <<serverVars, mux, intruded, known, maker, lockFile, accountVars>>

Remove(h) ==
  /\ proc[h].at = "remove" /\ proc' = [proc EXCEPT ![h] = NoProc]
  /\ SetFirst(Seg(h), h, NoOne)
  /\ mux' = [mux EXCEPT ![Seg(h)] = @ + 1]
  /\ UNCHANGED <<serverVars, intruded, known, maker, lockFile, accountVars>>

(* A reply to a client that has gone: the handler ends, its entry stays.   *)
Sigpipe(h) ==
  /\ proc[h].at \in {"out", "in"}
  /\ proc' = [proc EXCEPT ![h] = NoProc]
  /\ UNCHANGED <<serverVars, tableVars, maker, lockFile, accountVars>>

(* create_user, by any client, logged in or not: the helper forks a        *)
(* process for the request.                                                *)
CreateUser(h, n, m) ==
  /\ proc[h].at \in {"out", "in"} /\ proc[h].maker = NoOne
  /\ Reachable /\ maker[m].at = "free"
  /\ maker' = [maker EXCEPT ![m].at = "open", ![m].name = n, ![m].server = socket]
  /\ proc' = [proc EXCEPT ![h].maker = m]
  /\ UNCHANGED <<serverVars, tableVars, lockFile, accountVars>>

(* SIGUSR1 interrupts the read of the answer: the client is told of a      *)
(* failure.                                                                *)
Interrupted(h) ==
  /\ h \in known /\ proc[h].at \in {"out", "in"} /\ proc[h].maker # NoOne
  /\ proc' = [proc EXCEPT ![h].maker = NoOne]
  /\ UNCHANGED <<serverVars, tableVars, maker, lockFile, accountVars>>

-----------------------------------------------------------------------------
(* CreateSystemUser, in process m of a helper.                             *)

Step(m, a, b) == maker[m].at = a /\ maker' = [maker EXCEPT ![m].at = b]
NameOf(m) == maker[m].name

(* acquireUserCreationLock: the lock file of the path is opened, and its   *)
(* record lock waited for.                                                 *)
OpenLock(m) ==
  /\ maker[m].at = "open"
  /\ maker' = [maker EXCEPT ![m].file = lockFile,
                            ![m].at = IF lockFile = 0 THEN "release" ELSE "lock"]
  /\ UNCHANGED <<serverVars, tableVars, proc, lockFile, accountVars>>

Holding == {"check", "add", "mkdir", "chown", "undo", "release"}
GetLock(m) ==
  /\ \A n \in Maker : maker[n].file = maker[m].file => maker[n].at \notin Holding
  /\ Step(m, "lock", "check")
  /\ UNCHANGED <<serverVars, tableVars, proc, lockFile, accountVars>>

(* Mutant of Taken: a name that is taken is cleaned up like the others. *)
TakenUndone(m) ==
  /\ NameOf(m) \in account /\ Step(m, "check", "undo")
  /\ UNCHANGED <<serverVars, tableVars, proc, lockFile, accountVars>>

Taken(m) ==
  /\ NameOf(m) \in account /\ Step(m, "check", "release")
  /\ UNCHANGED <<serverVars, tableVars, proc, lockFile, accountVars>>

NotTaken(m) ==
  /\ NameOf(m) \notin account /\ Step(m, "check", "add")
  /\ UNCHANGED <<serverVars, tableVars, proc, lockFile, accountVars>>

(* adduser, with --no-create-home; then getpwnam finds the account or not. *)
AddUser(m) ==
  /\ NameOf(m) \notin account
  /\ Step(m, "add", "mkdir") \/ Step(m, "add", "undo")
  /\ account' = account \cup {NameOf(m)}
  /\ UNCHANGED <<serverVars, tableVars, proc, lockFile,
                 dirs, owned, created, spoiled>>

AddFails(m) ==
  /\ Step(m, "add", "release")
  /\ UNCHANGED <<serverVars, tableVars, proc, lockFile, accountVars>>

(* Mutant of MakeHome: the home is left to adduser, which makes none. *)
MakeNoHome(m) ==
  /\ Step(m, "mkdir", "chown")
  /\ UNCHANGED <<serverVars, tableVars, proc, lockFile, accountVars>>

MakeHome(m) ==
  /\ NameOf(m) \notin dirs /\ Step(m, "mkdir", "chown")
  /\ dirs' = dirs \cup {NameOf(m)}
  /\ UNCHANGED <<serverVars, tableVars, proc, lockFile,
                 account, owned, created, spoiled>>

GiveHome(m) ==
  /\ maker[m].at = "chown"
  /\ maker' = [maker EXCEPT ![m].at = "release", ![m].ok = TRUE]
  /\ owned' = owned \cup {NameOf(m)}
  /\ UNCHANGED <<serverVars, tableVars, proc, lockFile,
                 account, dirs, created, spoiled>>

(* Mutant of StepFails: the account stays. *)
StepFailsOnly(m) ==
  /\ \E a \in {"mkdir", "chown"} : Step(m, a, "release")
  /\ UNCHANGED <<serverVars, tableVars, proc, lockFile, accountVars>>

(* mkdir fails, in particular if the directory exists, or chown.           *)
StepFails(m) ==
  /\ \E a \in {"mkdir", "chown"} : Step(m, a, "undo")
  /\ UNCHANGED <<serverVars, tableVars, proc, lockFile, accountVars>>

(* deluser --remove-home takes the directory of the name with it, and with *)
(* Tmp the socket of the helper; or it spares one that is not the user's.  *)
Undo(m) ==
  /\ Step(m, "undo", "release")
  /\ account' = account \ {NameOf(m)} /\ owned' = owned \ {NameOf(m)}
  /\ \/ /\ dirs' = dirs \ {NameOf(m)}
        /\ socket' = IF NameOf(m) = Tmp THEN 0 ELSE socket
     \/ NameOf(m) \notin owned /\ UNCHANGED <<dirs, socket>>
  /\ UNCHANGED <<main, helper, segment, mapped, tableVars, proc, lockFile,
                 created, spoiled>>

UndoFails(m) ==
  /\ Step(m, "undo", "release")
  /\ spoiled' = spoiled \cup {NameOf(m)}
  /\ UNCHANGED <<serverVars, tableVars, proc, lockFile,
                 account, dirs, owned, created>>

(* The lock is released, and the handler that still waits has its answer.  *)
Release(m) ==
  /\ maker[m].at = "release" /\ maker' = [maker EXCEPT ![m] = Done]
  /\ LET waiting == {h \in Handler : proc[h].maker = m} IN
     /\ proc' = [h \in Handler |-> IF h \in waiting THEN [proc[h] EXCEPT !.maker = NoOne]
                                    ELSE proc[h]]
     /\ created' = IF maker[m].ok /\ waiting # {} THEN created \cup {NameOf(m)} ELSE created
  /\ UNCHANGED <<serverVars, tableVars, lockFile, account, dirs, owned, spoiled>>

-----------------------------------------------------------------------------
Startup == Boot \/ InitRegistry \/ ForkHelper \/ Sandbox \/ StartFails
Cleanup == KillHelper \/ EnterCleanup \/ KillListed \/ LeaveCleanup \/ RemoveNames
Section(h) == Enter(h) \/ EnterInterrupted(h) \/ PassInterrupted(h) \/ Insert(h) \/ Remove(h)
MakerStep(m) ==
  \/ OpenLock(m) \/ GetLock(m) \/ Taken(m) \/ NotTaken(m) \/ AddUser(m) \/ AddFails(m)
  \/ MakeHome(m) \/ GiveHome(m) \/ StepFails(m) \/ Undo(m) \/ UndoFails(m)
  \/ Release(m)

Next ==
  \/ Startup \/ Cleanup \/ Interrupt
  \/ \E g \in Server : RunHelperLoop(g)
  \/ \E h \in Handler :
       \/ Connect(h) \/ Login(h) \/ Section(h) \/ Leave(h) \/ Sigpipe(h) \/ Interrupted(h)
       \/ \E n \in Name, m \in Maker : CreateUser(h, n, m)
  \/ \E m \in Maker : MakerStep(m)

Spec == Init /\ [][Next]_vars

-----------------------------------------------------------------------------
(* Properties.                                                             *)

(* Creations of accounts exclude each other, those of an older server's    *)
(* helper included, which goes on when its server has been shut down.      *)
CreationExclusive ==
  \A m, n \in Maker : maker[m].at \in Holding /\ maker[n].at \in Holding
                        /\ maker[m].file # 0 /\ maker[n].file # 0 => m = n

(* An account that nobody is at work on has a home of its own, unless a    *)
(* creation was cut off by the end of its process or deluser failed.       *)
AtWorkOn(n) == \E m \in Maker : NameOf(m) = n /\ Working(m)
AccountHasHome ==
  \A n \in account \ spoiled : AtWorkOn(n) \/ n \in owned

(* What a client was told it has created stays: no later creation, no undo *)
(* and no other server takes account or home away.                         *)
CreatedStays == created \subseteq account \cap owned

(* The table of the server that runs lists no handler of an older one,     *)
(* though those go on with their segment.                                  *)
Running == main.at \in {"serve", "enter", "scan", "unlink"}
TableOfOneServer ==
  Running => \A i \in Slot : LET h == online[Table][i] IN
               h # NoOne /\ proc[h].at \in {"in", "leave", "remove"}
                 => proc[h].server = main.server

(* When the cleanup gives the semaphore back, no process it found listed   *)
(* is alive, whoever logged in or out while it went through the table,     *)
(* unless a signal has let a handler past the semaphore.                   *)
NoListedSurvivor ==
  main.at = "scan" /\ main.next \notin Slot /\ Table \notin intruded =>
    \A i \in Slot : online[Table][i] # NoOne => proc[online[Table][i]].at = "free"

(* As long as no signal has let a handler past the semaphore of the        *)
(* running server, it is free and nobody is inside, or it is taken and one *)
(* alone is inside, the cleanup or a handler that is about to give it      *)
(* back: a process is never ended with the semaphore in its hands, and the *)
(* cleanup gets it.                                                        *)
Inside == {h \in Handler : proc[h].server = main.server /\ proc[h].at \in {"insert", "remove"}}
SemaphoreInHands ==
  Running /\ Table \notin intruded =>
    \/ mux[Table] = 1 /\ main.at # "scan" /\ Inside = {}
    \/ mux[Table] = 0 /\ main.at = "scan" /\ Inside = {}
    \/ mux[Table] = 0 /\ main.at # "scan" /\ \E h \in Handler : Inside = {h}

(* After "Terminating Helper" and "Safe to restart" the helper has ended.  *)
HelperEnds == main.at = "stopped" => helper[main.server] # "accepting"
=============================================================================
