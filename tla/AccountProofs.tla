--------------------------- MODULE AccountProofs ---------------------------
(***************************************************************************)
(* Proofs about the creation of accounts in ServerLifecycle, for any       *)
(* number of servers, helpers' processes and names: creations exclude each *)
(* other, and what follows from that for accounts and homes.               *)
(***************************************************************************)
EXTENDS ServerLifecycle, TLAPS

MakerType == [at : MakerAt, name : Name \cup {NoOne}, server : 0..MaxServer,
              file : 0..MaxServer, ok : BOOLEAN]

MainTyped == main \in [at : MainAt, server : 0..MaxServer, next : 1..MaxUsers + 1]
Typed == /\ MainTyped
         /\ maker \in [Maker -> MakerType]
         /\ {lockFile, socket} \subseteq 0..MaxServer

(* There is one lock file, which stays, and who is past its lock has it.   *)
OneLock ==
  \A m \in Maker :
    /\ maker[m].at \in {"lock"} \cup (Holding \ {"release"}) =>
         maker[m].file = lockFile /\ lockFile # 0
    /\ maker[m].at = "release" => maker[m].file \in {0, lockFile}
    /\ maker[m].at \notin {"free", "done"} => maker[m].name \in Name

(* A name is taken, or not, as the creation found it, until it is done.    *)
NameHeld ==
  \A m \in Maker :
    /\ maker[m].at = "add" => NameOf(m) \notin account
    /\ Working(m) => NameOf(m) \in account \ created
    /\ maker[m].ok => /\ maker[m].at = "release" /\ maker[m].file # 0
                      /\ NameOf(m) \in account \cap owned

Inv == Typed /\ OneLock /\ CreationExclusive /\ NameHeld /\ CreatedStays /\ AccountHasHome

-----------------------------------------------------------------------------
(* Steps that create nothing: of the main process, of helpers that start,  *)
(* and of handlers.  The lock file is made if there is none.               *)
Elsewhere ==
  /\ UNCHANGED <<maker, account, owned, created, spoiled>>
  /\ lockFile' = lockFile \/ (lockFile = 0 /\ lockFile' \in 0..MaxServer)
  /\ socket' \in 0..MaxServer /\ MainTyped'

LEMMA ElsewhereKeeps == Inv /\ Elsewhere => Inv'
<1> SUFFICES ASSUME Inv, Elsewhere PROVE Inv'
  OBVIOUS
<1> USE DEF Inv, Elsewhere
<1>1. Typed'
  BY DEF Typed
<1>2. OneLock'
  BY DEF OneLock, Holding
<1>3. CreationExclusive'
  BY DEF CreationExclusive
<1>4. NameHeld' /\ CreatedStays'
  BY DEF NameHeld, NameOf, Working, CreatedStays
<1>5. AccountHasHome'
  BY DEF AccountHasHome, AtWorkOn, NameOf, Working
<1> QED BY <1>1, <1>2, <1>3, <1>4, <1>5

LEMMA MainKept ==
  ASSUME MainTyped, Next
  PROVE  MainTyped'
<1> USE ServerAssumption DEF MainTyped, MainAt
<1>1. CASE Boot
  BY <1>1 DEF Boot
<1>2. CASE InitRegistry \/ ForkHelper \/ Sandbox \/ StartFails
  BY <1>2 DEF InitRegistry, ForkHelper, Sandbox, StartFails, Goto
<1>3. CASE KillHelper \/ EnterCleanup \/ LeaveCleanup \/ RemoveNames
  BY <1>3 DEF KillHelper, EnterCleanup, LeaveCleanup, RemoveNames, Goto
<1>4. CASE KillListed
  BY <1>4 DEF KillListed, Slot
<1>5. CASE Interrupt
  BY <1>5 DEF Interrupt
<1>6. ASSUME NEW h \in Handler,
             \/ Connect(h) \/ Login(h) \/ Section(h) \/ Leave(h) \/ Sigpipe(h) \/ Interrupted(h)
             \/ \E n \in Name, m \in Maker : CreateUser(h, n, m)
      PROVE  main' = main
  BY <1>6 DEF Connect, Login, Section, Enter, EnterInterrupted, PassInterrupted, Insert, Remove,
              Leave, Sigpipe, Interrupted,
              CreateUser, serverVars
<1>7. ASSUME NEW m \in Maker, MakerStep(m) PROVE main' = main
  BY <1>7 DEF MakerStep, OpenLock, GetLock, Taken, NotTaken, AddUser, AddFails, MakeHome,
              GiveHome, StepFails, Undo, UndoFails, Release, serverVars
<1>8. ASSUME NEW g \in Server, RunHelperLoop(g) PROVE main' = main
  BY <1>8 DEF RunHelperLoop
<1> QED BY <1>1, <1>2, <1>3, <1>4, <1>5, <1>6, <1>7, <1>8 DEF Next, Startup, Cleanup

LEMMA NextKinds ==
  ASSUME Inv, Next
  PROVE  \/ Elsewhere \/ Interrupt
         \/ \E h \in Handler, n \in Name, m \in Maker : CreateUser(h, n, m)
         \/ \E m \in Maker : MakerStep(m)
<1>1. MainTyped /\ MainTyped' /\ lockFile \in 0..MaxServer /\ socket \in 0..MaxServer
  BY MainKept DEF Inv, Typed
<1> USE <1>1, ServerAssumption DEF Elsewhere, accountVars, serverVars
<1>2. CASE Boot
  BY <1>2 DEF Boot, MainTyped
<1>3. CASE InitRegistry \/ ForkHelper \/ Sandbox \/ StartFails
  BY <1>3 DEF InitRegistry, ForkHelper, Sandbox, StartFails
<1>4. CASE KillHelper \/ EnterCleanup \/ KillListed \/ LeaveCleanup \/ RemoveNames
  BY <1>4 DEF KillHelper, EnterCleanup, KillListed, LeaveCleanup, RemoveNames
<1>5. ASSUME NEW g \in Server, RunHelperLoop(g) PROVE Elsewhere
  BY <1>5 DEF RunHelperLoop, Server
<1>6. ASSUME NEW h \in Handler,
             \/ Connect(h) \/ Login(h) \/ Section(h) \/ Leave(h) \/ Sigpipe(h) \/ Interrupted(h)
      PROVE  Elsewhere
  BY <1>6 DEF Connect, Login, Section, Enter, EnterInterrupted, PassInterrupted, Insert, Remove,
              Leave, Sigpipe, Interrupted
<1> QED BY <1>2, <1>3, <1>4, <1>5, <1>6 DEF Next, Startup, Cleanup

-----------------------------------------------------------------------------
(* Steps that concern a creation.                                          *)

LEMMA CreateUserKeeps ==
  ASSUME Inv, MainTyped', NEW h \in Handler, NEW n \in Name, NEW m \in Maker, CreateUser(h, n, m)
  PROVE  Inv'
<1> USE DEF Inv
<1> DEFINE new == [maker[m] EXCEPT !.at = "open", !.name = n, !.server = socket]
<1>1. maker[m] \in MakerType /\ maker[m].at = "free"
  BY DEF Typed, CreateUser
<1>2. ~maker[m].ok
  BY <1>1 DEF NameHeld
<1>3. new \in MakerType /\ new.at = "open" /\ ~new.ok /\ new.name = n
  BY <1>1, <1>2 DEF MakerType, MakerAt, Typed
<1>4. maker' = [maker EXCEPT ![m] = new]
  BY DEF CreateUser
<1> HIDE DEF new
<1>5. maker'[m] = new /\ \A k \in Maker : k # m => maker'[k] = maker[k]
  BY <1>4 DEF Typed
<1>6. UNCHANGED <<lockFile, socket, account, dirs, owned, created, spoiled>>
  BY DEF CreateUser, accountVars, serverVars
<1>7. Typed'
  BY <1>3, <1>4, <1>6 DEF Typed
<1>8. OneLock'
  BY <1>3, <1>5, <1>6 DEF OneLock, Holding
<1>9. CreationExclusive'
  BY <1>3, <1>5 DEF CreationExclusive, Holding
<1>10. NameHeld' /\ CreatedStays'
  BY <1>3, <1>5, <1>6 DEF NameHeld, NameOf, Working, CreatedStays
<1>11. AccountHasHome'
  <2> SUFFICES ASSUME NEW x \in account \ spoiled, x \notin owned
               PROVE  AtWorkOn(x)'
    BY <1>6 DEF AccountHasHome
  <2>1. PICK k \in Maker : NameOf(k) = x /\ Working(k)
    BY DEF AccountHasHome, AtWorkOn
  <2>2. k # m
    BY <2>1, <1>1 DEF Working
  <2> QED BY <2>1, <2>2, <1>5 DEF AtWorkOn, NameOf, Working
<1> QED BY <1>7, <1>8, <1>9, <1>10, <1>11

LEMMA DoneTyped == NoMaker \in MakerType /\ Done \in MakerType /\ Done.at = "done" /\ ~Done.ok
<1>1. 0 \in 0..MaxServer
  BY ServerAssumption
<1>2. NoMaker \in MakerType
  BY <1>1 DEF NoMaker, MakerType, MakerAt
<1>3. Done \in MakerType
  BY <1>2 DEF Done, MakerType, MakerAt
<1>4. Done.at = "done" /\ ~Done.ok
  BY DEF Done, NoMaker
<1> QED BY <1>2, <1>3, <1>4

LEMMA InterruptKeeps ==
  ASSUME Inv, MainTyped', Interrupt
  PROVE  Inv'
<1> USE DEF Inv
<1>1. UNCHANGED <<lockFile, socket, account, dirs, owned, created>>
  BY DEF Interrupt
<1>2. \A m \in Maker : maker'[m] = IF OfServer(m) THEN Done ELSE maker[m]
  BY DEF Interrupt
<1>3. Done \in MakerType /\ Done.at = "done" /\ ~Done.ok
  BY DoneTyped
<1>4. Typed'
  BY <1>1, <1>2, <1>3 DEF Typed, Interrupt
<1> HIDE DEF Done
<1>5. OneLock'
  BY <1>1, <1>2, <1>3 DEF OneLock, Holding
<1>6. CreationExclusive'
  BY <1>2, <1>3 DEF CreationExclusive, Holding
<1>7. NameHeld' /\ CreatedStays'
  BY <1>1, <1>2, <1>3 DEF NameHeld, NameOf, Working, CreatedStays
<1>8. AccountHasHome'
  <2> SUFFICES ASSUME NEW x \in account \ spoiled', x \notin owned
               PROVE  AtWorkOn(x)'
    BY <1>1 DEF AccountHasHome
  <2>1. x \notin spoiled /\ \A k \in Maker : OfServer(k) /\ Working(k) => maker[k].name # x
    BY DEF Interrupt
  <2>2. PICK k \in Maker : NameOf(k) = x /\ Working(k)
    BY <2>1 DEF AccountHasHome, AtWorkOn
  <2>3. maker'[k] = maker[k]
    BY <1>2, <2>1, <2>2 DEF NameOf
  <2> QED BY <2>2, <2>3 DEF AtWorkOn, NameOf, Working
<1> QED BY <1>4, <1>5, <1>6, <1>7, <1>8

(* What a step of m does to the processes: m goes on, and into the section *)
(* only if nobody has its lock file; or it ends.                           *)
Goes(m, new) ==
  /\ maker' = [maker EXCEPT ![m] = new] /\ new \in MakerType
  /\ lockFile' = lockFile /\ socket' \in {0, socket}
  /\ \/ new.at = "done" /\ ~new.ok
     \/ /\ new.name = maker[m].name /\ new.name \in Name
        /\ new.at = "release" => new.file \in {0, lockFile}
        /\ new.at # "release" => new.file = lockFile /\ lockFile # 0
        /\ new.at \in Holding => \/ maker[m].at \in Holding /\ new.file = maker[m].file
                                 \/ new.file = 0
                                 \/ \A k \in Maker : maker[k].file = new.file => maker[k].at \notin Holding

LEMMA LockKept ==
  ASSUME Inv, MainTyped', NEW m \in Maker, NEW new, Goes(m, new)
  PROVE  Typed' /\ OneLock' /\ CreationExclusive'
<1> USE DEF Inv
<1>1. maker'[m] = new /\ \A k \in Maker : k # m => maker'[k] = maker[k]
  BY DEF Goes, Typed
<1>2. Typed'
  BY ServerAssumption DEF Goes, Typed
<1>3. OneLock'
  BY <1>1 DEF Goes, OneLock, Holding
<1>4. CreationExclusive'
  <2>1. \A k \in Maker : maker[k].at \in Holding /\ maker[k].file # 0 => maker[k].file = lockFile
    BY DEF OneLock, Holding
  <2>2. new.at \in Holding /\ new.file # 0 =>
          new.file = lockFile /\ \A k \in Maker :
            k # m /\ maker[k].at \in Holding /\ maker[k].file # 0 => FALSE
    <3> SUFFICES ASSUME new.at \in Holding, new.file # 0
                 PROVE  /\ new.file = lockFile
                        /\ \A k \in Maker : k # m /\ maker[k].at \in Holding => maker[k].file = 0
      OBVIOUS
    <3>1. new.file = lockFile
      BY DEF Goes, Holding
    <3>2. CASE maker[m].at \in Holding /\ new.file = maker[m].file
      BY <3>1, <3>2 DEF CreationExclusive
    <3>3. CASE \A k \in Maker : maker[k].file = new.file => maker[k].at \notin Holding
      BY <2>1, <3>1, <3>3
    <3> QED BY <3>1, <3>2, <3>3 DEF Goes, Holding
  <2> QED BY <1>1, <2>2 DEF CreationExclusive
<1> QED BY <1>2, <1>3, <1>4

(* Who is at work on an account, or about to report one, is alone.         *)
LEMMA Alone ==
  ASSUME Inv, NEW m \in Maker, maker[m].at \in {"add", "mkdir", "chown", "undo"} \/ maker[m].ok
  PROVE  \A k \in Maker : k # m =>
           maker[k].at \notin {"add", "mkdir", "chown", "undo"} /\ ~maker[k].ok
<1> USE DEF Inv
<1>1. maker[m].at \in Holding /\ maker[m].file # 0
  BY DEF OneLock, NameHeld, Holding
<1>2. \A k \in Maker : maker[k].at \in {"add", "mkdir", "chown", "undo"} \/ maker[k].ok =>
        maker[k].at \in Holding /\ maker[k].file # 0
  BY DEF OneLock, NameHeld, Holding
<1> QED BY <1>1, <1>2 DEF CreationExclusive

(* Steps that leave the accounts as they are, and take m into the section  *)
(* with a name that is free, or on with its work.                          *)
Plain(m, new) ==
  /\ UNCHANGED <<account, owned, created, spoiled>> /\ ~new.ok
  /\ new.at = "add" => NameOf(m) \notin account
  /\ Working(m) <=> new.at \in {"mkdir", "chown", "undo"}

LEMMA PlainSteps ==
  ASSUME Inv, NEW m \in Maker,
         \/ OpenLock(m) \/ GetLock(m) \/ Taken(m) \/ NotTaken(m)
         \/ AddFails(m) \/ MakeHome(m) \/ StepFails(m)
  PROVE  \E new : Goes(m, new) /\ Plain(m, new)
<1>1. maker[m] \in MakerType /\ lockFile \in 0..MaxServer /\ socket \in 0..MaxServer
  BY DEF Inv, Typed
<1>2. maker[m].ok => maker[m].at = "release"
  BY DEF Inv, NameHeld
<1>3. /\ maker[m].at \in {"lock"} \cup (Holding \ {"release"}) =>
           maker[m].file = lockFile /\ lockFile # 0
      /\ maker[m].at \notin {"free", "done"} => maker[m].name \in Name
  BY DEF Inv, OneLock
<1> USE <1>1, <1>2, <1>3 DEF MakerType, MakerAt, Goes, Plain, Holding, Working, accountVars, serverVars
<1>4. CASE OpenLock(m)
  <2> DEFINE new == [maker[m] EXCEPT !.file = lockFile,
                       !.at = IF lockFile = 0 THEN "release" ELSE "lock"]
  <2>1. Goes(m, new) /\ Plain(m, new)
    BY <1>4 DEF OpenLock
  <2> QED BY <2>1
<1>5. CASE GetLock(m)
  <2> DEFINE new == [maker[m] EXCEPT !.at = "check"]
  <2>1. Goes(m, new) /\ Plain(m, new)
    BY <1>5 DEF GetLock, Step
  <2> QED BY <2>1
<1>6. CASE Taken(m) \/ AddFails(m)
  <2> DEFINE new == [maker[m] EXCEPT !.at = "release"]
  <2>1. Goes(m, new) /\ Plain(m, new)
    BY <1>6 DEF Taken, AddFails, Step
  <2> QED BY <2>1
<1>7. CASE NotTaken(m)
  <2> DEFINE new == [maker[m] EXCEPT !.at = "add"]
  <2>1. Goes(m, new) /\ Plain(m, new)
    BY <1>7 DEF NotTaken, Step
  <2> QED BY <2>1
<1>8. CASE MakeHome(m)
  <2> DEFINE new == [maker[m] EXCEPT !.at = "chown"]
  <2>1. Goes(m, new) /\ Plain(m, new)
    BY <1>8 DEF MakeHome, Step
  <2> QED BY <2>1
<1>9. CASE StepFails(m)
  <2> DEFINE new == [maker[m] EXCEPT !.at = "undo"]
  <2>1. Goes(m, new) /\ Plain(m, new)
    BY <1>9 DEF StepFails, Step
  <2> QED BY <2>1
<1> QED BY <1>4, <1>5, <1>6, <1>7, <1>8, <1>9

LEMMA PlainKeeps ==
  ASSUME Inv, MainTyped', NEW m \in Maker, NEW new, Goes(m, new), Plain(m, new)
  PROVE  Inv'
<1> USE DEF Inv
<1>1. Typed' /\ OneLock' /\ CreationExclusive'
  BY LockKept
<1>2. maker'[m] = new /\ \A k \in Maker : k # m => maker'[k] = maker[k]
  BY DEF Goes, Typed
<1>3. new.at \in {"add", "mkdir", "chown", "undo"} => new.name = NameOf(m)
  BY DEF Goes, NameOf
<1>4. NameHeld'
  BY <1>2, <1>3 DEF Plain, NameHeld, NameOf, Working
<1>5. CreatedStays'
  BY DEF Plain, CreatedStays
<1>6. AccountHasHome'
  <2> SUFFICES ASSUME NEW x \in account \ spoiled, x \notin owned
               PROVE  AtWorkOn(x)'
    BY DEF Plain, AccountHasHome
  <2>1. PICK k \in Maker : NameOf(k) = x /\ Working(k)
    BY DEF AccountHasHome, AtWorkOn
  <2> QED BY <2>1, <1>2, <1>3 DEF AtWorkOn, NameOf, Working, Plain
<1> QED BY <1>1, <1>4, <1>5, <1>6

(* adduser, chown, deluser and the report, each by a process that is alone.*)
LEMMA AccountSteps ==
  ASSUME Inv, MainTyped', NEW m \in Maker,
         AddUser(m) \/ GiveHome(m) \/ Undo(m) \/ UndoFails(m) \/ Release(m)
  PROVE  Inv'
<1> USE DEF Inv
<1>1. maker[m] \in MakerType /\ lockFile \in 0..MaxServer /\ socket \in 0..MaxServer
  BY DEF Typed
<1>2. /\ maker[m].at \in {"lock"} \cup (Holding \ {"release"}) =>
           maker[m].file = lockFile /\ lockFile # 0
      /\ maker[m].at \notin {"free", "done"} => maker[m].name \in Name
  BY DEF OneLock
<1>3. maker[m].ok => maker[m].at = "release"
  BY DEF NameHeld
<1>4. CASE AddUser(m)
  <2>1. PICK a \in {"mkdir", "undo"} : Step(m, "add", a)
    BY <1>4 DEF AddUser
  <2> DEFINE new == [maker[m] EXCEPT !.at = a]
  <2>2. /\ maker[m].at = "add" /\ account' = account \cup {NameOf(m)}
        /\ UNCHANGED <<lockFile, socket, owned, created, spoiled>>
    BY <1>4, <2>1 DEF AddUser, Step, serverVars
  <2>3. new \in MakerType /\ new.at = a /\ new.name = NameOf(m) /\ ~new.ok
    BY <1>1, <1>3, <2>2 DEF MakerType, MakerAt, NameOf
  <2>4. Goes(m, new)
    BY <1>1, <1>2, <2>1, <2>2, <2>3 DEF Goes, Step, Holding, MakerType
  <2>5. Typed' /\ OneLock' /\ CreationExclusive'
    BY <2>4, LockKept
  <2>6. maker'[m] = new /\ \A k \in Maker : k # m => maker'[k] = maker[k]
    BY <2>4 DEF Goes, Typed
  <2>7. \A k \in Maker : k # m => maker[k].at \notin {"add", "mkdir", "chown", "undo"} /\ ~maker[k].ok
    BY <2>2, Alone
  <2>8. NameOf(m) \notin account /\ created \subseteq account
    BY <2>2 DEF NameHeld, CreatedStays
  <2> HIDE DEF new
  <2>9. NameHeld'
    BY <2>2, <2>3, <2>6, <2>7, <2>8 DEF NameHeld, NameOf, Working
  <2>10. CreatedStays'
    BY <2>2 DEF CreatedStays
  <2>11. AccountHasHome'
    <3> SUFFICES ASSUME NEW x \in account' \ spoiled', x \notin owned'
                 PROVE  AtWorkOn(x)'
      BY DEF AccountHasHome
    <3>1. account \ spoiled \subseteq owned
      BY <2>2, <2>7 DEF AccountHasHome, AtWorkOn, Working
    <3>2. x = NameOf(m)
      BY <2>2, <3>1
    <3>3. maker'[m].name = x /\ maker'[m].at \in {"mkdir", "undo"}
      BY <2>1, <2>3, <2>6, <3>2
    <3> QED BY <3>3 DEF AtWorkOn, NameOf, Working
  <2> QED BY <2>5, <2>9, <2>10, <2>11
<1>5. CASE GiveHome(m)
  <2> DEFINE new == [maker[m] EXCEPT !.at = "release", !.ok = TRUE]
  <2>1. /\ maker[m].at = "chown" /\ owned' = owned \cup {NameOf(m)}
        /\ UNCHANGED <<lockFile, socket, account, created, spoiled>>
    BY <1>5 DEF GiveHome, serverVars
  <2>2. /\ new \in MakerType /\ new.at = "release" /\ new.name = NameOf(m)
        /\ new.file = maker[m].file
    BY <1>1 DEF MakerType, MakerAt, NameOf
  <2>3. Goes(m, new)
    BY <1>1, <1>2, <1>5, <2>1, <2>2 DEF Goes, GiveHome, Holding, MakerType, NameOf
  <2>4. Typed' /\ OneLock' /\ CreationExclusive'
    BY <2>3, LockKept
  <2>5. maker'[m] = new /\ \A k \in Maker : k # m => maker'[k] = maker[k]
    BY <2>3 DEF Goes, Typed
  <2>6. \A k \in Maker : k # m => maker[k].at \notin {"add", "mkdir", "chown", "undo"} /\ ~maker[k].ok
    BY <2>1, Alone
  <2>7. NameOf(m) \in account \ created /\ new.file # 0
    BY <1>2, <2>1, <2>2 DEF NameHeld, Working, Holding
  <2> HIDE DEF new
  <2>8. NameHeld'
    BY <2>1, <2>2, <2>5, <2>6, <2>7 DEF NameHeld, NameOf, Working
  <2>9. CreatedStays'
    BY <2>1 DEF CreatedStays
  <2>10. AccountHasHome'
    <3>1. \A x : AtWorkOn(x) => x = NameOf(m)
      BY <2>6 DEF AtWorkOn, Working
    <3> QED BY <2>1, <3>1 DEF AccountHasHome, NameOf
  <2> QED BY <2>4, <2>8, <2>9, <2>10
<1>6. CASE Undo(m) \/ UndoFails(m)
  <2> DEFINE new == [maker[m] EXCEPT !.at = "release"]
  <2>1. /\ maker[m].at = "undo" /\ maker' = [maker EXCEPT ![m] = new]
        /\ UNCHANGED <<lockFile, created>> /\ socket' \in {0, socket}
        /\ \/ /\ account' = account \ {NameOf(m)} /\ owned' = owned \ {NameOf(m)}
              /\ spoiled' = spoiled
           \/ /\ spoiled' = spoiled \cup {NameOf(m)}
              /\ UNCHANGED <<account, owned>>
    BY <1>6 DEF Undo, UndoFails, Step, serverVars
  <2>2. /\ new \in MakerType /\ new.at = "release" /\ new.name = NameOf(m)
        /\ new.file = maker[m].file /\ ~new.ok
    BY <1>1, <1>3, <2>1 DEF MakerType, MakerAt, NameOf
  <2>3. Goes(m, new)
    BY <1>1, <1>2, <2>1, <2>2 DEF Goes, Holding, MakerType, NameOf
  <2>4. Typed' /\ OneLock' /\ CreationExclusive'
    BY <2>3, LockKept
  <2>5. maker'[m] = new /\ \A k \in Maker : k # m => maker'[k] = maker[k]
    BY <2>3 DEF Goes, Typed
  <2>6. \A k \in Maker : k # m => maker[k].at \notin {"add", "mkdir", "chown", "undo"} /\ ~maker[k].ok
    BY <2>1, Alone
  <2>7. NameOf(m) \notin created
    BY <2>1 DEF NameHeld, Working
  <2> HIDE DEF new
  <2>8. NameHeld'
    BY <2>2, <2>5, <2>6 DEF NameHeld, NameOf, Working
  <2>9. CreatedStays'
    BY <2>1, <2>7 DEF CreatedStays
  <2>10. AccountHasHome'
    <3>1. \A x : AtWorkOn(x) => x = NameOf(m)
      BY <2>6 DEF AtWorkOn, Working
    <3> QED BY <2>1, <3>1 DEF AccountHasHome, NameOf
  <2> QED BY <2>4, <2>8, <2>9, <2>10
<1>7. CASE Release(m)
  <2>1. /\ maker[m].at = "release" /\ maker' = [maker EXCEPT ![m] = Done]
        /\ created' = created \/ (maker[m].ok /\ created' = created \cup {NameOf(m)})
        /\ UNCHANGED <<lockFile, socket, account, owned, spoiled>>
    BY <1>7 DEF Release, serverVars
  <2>2. Goes(m, Done)
    BY <2>1, DoneTyped DEF Goes
  <2>3. Typed' /\ OneLock' /\ CreationExclusive'
    BY <2>2, LockKept
  <2>4. maker'[m] = Done /\ \A k \in Maker : k # m => maker'[k] = maker[k]
    BY <2>2 DEF Goes, Typed
  <2>5. maker[m].ok =>
          \A k \in Maker : k # m => maker[k].at \notin {"add", "mkdir", "chown", "undo"}
    BY Alone
  <2>6. maker[m].ok => NameOf(m) \in account \cap owned
    BY DEF NameHeld
  <2>7. NameHeld'
    BY <2>1, <2>4, <2>5, DoneTyped DEF NameHeld, NameOf, Working
  <2>8. CreatedStays'
    BY <2>1, <2>6 DEF CreatedStays
  <2>9. AccountHasHome'
    <3> SUFFICES ASSUME NEW x \in account \ spoiled, x \notin owned
                 PROVE  AtWorkOn(x)'
      BY <2>1 DEF AccountHasHome
    <3>1. PICK k \in Maker : NameOf(k) = x /\ Working(k)
      BY DEF AccountHasHome, AtWorkOn
    <3>2. k # m
      BY <2>1, <3>1 DEF Working
    <3> QED BY <2>4, <3>1, <3>2 DEF AtWorkOn, NameOf, Working
  <2> QED BY <2>3, <2>7, <2>8, <2>9
<1> QED BY <1>4, <1>5, <1>6, <1>7

-----------------------------------------------------------------------------
LEMMA InvInit == Init => Inv
<1> SUFFICES ASSUME Init PROVE Inv
  OBVIOUS
<1>1. Typed
  BY DoneTyped, ServerAssumption DEF Init, Typed, MainTyped, MainAt
<1>2. \A m \in Maker : maker[m].at = "free" /\ ~maker[m].ok
  BY DEF Init, NoMaker
<1>3. OneLock /\ CreationExclusive /\ NameHeld
  BY <1>2 DEF OneLock, CreationExclusive, NameHeld, Working, Holding
<1>4. CreatedStays /\ AccountHasHome
  BY DEF Init, CreatedStays, AccountHasHome
<1> QED BY <1>1, <1>3, <1>4 DEF Inv

LEMMA InvNext == Inv /\ [Next]_vars => Inv'
<1> SUFFICES ASSUME Inv, [Next]_vars PROVE Inv'
  OBVIOUS
<1>1. CASE Next
  <2>1. MainTyped'
    BY <1>1, MainKept DEF Inv, Typed
  <2>2. ASSUME NEW m \in Maker, MakerStep(m)
        PROVE  Inv'
    BY <2>1, <2>2, PlainSteps, PlainKeeps, AccountSteps DEF MakerStep
  <2> QED BY <1>1, <2>1, <2>2, NextKinds, ElsewhereKeeps, InterruptKeeps, CreateUserKeeps
<1>2. CASE UNCHANGED vars
  <2>1. Elsewhere
    BY <1>2 DEF vars, serverVars, accountVars, Elsewhere, Inv, Typed, MainTyped
  <2> QED BY <2>1, ElsewhereKeeps
<1> QED BY <1>1, <1>2

(* Creations of accounts exclude each other, over all servers and their    *)
(* helpers (acquireUserCreationLock).                                      *)
THEOREM CreationsExclude == Spec => []CreationExclusive
<1>1. Inv => CreationExclusive
  BY DEF Inv
<1> QED BY <1>1, InvInit, InvNext, PTL DEF Spec

(* What was reported as created stays (CreateSystemUser and its undo).     *)
THEOREM CreatedForGood == Spec => []CreatedStays
<1>1. Inv => CreatedStays
  BY DEF Inv
<1> QED BY <1>1, InvInit, InvNext, PTL DEF Spec

(* An account nobody is at work on has its home, unless its creation was   *)
(* cut off or deluser failed (CreateSystemUser).                           *)
THEOREM HomeForAccount == Spec => []AccountHasHome
<1>1. Inv => AccountHasHome
  BY DEF Inv
<1> QED BY <1>1, InvInit, InvNext, PTL DEF Spec
=============================================================================
