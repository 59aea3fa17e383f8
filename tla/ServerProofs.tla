---------------------------- MODULE ServerProofs ----------------------------
(***************************************************************************)
(* Proofs about the table of users online and its semaphore in             *)
(* ServerLifecycle, while servers start, shut down and follow one another: *)
(* for any number of servers, handlers and entries.                        *)
(***************************************************************************)
EXTENDS AccountProofs

ProcType == [at : ProcAt, server : 0..MaxServer, maker : Maker \cup {NoOne}]

TablesTyped ==
  /\ proc \in [Handler -> ProcType]
  /\ helper \in [Server -> {"none", "starting", "accepting", "dead"}]
  /\ segment \in 0..MaxServer
  /\ mapped \in [Server -> 0..MaxServer]
  /\ online \in [Server -> [Slot -> Handler \cup {NoOne}]]
  /\ mux \in [Server -> Nat] /\ intruded \subseteq Server /\ known \subseteq Handler

(* A server has a segment of its own from initSharedRegistry on.           *)
Starting == main.at \in {"bound", "mapped", "sandbox"}
OwnSegment ==
  /\ Starting \/ Running => main.server \in Server
  /\ main.at \in {"mapped", "sandbox"} \/ Running => Table = main.server
  /\ main.at \notin {"down", "stopped", "scan", "unlink"} => main.next = 1

(* A handler has the segment of its server, and a server that starts has   *)
(* no handlers yet.                                                        *)
Residents ==
  \A h \in Handler : proc[h].at # "free" =>
    /\ proc[h].server \in Server /\ Seg(h) = proc[h].server
    /\ proc[h].server <= main.server
    /\ Starting => proc[h].server # main.server

(* A process listed by a server was a handler of that server, and if there *)
(* is one of that id now, it is of that server or a later one.             *)
Listed ==
  \A g \in Server, i \in Slot : online[g][i] # NoOne =>
    /\ g <= main.server
    /\ proc[online[g][i]].at # "free" => proc[online[g][i]].server >= g

(* Unless a signal has let a handler past the semaphore of a server, one   *)
(* handler at most is in a section of that server, and the semaphore then  *)
(* is 0.                                                                   *)
InSection == {"insert", "remove"}
Within(h, g) == proc[h].at \in InSection /\ proc[h].server = g
Exclusive(g) ==
  /\ mux[g] \in {0, 1}
  /\ \A h \in Handler : Within(h, g) =>
       mux[g] = 0 /\ \A k \in Handler : Within(k, g) => k = h

(* Nobody has the semaphore of the server that runs but the cleanup and    *)
(* who is in a section.                                                    *)
InHands ==
  /\ main.at \in {"mapped", "sandbox"} => mux[main.server] = 1
  /\ main.at = "scan" =>
       mux[main.server] = 0 /\ \A h \in Handler : ~Within(h, main.server)
  /\ Running /\ main.at # "scan" =>
       mux[main.server] = 1 \/ \E h \in Handler : Within(h, main.server)
Holders ==
  /\ \A g \in Server : g \notin intruded => Exclusive(g)
  /\ main.server \notin intruded => InHands

(* The cleanup leaves nobody alive behind it, with the same exception.     *)
Scanned ==
  main.at = "scan" /\ main.server \notin intruded => \A i \in Slot :
    i < main.next /\ online[main.server][i] # NoOne
      => proc[online[main.server][i]].at = "free"

(* A home is made before it is given away.                                 *)
HomesMade == /\ owned \subseteq dirs /\ \A m \in Maker : maker[m].at = "chown" => NameOf(m) \in dirs
             /\ account \cup dirs \cup created \cup spoiled \subseteq Name

ServerInv == TablesTyped /\ OwnSegment /\ Residents /\ Listed /\ Holders /\ Scanned

-----------------------------------------------------------------------------
(***************************************************************************)
(* Steps of handlers and helpers.                                          *)
(***************************************************************************)
(* Nobody enters or leaves a section: a handler goes on or ends outside,   *)
(* or nothing changes for it.                                              *)
Outside ==
  /\ UNCHANGED <<main, mapped, online, mux, intruded, known>>
  /\ TablesTyped'
  /\ \A h \in Handler :
       \/ proc'[h].at = proc[h].at /\ proc'[h].server = proc[h].server
       \/ /\ proc[h].at \notin InSection /\ proc'[h].at \notin InSection
          /\ proc'[h].at = "free" \/ (proc[h].at # "free" /\ proc'[h].server = proc[h].server)

LEMMA ScannedKept ==
  ASSUME TablesTyped, OwnSegment, Scanned, main' = main,
         main.at = "scan" /\ main.server \notin intruded =>
           online'[main.server] = online[main.server],
         intruded \subseteq intruded',
         \A h \in Handler : proc[h].at = "free" => proc'[h].at = "free"
  PROVE  Scanned'
<1> SUFFICES ASSUME main.at = "scan", main.server \notin intruded, NEW i \in Slot, i < main.next,
                    online[main.server][i] # NoOne
             PROVE  proc'[online[main.server][i]].at = "free"
  BY DEF Scanned
<1>1. main.server \in Server
  BY DEF OwnSegment, Running
<1>2. online[main.server][i] \in Handler
  BY <1>1 DEF TablesTyped
<1>3. proc[online[main.server][i]].at = "free"
  BY DEF Scanned
<1> QED BY <1>2, <1>3

LEMMA OutsideKeeps ==
  ASSUME ServerInv, Outside
  PROVE  ServerInv'
<1> USE DEF ServerInv, Outside
<1>1. OwnSegment'
  BY DEF OwnSegment, Starting, Running, Table
<1>2. Residents'
  BY DEF Residents, Seg, Starting
<1>3. Listed'
  <2> SUFFICES ASSUME NEW g \in Server, NEW i \in Slot, online[g][i] # NoOne
               PROVE  /\ g <= main.server
                      /\ proc'[online[g][i]].at # "free" => proc'[online[g][i]].server >= g
    BY DEF Listed
  <2>1. online[g][i] \in Handler
    BY DEF TablesTyped
  <2> QED BY <2>1 DEF Listed
<1>4. Holders'
  <2>1. \A h \in Handler, g \in Server : Within(h, g)' <=> Within(h, g)
    BY DEF Within, InSection
  <2> QED BY <2>1 DEF Holders, Exclusive, InHands, Running, OwnSegment
<1>5. Scanned'
  BY ScannedKept DEF InSection
<1> QED BY <1>1, <1>2, <1>3, <1>4, <1>5

LEMMA MakerStepsOutside ==
  ASSUME TablesTyped, NEW m \in Maker, MakerStep(m)
  PROVE  Outside
<1>1. CASE ~Release(m)
  BY <1>1 DEF MakerStep, OpenLock, GetLock, Taken, NotTaken, AddUser, AddFails, MakeHome,
     GiveHome, StepFails, Undo, UndoFails, serverVars, tableVars, Outside, TablesTyped
<1>2. CASE Release(m)
  <2>1. ASSUME NEW h \in Handler
        PROVE  /\ proc'[h] \in ProcType /\ proc'[h].at = proc[h].at
               /\ proc'[h].server = proc[h].server
    BY <1>2 DEF Release, TablesTyped, ProcType
  <2>2. proc' \in [Handler -> ProcType]
    BY <1>2, <2>1 DEF Release
  <2> QED BY <1>2, <2>1, <2>2 DEF Release, serverVars, tableVars, Outside, TablesTyped
<1> QED BY <1>1, <1>2

(* A handler changes, and nobody else.                                     *)
LEMMA HandlerChanges ==
  ASSUME TablesTyped, NEW h \in Handler, NEW p, proc' = [proc EXCEPT ![h] = p],
         p \in ProcType
  PROVE  /\ proc' \in [Handler -> ProcType] /\ proc'[h] = p
         /\ \A g \in Handler : g # h => proc'[g] = proc[g]
BY DEF TablesTyped

LEMMA NoProcTyped == NoProc \in ProcType /\ NoProc.at = "free"
BY ServerAssumption DEF NoProc, ProcType, ProcAt

LEMMA HandlerStepsOutside ==
  ASSUME TablesTyped, NEW h \in Handler,
         \/ Login(h) \/ Leave(h) \/ Sigpipe(h) \/ Interrupted(h)
         \/ \E n \in Name, m \in Maker : CreateUser(h, n, m)
  PROVE  Outside
<1> USE DEF ProcType, ProcAt
<1>1. proc[h] \in ProcType
  BY DEF TablesTyped
<1>2. UNCHANGED <<main, helper, segment, mapped, online, mux, intruded, known>>
  BY DEF Login, Leave, Sigpipe, Interrupted, CreateUser, serverVars, tableVars
<1>3. \E p \in ProcType :
        /\ proc' = [proc EXCEPT ![h] = p]
        /\ \/ p.at = proc[h].at /\ p.server = proc[h].server
           \/ /\ proc[h].at \notin InSection /\ p.at \notin InSection
              /\ p.at = "free" \/ (proc[h].at # "free" /\ p.server = proc[h].server)
  <2> USE DEF InSection
  <2>1. CASE Login(h)
    <3>1. proc[h].at = "out" /\ proc' = [proc EXCEPT ![h] = [proc[h] EXCEPT !.at = "wait"]]
      BY <2>1 DEF Login
    <3>2. /\ [proc[h] EXCEPT !.at = "wait"] \in ProcType
          /\ [proc[h] EXCEPT !.at = "wait"].at = "wait"
          /\ [proc[h] EXCEPT !.at = "wait"].server = proc[h].server
      BY <1>1
    <3> HIDE DEF ProcType
    <3> QED BY <3>1, <3>2
  <2>2. CASE Leave(h) \/ Sigpipe(h)
    <3>1. /\ proc[h].at \in {"in", "out"}
          /\ \/ proc' = [proc EXCEPT ![h] = NoProc]
             \/ proc' = [proc EXCEPT ![h] = [proc[h] EXCEPT !.at = "leave"]]
      BY <2>2 DEF Leave, Sigpipe, Move
    <3> QED BY <1>1, <3>1, NoProcTyped
  <2>3. CASE Interrupted(h)
    <3>1. proc' = [proc EXCEPT ![h] = [proc[h] EXCEPT !.maker = NoOne]]
      BY <2>3 DEF Interrupted
    <3>2. /\ [proc[h] EXCEPT !.maker = NoOne] \in ProcType
          /\ [proc[h] EXCEPT !.maker = NoOne].at = proc[h].at
          /\ [proc[h] EXCEPT !.maker = NoOne].server = proc[h].server
      BY <1>1
    <3> HIDE DEF ProcType
    <3> QED BY <3>1, <3>2
  <2>4. ASSUME NEW n \in Name, NEW m \in Maker, CreateUser(h, n, m)
        PROVE  proc' = [proc EXCEPT ![h] = [proc[h] EXCEPT !.maker = m]]
    BY <2>4 DEF CreateUser
  <2>5. ASSUME NEW m \in Maker
        PROVE  /\ [proc[h] EXCEPT !.maker = m] \in ProcType
               /\ [proc[h] EXCEPT !.maker = m].at = proc[h].at
               /\ [proc[h] EXCEPT !.maker = m].server = proc[h].server
    BY <1>1
  <2> QED BY <2>1, <2>2, <2>3, <2>4, <2>5
<1>4. PICK p \in ProcType :
        /\ proc' = [proc EXCEPT ![h] = p]
        /\ \/ p.at = proc[h].at /\ p.server = proc[h].server
           \/ /\ proc[h].at \notin InSection /\ p.at \notin InSection
              /\ p.at = "free" \/ (proc[h].at # "free" /\ p.server = proc[h].server)
  BY <1>3
<1>5. /\ proc' \in [Handler -> ProcType] /\ proc'[h] = p
      /\ \A g \in Handler : g # h => proc'[g] = proc[g]
  BY <1>4, HandlerChanges
<1> HIDE DEF ProcType
<1> QED BY <1>2, <1>4, <1>5 DEF Outside, TablesTyped

LEMMA LoopStartsOutside ==
  ASSUME TablesTyped, NEW g \in Server, RunHelperLoop(g)
  PROVE  Outside
BY DEF RunHelperLoop, tableVars, Outside, TablesTyped

LEMMA ConnectKeeps ==
  ASSUME MainTyped, ServerInv, NEW h \in Handler, Connect(h)
  PROVE  ServerInv'
<1> USE DEF ServerInv
<1> DEFINE p == [NoProc EXCEPT !.at = "out", !.server = main.server]
<1>1. /\ main.at = "serve" /\ proc[h].at = "free" /\ proc' = [proc EXCEPT ![h] = p]
      /\ UNCHANGED <<main, helper, segment, mapped, online, mux, intruded, known>>
  BY DEF Connect, serverVars, tableVars
<1>2. p \in ProcType /\ p.at = "out" /\ p.server = main.server
  BY DEF MainTyped, NoProc, ProcType, ProcAt
<1> HIDE DEF p
<1>3. /\ proc' \in [Handler -> ProcType] /\ proc'[h] = p
      /\ \A g \in Handler : g # h => proc'[g] = proc[g]
  BY <1>1, <1>2, HandlerChanges
<1>4. TablesTyped'
  BY <1>1, <1>3 DEF TablesTyped
<1>5. OwnSegment'
  BY <1>1 DEF OwnSegment, Starting, Running, Table
<1>6. Residents'
  BY <1>1, <1>2, <1>3 DEF Residents, Seg, Starting, OwnSegment, Running, Table, Server
<1>7. Listed'
  <2> SUFFICES ASSUME NEW g \in Server, NEW i \in Slot, online[g][i] # NoOne
               PROVE  /\ g <= main.server
                      /\ proc'[online[g][i]].at # "free" => proc'[online[g][i]].server >= g
    BY <1>1 DEF Listed
  <2>1. online[g][i] \in Handler
    BY DEF TablesTyped
  <2>2. g <= main.server
    BY DEF Listed
  <2>3. main.server >= g
    BY <2>2, ServerAssumption DEF MainTyped, Server
  <2> QED BY <1>2, <1>3, <2>1, <2>2, <2>3 DEF Listed
<1>8. Holders'
  <2>1. \A k \in Handler, g \in Server : Within(k, g)' <=> Within(k, g)
    BY <1>1, <1>2, <1>3 DEF Within, InSection
  <2> QED BY <1>1, <2>1 DEF Holders, Exclusive, InHands, Running, OwnSegment
<1>9. Scanned'
  BY <1>1 DEF Scanned
<1> QED BY <1>4, <1>5, <1>6, <1>7, <1>8, <1>9

(* sem_wait.                                                               *)
LEMMA EnterKeeps ==
  ASSUME MainTyped, ServerInv, NEW h \in Handler, Enter(h) \/ EnterInterrupted(h)
  PROVE  ServerInv'
<1> USE DEF ServerInv
<1>1. PICK a \in InSection : proc' = [proc EXCEPT ![h] = [proc[h] EXCEPT !.at = a]]
  BY DEF Enter, EnterInterrupted, Move, InSection
<1> DEFINE p == [proc[h] EXCEPT !.at = a]
<1>2. /\ p \in ProcType /\ p.at = a /\ p.server = proc[h].server
      /\ proc[h].at \notin {"free"} \cup InSection
  BY DEF Enter, EnterInterrupted, Move, TablesTyped, ProcType, ProcAt, InSection
<1> HIDE DEF p
<1>3. /\ proc' \in [Handler -> ProcType] /\ proc'[h] = p
      /\ \A g \in Handler : g # h => proc'[g] = proc[g]
  BY <1>1, <1>2, HandlerChanges DEF p
<1>4. PICK g \in Server : g = proc[h].server /\ Seg(h) = g /\ (Starting => g # main.server)
  BY <1>2 DEF Residents
<1>5. /\ UNCHANGED <<main, helper, segment, mapped, online, known>>
      /\ \/ mux[g] > 0 /\ mux' = [mux EXCEPT ![g] = mux[g] - 1] /\ intruded' = intruded
         \/ mux' = mux /\ intruded' = intruded \cup {g}
  BY <1>4 DEF Enter, EnterInterrupted, serverVars
<1>6. /\ mux' \in [Server -> Nat] /\ intruded' \subseteq Server /\ intruded \subseteq intruded'
      /\ \A k \in Server : k # g => mux'[k] = mux[k] /\ (k \in intruded' <=> k \in intruded)
      /\ g \notin intruded' => mux[g] > 0 /\ mux'[g] = mux[g] - 1
  BY <1>4, <1>5 DEF TablesTyped
<1>7. TablesTyped'
  BY <1>3, <1>5, <1>6 DEF TablesTyped
<1>8. OwnSegment'
  BY <1>5 DEF OwnSegment, Starting, Running, Table
<1>9. Residents'
  BY <1>2, <1>3, <1>5 DEF Residents, Seg, Starting
<1>10. Listed'
  <2> SUFFICES ASSUME NEW k \in Server, NEW i \in Slot, online[k][i] # NoOne
               PROVE  /\ k <= main.server
                      /\ proc'[online[k][i]].at # "free" => proc'[online[k][i]].server >= k
    BY <1>5 DEF Listed
  <2>1. online[k][i] \in Handler
    BY DEF TablesTyped
  <2> QED BY <1>2, <1>3, <2>1 DEF Listed
<1>11. Holders'
  <2>1. /\ \A k \in Server, q \in Handler : Within(q, k)' <=> Within(q, k) \/ (q = h /\ k = g)
        /\ ~Within(h, g)
    BY <1>2, <1>3, <1>4 DEF Within
  <2>2. ASSUME g \notin intruded'
        PROVE  mux[g] = 1 /\ mux'[g] = 0 /\ \A q \in Handler : ~Within(q, g)
    BY <1>6, <2>2 DEF Holders, Exclusive
  <2>3. ASSUME NEW k \in Server, k \notin intruded' PROVE Exclusive(k)'
    <3>1. CASE k = g
      BY <2>1, <2>2, <2>3, <3>1 DEF Exclusive
    <3>2. CASE k # g
      BY <1>6, <2>1, <2>3, <3>2 DEF Holders, Exclusive
    <3> QED BY <3>1, <3>2
  <2>4. ASSUME main.server \notin intruded' PROVE InHands'
    <3>1. CASE main.server = g
      BY <1>4, <1>5, <1>6, <2>1, <2>2, <2>4, <3>1 DEF Holders, InHands, Running, Starting
    <3>2. CASE main.server # g
      BY <1>5, <1>6, <2>1, <2>4, <3>2 DEF Holders, InHands, Running, OwnSegment, Starting
    <3> QED BY <3>1, <3>2
  <2> QED BY <1>5, <2>3, <2>4 DEF Holders
<1>12. Scanned'
  BY <1>2, <1>3, <1>5, <1>6, ScannedKept
<1> QED BY <1>7, <1>8, <1>9, <1>10, <1>11, <1>12

(* A section that leaves the table alone, after an interrupted sem_wait.   *)
LEMMA PassKeeps ==
  ASSUME MainTyped, ServerInv, NEW h \in Handler, PassInterrupted(h)
  PROVE  ServerInv'
<1> USE DEF ServerInv
<1>1. PICK g \in Server : g = Seg(h)
  BY DEF PassInterrupted, Residents
<1>2. /\ UNCHANGED <<main, helper, segment, mapped, online, known, proc>>
      /\ mux' = [mux EXCEPT ![g] = mux[g] + 1] /\ intruded' = intruded \cup {g}
  BY <1>1 DEF PassInterrupted, serverVars
<1>3. /\ mux' \in [Server -> Nat] /\ intruded' \subseteq Server
      /\ \A k \in Server : k \notin intruded' => k \notin intruded /\ mux'[k] = mux[k]
  BY <1>2 DEF TablesTyped
<1>4. TablesTyped'
  BY <1>2, <1>3 DEF TablesTyped
<1>5. OwnSegment' /\ Residents' /\ Listed'
  BY <1>2 DEF OwnSegment, Starting, Running, Table, Residents, Seg, Listed
<1>6. Holders'
  <2>1. \A q \in Handler, k \in Server : Within(q, k)' <=> Within(q, k)
    BY <1>2 DEF Within
  <2>2. \A k \in Server : k \notin intruded' => Exclusive(k)'
    BY <1>3, <2>1 DEF Holders, Exclusive
  <2>3. main.server \notin intruded' => InHands'
    BY <1>2, <1>3, <2>1 DEF Holders, InHands, Running, OwnSegment, Starting
  <2> QED BY <1>2, <2>2, <2>3 DEF Holders
<1>7. Scanned'
  BY <1>2, ScannedKept
<1> QED BY <1>4, <1>5, <1>6, <1>7

(* sem_post, with the entry put in or taken out.                           *)
LEMMA PostKeeps ==
  ASSUME MainTyped, ServerInv, NEW h \in Handler, Insert(h) \/ Remove(h)
  PROVE  ServerInv'
<1> USE DEF ServerInv
<1>1. PICK p \in ProcType :
        /\ proc' = [proc EXCEPT ![h] = p] /\ proc[h].at \in InSection
        /\ \/ p.at = "in" /\ p.server = proc[h].server
           \/ p.at = "free"
  <2>1. proc[h] \in ProcType
    BY DEF TablesTyped
  <2>2. CASE Insert(h)
    <3>1. proc[h].at \in InSection /\ proc' = [proc EXCEPT ![h] = [proc[h] EXCEPT !.at = "in"]]
      BY <2>2 DEF Insert, Move, InSection
    <3>2. /\ [proc[h] EXCEPT !.at = "in"] \in ProcType
          /\ [proc[h] EXCEPT !.at = "in"].at = "in"
          /\ [proc[h] EXCEPT !.at = "in"].server = proc[h].server
      BY <2>1 DEF ProcType, ProcAt
    <3> QED BY <3>1, <3>2
  <2>3. CASE Remove(h)
    BY <2>3, NoProcTyped DEF Remove, InSection
  <2> QED BY <2>2, <2>3
<1>2. /\ proc' \in [Handler -> ProcType] /\ proc'[h] = p
      /\ \A g \in Handler : g # h => proc'[g] = proc[g]
  BY <1>1, HandlerChanges
<1>3. PICK g \in Server : /\ g = proc[h].server /\ Seg(h) = g /\ Within(h, g)
                          /\ g <= main.server /\ (Starting => g # main.server)
  BY <1>1 DEF Residents, Within, InSection
<1>4. /\ mux' = [mux EXCEPT ![g] = mux[g] + 1]
      /\ UNCHANGED <<main, helper, segment, mapped, intruded>> /\ known' \subseteq known \cup {h}
      /\ \E x \in Handler \cup {NoOne}, y \in {h, NoOne} :
           online' = [online EXCEPT ![g] = [i \in Slot |-> IF i \in FirstOf(g, x) THEN y
                                                           ELSE online[g][i]]]
  BY <1>3 DEF Insert, Remove, SetFirst, serverVars
<1>5. /\ mux' \in [Server -> Nat]
      /\ mux'[g] = mux[g] + 1 /\ \A k \in Server : k # g => mux'[k] = mux[k]
      /\ \A k \in Server : k # g => online'[k] = online[k]
      /\ \A i \in Slot : online'[g][i] \in {h, NoOne, online[g][i]}
      /\ online' \in [Server -> [Slot -> Handler \cup {NoOne}]]
  BY <1>3, <1>4 DEF TablesTyped
<1>6. TablesTyped'
  BY <1>2, <1>4, <1>5 DEF TablesTyped
<1>7. OwnSegment'
  BY <1>4 DEF OwnSegment, Starting, Running, Table
<1>8. Residents'
  BY <1>1, <1>2, <1>4 DEF Residents, Seg, Starting, InSection
<1>9. Listed'
  <2> SUFFICES ASSUME NEW k \in Server, NEW i \in Slot, online'[k][i] # NoOne
               PROVE  /\ k <= main.server
                      /\ proc'[online'[k][i]].at # "free" => proc'[online'[k][i]].server >= k
    BY <1>4 DEF Listed
  <2>1. CASE online'[k][i] = online[k][i]
    <3>1. online[k][i] \in Handler
      BY <2>1 DEF TablesTyped
    <3> QED BY <1>1, <1>2, <2>1, <3>1 DEF Listed, InSection
  <2>2. CASE k = g /\ online'[k][i] = h
    BY <1>1, <1>2, <1>3, <2>2 DEF Server
  <2> QED BY <1>5, <2>1, <2>2
<1>10. Holders'
  <2>1. \A k \in Server, q \in Handler : Within(q, k)' <=> Within(q, k) /\ q # h
    BY <1>1, <1>2 DEF Within, InSection
  <2>2. ASSUME g \notin intruded
        PROVE  mux'[g] = 1 /\ \A q \in Handler : Within(q, g) => q = h
    BY <1>3, <1>5, <2>2 DEF Holders, Exclusive
  <2>3. ASSUME NEW k \in Server, k \notin intruded PROVE Exclusive(k)'
    <3>1. CASE k = g
      BY <2>1, <2>2, <2>3, <3>1 DEF Exclusive
    <3>2. CASE k # g
      BY <1>5, <2>1, <2>3, <3>2 DEF Holders, Exclusive
    <3> QED BY <3>1, <3>2
  <2>4. ASSUME main.server \notin intruded PROVE InHands'
    <3>1. CASE main.server = g
      <4>1. main.at # "scan"
        BY <1>3, <2>4, <3>1 DEF Holders, InHands
      <4> QED BY <1>3, <1>4, <2>1, <2>2, <2>4, <3>1, <4>1 DEF InHands, Running, Starting
    <3>2. CASE main.server # g
      <4>1. ASSUME NEW k \in Server PROVE \A q \in Handler : Within(q, k) => (q = h => k = g)
        BY <1>3 DEF Within
      <4> QED BY <1>4, <1>5, <2>1, <2>4, <3>2, <4>1
              DEF Holders, InHands, Running, OwnSegment, Starting
    <3> QED BY <3>1, <3>2
  <2> QED BY <1>4, <2>3, <2>4 DEF Holders
<1>11. Scanned'
  <2>1. main.at = "scan" /\ main.server \notin intruded => main.server \in Server /\ main.server # g
    BY <1>3 DEF OwnSegment, Holders, InHands, Running
  <2> QED BY <1>1, <1>2, <1>4, <1>5, <2>1, ScannedKept DEF InSection
<1> QED BY <1>6, <1>7, <1>8, <1>9, <1>10, <1>11

-----------------------------------------------------------------------------
(***************************************************************************)
(* Steps of the main process.                                              *)
(***************************************************************************)
LEMMA BootKeeps ==
  ASSUME MainTyped, ServerInv, Boot
  PROVE  ServerInv'
<1> USE DEF ServerInv
<1>1. /\ main.server \in 0..MaxServer /\ main.server < MaxServer /\ MaxServer \in Nat
      /\ main'.at = "bound" /\ main'.server = main.server + 1 /\ main'.next = 1
      /\ UNCHANGED <<helper, segment, mapped, online, mux, intruded, known, proc>>
  BY ServerAssumption DEF Boot, MainTyped, tableVars
<1>2. TablesTyped'
  BY <1>1 DEF TablesTyped
<1>3. OwnSegment'
  BY <1>1 DEF OwnSegment, Starting, Running, Server
<1>4. Residents'
  <2> SUFFICES ASSUME NEW h \in Handler, proc[h].at # "free"
               PROVE  /\ proc[h].server \in Server /\ Seg(h) = proc[h].server
                      /\ proc[h].server <= main.server + 1
                      /\ proc[h].server # main.server + 1
    BY <1>1 DEF Residents, Seg
  <2>1. /\ proc[h].server \in Server /\ Seg(h) = proc[h].server
        /\ proc[h].server <= main.server
    BY DEF Residents
  <2> QED BY <1>1, <2>1 DEF Server
<1>5. Listed'
  <2> SUFFICES ASSUME NEW g \in Server, NEW i \in Slot, online[g][i] # NoOne
               PROVE  /\ g <= main.server + 1
                      /\ proc[online[g][i]].at # "free" => proc[online[g][i]].server >= g
    BY <1>1 DEF Listed
  <2>1. g <= main.server
    BY DEF Listed
  <2> QED BY <1>1, <2>1 DEF Listed, Server
<1>6. Holders'
  BY <1>1 DEF Holders, Exclusive, Within, InHands, Running
<1>7. Scanned'
  BY <1>1 DEF Scanned
<1> QED BY <1>2, <1>3, <1>4, <1>5, <1>6, <1>7

LEMMA InitRegistryKeeps ==
  ASSUME MainTyped, ServerInv, InitRegistry
  PROVE  ServerInv'
<1> USE DEF ServerInv
<1>1. PICK g \in Server : g = main.server
  BY DEF InitRegistry, Goto, OwnSegment, Starting
<1>2. /\ main.at = "bound" /\ main'.at = "mapped" /\ main'.server = g /\ main'.next = main.next
      /\ main.next = 1
  BY <1>1 DEF InitRegistry, Goto, MainTyped, OwnSegment
<1>3. /\ mapped' = [mapped EXCEPT ![g] = g] /\ segment' = g
      /\ online' = [online EXCEPT ![g] = [i \in Slot |-> NoOne]]
      /\ mux' = [mux EXCEPT ![g] = 1] /\ UNCHANGED <<helper, proc, intruded, known>>
  BY <1>1 DEF InitRegistry, SegmentAfterCleanup
<1>4. /\ mapped'[g] = g /\ mux'[g] = 1 /\ \A i \in Slot : online'[g][i] = NoOne
      /\ \A k \in Server : k # g =>
           mapped'[k] = mapped[k] /\ online'[k] = online[k] /\ mux'[k] = mux[k]
  BY <1>3 DEF TablesTyped
<1>5. TablesTyped'
  BY <1>3, ServerAssumption DEF TablesTyped, Server
<1>6. OwnSegment'
  BY <1>1, <1>2, <1>4 DEF OwnSegment, Starting, Running, Table
<1>7. ASSUME NEW h \in Handler, proc[h].at # "free"
      PROVE  /\ proc[h].server \in Server /\ proc[h].server # g
             /\ mapped[proc[h].server] = proc[h].server /\ proc[h].server <= g
  BY <1>1, <1>2, <1>7 DEF Residents, Seg, Starting
<1>8. Residents'
  BY <1>2, <1>3, <1>4, <1>7 DEF Residents, Seg, Starting
<1>9. Listed'
  <2> SUFFICES ASSUME NEW k \in Server, NEW i \in Slot, online'[k][i] # NoOne
               PROVE  /\ k <= g
                      /\ proc[online'[k][i]].at # "free" => proc[online'[k][i]].server >= k
    BY <1>2, <1>3 DEF Listed
  <2>1. k # g /\ online'[k] = online[k]
    BY <1>4
  <2> QED BY <1>1, <2>1 DEF Listed
<1>10. Holders'
  <2>1. /\ \A k \in Server, h \in Handler : Within(h, k)' <=> Within(h, k)
        /\ \A h \in Handler : ~Within(h, g)
    BY <1>3, <1>7 DEF Within, InSection
  <2>2. ASSUME NEW k \in Server, k \notin intruded PROVE Exclusive(k)'
    BY <1>4, <2>1, <2>2 DEF Holders, Exclusive
  <2> QED BY <1>2, <1>3, <1>4, <2>2 DEF Holders, InHands, Running
<1>11. Scanned'
  BY <1>2 DEF Scanned
<1> QED BY <1>5, <1>6, <1>8, <1>9, <1>10, <1>11

(* The main process goes on, and touches no table.                         *)
LEMMA MainMovesKeeps ==
  ASSUME MainTyped, ServerInv, ForkHelper \/ Sandbox \/ StartFails \/ KillHelper \/ RemoveNames
  PROVE  ServerInv'
<1> USE DEF ServerInv
<1>1. /\ UNCHANGED <<mapped, online, mux, intruded, known, proc>> /\ TablesTyped'
      /\ main'.server = main.server /\ main'.next = main.next
      /\ \/ main.at = "mapped" /\ main'.at = "sandbox"
         \/ main.at = "sandbox" /\ main'.at = "serve"
         \/ main'.at \in {"down", "stopped"}
         \/ main.at = "serve" /\ main'.at = "enter"
  BY DEF ForkHelper, Sandbox, StartFails, KillHelper, RemoveNames, Goto, MainTyped, TablesTyped,
     tableVars
<1>2. OwnSegment'
  BY <1>1 DEF OwnSegment, Starting, Running, Table
<1>3. Residents'
  BY <1>1 DEF Residents, Seg, Starting
<1>4. Listed'
  BY <1>1 DEF Listed
<1>5. Holders'
  <2>1. \A k \in Server, h \in Handler : Within(h, k)' <=> Within(h, k)
    BY <1>1 DEF Within
  <2> QED BY <1>1, <2>1 DEF Holders, Exclusive, InHands, Running, OwnSegment
<1>6. Scanned'
  BY <1>1 DEF Scanned
<1> QED BY <1>1, <1>2, <1>3, <1>4, <1>5, <1>6

(* The cleanup takes the semaphore and gives it back.                      *)
LEMMA CleanupSectionKeeps ==
  ASSUME MainTyped, ServerInv, EnterCleanup \/ LeaveCleanup
  PROVE  ServerInv'
<1> USE DEF ServerInv
<1>1. /\ UNCHANGED <<helper, segment, mapped, online, proc>>
      /\ UNCHANGED <<intruded, known>>
      /\ main'.server = main.server /\ main'.next = main.next
      /\ \/ main.at = "enter" /\ main'.at = "scan"
         \/ main.at = "scan" /\ main'.at = "unlink"
  BY DEF EnterCleanup, LeaveCleanup, Goto, MainTyped
<1>2. PICK g \in Server : g = main.server /\ Table = g
  BY <1>1 DEF OwnSegment, Running
<1>3. /\ main.at = "enter" => mux[g] > 0
      /\ mux' = [mux EXCEPT ![g] = IF main.at = "enter" THEN mux[g] - 1 ELSE mux[g] + 1]
  BY <1>1, <1>2 DEF EnterCleanup, LeaveCleanup, Goto
<1>4. /\ mux' \in [Server -> Nat]
      /\ mux'[g] = IF main.at = "enter" THEN mux[g] - 1 ELSE mux[g] + 1
      /\ \A k \in Server : k # g => mux'[k] = mux[k]
  BY <1>2, <1>3 DEF TablesTyped
<1>5. TablesTyped'
  BY <1>1, <1>4 DEF TablesTyped
<1>6. OwnSegment'
  BY <1>1 DEF OwnSegment, Starting, Running, Table
<1>7. Residents'
  BY <1>1 DEF Residents, Seg, Starting
<1>8. Listed'
  BY <1>1 DEF Listed
<1>9. Holders'
  <2>1. \A k \in Server, h \in Handler : Within(h, k)' <=> Within(h, k)
    BY <1>1 DEF Within
  <2>2. ASSUME g \notin intruded
        PROVE  /\ mux'[g] = IF main.at = "enter" THEN 0 ELSE 1
               /\ \A h \in Handler : ~Within(h, g)
    BY <1>1, <1>2, <1>3, <1>4, <2>2 DEF Holders, Exclusive, InHands
  <2>3. ASSUME NEW k \in Server, k \notin intruded PROVE Exclusive(k)'
    BY <1>4, <2>1, <2>2, <2>3 DEF Holders, Exclusive
  <2>4. g \notin intruded => InHands'
    BY <1>1, <1>2, <2>1, <2>2 DEF InHands, Running
  <2> QED BY <1>1, <1>2, <2>3, <2>4 DEF Holders
<1>10. Scanned'
  <2>1. main'.at = "scan" => main'.next = 1
    BY <1>1 DEF OwnSegment
  <2> QED BY <2>1 DEF Scanned, Slot
<1> QED BY <1>5, <1>6, <1>7, <1>8, <1>9, <1>10

(* Who is listed ends, and is not inside a section, as the cleanup is.     *)
LEMMA KillListedKeeps ==
  ASSUME MainTyped, ServerInv, KillListed
  PROVE  ServerInv'
<1> USE DEF ServerInv
<1>1. PICK g \in Server : g = main.server /\ Table = g
  BY DEF KillListed, OwnSegment, Running
<1>2. PICK n \in Slot : n = main.next
  BY DEF KillListed
<1>3. /\ main.at = "scan" /\ main'.at = "scan" /\ main'.server = g /\ main'.next = n + 1
      /\ UNCHANGED <<helper, segment, mapped, online, mux, intruded, known>>
  BY <1>1, <1>2 DEF KillListed, MainTyped, tableVars
<1>4. /\ proc' \in [Handler -> ProcType]
      /\ \A h \in Handler : proc'[h] = IF h = online[g][n] THEN NoProc ELSE proc[h]
  BY <1>1, <1>2, NoProcTyped, ServerAssumption DEF KillListed, TablesTyped
<1>5. NoProc.at = "free"
  BY NoProcTyped
<1>6. TablesTyped'
  BY <1>3, <1>4 DEF TablesTyped
<1>7. OwnSegment'
  BY <1>1, <1>3 DEF OwnSegment, Starting, Running, Table
<1>8. Residents'
  BY <1>1, <1>3, <1>4, <1>5 DEF Residents, Seg, Starting
<1>9. Listed'
  <2> SUFFICES ASSUME NEW k \in Server, NEW i \in Slot, online[k][i] # NoOne
               PROVE  /\ k <= main.server
                      /\ proc'[online[k][i]].at # "free" => proc'[online[k][i]].server >= k
    BY <1>1, <1>3 DEF Listed
  <2>1. online[k][i] \in Handler
    BY DEF TablesTyped
  <2> QED BY <1>4, <1>5, <2>1 DEF Listed
<1>10. Holders'
  <2>1. \A k \in Server, h \in Handler : Within(h, k)' => Within(h, k)
    BY <1>4, <1>5 DEF Within, InSection
  <2> QED BY <1>1, <1>3, <2>1 DEF Holders, Exclusive, InHands, Running
<1>11. Scanned'
  <2> SUFFICES ASSUME g \notin intruded, NEW i \in Slot, i < n + 1, online[g][i] # NoOne
               PROVE  proc'[online[g][i]].at = "free"
    BY <1>3 DEF Scanned
  <2>1. online[g][i] \in Handler
    BY DEF TablesTyped
  <2>2. CASE i = n
    BY <1>4, <1>5, <2>1, <2>2
  <2>3. CASE i # n
    <3>1. i < main.next
      BY <1>2, <2>3 DEF Slot
    <3> QED BY <1>1, <1>3, <1>4, <1>5, <2>1, <3>1 DEF Scanned
  <2> QED BY <2>2, <2>3
<1> QED BY <1>6, <1>7, <1>8, <1>9, <1>10, <1>11

LEMMA InterruptEnds ==
  ASSUME MainTyped, ServerInv, Interrupt
  PROVE  ServerInv'
<1> USE DEF ServerInv
<1>1. /\ main'.at = "down" /\ main'.server = main.server
      /\ UNCHANGED <<segment, mapped, online, mux, intruded, known>>
  BY DEF Interrupt, MainTyped, tableVars
<1>2. NoProc \in ProcType /\ NoProc.at = "free"
  BY NoProcTyped
<1>3. /\ proc' \in [Handler -> ProcType]
      /\ \A h \in Handler : proc'[h] = proc[h] \/ proc'[h] = NoProc
  BY <1>2 DEF Interrupt, TablesTyped
<1>4. TablesTyped'
  BY <1>1, <1>3 DEF TablesTyped, Interrupt
<1>5. OwnSegment'
  BY <1>1 DEF OwnSegment, Starting, Running
<1>6. Residents'
  BY <1>1, <1>2, <1>3 DEF Residents, Seg, Starting
<1>7. Listed'
  <2> SUFFICES ASSUME NEW g \in Server, NEW i \in Slot, online[g][i] # NoOne
               PROVE  /\ g <= main.server
                      /\ proc'[online[g][i]].at # "free" => proc'[online[g][i]].server >= g
    BY <1>1 DEF Listed
  <2>1. online[g][i] \in Handler
    BY DEF TablesTyped
  <2> QED BY <1>2, <1>3, <2>1 DEF Listed
<1>8. Holders'
  <2>1. \A k \in Server, h \in Handler : Within(h, k)' => Within(h, k)
    BY <1>2, <1>3 DEF Within, InSection
  <2> QED BY <1>1, <2>1 DEF Holders, Exclusive, InHands, Running
<1>9. Scanned'
  BY <1>1 DEF Scanned
<1> QED BY <1>4, <1>5, <1>6, <1>7, <1>8, <1>9

-----------------------------------------------------------------------------
LEMMA ServerInvInit == Init => ServerInv
<1> SUFFICES ASSUME Init PROVE ServerInv
  OBVIOUS
<1>1. \A h \in Handler : proc[h] = NoProc
  BY DEF Init
<1>2. TablesTyped
  BY NoProcTyped, ServerAssumption DEF Init, TablesTyped
<1>3. main.at = "down" /\ \A g \in Server, i \in Slot : online[g][i] = NoOne
  BY DEF Init
<1>4. OwnSegment /\ Residents /\ Listed /\ Holders /\ Scanned
  BY <1>1, <1>3, NoProcTyped DEF Init, OwnSegment, Residents, Listed, Holders, Exclusive, InHands,
     Within, Scanned, Starting, Running, InSection
<1> QED BY <1>2, <1>4 DEF ServerInv

LEMMA ServerInvNext ==
  ASSUME MainTyped, ServerInv, [Next]_vars
  PROVE  ServerInv'
<1>1. TablesTyped
  BY DEF ServerInv
<1>2. CASE UNCHANGED vars
  <2>1. Outside
    BY <1>1, <1>2 DEF vars, serverVars, tableVars, Outside, TablesTyped
  <2> QED BY <2>1, OutsideKeeps
<1>3. CASE Startup \/ Cleanup \/ Interrupt
  BY <1>3, BootKeeps, InitRegistryKeeps, MainMovesKeeps, CleanupSectionKeeps, KillListedKeeps,
     InterruptEnds DEF Startup, Cleanup
<1>4. ASSUME NEW h \in Handler, Connect(h) \/ Section(h) PROVE ServerInv'
  BY <1>4, ConnectKeeps, EnterKeeps, PassKeeps, PostKeeps DEF Section
<1>5. ASSUME NEW h \in Handler,
             \/ Login(h) \/ Leave(h) \/ Sigpipe(h) \/ Interrupted(h)
             \/ \E n \in Name, m \in Maker : CreateUser(h, n, m)
      PROVE  ServerInv'
  BY <1>1, <1>5, HandlerStepsOutside, OutsideKeeps
<1>6. ASSUME NEW m \in Maker, MakerStep(m) PROVE ServerInv'
  BY <1>1, <1>6, MakerStepsOutside, OutsideKeeps
<1>7. ASSUME NEW g \in Server, RunHelperLoop(g) PROVE ServerInv'
  BY <1>1, <1>7, LoopStartsOutside, OutsideKeeps
<1> QED BY <1>2, <1>3, <1>4, <1>5, <1>6, <1>7 DEF Next

LEMMA ServerInvariant == Spec => [](Inv /\ ServerInv)
<1>1. Inv => MainTyped
  BY DEF Inv, Typed
<1> QED BY <1>1, InvInit, InvNext, ServerInvInit, ServerInvNext, PTL DEF Spec

(* Whatever the order of logins, departures, deaths and the shutdown, the  *)
(* semaphore of the server that runs is free and nobody is inside, or it   *)
(* is taken and one alone is inside: the cleanup, or a handler that is     *)
(* about to give it back.  Except after SIGUSR1 has interrupted a wait for *)
(* it, and so let a handler past it.                                       *)
THEOREM SemaphoreReturns == Spec => []SemaphoreInHands
<1>1. ServerInv => SemaphoreInHands
  <2> SUFFICES ASSUME ServerInv, Running, Table \notin intruded
               PROVE  \/ mux[Table] = 1 /\ main.at # "scan" /\ Inside = {}
                      \/ mux[Table] = 0 /\ main.at = "scan" /\ Inside = {}
                      \/ /\ mux[Table] = 0 /\ main.at # "scan"
                         /\ \E h \in Handler : Inside = {h}
    BY DEF SemaphoreInHands
  <2>1. Table = main.server /\ main.server \in Server
    BY DEF ServerInv, OwnSegment
  <2>2. Exclusive(Table) /\ InHands
    BY <2>1 DEF ServerInv, Holders
  <2>3. Inside = {h \in Handler : Within(h, Table)}
    BY <2>1 DEF Inside, Within, InSection
  <2>4. CASE main.at = "scan"
    BY <2>1, <2>2, <2>3, <2>4 DEF InHands
  <2>5. CASE main.at # "scan" /\ mux[Table] = 1
    BY <2>2, <2>3, <2>5 DEF Exclusive
  <2>6. CASE main.at # "scan" /\ mux[Table] # 1
    <3>1. mux[Table] = 0
      BY <2>2, <2>6 DEF Exclusive
    <3>2. PICK h \in Handler : Within(h, Table)
      BY <2>1, <2>2, <2>6 DEF InHands
    <3>3. Inside = {h}
      BY <2>2, <2>3, <3>2 DEF Exclusive
    <3> QED BY <2>6, <3>1, <3>3
  <2> QED BY <2>4, <2>5, <2>6
<1> QED BY <1>1, ServerInvariant, PTL

(* When the cleanup has gone through the table, no process it lists is     *)
(* alive, though pids are used again while it runs: unless SIGUSR1 has let *)
(* a handler past the semaphore, which may then log in behind the scan.    *)
THEOREM CleanupReaches == Spec => []NoListedSurvivor
<1>1. Inv /\ ServerInv => NoListedSurvivor
  <2> SUFFICES ASSUME Inv, ServerInv, main.at = "scan", main.next \notin Slot,
                      Table \notin intruded, NEW i \in Slot, online[Table][i] # NoOne
               PROVE  proc[online[Table][i]].at = "free"
    BY DEF NoListedSurvivor
  <2>1. Table = main.server
    BY DEF ServerInv, OwnSegment, Running
  <2>2. i < main.next
    BY ServerAssumption DEF Inv, Typed, MainTyped, Slot
  <2> QED BY <2>1, <2>2 DEF ServerInv, Scanned
<1> QED BY <1>1, ServerInvariant, PTL

(* A server that has been restarted lists none of the handlers that an     *)
(* older one left running.                                                 *)
THEOREM TableOwnHandlers == Spec => []TableOfOneServer
<1>1. ServerInv => TableOfOneServer
  <2> SUFFICES ASSUME ServerInv, Running, NEW i \in Slot, online[Table][i] # NoOne,
                      proc[online[Table][i]].at \in {"in", "leave", "remove"}
               PROVE  proc[online[Table][i]].server = main.server
    BY DEF TableOfOneServer
  <2>1. Table = main.server /\ main.server \in Server
    BY DEF ServerInv, OwnSegment
  <2> DEFINE h == online[Table][i]
  <2>2. h \in Handler
    BY <2>1 DEF ServerInv, TablesTyped
  <2>3. proc[h].server >= main.server
    BY <2>1 DEF ServerInv, Listed
  <2>4. proc[h].server \in Server /\ proc[h].server <= main.server
    BY <2>2 DEF ServerInv, Residents
  <2> QED BY <2>1, <2>3, <2>4 DEF Server
<1> QED BY <1>1, ServerInvariant, PTL

-----------------------------------------------------------------------------
(* Types, which for the homes need that creations exclude each other: no   *)
(* undo takes away the directory that another creation has made.           *)
LEMMA HomesKept ==
  ASSUME Inv, HomesMade, [Next]_vars
  PROVE  HomesMade'
<1> USE DEF HomesMade
<1>1. \A m \in Maker : maker[m].at \notin {"free", "done"} => NameOf(m) \in Name
  BY DEF Inv, OneLock, NameOf
<1>2. maker \in [Maker -> MakerType]
  BY DEF Inv, Typed
<1>3. CASE Boot
  BY <1>3, ServerAssumption DEF Boot, NameOf
<1>4. CASE Interrupt
  <2>1. /\ UNCHANGED <<account, dirs, owned, created>>
        /\ \A m \in Maker : maker'[m] = maker[m] \/ maker'[m] = Done
    BY <1>4 DEF Interrupt
  <2>2. spoiled' \subseteq Name
    BY <1>1, <1>4 DEF Interrupt, OfServer, NameOf
  <2> QED BY <2>1, <2>2, DoneTyped DEF NameOf
<1>5. CASE UNCHANGED <<maker, accountVars>>
  BY <1>5 DEF accountVars, NameOf
<1>6. ASSUME NEW h \in Handler, NEW n \in Name, NEW m \in Maker, CreateUser(h, n, m)
      PROVE  HomesMade'
  <2>1. /\ UNCHANGED accountVars
        /\ maker' = [maker EXCEPT ![m] = [maker[m] EXCEPT !.at = "open", !.name = n,
                                                          !.server = socket]]
    BY <1>6 DEF CreateUser
  <2>2. maker'[m].at = "open" /\ \A k \in Maker : k # m => maker'[k] = maker[k]
    BY <1>2, <2>1 DEF MakerType
  <2> QED BY <2>1, <2>2 DEF accountVars, NameOf
<1>7. ASSUME NEW m \in Maker, MakerStep(m) PROVE HomesMade'
  <2>1. maker[m].at \notin {"free", "done"} /\ NameOf(m) \in Name
    BY <1>1, <1>7 DEF MakerStep, OpenLock, GetLock, Taken, NotTaken, AddUser, AddFails,
       MakeHome, GiveHome, StepFails, Undo, UndoFails, Release, Step
  <2>2. \A k \in Maker : k # m => maker'[k] = maker[k]
    BY <1>2, <1>7 DEF MakerStep, OpenLock, GetLock, Taken, NotTaken, AddUser, AddFails,
       MakeHome, GiveHome, StepFails, Undo, UndoFails, Release, Step
  <2>3. /\ maker'[m].at = "chown" => MakeHome(m) /\ maker'[m].name = NameOf(m)
        /\ maker[m].at = "chown" => NameOf(m) \in dirs
    BY <1>2, <1>7, DoneTyped DEF MakerStep, OpenLock, GetLock, Taken, NotTaken, AddUser,
       AddFails, MakeHome, GiveHome, StepFails, Undo, UndoFails, Release, Step, NameOf, MakerType
  <2>4. CASE Undo(m)
    <3>1. \A k \in Maker : k # m => maker[k].at # "chown"
      BY <2>4, Alone DEF Undo, Step
    <3>2. maker'[m].at = "release"
      BY <1>2, <2>4 DEF Undo, Step, MakerType
    <3> QED BY <2>2, <2>4, <3>1, <3>2 DEF Undo, NameOf
  <2>5. CASE ~Undo(m)
    <3>1. /\ owned' \subseteq dirs' /\ dirs \subseteq dirs'
          /\ account' \cup dirs' \cup created' \cup spoiled' \subseteq Name
      BY <1>7, <2>1, <2>3, <2>5 DEF MakerStep, OpenLock, GetLock, Taken, NotTaken, AddUser,
         AddFails, MakeHome, GiveHome, StepFails, UndoFails, Release, accountVars
    <3>2. maker'[m].at = "chown" => maker'[m].name \in dirs'
      BY <2>3 DEF MakeHome
    <3> QED BY <2>2, <3>1, <3>2 DEF NameOf
  <2> QED BY <2>4, <2>5
<1>8. CASE InitRegistry \/ ForkHelper \/ Sandbox \/ StartFails \/ Cleanup
  BY <1>5, <1>8 DEF InitRegistry, ForkHelper, Sandbox, StartFails, Cleanup, KillHelper,
     EnterCleanup, KillListed, LeaveCleanup, RemoveNames
<1>9. ASSUME NEW g \in Server, RunHelperLoop(g) PROVE HomesMade'
  BY <1>5, <1>9 DEF RunHelperLoop
<1>10. ASSUME NEW h \in Handler,
              Connect(h) \/ Login(h) \/ Section(h) \/ Leave(h) \/ Sigpipe(h) \/ Interrupted(h)
       PROVE  HomesMade'
  BY <1>5, <1>10 DEF Connect, Login, Section, Enter, EnterInterrupted, PassInterrupted,
     Insert, Remove, Leave, Sigpipe, Interrupted
<1>11. CASE UNCHANGED vars
  BY <1>5, <1>11 DEF vars
<1> QED BY <1>3, <1>4, <1>6, <1>7, <1>8, <1>9, <1>10, <1>11 DEF Next, Startup

(* Every variable keeps its type; in particular a home that was given away *)
(* is a directory, and accounts, directories and reports are of valid      *)
(* names.                                                                  *)
THEOREM ServerTypes == Spec => []TypeOK
<1>1. Init => HomesMade
  BY DEF Init, HomesMade, NoMaker
<1>2. Inv /\ ServerInv /\ HomesMade => TypeOK
  <2> SUFFICES ASSUME Inv, ServerInv, HomesMade PROVE TypeOK
    OBVIOUS
  <2> QED BY DEF Inv, Typed, MainTyped, OneLock, MakerType, ServerInv, TablesTyped, ProcType,
             HomesMade, TypeOK
<1> QED BY <1>1, <1>2, HomesKept, ServerInvariant, PTL DEF Spec
=============================================================================
