----------------------------- MODULE FileProofs -----------------------------
(***************************************************************************)
(* Proofs about FileStore, for any number of processes, files and names    *)
(* and files of any size: what the record locks of the helper's operations *)
(* are worth.                                                              *)
(***************************************************************************)
EXTENDS FileStore, TLAPS

(* What a process has got ready before it comes to a step.                 *)
Ready(p) ==
  /\ At(p, "reopen") \/ At(p, "lock") => req[p].op \in Ops /\ req[p].pos = 0
  /\ At(p, "stat") => req[p].op \in {"write", "download"}
  /\ At(p, "openDest") \/ At(p, "lockDest") => req[p].pos = 0
  /\ At(p, "pad") => req[p].size < req[p].offset

(* The steps that write to the file of a request, those that read it, and  *)
(* the lock each has.                                                      *)
WriteSteps == {"seek", "pad", "put", "receive"}
ReadSteps  == {"send", "openDest", "lockDest", "copy"}
Holding(p) ==
  /\ req[p].at \in WriteSteps => lock[req[p].file][p] = "exclusive"
  /\ req[p].at \in ReadSteps => lock[req[p].file][p] # "none"
  /\ At(p, "stat") => lock[req[p].file][p] = Mode(req[p].op)
  /\ At(p, "copy") => lock[req[p].dest][p] = "exclusive"

(* What a process knows of the size of its file holds as long as nobody    *)
(* truncates it; what it writes is within the file or next to its end.     *)
Sized(p) ==
  p \notin cut =>
    /\ At(p, "seek") \/ At(p, "send") => req[p].size = Len(content[req[p].file])
    /\ At(p, "pad") \/ At(p, "put") \/ At(p, "receive") =>
         req[p].pos <= Len(content[req[p].file])

Copied(p) ==
  At(p, "copy") /\ p \notin cut =>
    /\ req[p].pos <= Len(content[req[p].file]) /\ req[p].pos <= Len(content[req[p].dest])
    /\ \A i \in 1..req[p].pos : content[req[p].dest][i] = content[req[p].file][i]

Own(p) == Ready(p) /\ Holding(p) /\ Sized(p) /\ Copied(p)

(* Who has a file for itself has it alone.                                 *)
Alone ==
  \A f \in File : \A p, q \in Proc :
    p # q /\ lock[f][p] = "exclusive" => lock[f][q] = "none"

FileInv == TypeOK /\ Alone /\ \A p \in Proc : Own(p)

-----------------------------------------------------------------------------
(***************************************************************************)
(* Records and contents.                                                   *)
(***************************************************************************)
LEMMA IdleTyped ==
  /\ Idle \in Request /\ Idle.op = "none" /\ Idle.at = "idle" /\ Idle.offset = 0
  /\ Idle.file = NoFile /\ Idle.dest = NoFile /\ Idle.pos = 0 /\ Idle.size = 0
<1>1. (CHOOSE path \in Path : TRUE) \in Path
  <2>1. PICK d \in Home, b \in Base : TRUE
    BY FileAssumption
  <2>2. [place |-> d, base |-> b] \in Path
    BY <2>1 DEF Path, Place
  <2> QED BY <2>2
<1>2. (CHOOSE d \in Place : TRUE) \in Place
  BY FileAssumption DEF Place
<1>3. 0 \in 0..MaxSize
  BY FileAssumption
<1> QED BY <1>1, <1>2, <1>3 DEF Idle, Request

(* A request becomes r, and no other changes.                              *)
LEMMA Changed ==
  ASSUME TypeOK, NEW p \in Proc, NEW r, req' = [req EXCEPT ![p] = r]
  PROVE  /\ req'[p] = r
         /\ \A q \in Proc : q # p => req'[q] = req[q]
         /\ r \in Request => req' \in [Proc -> Request]
BY DEF TypeOK

ContentTyped ==
  content \in [File -> Seq(Chunk)] /\ \A f \in File : Len(content[f]) <= MaxSize

LEMMA TypeKept ==
  ASSUME TypeOK, NEW p \in Proc, NEW r \in Request, req' = [req EXCEPT ![p] = r],
         r.at \notin {"idle", "reopen"} => r.file \in File,
         r.at \in {"lockDest", "copy"} => r.dest \in File,
         dirs' \subseteq Place, names' \in [Path -> File \cup {NoFile}], ContentTyped',
         lock' \in [File -> [Proc -> {"none", "shared", "exclusive"}]], cut' \subseteq Proc
  PROVE  TypeOK'
<1>1. /\ req'[p] = r /\ req' \in [Proc -> Request]
      /\ \A q \in Proc : q # p => req'[q] = req[q]
  BY Changed
<1>2. ASSUME NEW q \in Proc
      PROVE  /\ req'[q].at \notin {"idle", "reopen"} => req'[q].file \in File
             /\ req'[q].at \in {"lockDest", "copy"} => req'[q].dest \in File
  <2>1. CASE q = p
    BY <1>1, <2>1
  <2>2. CASE q # p
    BY <1>1, <2>2 DEF TypeOK
  <2> QED BY <2>1, <2>2
<1> QED BY <1>1, <1>2 DEF TypeOK, ContentTyped

LEMMA PutFacts ==
  ASSUME NEW s \in Seq(Chunk), Len(s) <= MaxSize, NEW pos \in 0..MaxSize, pos < MaxSize,
         NEW c \in Chunk
  PROVE  /\ Put(s, pos, c) \in Seq(Chunk)
         /\ Len(Put(s, pos, c)) = Longer(Len(s), pos + 1)
         /\ Len(Put(s, pos, c)) <= MaxSize
         /\ Len(s) <= Len(Put(s, pos, c)) /\ pos + 1 <= Len(Put(s, pos, c))
         /\ Put(s, pos, c)[pos + 1] = c
         /\ \A i \in 1..Len(Put(s, pos, c)) : i # pos + 1 =>
              Put(s, pos, c)[i] = IF i <= Len(s) THEN s[i] ELSE Null
<1> DEFINE n == Longer(Len(s), pos + 1)
<1>1. /\ n \in Nat /\ n <= MaxSize /\ Len(s) <= n /\ pos + 1 <= n /\ pos + 1 \in 1..n
      /\ Len(s) \in Nat /\ pos \in Nat /\ MaxSize \in Nat
  BY FileAssumption DEF Longer
<1>2. \A i \in 1..n : (IF i = pos + 1 THEN c ELSE IF i <= Len(s) THEN s[i] ELSE Null) \in Chunk
  BY <1>1 DEF Chunk
<1> HIDE DEF n
<1>3. Put(s, pos, c) = [i \in 1..n |-> IF i = pos + 1 THEN c ELSE IF i <= Len(s) THEN s[i] ELSE Null]
  BY DEF Put, n
<1>4. Put(s, pos, c) \in [1..n -> Chunk]
  BY <1>2, <1>3
<1>5. Put(s, pos, c) \in Seq(Chunk) /\ Len(Put(s, pos, c)) = n
  BY <1>1, <1>4
<1> QED BY <1>1, <1>3, <1>5 DEF n

LEMMA EmptyFile == <<>> \in Seq(Chunk) /\ Len(<<>>) = 0
OBVIOUS

-----------------------------------------------------------------------------
(***************************************************************************)
(* What a step of one process leaves of another's request.                 *)
(***************************************************************************)
(* The files of q that it has locked are as they were, or it is known to   *)
(* have had one truncated.                                                 *)
Undisturbed(q) ==
  /\ req'[q] = req[q]
  /\ \A f \in File : lock'[f][q] = lock[f][q]
  /\ q \notin cut' =>
       /\ q \notin cut
       /\ \A f \in File : f \in {req[q].file, req[q].dest} /\ lock[f][q] # "none"
                            => content'[f] = content[f]

LEMMA UndisturbedKeeps ==
  ASSUME TypeOK, NEW q \in Proc, Own(q), Undisturbed(q)
  PROVE  Own(q)'
<1> USE DEF Undisturbed, At
<1>1. Ready(q)'
  BY DEF Own, Ready
<1>2. Holding(q)'
  <2>1. req[q].at \in WriteSteps \cup ReadSteps \cup {"stat"} => req[q].file \in File
    BY DEF TypeOK, WriteSteps, ReadSteps
  <2>2. req[q].at = "copy" => req[q].dest \in File
    BY DEF TypeOK
  <2> QED BY <2>1, <2>2 DEF Own, Holding
<1>3. Sized(q)'
  <2>1. req[q].at \in {"seek", "send", "pad", "put", "receive"} =>
          req[q].file \in File /\ lock[req[q].file][q] # "none"
    BY DEF Own, Holding, WriteSteps, ReadSteps, TypeOK
  <2> QED BY <2>1 DEF Own, Sized
<1>4. Copied(q)'
  <2>1. req[q].at = "copy" =>
          /\ req[q].file \in File /\ lock[req[q].file][q] # "none"
          /\ req[q].dest \in File /\ lock[req[q].dest][q] # "none"
    BY DEF Own, Holding, ReadSteps, TypeOK
  <2> QED BY <2>1 DEF Own, Copied
<1> QED BY <1>1, <1>2, <1>3, <1>4 DEF Own

LEMMA Assembled ==
  ASSUME FileInv, NEW p \in Proc, TypeOK', Alone', Own(p)',
         \A q \in Proc : q # p => Undisturbed(q)
  PROVE  FileInv'
<1>1. ASSUME NEW q \in Proc, q # p
      PROVE  Own(q)'
  BY <1>1, UndisturbedKeeps DEF FileInv
<1> QED BY <1>1 DEF FileInv

(* The three ways in which a step of p changes contents.                   *)
LEMMA KeptApart ==
  ASSUME TypeOK, NEW p \in Proc, NEW r, req' = [req EXCEPT ![p] = r],
         \A f \in File : content'[f] = content[f] \/ ~InUse(names', req', f),
         cut' \in {cut, cut \ {p}},
         NEW q \in Proc, q # p, \A f \in File : lock'[f][q] = lock[f][q]
  PROVE  Undisturbed(q)
<1>1. req'[q] = req[q]
  BY Changed
<1>2. \A f \in File : f \in {req[q].file, req[q].dest} => InUse(names', req', f)
  BY <1>1 DEF InUse
<1> QED BY <1>1, <1>2 DEF Undisturbed

LEMMA CutApart ==
  ASSUME TypeOK, NEW p \in Proc, NEW r, req' = [req EXCEPT ![p] = r],
         NEW f \in File, Truncate(f), lock' = lock,
         NEW q \in Proc, q # p
  PROVE  Undisturbed(q)
<1>1. req'[q] = req[q]
  BY Changed
<1>2. \A g \in File : g # f => content'[g] = content[g]
  BY DEF Truncate, TypeOK
<1> QED BY <1>1, <1>2 DEF Undisturbed, Truncate, Lockers

LEMMA WrittenApart ==
  ASSUME TypeOK, Alone, NEW p \in Proc, NEW r, req' = [req EXCEPT ![p] = r],
         NEW f \in File, lock[f][p] = "exclusive",
         \A g \in File : g # f => content'[g] = content[g],
         UNCHANGED <<lock, cut>>, NEW q \in Proc, q # p
  PROVE  Undisturbed(q)
<1>1. req'[q] = req[q]
  BY Changed
<1>2. lock[f][q] = "none"
  BY DEF Alone
<1> QED BY <1>1, <1>2 DEF Undisturbed

-----------------------------------------------------------------------------
(***************************************************************************)
(* How a request goes on.                                                  *)
(***************************************************************************)
Steps == {"idle", "reopen", "lock", "openDest", "lockDest", "unlink", "check", "rename", "stat",
          "seek", "pad", "put", "send", "receive", "copy", "done"}

LEMMA Went ==
  ASSUME TypeOK, NEW p \in Proc, NEW step \in Steps, Goto(p, step)
  PROVE  \E r \in Request :
           /\ req' = [req EXCEPT ![p] = r]
           /\ r.at = step /\ r.op = req[p].op /\ r.offset = req[p].offset
           /\ r.file = req[p].file /\ r.dest = req[p].dest
           /\ r.pos = req[p].pos /\ r.size = req[p].size
<1> DEFINE r == [req[p] EXCEPT !.at = step]
<1>1. req[p] \in Request
  BY DEF TypeOK
<1>2. /\ r \in Request
      /\ r.at = step /\ r.op = req[p].op /\ r.offset = req[p].offset
      /\ r.file = req[p].file /\ r.dest = req[p].dest
      /\ r.pos = req[p].pos /\ r.size = req[p].size
  BY <1>1 DEF Request, Steps
<1>3. req' = [req EXCEPT ![p] = r]
  BY DEF Goto
<1> HIDE DEF r
<1> QED BY <1>2, <1>3

LEMMA WasDone ==
  ASSUME TypeOK, NEW p \in Proc, Done(p), req[p].file \in File
  PROVE  \E r \in Request :
           req' = [req EXCEPT ![p] = r] /\ r.at = "done" /\ r.file = req[p].file
<1> DEFINE r == [Idle EXCEPT !.at = "done", !.file = req[p].file]
<1>1. r \in Request /\ r.at = "done" /\ r.file = req[p].file
  BY IdleTyped DEF Request
<1>2. req' = [req EXCEPT ![p] = r]
  BY DEF Done
<1> HIDE DEF r
<1> QED BY <1>1, <1>2

LEMMA Began ==
  ASSUME NEW p \in Proc, NEW x \in Requests, NEW f \in File, NEW step \in {"lock", "reopen"},
         Begin(p, x, f, step)
  PROVE  \E r \in Request :
           /\ req' = [req EXCEPT ![p] = r]
           /\ r.at = step /\ r.op = x.op /\ x.op \in Ops /\ r.file = f /\ r.pos = 0
<1> DEFINE r == [Idle EXCEPT !.op = x.op, !.at = step, !.file = f, !.offset = x.offset,
                   !.path = IF x.op \in ByName THEN x.path ELSE @,
                   !.to   = IF x.op \in ByName THEN x.to ELSE @]
<1>1. x \in [op : Ops, path : Path, to : Place, offset : 0..MaxSize]
  BY DEF Requests
<1>2. r \in Request /\ r.at = step /\ r.op = x.op /\ x.op \in Ops /\ r.file = f /\ r.pos = 0
  BY <1>1, IdleTyped DEF Request
<1>3. req' = [req EXCEPT ![p] = r]
  BY DEF Begin
<1> HIDE DEF r
<1> QED BY <1>2, <1>3

(* Steps at which a process has nothing to show but its file.              *)
LEMMA NothingToShow ==
  ASSUME NEW p \in Proc,
         req'[p].at \in {"idle", "unlink", "check", "rename", "done"}
  PROVE  Own(p)'
BY DEF Own, Ready, Holding, Sized, Copied, At, WriteSteps, ReadSteps

LEMMA OpenNamed ==
  ASSUME TypeOK, NEW path \in Path, NEW f \in File, OpenOrNew(path, f)
  PROVE  names' \in [Path -> File \cup {NoFile}]
BY DEF OpenOrNew, TypeOK

LEMMA TruncateTyped ==
  ASSUME TypeOK, NEW f \in File, Truncate(f)
  PROVE  ContentTyped' /\ cut' \subseteq Proc
BY EmptyFile, FileAssumption DEF Truncate, TypeOK, ContentTyped, Lockers

LEMMA ReclaimTyped ==
  ASSUME TypeOK, Reclaim
  PROVE  /\ ContentTyped'
         /\ \A f \in File : content'[f] = content[f] \/ (content'[f] = <<>> /\ ~InUse(names', req', f))
<1>1. \A f \in File : content'[f] = IF InUse(names', req', f) THEN content[f] ELSE <<>>
  BY DEF Reclaim
<1>2. \A f \in File : content'[f] \in Seq(Chunk) /\ Len(content'[f]) <= MaxSize
  <2>1. \A f \in File : content[f] \in Seq(Chunk) /\ Len(content[f]) <= MaxSize
    BY DEF TypeOK
  <2>2. \A f \in File : content'[f] = content[f] \/ content'[f] = <<>>
    BY <1>1
  <2> SUFFICES ASSUME NEW f \in File
               PROVE  content'[f] \in Seq(Chunk) /\ Len(content'[f]) <= MaxSize
    OBVIOUS
  <2>3. <<>> \in Seq(Chunk) /\ Len(<<>>) <= MaxSize
    BY EmptyFile, FileAssumption
  <2>4. CASE content'[f] = content[f]
    BY <2>1, <2>4
  <2>5. CASE content'[f] = <<>>
    BY <2>3, <2>5
  <2> QED BY <2>2, <2>4, <2>5
<1>3. content' \in [File -> Seq(Chunk)]
  BY <1>2 DEF Reclaim
<1> QED BY <1>1, <1>2, <1>3 DEF ContentTyped

LEMMA TargetTyped ==
  ASSUME TypeOK, NEW p \in Proc
  PROVE  Target(p) \in Path /\ req[p].path \in Path
<1>1. req[p].path \in Path /\ req[p].to \in Place
  BY DEF TypeOK, Request
<1> QED BY <1>1 DEF Target, Path

-----------------------------------------------------------------------------
(***************************************************************************)
(* Every step keeps the invariant.                                         *)
(***************************************************************************)
LEMMA DirKeeps ==
  ASSUME FileInv, NEW p \in Proc, MakeDir(p) \/ RemoveDir(p)
  PROVE  FileInv'
<1>1. UNCHANGED <<names, content, lock, req, cut>> /\ dirs' \subseteq Place
  BY DEF MakeDir, RemoveDir, FileInv, TypeOK, Place
<1>2. TypeOK' /\ Alone'
  BY <1>1 DEF FileInv, TypeOK, Alone
<1>3. \A q \in Proc : Undisturbed(q)
  BY <1>1 DEF Undisturbed
<1> QED BY <1>2, <1>3, UndisturbedKeeps DEF FileInv

LEMMA StartKeeps ==
  ASSUME FileInv, NEW p \in Proc, Start(p)
  PROVE  FileInv'
<1> USE DEF FileInv
<1>1. PICK x \in Requests : Open(p, x) \/ OpenToWrite(p, x) \/ OpenTruncated(p, x)
  BY DEF Start
<1>2. x.path \in Path /\ x.op \in Ops
  BY <1>1 DEF Requests
<1>3. CASE Open(p, x) \/ OpenToWrite(p, x)
  <2>1. PICK f \in File : Begin(p, x, f, "lock")
    BY <1>2, <1>3 DEF Open, OpenToWrite, TypeOK
  <2>2. PICK r \in Request :
           req' = [req EXCEPT ![p] = r] /\ r.at = "lock" /\ r.op \in Ops /\ r.file = f /\ r.pos = 0
    BY <2>1, Began
  <2>3. UNCHANGED <<dirs, content, lock, cut>> /\ names' \in [Path -> File \cup {NoFile}]
    BY <1>2, <1>3, OpenNamed DEF Open, OpenToWrite, TypeOK
  <2>4. TypeOK'
    BY <2>2, <2>3, TypeKept DEF TypeOK, ContentTyped
  <2>5. \A q \in Proc : q # p => Undisturbed(q)
    BY <2>2, <2>3, KeptApart
  <2>6. req'[p] = r
    BY <2>2, Changed
  <2>7. Own(p)' /\ Alone'
    BY <2>2, <2>3, <2>6 DEF Own, Ready, Holding, Sized, Copied, At, WriteSteps, ReadSteps, Alone
  <2> QED BY <2>4, <2>5, <2>7, Assembled
<1>4. CASE OpenTruncated(p, x)
  <2>1. PICK f \in File, step \in {"lock", "reopen"} :
          OpenOrNew(x.path, f) /\ Truncate(f) /\ Begin(p, x, f, step)
    BY <1>4 DEF OpenTruncated
  <2>2. PICK r \in Request :
           req' = [req EXCEPT ![p] = r] /\ r.at = step /\ r.op \in Ops /\ r.file = f /\ r.pos = 0
    BY <2>1, Began
  <2>3. UNCHANGED <<dirs, lock>> /\ names' \in [Path -> File \cup {NoFile}]
    BY <1>2, <1>4, <2>1, OpenNamed DEF OpenTruncated
  <2>4. TypeOK'
    BY <2>1, <2>2, <2>3, TruncateTyped, TypeKept DEF TypeOK
  <2>5. \A q \in Proc : q # p => Undisturbed(q)
    BY <2>1, <2>2, <2>3, CutApart
  <2>6. req'[p] = r
    BY <2>2, Changed
  <2>7. Own(p)' /\ Alone'
    BY <2>1, <2>2, <2>3, <2>6 DEF Own, Ready, Holding, Sized, Copied, At, WriteSteps, ReadSteps, Alone
  <2> QED BY <2>4, <2>5, <2>7, Assembled
<1> QED BY <1>1, <1>3, <1>4

LEMMA ReopenKeeps ==
  ASSUME FileInv, NEW p \in Proc, Reopen(p)
  PROVE  FileInv'
<1> USE DEF FileInv
<1> DEFINE x == [req[p] EXCEPT !.at = "lock", !.file = names[req[p].path]]
<1>1. req[p] \in Request /\ req[p].path \in Path /\ names[req[p].path] \in File
  BY TargetTyped DEF Reopen, TypeOK
<1>2. x \in Request /\ x.at = "lock" /\ x.op = req[p].op /\ x.file \in File /\ x.pos = req[p].pos
  BY <1>1 DEF Request
<1>3. req' = [req EXCEPT ![p] = x]
  BY DEF Reopen
<1> HIDE DEF x
<1>4. PICK r \in Request :
        req' = [req EXCEPT ![p] = r] /\ r.at = "lock" /\ r.op = req[p].op /\ r.file \in File
        /\ r.pos = req[p].pos
  BY <1>2, <1>3
<1>5. TypeOK'
  BY <1>4, ReclaimTyped, TypeKept DEF Reopen, TypeOK
<1>6. \A q \in Proc : q # p => Undisturbed(q)
  BY <1>4, ReclaimTyped, KeptApart DEF Reopen
<1>7. req'[p] = r
  BY <1>4, Changed
<1>8. req[p].op \in Ops /\ req[p].pos = 0
  BY DEF Own, Ready, Reopen
<1>9. Own(p)' /\ Alone'
  BY <1>4, <1>7, <1>8 DEF Own, Ready, Holding, Sized, Copied, At, WriteSteps, ReadSteps, Alone, Reopen
<1> QED BY <1>5, <1>6, <1>9, Assembled

(* A lock that is granted is compatible with those there are.              *)
LEMMA Granted ==
  ASSUME TypeOK, Alone, NEW p \in Proc, NEW f \in File, NEW mode \in {"shared", "exclusive"},
         Compatible(p, f, mode),
         lock' = [lock EXCEPT ![f] = [lock[f] EXCEPT ![p] = mode]]
  PROVE  /\ lock' \in [File -> [Proc -> {"none", "shared", "exclusive"}]]
         /\ lock'[f][p] = mode
         /\ \A g \in File : g # f => lock'[g] = lock[g]
         /\ \A g \in File, q \in Proc : q # p => lock'[g][q] = lock[g][q]
         /\ Alone'
<1>2. /\ lock' \in [File -> [Proc -> {"none", "shared", "exclusive"}]]
      /\ lock'[f][p] = mode
      /\ \A g \in File : g # f => lock'[g] = lock[g]
      /\ \A q \in Proc : q # p => lock'[f][q] = lock[f][q]
  BY DEF TypeOK
<1>3. ASSUME NEW g \in File, NEW a \in Proc, NEW b \in Proc, a # b, lock'[g][a] = "exclusive"
      PROVE  lock'[g][b] = "none"
  <2>1. CASE g # f
    BY <1>2, <1>3, <2>1 DEF Alone
  <2>2. CASE g = f /\ a = p
    BY <1>2, <1>3, <2>2 DEF Compatible
  <2>3. CASE g = f /\ a # p /\ b = p
    <3>1. lock[f][a] = "exclusive"
      BY <1>2, <1>3, <2>3
    <3> QED BY <3>1, <2>3 DEF Compatible
  <2>4. CASE g = f /\ a # p /\ b # p
    BY <1>2, <1>3, <2>4 DEF Alone
  <2> QED BY <2>1, <2>2, <2>3, <2>4
<1>4. Alone'
  BY <1>3 DEF Alone
<1> QED BY <1>2, <1>4

LEMMA LockSteps ==
  \A op \in Ops :
    /\ Mode(op) \in {"shared", "exclusive"}
    /\ Then(op) \in {"done", "unlink", "check", "stat", "receive", "openDest"}
    /\ Then(op) = "receive" => Mode(op) = "exclusive"
    /\ Then(op) = "stat" => op \in {"write", "download"}
BY DEF Ops, Mode, Then

LEMMA LockKeeps ==
  ASSUME FileInv, NEW p \in Proc, Lock(p)
  PROVE  FileInv'
<1> USE DEF FileInv
<1>1. PICK f \in File, op \in Ops : f = req[p].file /\ op = req[p].op
  BY DEF Lock, TypeOK, Own, Ready, At
<1>2. At(p, "lock") /\ req[p].pos = 0
  BY DEF Lock, Own, Ready
<1>3. PICK mode \in {"shared", "exclusive"} : mode = Mode(op)
  BY LockSteps
<1>4. Compatible(p, f, mode) /\ lock' = [lock EXCEPT ![f][p] = mode]
      /\ UNCHANGED <<dirs, names, content, cut>>
  BY <1>1, <1>3 DEF Lock
<1>5. /\ lock' \in [File -> [Proc -> {"none", "shared", "exclusive"}]]
      /\ lock'[f][p] = mode
      /\ \A g \in File, q \in Proc : q # p => lock'[g][q] = lock[g][q]
      /\ Alone'
  <2>1. TypeOK /\ Alone /\ mode \in {"shared", "exclusive"}
    BY <1>3
  <2>2. lock' = [lock EXCEPT ![f] = [lock[f] EXCEPT ![p] = mode]]
    BY <1>4
  <2>3. Compatible(p, f, mode)
    BY <1>4
  <2> QED BY <2>1, <2>2, <2>3, Granted, ZenonT(60)
<1>6. PICK r \in Request :
        /\ req' = [req EXCEPT ![p] = r] /\ r.at = Then(op) /\ r.file = f
        /\ r.at # "done" => r.op = op /\ r.pos = 0
  <2>1. CASE Then(op) = "done"
    BY <1>1, <2>1, WasDone DEF Lock
  <2>2. CASE Then(op) # "done"
    <3>1. Goto(p, Then(op)) /\ Then(op) \in Steps
      BY <1>1, <2>2, LockSteps DEF Lock, Steps
    <3> QED BY <1>1, <1>2, <2>2, <3>1, Went
  <2> QED BY <2>1, <2>2
<1>7. r.at \in {"done", "unlink", "check", "stat", "receive", "openDest"}
  BY <1>6, LockSteps
<1>8. TypeOK'
  BY <1>4, <1>5, <1>6, <1>7, TypeKept DEF TypeOK, ContentTyped
<1>9. \A q \in Proc : q # p => Undisturbed(q)
  BY <1>4, <1>5, <1>6, KeptApart
<1>10. req'[p] = r
  BY <1>6, Changed
<1>11. Own(p)'
  <2>1. CASE r.at \in {"done", "unlink", "check"}
    BY <1>10, <2>1, NothingToShow
  <2>2. CASE r.at \in {"stat", "receive", "openDest"}
    <3>1. r.op = op /\ r.pos = 0 /\ (r.at = "receive" => mode = "exclusive")
          /\ (r.at = "stat" => op \in {"write", "download"})
      BY <1>3, <1>6, <2>2, LockSteps
    <3>2. Len(content[f]) \in Nat
      BY DEF TypeOK
    <3> QED BY <1>3, <1>4, <1>5, <1>6, <1>10, <2>2, <3>1, <3>2
         DEF Own, Ready, Holding, Sized, Copied, At, WriteSteps, ReadSteps
  <2> QED BY <1>7, <2>1, <2>2
<1> QED BY <1>5, <1>8, <1>9, <1>11, Assembled

LEMMA RenameKeeps ==
  ASSUME FileInv, NEW p \in Proc, Unlink(p) \/ Rename(p)
  PROVE  FileInv'
<1> USE DEF FileInv
<1>1. req[p].file \in File
  BY DEF Unlink, Rename, At, TypeOK
<1>2. PICK r \in Request : req' = [req EXCEPT ![p] = r] /\ r.at = "done" /\ r.file = req[p].file
  BY <1>1, WasDone DEF Unlink, Rename
<1>3. names' \in [Path -> File \cup {NoFile}]
  BY TargetTyped DEF Unlink, Rename, TypeOK
<1>4. Reclaim /\ UNCHANGED <<dirs, lock, cut>>
  BY DEF Unlink, Rename
<1>5. TypeOK'
  BY <1>1, <1>2, <1>3, <1>4, ReclaimTyped, TypeKept DEF TypeOK
<1>6. \A q \in Proc : q # p => Undisturbed(q)
  BY <1>2, <1>4, ReclaimTyped, KeptApart
<1>7. req'[p] = r
  BY <1>2, Changed
<1>8. Own(p)' /\ Alone'
  BY <1>2, <1>4, <1>7, NothingToShow DEF Alone
<1> QED BY <1>5, <1>6, <1>8, Assembled

(* A step that touches nothing but the request.                            *)
LEMMA QuietKeeps ==
  ASSUME FileInv, NEW p \in Proc, NEW r \in Request, req' = [req EXCEPT ![p] = r],
         r.file = req[p].file, r.dest = req[p].dest, r.at # "copy" \/ At(p, "copy"),
         req[p].at \notin {"idle", "reopen"}, r.at # "lockDest",
         UNCHANGED <<dirs, names, content, lock, cut>>, Own(p)'
  PROVE  FileInv'
<1> USE DEF FileInv
<1>1. r.file \in File
  BY DEF TypeOK
<1>2. r.at = "copy" => r.dest \in File
  BY DEF TypeOK, At
<1>3. TypeOK'
  BY <1>1, <1>2, TypeKept DEF TypeOK, ContentTyped
<1>4. \A q \in Proc : q # p => Undisturbed(q)
  BY KeptApart
<1>5. Alone'
  BY DEF Alone
<1> QED BY <1>3, <1>4, <1>5, Assembled

LEMMA CheckKeeps ==
  ASSUME FileInv, NEW p \in Proc, Check(p)
  PROVE  FileInv'
<1>1. Goto(p, "rename") /\ "rename" \in Steps /\ At(p, "check")
      /\ UNCHANGED <<dirs, names, content, lock, cut>>
  BY DEF Check, Steps
<1>2. PICK r \in Request :
        /\ req' = [req EXCEPT ![p] = r] /\ r.at = "rename"
        /\ r.file = req[p].file /\ r.dest = req[p].dest
  BY <1>1, Went DEF FileInv
<1>3. req'[p] = r
  BY <1>2, Changed DEF FileInv
<1>4. Own(p)'
  BY <1>2, <1>3, NothingToShow
<1> QED BY <1>1, <1>2, <1>4, QuietKeeps DEF At

LEMMA StatKeeps ==
  ASSUME FileInv, NEW p \in Proc, Stat(p)
  PROVE  FileInv'
<1> USE DEF FileInv
<1> DEFINE x == [req[p] EXCEPT !.at = IF req[p].op = "write" THEN "seek" ELSE "send",
                               !.size = Len(content[req[p].file])]
<1>1. req[p] \in Request /\ req[p].file \in File /\ At(p, "stat")
  BY DEF Stat, At, TypeOK
<1>2. Len(content[req[p].file]) \in 0..MaxSize
  BY <1>1, FileAssumption DEF TypeOK
<1>3. /\ x \in Request /\ x.at = (IF req[p].op = "write" THEN "seek" ELSE "send")
      /\ x.size = Len(content[req[p].file]) /\ x.file = req[p].file /\ x.dest = req[p].dest
      /\ x.op = req[p].op
  BY <1>1, <1>2 DEF Request
<1>4. req' = [req EXCEPT ![p] = x] /\ UNCHANGED <<dirs, names, content, lock, cut>>
  BY DEF Stat
<1> HIDE DEF x
<1>5. req'[p] = x
  BY <1>4, Changed
<1>6. req[p].op \in {"write", "download"} /\ lock[req[p].file][p] = Mode(req[p].op)
  BY <1>1 DEF Own, Ready, Holding
<1>7. Own(p)'
  BY <1>3, <1>4, <1>5, <1>6 DEF Own, Ready, Holding, Sized, Copied, At, WriteSteps, ReadSteps, Mode
<1> QED BY <1>1, <1>3, <1>4, <1>7, QuietKeeps DEF At

LEMMA SeekKeeps ==
  ASSUME FileInv, NEW p \in Proc, Seek(p)
  PROVE  FileInv'
<1> USE DEF FileInv
<1> DEFINE x == [req[p] EXCEPT
             !.at  = IF req[p].offset > req[p].size THEN "pad" ELSE "put",
             !.pos = IF req[p].offset > req[p].size THEN Len(content[req[p].file]) ELSE req[p].offset]
<1>1. req[p] \in Request /\ req[p].file \in File /\ At(p, "seek")
  BY DEF Seek, At, TypeOK
<1>2. Len(content[req[p].file]) \in 0..MaxSize /\ req[p].offset \in 0..MaxSize /\ req[p].size \in 0..MaxSize
  BY <1>1, FileAssumption DEF TypeOK, Request
<1>3. /\ x \in Request /\ x.file = req[p].file /\ x.dest = req[p].dest
      /\ x.offset = req[p].offset /\ x.size = req[p].size
      /\ x.at = (IF req[p].offset > req[p].size THEN "pad" ELSE "put")
      /\ x.pos = IF req[p].offset > req[p].size THEN Len(content[req[p].file]) ELSE req[p].offset
  BY <1>1, <1>2 DEF Request
<1>4. req' = [req EXCEPT ![p] = x] /\ UNCHANGED <<dirs, names, content, lock, cut>>
  BY DEF Seek
<1> HIDE DEF x
<1>5. req'[p] = x
  BY <1>4, Changed
<1>6. lock[req[p].file][p] = "exclusive"
      /\ (p \notin cut => req[p].size = Len(content[req[p].file]))
  BY <1>1 DEF Own, Holding, Sized, At, WriteSteps
<1>7. Own(p)'
  BY <1>2, <1>3, <1>4, <1>5, <1>6 DEF Own, Ready, Holding, Sized, Copied, At, WriteSteps, ReadSteps
<1> QED BY <1>1, <1>3, <1>4, <1>7, QuietKeeps DEF At

LEMMA SendKeeps ==
  ASSUME FileInv, NEW p \in Proc, Send(p)
  PROVE  FileInv'
<1> USE DEF FileInv
<1> DEFINE x == [req[p] EXCEPT !.pos = req[p].pos + 1]
<1>1. req[p] \in Request /\ req[p].file \in File /\ At(p, "send")
      /\ req[p].pos < Len(content[req[p].file])
  BY DEF Send, At, TypeOK
<1>2. req[p].pos + 1 \in 0..MaxSize
  BY <1>1, FileAssumption DEF TypeOK, Request
<1>3. /\ x \in Request /\ x.file = req[p].file /\ x.dest = req[p].dest
      /\ x.at = "send" /\ x.size = req[p].size
  BY <1>1, <1>2 DEF Request, At
<1>4. req' = [req EXCEPT ![p] = x] /\ UNCHANGED <<dirs, names, content, lock, cut>>
  BY DEF Send
<1> HIDE DEF x
<1>5. req'[p] = x
  BY <1>4, Changed
<1>6. lock[req[p].file][p] # "none"
      /\ (p \notin cut => req[p].size = Len(content[req[p].file]))
  BY <1>1 DEF Own, Holding, Sized, At, ReadSteps
<1>7. Own(p)'
  BY <1>3, <1>4, <1>5, <1>6 DEF Own, Ready, Holding, Sized, Copied, At, WriteSteps, ReadSteps
<1> QED BY <1>1, <1>3, <1>4, <1>7, QuietKeeps DEF At

LEMMA Written ==
  ASSUME TypeOK, NEW f \in File, NEW pos \in 0..MaxSize, NEW c \in Chunk, Write(f, pos, c)
  PROVE  /\ ContentTyped' /\ pos < MaxSize
         /\ content'[f] = Put(content[f], pos, c)
         /\ \A g \in File : g # f => content'[g] = content[g]
         /\ Len(content[f]) <= Len(content'[f]) /\ pos + 1 <= Len(content'[f])
         /\ Len(content'[f]) \in Nat
<1>1. content[f] \in Seq(Chunk) /\ Len(content[f]) <= MaxSize
  BY DEF TypeOK
<1>2. pos < MaxSize /\ content' = [content EXCEPT ![f] = Put(content[f], pos, c)]
  BY DEF Write
<1>3. PICK s \in Seq(Chunk) : s = Put(content[f], pos, c)
  BY <1>1, <1>2, PutFacts
<1>4. Len(s) <= MaxSize /\ Len(content[f]) <= Len(s) /\ pos + 1 <= Len(s)
  BY <1>1, <1>2, <1>3, PutFacts
<1>5. content' = [content EXCEPT ![f] = s]
  BY <1>2, <1>3
<1> QED BY <1>2, <1>3, <1>4, <1>5 DEF TypeOK, ContentTyped

(* A process writes to a file it has for itself and goes on with r.        *)
LEMMA WriteKeeps ==
  ASSUME FileInv, NEW p \in Proc, NEW r \in Request, req' = [req EXCEPT ![p] = r],
         r.file \in File, r.at = "copy" => r.dest \in File, r.at # "lockDest",
         NEW f \in File, NEW c \in Chunk, Write(f, req[p].pos, c), lock[f][p] = "exclusive",
         UNCHANGED <<dirs, names, lock, cut>>, Own(p)'
  PROVE  FileInv'
<1> USE DEF FileInv
<1>1. req[p].pos \in 0..MaxSize
  BY DEF TypeOK, Request
<1>2. ContentTyped' /\ \A g \in File : g # f => content'[g] = content[g]
  BY <1>1, Written
<1>3. TypeOK'
  BY <1>2, TypeKept DEF TypeOK
<1>4. \A q \in Proc : q # p => Undisturbed(q)
  BY <1>2, WrittenApart
<1>5. Alone'
  BY DEF Alone
<1> QED BY <1>3, <1>4, <1>5, Assembled

LEMMA PadKeeps ==
  ASSUME FileInv, NEW p \in Proc, Pad(p)
  PROVE  FileInv'
<1> USE DEF FileInv
<1> DEFINE x == [req[p] EXCEPT !.at = IF req[p].size + 1 < req[p].offset THEN "pad" ELSE "put",
                               !.pos = req[p].pos + 1, !.size = req[p].size + 1]
<1>1. req[p] \in Request /\ At(p, "pad") /\ Write(req[p].file, req[p].pos, Space)
      /\ Space \in Chunk
  BY DEF Pad, TypeOK, Chunk
<1>2. PICK f \in File : f = req[p].file
  BY <1>1 DEF TypeOK, At
<1>3. req[p].pos \in 0..MaxSize /\ req[p].size \in 0..MaxSize /\ req[p].offset \in 0..MaxSize
      /\ req[p].size < req[p].offset /\ lock[f][p] = "exclusive"
  BY <1>1, <1>2 DEF Request, Own, Ready, Holding, At, WriteSteps
<1>4. req[p].pos < MaxSize /\ req[p].pos + 1 <= Len(content'[f])
  BY <1>1, <1>2, <1>3, Written
<1>5. req[p].pos + 1 \in 0..MaxSize /\ req[p].size + 1 \in 0..MaxSize
  BY <1>3, <1>4, FileAssumption
<1>6. /\ x \in Request /\ x.file = f /\ x.pos = req[p].pos + 1 /\ x.size = req[p].size + 1
      /\ x.offset = req[p].offset
      /\ x.at = IF req[p].size + 1 < req[p].offset THEN "pad" ELSE "put"
  BY <1>1, <1>2, <1>5 DEF Request
<1>7. req' = [req EXCEPT ![p] = x] /\ UNCHANGED <<dirs, names, lock, cut>>
  BY DEF Pad
<1> HIDE DEF x
<1>8. req'[p] = x
  BY <1>7, Changed
<1>9. Own(p)'
  BY <1>3, <1>4, <1>6, <1>7, <1>8 DEF Own, Ready, Holding, Sized, Copied, At, WriteSteps, ReadSteps
<1>10. x.at # "copy" /\ x.at # "lockDest" /\ x.file \in File
  BY <1>6
<1>11. Write(f, req[p].pos, Space)
  BY <1>1, <1>2
<1> QED BY <1>1, <1>3, <1>6, <1>7, <1>9, <1>10, <1>11, WriteKeeps

LEMMA PutDataKeeps ==
  ASSUME FileInv, NEW p \in Proc, PutData(p)
  PROVE  FileInv'
<1> USE DEF FileInv
<1>1. PICK c \in Datum : Write(req[p].file, req[p].pos, c)
  BY DEF PutData
<1>2. PICK f \in File : f = req[p].file
  BY DEF TypeOK, At, PutData
<1>3. PICK r \in Request : req' = [req EXCEPT ![p] = r] /\ r.at = "done" /\ r.file = f
  BY <1>2, WasDone DEF PutData
<1>4. req'[p] = r
  BY <1>3, Changed
<1>5. Own(p)' /\ lock[f][p] = "exclusive" /\ c \in Chunk
  BY <1>2, <1>3, <1>4, NothingToShow DEF PutData, Own, Holding, At, WriteSteps, Chunk
<1> QED BY <1>1, <1>2, <1>3, <1>5, WriteKeeps DEF PutData

LEMMA UploadKeeps ==
  ASSUME FileInv, NEW p \in Proc, Upload(p)
  PROVE  FileInv'
<1> USE DEF FileInv
<1> DEFINE x == [req[p] EXCEPT !.pos = req[p].pos + 1]
<1>1. PICK c \in Datum : Write(req[p].file, req[p].pos, c)
  BY DEF Upload
<1>2. PICK f \in File : f = req[p].file
  BY DEF TypeOK, At, Upload
<1>3. req[p] \in Request /\ req[p].pos \in 0..MaxSize /\ At(p, "receive") /\ c \in Chunk
      /\ lock[f][p] = "exclusive"
  BY <1>2 DEF Upload, TypeOK, Request, Own, Holding, At, WriteSteps, Chunk
<1>4. req[p].pos < MaxSize /\ req[p].pos + 1 <= Len(content'[f])
  BY <1>1, <1>2, <1>3, Written
<1>5. req[p].pos + 1 \in 0..MaxSize
  BY <1>3, <1>4, FileAssumption
<1>6. /\ x \in Request /\ x.file = f /\ x.pos = req[p].pos + 1 /\ x.at = "receive"
  BY <1>2, <1>3, <1>5 DEF Request, At
<1>7. req' = [req EXCEPT ![p] = x] /\ UNCHANGED <<dirs, names, lock, cut>>
  BY DEF Upload
<1> HIDE DEF x
<1>8. req'[p] = x
  BY <1>7, Changed
<1>9. Own(p)'
  BY <1>3, <1>4, <1>6, <1>7, <1>8 DEF Own, Ready, Holding, Sized, Copied, At, WriteSteps, ReadSteps
<1>10. Write(f, req[p].pos, c) /\ x.file \in File
  BY <1>1, <1>2, <1>6
<1> QED BY <1>3, <1>6, <1>7, <1>9, <1>10, WriteKeeps

LEMMA CopyKeeps ==
  ASSUME FileInv, NEW p \in Proc, Copy(p)
  PROVE  FileInv'
<1> USE DEF FileInv
<1> DEFINE x == [req[p] EXCEPT !.pos = req[p].pos + 1]
<1>1. PICK f \in File, g \in File : f = req[p].dest /\ g = req[p].file
  BY DEF TypeOK, At, Copy
<1>2. PICK n \in 0..MaxSize : n = req[p].pos
  BY DEF TypeOK, Request
<1>3. n < Len(content[g]) /\ At(p, "copy") /\ content[g] \in Seq(Chunk)
  BY <1>1, <1>2 DEF Copy, TypeOK
<1>4. PICK c \in Chunk : c = content[g][n + 1]
  BY <1>3
<1>5. Write(f, n, c)
  BY <1>1, <1>2, <1>4 DEF Copy
<1>6. lock[f][p] = "exclusive" /\ lock[g][p] # "none"
  BY <1>1, <1>3 DEF Own, Holding, At, ReadSteps
<1>7. /\ n < MaxSize /\ content'[f] = Put(content[f], n, c)
      /\ \A h \in File : h # f => content'[h] = content[h]
      /\ Len(content[f]) <= Len(content'[f]) /\ n + 1 <= Len(content'[f])
  BY <1>5, Written
<1>8. n + 1 \in 0..MaxSize
  BY <1>7, FileAssumption
<1>9. x \in Request /\ x.file = g /\ x.dest = f /\ x.pos = n + 1 /\ x.at = "copy"
  BY <1>1, <1>2, <1>3, <1>8, ZenonT(40) DEF TypeOK, Request, At
<1>10. req' = [req EXCEPT ![p] = x] /\ UNCHANGED <<dirs, names, lock, cut>>
  BY DEF Copy
<1> HIDE DEF x
<1>11. req'[p] = x
  BY <1>10, Changed
<1>12. Copied(p)'
  <2> SUFFICES ASSUME p \notin cut
               PROVE  /\ n + 1 <= Len(content'[g]) /\ n + 1 <= Len(content'[f])
                      /\ \A i \in 1..(n + 1) : content'[f][i] = content'[g][i]
    BY <1>9, <1>10, <1>11 DEF Copied, At
  <2>1. CASE f = g
    BY <1>7, <2>1
  <2>2. CASE f # g
    <3>1. content'[g] = content[g] /\ Len(content[g]) \in Nat /\ Len(content[f]) \in Nat
      BY <1>7, <2>2 DEF TypeOK
    <3>2. n <= Len(content[f]) /\ \A i \in 1..n : content[f][i] = content[g][i]
      BY <1>1, <1>2, <1>3 DEF Own, Copied, At
    <3>3. ASSUME NEW i \in 1..(n + 1)
          PROVE  content'[f][i] = content'[g][i]
      <4>1. content[f] \in Seq(Chunk) /\ Len(content[f]) <= MaxSize
        BY DEF TypeOK
      <4>2. /\ Put(content[f], n, c)[n + 1] = c
            /\ \A j \in 1..Len(Put(content[f], n, c)) : j # n + 1 =>
                 Put(content[f], n, c)[j] = IF j <= Len(content[f]) THEN content[f][j] ELSE Null
        BY <1>7, <4>1, PutFacts, ZenonT(40)
      <4>3. CASE i = n + 1
        BY <1>4, <1>7, <3>1, <4>2, <4>3
      <4>4. CASE i # n + 1
        <5>1. i \in 1..n /\ i <= Len(content[f]) /\ i \in 1..Len(content'[f])
          BY <1>7, <3>1, <3>2, <4>4
        <5> QED BY <1>7, <3>1, <3>2, <4>2, <4>4, <5>1
      <4> QED BY <4>3, <4>4
    <3> QED BY <1>3, <1>7, <3>1, <3>3
  <2> QED BY <2>1, <2>2
<1>13. Own(p)'
  BY <1>6, <1>9, <1>10, <1>11, <1>12 DEF Own, Ready, Holding, Sized, At, WriteSteps, ReadSteps
<1>14. Write(f, req[p].pos, c) /\ x.file \in File /\ x.dest \in File /\ x.at # "lockDest"
  BY <1>2, <1>5, <1>9
<1> QED BY <1>6, <1>9, <1>10, <1>13, <1>14, WriteKeeps

LEMMA OpenDestKeeps ==
  ASSUME FileInv, NEW p \in Proc, OpenDest(p)
  PROVE  FileInv'
<1> USE DEF FileInv
<1>1. PICK f \in File :
        /\ OpenOrNew(Target(p), f) /\ Truncate(f)
        /\ req' = [req EXCEPT ![p].at = "lockDest", ![p].dest = f]
  BY DEF OpenDest
<1> DEFINE x == [req[p] EXCEPT !.at = "lockDest", !.dest = f]
<1>2. req[p] \in Request /\ req[p].file \in File /\ At(p, "openDest")
  BY DEF OpenDest, TypeOK, At
<1>3. x \in Request /\ x.at = "lockDest" /\ x.dest = f /\ x.file = req[p].file /\ x.pos = req[p].pos
  BY <1>2 DEF Request
<1>4. req' = [req EXCEPT ![p] = x] /\ UNCHANGED <<dirs, lock>>
  BY <1>1 DEF OpenDest
<1> HIDE DEF x
<1>5. names' \in [Path -> File \cup {NoFile}]
  BY <1>1, OpenNamed, TargetTyped
<1>6. ContentTyped' /\ cut' \subseteq Proc
  BY <1>1, TruncateTyped
<1>7. TypeOK'
  BY <1>2, <1>3, <1>4, <1>5, <1>6, TypeKept DEF TypeOK
<1>8. \A q \in Proc : q # p => Undisturbed(q)
  BY <1>1, <1>4, CutApart
<1>9. req'[p] = x
  BY <1>4, Changed
<1>10. lock[req[p].file][p] # "none" /\ req[p].pos = 0
  BY <1>2 DEF Own, Ready, Holding, At, ReadSteps
<1>11. Own(p)' /\ Alone'
  BY <1>3, <1>4, <1>9, <1>10 DEF Own, Ready, Holding, Sized, Copied, At, WriteSteps, ReadSteps, Alone
<1> QED BY <1>7, <1>8, <1>11, Assembled

LEMMA LockDestKeeps ==
  ASSUME FileInv, NEW p \in Proc, LockDest(p)
  PROVE  FileInv'
<1> USE DEF FileInv
<1>1. PICK f \in File, g \in File : f = req[p].dest /\ g = req[p].file
  BY DEF TypeOK, At, LockDest
<1>2. /\ Compatible(p, f, "exclusive") /\ lock' = [lock EXCEPT ![f] = [lock[f] EXCEPT ![p] = "exclusive"]]
      /\ Goto(p, "copy") /\ "copy" \in Steps /\ UNCHANGED <<dirs, names, content, cut>>
      /\ At(p, "lockDest")
  BY <1>1 DEF LockDest, Steps
<1>3. /\ lock' \in [File -> [Proc -> {"none", "shared", "exclusive"}]]
      /\ lock'[f][p] = "exclusive"
      /\ \A h \in File : h # f => lock'[h] = lock[h]
      /\ \A h \in File, q \in Proc : q # p => lock'[h][q] = lock[h][q]
      /\ Alone'
  <2>1. TypeOK /\ Alone /\ "exclusive" \in {"shared", "exclusive"} /\ Compatible(p, f, "exclusive")
        /\ lock' = [lock EXCEPT ![f] = [lock[f] EXCEPT ![p] = "exclusive"]]
    BY <1>2
  <2> QED BY <2>1, Granted, ZenonT(30)
<1>4. PICK r \in Request :
        /\ req' = [req EXCEPT ![p] = r] /\ r.at = "copy" /\ r.file = g /\ r.dest = f
        /\ r.pos = req[p].pos
  BY <1>1, <1>2, Went
<1>5. TypeOK'
  BY <1>2, <1>3, <1>4, TypeKept DEF TypeOK, ContentTyped
<1>6. \A q \in Proc : q # p => Undisturbed(q)
  <2>1. cut' \in {cut, cut \ {p}} /\ (\A h \in File : content'[h] = content[h])
        /\ req' = [req EXCEPT ![p] = r]
    BY <1>2, <1>4
  <2> QED BY <1>3, <2>1, KeptApart
<1>7. req'[p] = r
  BY <1>4, Changed
<1>8. lock[g][p] # "none" /\ req[p].pos = 0
  BY <1>1, <1>2 DEF Own, Ready, Holding, At, ReadSteps
<1>9. lock'[g][p] # "none"
  BY <1>3, <1>8
<1>10. Len(content[f]) \in Nat /\ Len(content[g]) \in Nat
  BY DEF TypeOK
<1>11. Own(p)'
  BY <1>2, <1>3, <1>4, <1>7, <1>8, <1>9, <1>10
     DEF Own, Ready, Holding, Sized, Copied, At, WriteSteps, ReadSteps
<1> QED BY <1>3, <1>5, <1>6, <1>11, Assembled

LEMMA CloseKeeps ==
  ASSUME FileInv, NEW p \in Proc, Close(p)
  PROVE  FileInv'
<1> USE DEF FileInv
<1>1. /\ req' = [req EXCEPT ![p] = Idle] /\ cut' = cut \ {p} /\ UNCHANGED <<dirs, names>> /\ Reclaim
      /\ lock' = [f \in File |-> [lock[f] EXCEPT ![p] = "none"]]
  BY DEF Close
<1>2. PICK r \in Request : r = Idle /\ r.at = "idle"
  BY IdleTyped
<1>3. req' = [req EXCEPT ![p] = r]
  BY <1>1, <1>2
<1>4. /\ lock' \in [File -> [Proc -> {"none", "shared", "exclusive"}]]
      /\ \A f \in File : lock'[f][p] = "none"
      /\ \A f \in File, q \in Proc : q # p => lock'[f][q] = lock[f][q]
  BY <1>1 DEF TypeOK
<1>5. TypeOK'
  BY <1>1, <1>2, <1>3, <1>4, ReclaimTyped, TypeKept, ZenonT(40) DEF TypeOK
<1>6. \A q \in Proc : q # p => Undisturbed(q)
  BY <1>1, <1>3, <1>4, ReclaimTyped, KeptApart
<1>7. req'[p] = r
  BY <1>3, Changed
<1>8. Own(p)'
  BY <1>2, <1>7, NothingToShow
<1>9. Alone'
  BY <1>4 DEF Alone
<1> QED BY <1>5, <1>6, <1>8, <1>9, Assembled

-----------------------------------------------------------------------------
(***************************************************************************)
(* The invariant, and what a step does to contents.                        *)
(***************************************************************************)
LEMMA FileStarts ==
  ASSUME Init
  PROVE  FileInv
<1> USE DEF Init
<1>1. PICK r \in Request : r = Idle /\ r.at = "idle"
  BY IdleTyped
<1>2. \A p \in Proc : req[p] = r
  BY <1>1
<1>3. req \in [Proc -> Request]
  BY <1>1
<1>4. content \in [File -> Seq(Chunk)] /\ \A f \in File : Len(content[f]) <= MaxSize
  BY EmptyFile, FileAssumption
<1>5. TypeOK
  BY <1>1, <1>2, <1>3, <1>4 DEF TypeOK, Place
<1>6. \A p \in Proc : Own(p)
  BY <1>1, <1>2 DEF Own, Ready, Holding, Sized, Copied, At, WriteSteps, ReadSteps
<1> QED BY <1>5, <1>6 DEF FileInv, Alone

LEMMA FileStep ==
  ASSUME FileInv, [Next]_vars
  PROVE  FileInv'
<1>1. ASSUME NEW p \in Proc, Finish(p) \/ Fail(p)
      PROVE  FileInv'
  BY <1>1, CloseKeeps DEF Finish, Fail
<1>2. CASE UNCHANGED vars
  <2>1. UNCHANGED <<dirs, names, content, lock, req, cut>>
    BY <1>2 DEF vars
  <2>2. TypeOK' /\ Alone'
    BY <2>1 DEF FileInv, TypeOK, Alone
  <2>3. \A q \in Proc : Undisturbed(q)
    BY <2>1 DEF Undisturbed
  <2> QED BY <2>2, <2>3, UndisturbedKeeps DEF FileInv
<1> QED BY <1>1, <1>2, DirKeeps, StartKeeps, ReopenKeeps, LockKeeps, RenameKeeps, CheckKeeps,
     StatKeeps, SeekKeeps, PadKeeps, PutDataKeeps, SendKeeps, UploadKeeps, OpenDestKeeps,
     LockDestKeeps, CopyKeeps DEF Next

LEMMA FileInvariant == Spec => []FileInv
<1>1. Init => FileInv
  BY FileStarts
<1>2. FileInv /\ [Next]_vars => FileInv'
  BY FileStep
<1> QED BY <1>1, <1>2, PTL DEF Spec

(* p writes c at pos of f, a file it has for itself: within the file or    *)
(* next to its end unless somebody cut it, and a null only when it copies  *)
(* one.                                                                    *)
WritesTo(p, f) ==
  /\ lock[f][p] = "exclusive"
  /\ \E pos \in 0..MaxSize, c \in Chunk :
       /\ pos < MaxSize /\ content'[f] = Put(content[f], pos, c)
       /\ p \notin cut => pos <= Len(content[f])
       /\ c = Null => /\ At(p, "copy")
                      /\ pos + 1 \in Holes(content[req[p].file])

LEMMA OneWrites ==
  ASSUME TypeOK, NEW p \in Proc, NEW f \in File, NEW pos \in 0..MaxSize, NEW c \in Chunk,
         Write(f, pos, c), lock[f][p] = "exclusive",
         p \notin cut => pos <= Len(content[f]),
         c = Null => At(p, "copy") /\ pos + 1 \in Holes(content[req[p].file])
  PROVE  WritesTo(p, f) /\ \A g \in File : g # f => content'[g] = content[g]
BY Written DEF WritesTo

LEMMA Effect ==
  ASSUME FileInv, [Next]_vars, NEW f \in File, content'[f] \notin {content[f], <<>>}
  PROVE  \E p \in Proc : WritesTo(p, f)
<1> USE DEF FileInv
<1>1. PICK p \in Proc : Pad(p) \/ PutData(p) \/ Upload(p) \/ Copy(p)
  <2>1. ASSUME UNCHANGED content
        PROVE  FALSE
    BY <2>1
  <2>2. ASSUME Reclaim
        PROVE  FALSE
    BY <2>2, ReclaimTyped
  <2>3. ASSUME NEW g \in File, Truncate(g)
        PROVE  FALSE
    BY <2>3 DEF Truncate, TypeOK
  <2>4. ASSUME NEW p \in Proc, Reopen(p) \/ Unlink(p) \/ Rename(p) \/ Finish(p) \/ Fail(p)
        PROVE  FALSE
    BY <2>2, <2>4 DEF Reopen, Unlink, Rename, Finish, Fail, Close
  <2>5. ASSUME NEW p \in Proc, Start(p) \/ OpenDest(p)
        PROVE  FALSE
    BY <2>1, <2>3, <2>5 DEF Start, Open, OpenToWrite, OpenTruncated, OpenDest
  <2>6. ASSUME NEW p \in Proc, \/ MakeDir(p) \/ RemoveDir(p) \/ Lock(p) \/ Check(p) \/ Stat(p)
                               \/ Seek(p) \/ Send(p) \/ LockDest(p)
        PROVE  FALSE
    BY <2>1, <2>6 DEF MakeDir, RemoveDir, Lock, Check, Stat, Seek, Send, LockDest
  <2>7. ASSUME UNCHANGED vars
        PROVE  FALSE
    BY <2>1, <2>7 DEF vars
  <2> QED BY <2>4, <2>5, <2>6, <2>7 DEF Next
<1>2. PICK g \in File, n \in 0..MaxSize : g = req[p].file /\ n = req[p].pos
  BY <1>1 DEF Pad, PutData, Upload, Copy, At, TypeOK, Request
<1>3. CASE Pad(p)
  <2>1. Write(g, n, Space) /\ Space \in Chunk /\ Space # Null /\ lock[g][p] = "exclusive"
        /\ (p \notin cut => n <= Len(content[g]))
    BY <1>2, <1>3 DEF Pad, Chunk, Space, Null, Own, Holding, Sized, At, WriteSteps
  <2> QED BY <2>1, OneWrites
<1>4. CASE PutData(p) \/ Upload(p)
  <2>1. PICK c \in Datum : Write(g, n, c)
    BY <1>2, <1>4 DEF PutData, Upload
  <2>2. c \in Chunk /\ c # Null /\ lock[g][p] = "exclusive" /\ (p \notin cut => n <= Len(content[g]))
    BY <1>2, <1>4, FileAssumption DEF PutData, Upload, Chunk, Own, Holding, Sized, At, WriteSteps
  <2> QED BY <2>1, <2>2, OneWrites
<1>5. CASE Copy(p)
  <2>1. PICK h \in File : h = req[p].dest
    BY <1>5 DEF Copy, At, TypeOK
  <2>2. n < Len(content[g]) /\ content[g] \in Seq(Chunk) /\ At(p, "copy")
    BY <1>2, <1>5 DEF Copy, TypeOK
  <2>3. PICK c \in Chunk : c = content[g][n + 1]
    BY <2>2
  <2>4. Write(h, n, c)
    BY <1>2, <1>5, <2>1, <2>3 DEF Copy
  <2>5. lock[h][p] = "exclusive" /\ (p \notin cut => n <= Len(content[h]))
    BY <1>2, <2>1, <2>2 DEF Own, Holding, Copied, At
  <2>6. c = Null => n + 1 \in Holes(content[req[p].file])
    <3>1. n + 1 \in 1..Len(content[g])
      BY <2>2
    <3>2. c = Null => n + 1 \in Holes(content[g])
      BY <2>3, <3>1 DEF Holes
    <3> QED BY <1>2, <3>2
  <2> QED BY <2>2, <2>4, <2>5, <2>6, OneWrites
<1> QED BY <1>1, <1>3, <1>4, <1>5

-----------------------------------------------------------------------------
(***************************************************************************)
(* Theorems.                                                               *)
(***************************************************************************)
(* Every request that reaches lockFile has a descriptor to lock, whichever *)
(* of its opens failed before, and no file outgrows its bound.             *)
THEOREM FileTypes == Spec => []TypeOK
<1>1. FileInv => TypeOK
  BY DEF FileInv
<1> QED BY <1>1, FileInvariant, PTL

(* The size sent ahead of a download is the size of what follows, unless   *)
(* somebody truncates the file under the download's shared lock.           *)
THEOREM SizeStands == Spec => []AnnouncedIsThere
<1>1. FileInv => AnnouncedIsThere
  BY DEF FileInv, Own, Sized, AnnouncedIsThere
<1> QED BY <1>1, FileInvariant, PTL

(* As far as handleTransfer has copied, its destination holds what its     *)
(* source holds, whoever else opens, writes or renames the two files       *)
(* meanwhile, unless one of them is truncated.  Behind that part, what     *)
(* another process wrote before the lock was taken may still follow: the   *)
(* destination is truncated as it is opened.                               *)
THEOREM TransferCopies == Spec => []CopyFaithful
<1>1. FileInv => CopyFaithful
  BY DEF FileInv, Own, Copied, CopyFaithful
<1> QED BY <1>1, FileInvariant, PTL

(* Whatever the helper's processes do, a file changes, other than by being *)
(* emptied, only in the hands of the one process that has its lock.        *)
THEOREM WritersLock == Spec => DataNeedsLock
<1> DEFINE Step == \A f \in File :
             content'[f] \notin {content[f], <<>>} =>
               \E p \in Proc : Lockers(f) = {p} /\ lock[f][p] = "exclusive"
<1>1. ASSUME FileInv, [Next]_vars
      PROVE  Step
  <2> SUFFICES ASSUME NEW f \in File, content'[f] \notin {content[f], <<>>}
               PROVE  \E p \in Proc : Lockers(f) = {p} /\ lock[f][p] = "exclusive"
    OBVIOUS
  <2>1. PICK p \in Proc : lock[f][p] = "exclusive"
    BY <1>1, Effect DEF WritesTo
  <2>2. Lockers(f) = {p}
    BY <1>1, <2>1 DEF Lockers, FileInv, Alone
  <2> QED BY <2>1, <2>2
<1>2. FileInv /\ [Next]_vars => [Step]_vars
  BY <1>1
<1> HIDE DEF Step
<1>3. Spec => [][Step]_vars
  BY <1>2, FileInvariant, PTL DEF Spec
<1> QED BY <1>3 DEF DataNeedsLock, Step

(* The padding of handleWrite leaves no hole: one comes into a file only   *)
(* by a truncation under the lock of the process that writes, or with a    *)
(* copy of one.                                                            *)
THEOREM PaddingFills == Spec => HolesOnlyFromCuts
<1> DEFINE Step == \A f \in File : \A i \in Holes(content'[f]) \ Holes(content[f]) :
             \E p \in Proc :
               /\ lock[f][p] = "exclusive"
               /\ p \in cut \/ (At(p, "copy") /\ i \in Holes(content[req[p].file]))
<1>1. ASSUME FileInv, [Next]_vars
      PROVE  Step
  <2> SUFFICES ASSUME NEW f \in File, NEW i \in Holes(content'[f]) \ Holes(content[f])
               PROVE  \E p \in Proc :
                        /\ lock[f][p] = "exclusive"
                        /\ p \in cut \/ (At(p, "copy") /\ i \in Holes(content[req[p].file]))
    OBVIOUS
  <2>1. Holes(<<>>) = {}
    BY EmptyFile DEF Holes
  <2>2. PICK p \in Proc : WritesTo(p, f)
    BY <1>1, <2>1, Effect
  <2>3. PICK pos \in 0..MaxSize, c \in Chunk :
          /\ pos < MaxSize /\ content'[f] = Put(content[f], pos, c)
          /\ p \notin cut => pos <= Len(content[f])
          /\ c = Null => At(p, "copy") /\ pos + 1 \in Holes(content[req[p].file])
    BY <2>2 DEF WritesTo
  <2>4. content[f] \in Seq(Chunk) /\ Len(content[f]) <= MaxSize /\ Len(content[f]) \in Nat
    BY <1>1 DEF FileInv, TypeOK
  <2>5. /\ Len(content'[f]) = Longer(Len(content[f]), pos + 1)
        /\ content'[f][pos + 1] = c
        /\ \A j \in 1..Len(content'[f]) : j # pos + 1 =>
             content'[f][j] = IF j <= Len(content[f]) THEN content[f][j] ELSE Null
    <3>1. PICK s \in Seq(Chunk) : s = content[f]
      BY <2>4
    <3>2. Len(s) <= MaxSize /\ pos < MaxSize
      BY <2>3, <2>4, <3>1
    <3>3. /\ Len(Put(s, pos, c)) = Longer(Len(s), pos + 1)
          /\ Put(s, pos, c)[pos + 1] = c
          /\ \A j \in 1..Len(Put(s, pos, c)) : j # pos + 1 =>
               Put(s, pos, c)[j] = IF j <= Len(s) THEN s[j] ELSE Null
      BY <3>2, PutFacts
    <3>4. PICK t : t = Put(s, pos, c)
      OBVIOUS
    <3>5. content'[f] = t /\ content[f] = s
      BY <2>3, <3>1, <3>4
    <3> QED BY <3>3, <3>4, <3>5
  <2>6. i \in 1..Len(content'[f]) /\ content'[f][i] = Null
        /\ ~(i \in 1..Len(content[f]) /\ content[f][i] = Null)
    BY DEF Holes
  <2>7. CASE i = pos + 1
    BY <2>2, <2>3, <2>5, <2>6, <2>7 DEF WritesTo
  <2>8. CASE i # pos + 1
    <3>1. i > Len(content[f])
      BY <2>4, <2>5, <2>6, <2>8
    <3>2. pos > Len(content[f])
      BY <2>4, <2>5, <2>6, <2>8, <3>1 DEF Longer
    <3>3. p \in cut
      BY <2>3, <2>4, <3>2
    <3> QED BY <2>2, <3>3 DEF WritesTo
  <2> QED BY <2>7, <2>8
<1>2. FileInv /\ [Next]_vars => [Step]_vars
  BY <1>1
<1> HIDE DEF Step
<1>3. Spec => [][Step]_vars
  BY <1>2, FileInvariant, PTL DEF Spec
<1> QED BY <1>3 DEF HolesOnlyFromCuts, Step
=============================================================================
