----------------------------- MODULE FileStore -----------------------------
(***************************************************************************)
(* The files of the users and the children of the helper that work on      *)
(* them.  Every command comes on a connection of its own, for which the    *)
(* helper forks a process (runHelperLoop): create, chmod, delete, move,    *)
(* read, write, download, upload and transfer run side by side.  The       *)
(* system calls of a request are the steps; between any two of them other  *)
(* processes may work on the same names and files.  A member of Proc       *)
(* stands for one process after the other.                                 *)
(*                                                                         *)
(* A file is an inode: it is there as long as it has a name or is open.    *)
(* Record locks (fcntl) belong to a process and a file, bind only those    *)
(* who ask for them, and end when the process closes the file.             *)
(*                                                                         *)
(* A file's content is a sequence of chunks, each what one write call      *)
(* puts there.  Permission bits are abstracted: any call may fail.         *)
(***************************************************************************)
EXTENDS Integers, Sequences

CONSTANTS
  Proc,       \* children of the helper that may be there at a time
  File,       \* inodes
  NoFile,
  Home, Sub,  \* directories: the users' homes, which stay, and others
  HomeOf,     \* the home a directory is in
  Base,       \* names of files in a directory
  Datum,      \* chunks a client may send
  MaxSize     \* bound on the chunks of a file

Place == Home \cup Sub
Path  == [place : Place, base : Base]

Space == "space"
Null  == "null"
Chunk == Datum \cup {Space, Null}

ASSUME FileAssumption ==
  /\ NoFile \notin File /\ Home # {} /\ Base # {}
  /\ Home \cap Sub = {} /\ HomeOf \in [Place -> Home]
  /\ Datum \cap {Space, Null} = {}
  /\ MaxSize \in Nat

VARIABLES
  dirs,     \* the directories that exist
  names,    \* the file that has a path as its name
  content,
  lock,     \* lock[f][p]: the lock of p on f
  req,      \* the request of a process and how far it is
  cut       \* history: the processes that had a file truncated under their lock

vars == <<dirs, names, content, lock, req, cut>>

Ops == {"create", "chmod", "delete", "move", "read", "write",
        "download", "upload", "transfer"}

(* file and dest are the descriptors, pos the position in them; size is    *)
(* what fstat said, and for a write then the counter of its padding loop.  *)
Request == [op : Ops \cup {"none"},
            at : {"idle", "reopen", "lock", "openDest", "lockDest",
                  "unlink", "check", "rename", "stat", "seek", "pad", "put",
                  "send", "receive", "copy", "done"},
            path : Path, to : Place, offset : 0..MaxSize,
            file : File \cup {NoFile}, dest : File \cup {NoFile},
            pos : 0..MaxSize, size : 0..MaxSize]

Idle == [op |-> "none", at |-> "idle",
         path |-> CHOOSE path \in Path : TRUE, to |-> CHOOSE d \in Place : TRUE,
         offset |-> 0, file |-> NoFile, dest |-> NoFile, pos |-> 0, size |-> 0]

(* Type correctness: names lead to files, files hold chunks within the     *)
(* bound, and a request that locks or goes on has a descriptor to do so    *)
(* with: every open is checked before its descriptor is used.              *)
TypeOK ==
  /\ dirs \subseteq Place
  /\ names \in [Path -> File \cup {NoFile}]
  /\ content \in [File -> Seq(Chunk)]
  /\ \A f \in File : Len(content[f]) <= MaxSize
  /\ lock \in [File -> [Proc -> {"none", "shared", "exclusive"}]]
  /\ req \in [Proc -> Request]
  /\ \A p \in Proc :
       /\ req[p].at \notin {"idle", "reopen"} => req[p].file \in File
       /\ req[p].at \in {"lockDest", "copy"} => req[p].dest \in File
  /\ cut \subseteq Proc

(* A user's session lives in its home: chroot. *)
InSameHome(a, b) == HomeOf[a] = HomeOf[b]

(* Every path has its last name kept: dst/basename(src). *)
Target(p) == [place |-> req[p].to, base |-> req[p].path.base]

InUse(n, r, f) ==
  \/ \E path \in Path : n[path] = f
  \/ \E p \in Proc : f \in {r[p].file, r[p].dest}

(* What no name and no descriptor leads to is gone. *)
Reclaim ==
  content' = [f \in File |-> IF InUse(names', req', f) THEN content[f] ELSE <<>>]

Lockers(f) == {p \in Proc : lock[f][p] # "none"}

(* Mutant of Mode: a write takes the lock of its read-write descriptor      *)
(* shared.                                                                 *)
ModeOfWriteShared(op) ==
  IF op \in {"read", "download", "transfer", "write"} THEN "shared" ELSE "exclusive"

(* The shared lock is for those who read the file they open. *)
Mode(op) ==
  IF op \in {"read", "download", "transfer"} THEN "shared" ELSE "exclusive"

(* F_SETLKW waits until it is compatible with the locks of others. *)
Compatible(p, f, mode) ==
  \A q \in Proc \ {p} : lock[f][q] = "none"
                        \/ (lock[f][q] = "shared" /\ mode = "shared")

(* What a write call leaves: beyond the end it leaves a hole of nulls. *)
Longer(a, b) == IF a > b THEN a ELSE b
Put(s, pos, c) ==
  [i \in 1..Longer(Len(s), pos + 1) |->
     IF i = pos + 1 THEN c ELSE IF i <= Len(s) THEN s[i] ELSE Null]

At(p, step) == req[p].at = step
Goto(p, step) == req' = [req EXCEPT ![p].at = step]

(* Nothing is left to do but to close the file. *)
Done(p) == req' = [req EXCEPT ![p] = [Idle EXCEPT !.at = "done", !.file = req[p].file]]

Init ==
  /\ dirs = Home
  /\ names = [path \in Path |-> NoFile]
  /\ content = [f \in File |-> <<>>]
  /\ lock = [f \in File |-> [p \in Proc |-> "none"]]
  /\ req = [p \in Proc |-> Idle]
  /\ cut = {}

-----------------------------------------------------------------------------

(* What a request may ask for.  A move stays in the home of its user; a    *)
(* transfer takes a file of the sender's home to a directory of the        *)
(* recipient.  The offset of a read only decides whether it succeeds.      *)
Requests ==
  { r \in [op : Ops, path : Path, to : Place, offset : 0..MaxSize] :
      /\ CASE r.op = "move"     -> InSameHome(r.path.place, r.to)
           [] r.op = "transfer" -> r.path.place \in Home
           [] OTHER             -> r.to = r.path.place
      /\ IF r.op = "write" THEN r.offset < MaxSize ELSE r.offset = 0 }

(* create -d and the delete of a directory. *)
MakeDir(p) ==
  /\ At(p, "idle")
  /\ \E d \in Sub : d \notin dirs /\ dirs' = dirs \cup {d}
  /\ UNCHANGED <<names, content, lock, req, cut>>

RemoveDir(p) ==
  /\ At(p, "idle")
  /\ \E d \in Sub \cap dirs :
       /\ \A base \in Base : names[[place |-> d, base |-> base]] = NoFile
       /\ dirs' = dirs \ {d}
  /\ UNCHANGED <<names, content, lock, req, cut>>

(* open with O_CREAT: the file of that name, or a new one. *)
OpenOrNew(path, f) ==
  \/ names[path] = f /\ UNCHANGED names
  \/ /\ names[path] = NoFile /\ path.place \in dirs
     /\ ~InUse(names, req, f)
     /\ names' = [names EXCEPT ![path] = f]

(* O_TRUNC takes effect at once and asks nobody's lock. *)
Truncate(f) ==
  /\ content' = [content EXCEPT ![f] = <<>>]
  /\ cut' = cut \cup Lockers(f)

(* The first system call of request r.  Only some operations come back to  *)
(* the name.                                                               *)
ByName == {"create", "delete", "move", "transfer"}

Begin(p, r, f, step) ==
  req' = [req EXCEPT ![p] =
    [Idle EXCEPT !.op = r.op, !.at = step, !.file = f, !.offset = r.offset,
                 !.path = IF r.op \in ByName THEN r.path ELSE @,
                 !.to   = IF r.op \in ByName THEN r.to ELSE @]]

(* Mutant of Open: the descriptor is used without a look at it. *)
OpenUnchecked(p, r) ==
  /\ r.op \notin {"create", "upload", "write"}
  /\ Begin(p, r, names[r.path], "lock")
  /\ UNCHANGED <<dirs, names, content, lock, cut>>

Open(p, r) ==
  /\ r.op \notin {"create", "upload", "write"}
  /\ names[r.path] # NoFile
  /\ Begin(p, r, names[r.path], "lock")
  /\ UNCHANGED <<dirs, names, content, lock, cut>>

OpenToWrite(p, r) ==
  /\ r.op = "write"
  /\ \E f \in File : OpenOrNew(r.path, f) /\ Begin(p, r, f, "lock")
  /\ UNCHANGED <<dirs, content, lock, cut>>

OpenTruncated(p, r) ==
  /\ r.op \in {"create", "upload"}
  /\ \E f \in File :
       /\ OpenOrNew(r.path, f) /\ Truncate(f)
       /\ Begin(p, r, f, IF r.op = "create" THEN "reopen" ELSE "lock")
  /\ UNCHANGED <<dirs, lock>>

Start(p) ==
  /\ At(p, "idle")
  /\ \E r \in Requests : Open(p, r) \/ OpenToWrite(p, r) \/ OpenTruncated(p, r)

(* create opens the name a second time for the lock, and may find another  *)
(* file there.  It writes nothing through its first descriptor.            *)
Reopen(p) ==
  /\ At(p, "reopen")
  /\ names[req[p].path] # NoFile
  /\ req' = [req EXCEPT ![p].at = "lock", ![p].file = names[req[p].path]]
  /\ UNCHANGED <<dirs, names, lock, cut>>
  /\ Reclaim

(* What each operation does with its lock. *)
Then(op) ==
  CASE op \in {"create", "chmod", "read"} -> "done"
    [] op = "delete"               -> "unlink"
    [] op = "move"                 -> "check"
    [] op \in {"write", "download"} -> "stat"
    [] op = "upload"               -> "receive"
    [] op = "transfer"             -> "openDest"

(* Mutant of Lock: F_SETLK in place of F_SETLKW, and nobody looks. *)
LockUntested(p) ==
  LET f == req[p].file
      mode == Mode(req[p].op)
  IN /\ At(p, "lock")
     /\ lock' = IF Compatible(p, f, mode) THEN [lock EXCEPT ![f][p] = mode] ELSE lock
     /\ IF Then(req[p].op) = "done" THEN Done(p) ELSE Goto(p, Then(req[p].op))
     /\ UNCHANGED <<dirs, names, content, cut>>

Lock(p) ==
  LET f == req[p].file
      mode == Mode(req[p].op)
  IN /\ At(p, "lock")
     /\ Compatible(p, f, mode)
     /\ lock' = [lock EXCEPT ![f][p] = mode]
     /\ IF Then(req[p].op) = "done" THEN Done(p) ELSE Goto(p, Then(req[p].op))
     /\ UNCHANGED <<dirs, names, content, cut>>

-----------------------------------------------------------------------------

(* delete unlinks the name, whatever file has it by now. *)
Unlink(p) ==
  /\ At(p, "unlink")
  /\ names[req[p].path] # NoFile
  /\ names' = [names EXCEPT ![req[p].path] = NoFile]
  /\ Done(p)
  /\ UNCHANGED <<dirs, lock, cut>>
  /\ Reclaim

(* move looks at source, directory and destination, and then renames. *)
Check(p) ==
  /\ At(p, "check")
  /\ names[req[p].path] # NoFile
  /\ req[p].to \in dirs
  /\ names[Target(p)] = NoFile
  /\ Goto(p, "rename")
  /\ UNCHANGED <<dirs, names, content, lock, cut>>

Rename(p) ==
  /\ At(p, "rename")
  /\ names[req[p].path] # NoFile
  /\ req[p].to \in dirs
  /\ names' = [names EXCEPT ![Target(p)] = names[req[p].path],
                            ![req[p].path] = NoFile]
  /\ Done(p)
  /\ UNCHANGED <<dirs, lock, cut>>
  /\ Reclaim

(* fstat, under the lock: a download announces the size, a write decides   *)
(* with it how much to pad.                                                *)
Stat(p) ==
  /\ At(p, "stat")
  /\ req' = [req EXCEPT
       ![p].at = IF req[p].op = "write" THEN "seek" ELSE "send",
       ![p].size = Len(content[req[p].file])]
  /\ UNCHANGED <<dirs, names, content, lock, cut>>

(* Mutant of Seek: lseek to the offset, without padding. *)
SeekPastEnd(p) ==
  /\ At(p, "seek")
  /\ req' = [req EXCEPT ![p].at = "put", ![p].pos = req[p].offset]
  /\ UNCHANGED <<dirs, names, content, lock, cut>>

Seek(p) ==
  LET r == req[p] IN
  /\ At(p, "seek")
  /\ req' = [req EXCEPT
       ![p].at  = IF r.offset > r.size THEN "pad" ELSE "put",
       ![p].pos = IF r.offset > r.size THEN Len(content[r.file]) ELSE r.offset]
  /\ UNCHANGED <<dirs, names, content, lock, cut>>

Write(f, pos, c) ==
  /\ pos < MaxSize
  /\ content' = [content EXCEPT ![f] = Put(content[f], pos, c)]

Pad(p) ==
  LET r == req[p] IN
  /\ At(p, "pad")
  /\ Write(r.file, r.pos, Space)
  /\ req' = [req EXCEPT
       ![p].at = IF r.size + 1 < r.offset THEN "pad" ELSE "put",
       ![p].pos = r.pos + 1, ![p].size = r.size + 1]
  /\ UNCHANGED <<dirs, names, lock, cut>>

PutData(p) ==
  /\ At(p, "put")
  /\ \E c \in Datum : Write(req[p].file, req[p].pos, c)
  /\ Done(p)
  /\ UNCHANGED <<dirs, names, lock, cut>>

(* download sends until the end of the file. *)
Send(p) ==
  /\ At(p, "send")
  /\ req[p].pos < Len(content[req[p].file])
  /\ req' = [req EXCEPT ![p].pos = @ + 1]
  /\ UNCHANGED <<dirs, names, content, lock, cut>>

(* upload writes what arrives until the client is through. *)
Upload(p) ==
  /\ At(p, "receive")
  /\ \E c \in Datum : Write(req[p].file, req[p].pos, c)
  /\ req' = [req EXCEPT ![p].pos = @ + 1]
  /\ UNCHANGED <<dirs, names, lock, cut>>

(* transfer opens and truncates its destination under the lock of its      *)
(* source, then locks it, and copies to the end of the source.             *)
OpenDest(p) ==
  /\ At(p, "openDest")
  /\ \E f \in File :
       /\ OpenOrNew(Target(p), f) /\ Truncate(f)
       /\ req' = [req EXCEPT ![p].at = "lockDest", ![p].dest = f]
  /\ UNCHANGED <<dirs, lock>>

(* Mutant of LockDest: the destination is not locked. *)
SkipLockDest(p) ==
  /\ At(p, "lockDest") /\ Goto(p, "copy")
  /\ UNCHANGED <<dirs, names, content, lock, cut>>

LockDest(p) ==
  /\ At(p, "lockDest")
  /\ Compatible(p, req[p].dest, "exclusive")
  /\ lock' = [lock EXCEPT ![req[p].dest][p] = "exclusive"]
  /\ Goto(p, "copy")
  /\ UNCHANGED <<dirs, names, content, cut>>

Copy(p) ==
  LET r == req[p] IN
  /\ At(p, "copy")
  /\ r.pos < Len(content[r.file])
  /\ Write(r.dest, r.pos, content[r.file][r.pos + 1])
  /\ req' = [req EXCEPT ![p].pos = @ + 1]
  /\ UNCHANGED <<dirs, names, lock, cut>>

(* The descriptors are closed, and with them every lock is gone. *)
Close(p) ==
  /\ req' = [req EXCEPT ![p] = Idle]
  /\ lock' = [f \in File |-> [lock[f] EXCEPT ![p] = "none"]]
  /\ cut' = cut \ {p}
  /\ UNCHANGED <<dirs, names>>
  /\ Reclaim

(* A request ends when its last call is made; read returned 0 at the end   *)
(* of a download's or a transfer's file, or of what the client uploads.    *)
Finish(p) ==
  /\ \/ At(p, "done") \/ At(p, "receive")
     \/ /\ At(p, "send") \/ At(p, "copy")
        /\ req[p].pos >= Len(content[req[p].file])
  /\ Close(p)

(* A call fails (no such name, no permission, no space, a lock that would  *)
(* close a circle of waiting processes), or SIGPIPE ends the process,      *)
(* after whose exit the system closes its descriptors: what was done so    *)
(* far stays.                                                              *)
Fail(p) == ~At(p, "idle") /\ ~At(p, "done") /\ Close(p)

Next == \E p \in Proc :
  \/ MakeDir(p) \/ RemoveDir(p)
  \/ Start(p)
  \/ Reopen(p) \/ Lock(p)
  \/ Unlink(p) \/ Check(p) \/ Rename(p)
  \/ Stat(p) \/ Seek(p) \/ Pad(p) \/ PutData(p)
  \/ Send(p) \/ Upload(p)
  \/ OpenDest(p) \/ LockDest(p) \/ Copy(p)
  \/ Finish(p) \/ Fail(p)

Spec == Init /\ [][Next]_vars

-----------------------------------------------------------------------------

(* Data arrives in a file only while one process has it locked for itself. *)
(* The locks bind nobody who does not ask: every writer has to ask, on the *)
(* descriptor it writes to, and keep the lock to the end (write, upload,   *)
(* transfer).                                                              *)
DataNeedsLock ==
  [][\A f \in File :
       content'[f] \notin {content[f], <<>>} =>
         \E p \in Proc : Lockers(f) = {p} /\ lock[f][p] = "exclusive"]_vars

(* The size a download announced stays the size of the file until the last *)
(* chunk is sent, unless the file is truncated under the lock.  The        *)
(* handler's child reads exactly as many bytes as were announced: if they  *)
(* do not come, it waits for ever.                                         *)
AnnouncedIsThere ==
  \A p \in Proc :
    At(p, "send") /\ p \notin cut => req[p].size = Len(content[req[p].file])

(* What a transfer has copied is what the source has there, whoever else   *)
(* works on the two files, unless one of them is truncated under the lock. *)
CopyFaithful ==
  \A p \in Proc :
    LET r == req[p] IN
    At(p, "copy") /\ p \notin cut =>
      /\ r.pos <= Len(content[r.file]) /\ r.pos <= Len(content[r.dest])
      /\ \A i \in 1..r.pos : content[r.dest][i] = content[r.file][i]

Holes(s) == {i \in 1..Len(s) : s[i] = Null}

(* A hole of nulls comes into a file only where a write had the file       *)
(* truncated under its lock, or with a copy of one: the padding of write   *)
(* leaves none.                                                            *)
HolesOnlyFromCuts ==
  [][\A f \in File : \A i \in Holes(content'[f]) \ Holes(content[f]) :
       \E p \in Proc :
         /\ lock[f][p] = "exclusive"
         /\ p \in cut \/ (At(p, "copy") /\ i \in Holes(content[req[p].file]))]_vars
=============================================================================
