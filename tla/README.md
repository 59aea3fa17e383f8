# A TLA+ development of csp-project

csp-project is a file server for Unix accounts: a server with one process per
client connection, a privileged helper with one process per request, and an
interactive client with several threads.  This directory holds TLA+ models of
it, TLC configurations that check them on small instances, and proofs that
TLAPS checks for every instance.  Paths are relative to the repository.

## 1. Inventory

| Component | Source | State it keeps | Operations |
|---|---|---|---|
| Registry and handlers | `src/server/handler/handlers.c`, `initSharedRegistry` in `helper.c`, `net/net.h`, accept loop of `core/server.c` | shared memory: `online_users`, `pending`, `global_id_counter`, semaphore `mux`; per handler: `ClientSession`, `transfer_signal_received` | `login`, `transfer_request`, `accept`, `reject`, `check_for_notifications`, `cleanup_user_requests`, the end of `handleClient`, SIGUSR1 |
| Client threads | `src/client/worker.c`, `main.c` | `should_exit`, `waiting_for_response`, `bg_ops_count`, `is_writing_content`, `lock`, `response_lock`, `response_cond`, `bg_lock` | writer, reader, one thread per download or upload, cancel and join in `main` |
| Helper file operations | `src/server/helper/helper.c`, locks of `common/utility.c` | files and directories, record locks | create, chmod, delete, move, read, write, cd, ls, upload, download, transfer |
| Data channel | `handleDownload`, `handleUpload`, their helper halves, the client's transfer threads | data socket, byte counts | fork, accept, copy, conclude |
| Wire protocol | `src/server/net/net.c`, `readAll`/`writeAll`, `sendProtocolMsgLocked` | byte streams, record lock on the client socket | framed messages of handler, children and helper |
| User accounts | `createUser` in `helper.c`, `utils.c` | system accounts, home directories, creation lock | create, undo |
| Start and shutdown | `core/server.c`, `main.c` | listening socket, children, shared segment | accept loop, reaping, `performFullCleanup` |
| Command relays | the other handlers of `handlers.c` | `workdir` of the session | check arguments, relay, answer |
| Privileges and sandbox | `utils.c`, `sandboxUserToHisHome` | effective ids, root directory | chroot, change of ids |

**How they interact.**  The client writes a framed command; its handler reads
it, either works on the registry or connects to the helper over a Unix socket
and relays the answer.  The helper forks for each connection.  Handlers share
the registry and wake each other with SIGUSR1.  A download or upload forks a
child of the handler which listens on a data port; the client starts a thread
that connects to it; the child later writes "concluded" on the command
connection that the handler also writes to.

**What is hard.**

* Many handlers search and update one table; a signal can arrive anywhere. It is
  delivered without `SA_RESTART` (`handlers.c:69`), so it also ends blocking
  calls, `sem_wait` among them, whose result nobody checks.
* What one handler read under the lock is used after it (`target_pid`), when the
  process may be gone or its pid reused.
* A handler can die at a write (SIGPIPE is not ignored) without cleaning up.
* The client's answer and its writer race between the prompt and the wait; the
  count that guards `exit` is updated by several threads, and the writer
  unlocks a mutex it does not hold (`worker.c:265`).
* Name checks and file locks of the helper are separate from the operations on
  the names; data transfers wait on three processes with no timeout.
* A signal ends the wait for the helper's answer, not the work: the command is
  reported as failed and takes effect later.
* "concluded" is told before an upload is stored, and the child of a transfer
  writes on the same connection as its parent, which takes no lock for replies.
* The helper is started as root by a process that then gives up root, and it,
  its creations of accounts, and handlers outlive a shutdown and meet the next
  server in the same directory.

**What makes each component correct.**

* Registry: no two handlers inside a critical section; the semaphore never
  lost; each request in one slot or over in one way; only the receiver answers;
  a listed user has a live handler; a handler that leaves gets out.
* Client: the prompt returns exactly when the foreground command was answered;
  `exit` does not cut off a background transfer, unless the count was spoiled before;
  the process ends.
* Files: data is written under an exclusive lock only; what a download announced
  stays until it is sent; what a transfer has copied so far is what the source has;
  padding leaves no holes.
* Data channel: copies are whole; what is reported concluded is there for the
  next download; ports are announced, unless a signal ends the announcement; no
  standstill while everybody is alive.
* Wire: messages of those who take the lock do not mix and are whole, unless a signal
  ends one within; requests are requests.
* Accounts: creations exclude each other; an account has its home; what was
  reported as created stays.
* Shutdown: everybody listed is ended, nobody with the semaphore in its hands, unless
  a signal has let a handler past the semaphore without it (`sem_wait`, EINTR); the next server's table is its own; the helper ends (it does not).
* Sessions: the working directory is the one the client was told of; commands
  take effect before they are answered; every command is answered.

`PROJECT.json` lists the hazards one by one with their lines and the properties
that cover them.

## 2. Modules

| Module | What it is |
|---|---|
| `TransferRegistry` | the registry and its handlers, one action per step between two points where others can interfere |
| `TransferLifecycle` | what the registry promises about one request, without slots, semaphore or processes |
| `TransferRegistryProofs` | theorems about the types and the semaphore of `TransferRegistry` |
| `RequestProofs` | theorems about its requests and its online table, and the refinement of `TransferLifecycle` |
| `MCTransferRegistry` | its small instances |
| `ClientThreads` | the threads of one client, with the server and the user as environment |
| `ClientProofs` | theorems about `ClientThreads` |
| `MCClientThreads` | its small instances |
| `FileStore` | names, files and record locks under the requests of the helper's processes |
| `FileProofs` | theorems about `FileStore` |
| `MCFileStore` | its small instances |
| `DataChannel` | downloads and uploads of one client: handler, its children, helper processes, client threads, and their messages on the command connection |
| `DataChannelProofs` | theorems about `DataChannel` |
| `MCDataChannel` | its small instance |
| `ServerLifecycle` | start and shutdown of servers one after the other, with helper, registry segment, handlers and the creation of accounts |
| `AccountProofs` | theorems about the accounts of `ServerLifecycle` |
| `ServerProofs` | theorems about its tables, semaphores and shutdown |
| `MCServerLifecycle` | its small instances |
| `Sessions` | the commands that handlers relay to processes of the helper, the sessions' working directories, and directories that come and go |
| `DirectoryService` | what a connection is promised about its directories: calls that take effect once, before they are answered, without handlers and helper; `Sessions` implements it |
| `SessionsProofs` | theorems about `Sessions` |
| `MCSessions` | its small instance |

The modules share no variables.  Where one takes what another shows: the table of
`ServerLifecycle` holds process ids that name one live handler each, which is
`NoGhostOnline` of `TransferRegistry`; `OtherCommand` there is any command of
`Sessions`; the data of a file request is in `FileStore`; and the lock that
`DataChannel` takes for a whole stream is the record lock of `FileStore`.

### TransferRegistry

`mux`, `online`, `pending`, `counter` are the shared segment.  `pc[h]`,
`work[h]`, `session[h]`, `flag[h]` are where handler process `h` is, the locals
of the command it executes, the user of its `ClientSession`, and its
`transfer_signal_received`.  A handler is named by its pid; `"dead"` pids are
free and `Connect` may take one again.

| `pc` | Code |
|---|---|
| `check` | the test of the flag at the head of the loop (`handlers.c:154`) |
| `read`, `payload` | blocked in the read of a header, of a payload |
| `wait` | at `sem_wait`, `work[h].op` says of which section |
| `scan`, `commit` | inside a critical section: the search, the update |
| `signal` | at `kill(target_pid, SIGUSR1)`, after `sem_post` |
| `reply`, `send` | writing an answer, writing notifications |
| `clear` | at the clearing of the flag |
| `leave` | the loop has ended |

Sections that search one slot and then fill or free it are two steps, so that a
second process inside could act on the same slot: that is what mutual exclusion
protects.  The sections that update as they go (`Notify`, `Cleanup`, `Offline`,
`Poll`) are one.

`Kill` is the delivery of SIGUSR1.  The target may be in a blocking call, which
returns EINTR (`Landing`): the header's read restarts the loop, the payload's
read ends the session, `sem_wait` returns without the semaphore; or just before
or after the call.  A dead pid takes no signal.  `Sigpipe` ends a handler at a
write.  That a client closes is seen by the handler only at a read (`Eof`) or a
write (`Sigpipe`).

History variables (`interrupted`, `killed`, `taken`, `reported`, `dropped` and
the field `req` of a slot) are read by properties only.  `taken` is the sequence of accepted request
numbers, so that a request accepted twice is in it twice, whoever accepted it.  `req` is
the number a slot was filled for: the code zeroes `id` while a rejected request still
has its slot.

Abstracted: file names, helper traffic of login and accept (a command that fails
there is `OtherCommand`, or an accept whose slot is freed all the same, as in the
code), the texts of replies, and partial reads and writes of a message.

### TransferLifecycle

A request is `none`, `pending`, `notified`, `accepted`, `rejected`, `reported` or
`dropped`.  `Hear(u)` is a look of user `u` at its notifications, `Accept` and
`Reject` are moves of the receiver, `Drop(u)` the end of the receiver's session.
`TransferRegistry` maps its slots and history to it (`RequestView`) and
`ImplementsLifecycle` says that each of its steps is one of these or none, until
a `sem_wait` is interrupted.

### ClientThreads

`writer`, `reader` and `thread[t]` are where the threads are; the other
variables carry the names of the code, and `toServer`, `toClient`, `child` are
the connection and the server's children behind the data ports.

* The wait loop is `test` (holding `response_lock`), `wait` (condition found
  true, about to sleep) and `asleep`; `Sleep` releases the lock and sleeps in one
  step, as `pthread_cond_wait` does.  `Reset` needs the lock, `WakeWriter` (the
  reader that found the connection closed) does not take it.
* `bg_ops_count++` and `--` are a read and a write of a volatile variable under
  `bg_lock`; `TestCount`, `ReadCount`, `WriteCount` are a transfer thread's.
* `UnlockAndPrompt` unlocks `bg_lock` without holding it.  POSIX leaves that
  undefined; the model takes what the default mutexes of glibc do, namely the lock
  is free afterwards whoever had it.
* A message whose answer the client must wait for has `is_background = FALSE`;
  `DATA_PORT` messages have it too but do not end the wait.
* Client and server read `-b` by different rules.  The client counts every command whose
  last word it is (`IsBackground`); the server answers in the background only a transfer with
  `-b` as its fourth word (`InBackground`).  `"plain -b"` and `"transfer to -b"` (`download x -b`)
  are commands the two disagree about: the client does not wait, the server answers in the
  foreground, and `misused` notes it.  A transfer typed without `-b` was never counted,
  and its thread takes the count down all the same: `miscounted` notes that.
* The reader takes cancellation at its read and at its printing; a transfer
  thread or the writer may die of SIGPIPE with the process.

Abstracted: the stdout lock (each of its sections is one step), wording,
`is_writing_content` (it chooses a line to print), file contents, and whether a
transfer is a download or an upload, which take the same steps here.

### FileStore

`names` maps a path to the file (inode) that has it, `content[f]` is a sequence of
chunks, `lock[f][p]` the record lock of process `p`, `dirs` the directories.
`req[p]` is the request a process of the helper serves: its operation, arguments,
descriptors, file position, and where it is:

| `at` | The next call |
|---|---|
| `idle` | accept, fork and the request's first `open` (`Start`): `Open`, `OpenToWrite` (`O_CREAT`), `OpenTruncated` (`O_TRUNC`) |
| `reopen`, `lock` | the second `open` of create, `F_SETLKW` |
| `unlink`; `check`, `rename` | delete; the `stat`s and the `rename` of move |
| `stat`, `seek`, `pad`, `put` | `fstat` of write and download, `lseek`, the padding loop, the data |
| `send`, `receive` | the loops of download and upload |
| `openDest`, `lockDest`, `copy` | transfer, with the source open and locked |
| `done` | about to close its descriptors |

A request's arrival is joined with its first `open`, before which it has no effect; a
transfer's `Copy` is a read of its locked source and a write to its locked destination.
A transfer truncates its destination when it opens it (`helper.c:949`) and locks it later
(`:965`): what another process writes in between stays behind the copy if it is longer, so
`CopyFaithful` is about the part that was copied and not about the length.
The locks follow `fcntl`: a process never waits for itself, a second lock replaces
the first, closing the descriptors ends them all.  Truncation by `open` asks for
no lock.  `Fail` ends a request at any point: a call failed (permissions, a full
disk, EDEADLK between crossing transfers), or the process died of SIGPIPE; what
was done so far stays.  A file with neither name nor descriptor is reclaimed.
`cut` is history: the processes that had a file truncated under their lock.

Abstracted: permission bits (chmod is its lock and a failure or not), users other
than by the home a path is in, directories below the first level, symbolic links,
what a read returns; one write call puts one chunk.

### DataChannel

`handler` is the parent (reading, about to write a port, in the middle of a
message, gone), `lock` the holder of the `fcntl` lock of the command socket,
`wire` what is on it: each message is a header and a payload, in two writes.
`ch[c]` has the four parties of transfer `c` and what is between them: `child`,
`helper`, `thread`, the block in the data connection (`sock`) and in the helper's
(`pipe`), the helper's answer and announced `size`, and how far each got.  `file`
is the one file of the server all transfers are about, a sequence of blocks named
for the upload that wrote them.

* `PortHeader` and `TellHeader` take the lock (`sendProtocolMsgLocked`);
  `ReplyHeader` and `ReplyPayload` do not (`sendProtocolMsg`).
* A write to a full connection blocks, and SIGUSR1 ends it like the wait for the lock
  (`writeAll` gives up, `utility.c:22`).  `PortInterrupted` and `ReplyInterrupted` are the handler's:
  in the wait for the lock the port is lost; in the write of a header nothing or a piece
  of it is left on the wire, in that of a payload its header is left alone, or with a piece
  of the payload.  The lock is released all the same and the handler goes on.
* A reader that finds a header where it expects a payload is out of step
  (`ReadTorn`); what it reads from then on means nothing.
* A helper process opens the file (an upload truncates it, without a lock), waits
  for its lock, and keeps it until its connection ends.
* A child reports an upload as concluded when its client's stream has ended; what
  is in the pipe is stored later.
* Every `open`, `connect`, `fopen`, `fwrite` and `write` to the disk may fail, and
  the client's process may end at any time.

Histories: `spoiled` (an unlocked reply and a locked message were written
together, or a signal ended a message of the handler within it), `diskError`, `alone` (no other upload since this one opened the file),
`unannounced` (the port was lost, or its message cut short, by a signal), `after` (uploads heard of as
concluded when this transfer began).

Abstracted: offsets inside a block, the number of the port, refusals while the
wait for a record lock is itself interrupted, names (one file).

### ServerLifecycle

`main` is the main process with the server's number and the next entry of the
table to scan; `helper[g]`, `mapped[g]` the helper of server `g` and the segment it
has in its memory; `socket`, `segment`, `lockFile` which server's socket, segment and
lock file are at their names now; `online[g]`, `mux[g]` the table and semaphore of
segment `g`; `proc[h]` a handler and `maker[m]` a process of a helper that creates an
account; `account`, `dirs`, `owned` the accounts, the directories in the root and the
homes given to their user.

`Boot` to `Sandbox` are `main` and `createServer`, each of which may fail
(`StartFails`); `KillHelper` to `RemoveNames` are `performFullCleanup`: the refused
kill, the semaphore, the entries one by one, the semaphore again, the names.
`OpenLock` to `Release` are `CreateSystemUser`, whose lock is on the file that was at
the path when it was opened, and whose undo (`deluser`) may or may not take the
directory along, as it depends on the directory's owner.  `Interrupt` is SIGINT from the
terminal, which ends all processes of one server; what was in the works then
(`spoiled`) has no promise.

A handler waits for the semaphore at `wait` (login) and `leave` (its way out) and is inside at
`insert` and `remove`; it gets there by `Enter`, with the semaphore, or by `EnterInterrupted`, when
SIGUSR1 ended its `sem_wait` and it goes on without (the result is not checked, `handlers.c:193`,
`:296`).  The other sections of a handler, of which `cleanup_user_requests` (`handlers.c:131`) is one
on the way out, do not touch the table and are `TransferRegistry`'s; what remains of them
here is the `sem_post` of one that was entered in this way (`PassInterrupted`).  A `sem_post` counts
however its section was entered, so `mux` is a number and may exceed one.  A signal is
sent to process ids that a table lists or has listed (`known`), as `target_pid` is read under
the lock and used after it.  `intruded` is history: the segments whose semaphore was
passed without its count.

Handlers that are not listed, and makers, outlive a
shutdown and go on with what they have mapped and opened.

Abstracted: user ids, the reaping of children (nobody reads what it changes), the
restart of a server in another directory.

### Sessions

`session[s]` is a handler with its `ClientSession`, `worker[w]` a process of the helper
with its copy of the request and the session, `dirs` the directories of the user's
home.  `Ask` is `connectToHelper` and the writes of `sendHelperRequest`, `Receive` what
the handler does with the answer, `Reply` its own answer and the close that ends the
helper's process.  `Sandbox` is `chroot`, `chdir` to the copied working directory and
the ids; it fails, whatever the command, when that directory has gone.  `Interrupt`
is SIGUSR1 in `readAll`: the process goes on as an orphan, writes its answer to nobody,
and the session's next command may be under way by then.

`orphan` is history.  `moved` marks the time between a cd's answer from the helper and
the handler's own.

Abstracted: files (`FileCommand` is the relay of a command on a file), permissions,
arguments and their checks (`Refuse`), moves of directories.

### DirectoryService

`cwd[s]` is the directory connection `s` was last told it is in, `dirs` the directories
that exist, `call[k]` a call under way.  A call is `asked`, `inside` its directory,
`done` or `failed`; `TakeEffect` is the one step that makes or removes a directory, and
`Return` the one that tells its connection of a new one.  A call may fail after it was
done.  A call its client gives up on is nobody's from then on, and may still take effect,
once; its connection may make the next one meanwhile.

In `Sessions` a call is a process of the helper (`CallView`): `asked` until it has its
sandbox, `inside` until its effect, then `done` or `failed` as its answer says, whether that
answer is still in its hands, with the handler, or (after a cd) already the handler's
working directory; an orphan is a call given up, and `Told` is what the client was told.

## 3. Runs

| Run | Module, cfg | Shows |
|---|---|---|
| `registry_safety` | `MCTransferRegistry`, `TransferRegistry_safety.cfg` | `EveryRequestAccountedFor`, `AcceptedOnce`, `OnlyReceiverAnswers`, `ImplementsLifecycle` with two handlers, two users, two slots, two requests |
| `registry_faults` | `TransferRegistry_faults.cfg` | `TypeOK`, `NoLostMux`, `MutualExclusion`, `NoGhostOnline` with EINTR, SIGPIPE and reused pids |
| `registry_live` | `TransferRegistry_live.cfg` | `MuxReleased`, `LeaveLeadsToExit` under fairness |
| `registry_eintr` | violation | EINTR in `sem_wait` puts two handlers into a section |
| `client` | `MCClientThreads`, `ClientThreads.cfg` | `TypeOK`, `PromptIffAnswered`, `CountCovers`, `ExitLeavesNothing` with two transfers |
| `client_live` | `ClientThreads_live.cfg` | `AnswerEndsWait`, `MainExits` under fairness |
| `client_wakeup` | violation | the signal of a closed connection falls between test and wait |
| `files` | `MCFileStore`, `FileStore.cfg` | `TypeOK`, `DataNeedsLock`, `AnnouncedIsThere`, `CopyFaithful`, `HolesOnlyFromCuts` with any sequence of requests of two processes |
| `data_channel` | `MCDataChannel`, `DataChannel.cfg` | `TypeOK`, `RequestsAreRequests`, `NoStandstill`, `ReadyMoves`, `PortAnnounced`, `ReaderInStep`, `LocalFileWhole`, `StoredWhole`, `UploadVisible` with two transfers on one file |
| `server` | `MCServerLifecycle`, `ServerLifecycle.cfg` | `TypeOK`, `CreationExclusive`, `AccountHasHome`, `CreatedStays`, `TableOfOneServer`, `NoListedSurvivor`, `SemaphoreInHands` with two servers one after the other |
| `server_restart` | violation | after a shutdown the helper still accepts |
| `sessions` | `MCSessions`, `Sessions.cfg` | `TypeOK`, `EveryCommandAnswered`, `ImplementsService` with two sessions of a user and nested directories |

**Bounds.**  Two handlers are enough for every race of a pair: each race here is
between two processes over one slot, one entry or the semaphore, and reused pids
let two processes play the parts of many connections over time.  Two slots and two
requests let a search pass over a slot and let requests of both directions
coexist; with one slot the table is full after one request.  Two users are a sender
and a receiver, and with handlers logged in twice as one user, two sessions of a
user.  `MaxId` bounds the number of requests of a behaviour (the counter is an
`int`), counting those on their way.  `registry_safety` leaves out the states after
an interrupted `sem_wait` or a SIGPIPE (constraint `Undisturbed`): its properties
promise nothing after the first, and the second is explored by
`registry_faults`.  `registry_live` has one user, so that the state graph fits
the liveness check; two handlers still compete for the semaphore.

For the client, two transfer threads and the writer are the three parties of the
count; `MaxOps` = 2 lets the count exceed one; `MaxQueue` = 1 command and 1 message
under way in each direction, next to those in the hands of the threads, is all the
waiting writer leaves room for in the foreground, and a full connection blocks its
writer in reality too.  `OneSpoiled` ends behaviours of `client` when both `misused` and
`miscounted` are true: each of its properties promises nothing after one of the two, and only the
types go on, which are proved.  `client_live` has one transfer.

For the files, two processes at a time run any number of requests over three paths
(two homes, one of them with a directory, one name in each, so that requests
meet) and two inodes: a new file next to one that lost its name, both files of two
crossing transfers, a source and the file a rename replaces.  `MaxSize` = 2 chunks let a file
shrink, grow, be padded, and be copied half.

For data, two transfers of either kind on one file are every pair of a cut, a
mixture, a wait for the record lock, and two children next to their handler on
one connection of `MaxWire` = 2 writes.  `MaxBlocks` = 2 lets a file be cut to
half of what was announced, and a second upload write over the beginning of the first.
`OneAfterTorn`: what a reader out of step reads means nothing, and the transfers that are
under way go on by themselves; from then on the run follows behaviours in which one child at a
time is at work.  The theorems need none of these bounds.

For servers, two one after the other meet everything the first leaves.  Two handlers, two
creations and two entries are a pair in each of the races; one of the names is
`tmp`, which is a directory of the server and a valid user name as well.  The
constraint `Few` lets one of the pairs be complete at a time: two handlers and one creation
that is over, or two creations, of one name while both are under way, and one handler that does
not log in or out next to the second.  Creations and the table meet in nothing but the
process that asks for both.  The semaphore of one segment at most is passed without its count in
a behaviour, any number of times, and no creation goes on after that.  Behaviours end with the
last server.

For sessions, two of one user, two processes of the helper at a time, and
directories `a` and `a/b`, so that a directory can be somebody's working directory, or
hold one, when it is removed.  `OneOrphan` keeps one orphan at a time, `FirstFree` uses
alike processes in order; the proofs need neither.

Symmetry is used in safety runs only.

**Deadlock.**  The runs of the registry, the files and the sessions check it: a
handler can always connect or go on.  The others do not: the client's process ends,
or sleeps for ever (`client_wakeup`), the transfers of a behaviour are over (what a
standstill before that would be is `NoStandstill`), and the last server ends.

**Fairness.**  `TransferRegistry`: a live process keeps running (weak fairness of
`Step(h)`), and a semaphore released again and again is acquired in the end
(strong fairness of `SemWait(h)`; a poll sleeps a second between two attempts and
everybody else goes to a socket).  Clients, `Connect` to `Sigpipe`, owe nothing.
`ClientThreads`: the three kinds of threads run, and `response_lock` is taken in
the end by the reader (strong fairness of `Reset`), since spurious wakeups may
take it again and again; the user, the server, data connections and spurious
wakeups owe nothing.  The other modules assume none: `NoStandstill` says that
somebody is ready to move (`SomebodyReady`, the guards of their next steps) and
`ReadyMoves` with `ENABLED` that who is ready can move; `EveryCommandAnswered` says that
a wait is for something.

## 4. What the violations say

Each is a disagreement of the code with one of its comments, messages or the
README; `findings` in `PROJECT.json` quotes them: EINTR in `sem_wait`
(`registry_eintr`), a wakeup that is lost (`client_wakeup`), a helper that is not
ended (`server_restart`).  These, and other things the code does, are the
reason for the conditions in the properties:

| Condition | What it stands for |
|---|---|
| `~interrupted` (registry) | no `sem_wait` ended with EINTR |
| `killed` in `NoGhostOnline` | a handler that died of SIGPIPE stays listed |
| `cut` (files) | a file truncated before its lock was asked for; a write's padding is then off |
| `intruded` in `NoListedSurvivor`, `SemaphoreInHands` | SIGUSR1 ended the `sem_wait` of a handler of that segment: it may list itself behind the scan of the cleanup, or be ended inside its section |
| `~miscounted` in `CountCovers`, `ExitLeavesNothing` | a foreground transfer took the count down, or `bg_lock` was unlocked by somebody else |
| `~misused` in `PromptIffAnswered`, `AnswerEndsWait` | a command the server answers in the foreground was counted as background: any with `-b` last that is not a transfer, and a transfer with `-b` as its third word |
| `spoiled` in `ReaderInStep` | a reply without the socket lock was written together with a message, or a signal ended a message of the handler after it had begun |
| `unannounced` in `PortAnnounced` | a signal ended the handler's wait for the socket lock, or its blocked write of the header or the payload, and the port did not arrive |
| `Stuck` in `NoStandstill` | the file was cut below the announced length, and child and helper wait for each other |
| `alone`, `diskError` in `StoredWhole`, `UploadVisible` | two uploads had the file open; the disk was full |
| `spoiled` in `AccountHasHome` | a creation was cut off, or `deluser` failed |
| calls nobody waits for in `ImplementsService` (`GiveUp`) | a signal ended the wait for an answer; the process goes on as an orphan |

A receiver that rejects a request and leaves before its sender has looked takes the
rejection with it (`cleanup_user_requests`); `TransferLifecycle` has that as `Drop`.
A SIGUSR1 between the test of the flag and the read (`handlers.c:154`) is seen with the
client's next command only; nothing promises more.

## 5. Proofs

Every invariant (but `ReadyMoves`, which is about `ENABLED`), every action property
without fairness, and both refinements that the runs check are proved as well, for every value of the constants that the named
assumption of the module allows.  No theorem assumes more than that, and each is
about the `Spec` (or `[Next]_vars`) that TLC runs.  TLC finds the inductive
invariants to hold on the instances of the runs as well.

### Registry

`TransferRegistryProofs` proves for all finite sets of handlers, all sets of users
and all table sizes, from `RegistryAssumption` alone:

* `TypeCorrect`: `Spec => []TypeOK`.
* `MuxNeverLost`: `Spec => []NoLostMux`.
* `SectionsExclude`: `Spec => []MutualExclusion`.

`TypeOK` is inductive; `StepTypes` collects one lemma per kind of step.  The other
two need more than they say: that nobody is inside says nothing of `mux`, and
that `mux = 0` says nothing of how many are.  The inductive invariant `SemHeld`
ties them together: with no interruption so far, `mux` is 1 when nobody is inside
and 0 when exactly one is; with interruptions, a 0 still has somebody inside.
The lemmas `StepKinds` and `NextKinds` reduce the thirty actions to a few kinds by
what they do to `mux` and to the set of handlers inside (stay put, enter, leave,
be signalled), so that the induction has one case for each kind.

`RequestProofs` builds on these and proves, from the same assumption:

* `AllAccountedFor`: `Spec => []EveryRequestAccountedFor`.
* `NoSecondAccept`: `Spec => []AcceptedOnce`.
* `ListedAreServed`: `Spec => []NoGhostOnline`.
* `ReceiverDecides`: `Spec => OnlyReceiverAnswers`.
* `RegistryImplements`: `Spec => ImplementsLifecycle`.

The inductive invariant is `IInv == LoggedIn /\ Budget /\ Tables`.  `Tables` holds
as long as no `sem_wait` was interrupted, since all of it rests on mutual exclusion:

* `SearchesHold`: what a search found is still so when its handler comes to the update.
  Between the two the handler has the semaphore, and `OutsideTables` shows that nobody
  outside a section touches the tables.
* `Requests`: the requests in slots are different, numbered up to `counter`, and
  none of them is over; what is over is over in one way, once; none is lost.  An accept
  appends to `taken` the request of a slot, which by this is not in it yet, even if the
  same handler accepted it.
* `Entries`: an active entry is of a handler that is logged in as that user, unless
  it was killed, and is the first of its pid, which is the one `Offline` finds.

`LoggedIn` gives a command its user, without which `OnlyReceiverAnswers` would be about
nobody; `Budget` says that the requests on their way to a number fit in `MaxId`.
For the refinement every action is shown to be a `Create`, `Hear`, `Accept`, `Reject`
or `Drop` of `TransferLifecycle` under `RequestView`, or to leave the view as it is.

Its last section is what the two liveness properties of the registry rest on, without
fairness and without `ENABLED`, interrupted waits included:

* `NobodyInsideIdle`: `Spec => []SectionsHaveWork`.
* `SectionsEnd`: `Spec => SectionsGoThrough`.
* `LeavingEnds`: `Spec => ExitsComeCloser`.

Whoever is inside a section has one to go through, each of its steps is the one from the
search to the update or posts the semaphore, and nobody else moves it; and a handler
whose loop has ended is at most five of its own steps from its exit, of which no step
of others takes any back.  What is left to fairness, and to TLC, is that these steps
are taken.  The invariant behind it, `Working`, says which commands can be at which
label: a command of the way out is at `wait` or `scan` only.

### Sessions

`SessionsProofs` proves for all sets of sessions and processes and all trees of
directories, from `SessionsAssumption` alone:

* `TypeCorrect`: `Spec => []TypeOK`.
* `NobodyWaitsInVain`: `Spec => []EveryCommandAnswered`.
* `ServiceImplemented`: `Spec => ImplementsService`.
* `WorkdirTold`: `Spec => []ToldIsWorkdir`, and `EffectsInOrder`:
  `Spec => EffectBeforeAnswer`, which say of the code's own variables what the refinement
  says of the view; no run checks them.

Their inductive invariant `Inv` has to say that sessions and processes belong
together one to one (`Linked`), or an answer could reach another session; that a
process at work is an orphan or has somebody who waits for it, and has not answered
(`Answering`); and that the working directory differs from what the client was told
only while the answer to a cd is on its way (`Knows`).  Steps are reduced to a few
kinds: a process moves on or ends, a handler rests, asks, or hangs up.

The refinement needs `Paired` besides: a process that was not given up belongs to a session
that has it and, until it is done, waits with the same command; a session that waits has not
given up its process; and a cd whose directory is about to be told is one that worked.
Each action is then a step of one call of `DirectoryService`, of one connection, or leaves
the view as it is.  Two processes that take steps in any order show as two calls
that do not notice each other, and the race between a signal and an answer is a
`GiveUp` before or after the effect.

### Servers and accounts

`AccountProofs` proves for all numbers of servers and table slots and all sets of
processes and names, from `ServerAssumption` alone:

* `CreationsExclude`: `Spec => []CreationExclusive`.
* `CreatedForGood`: `Spec => []CreatedStays`.
* `HomeForAccount`: `Spec => []AccountHasHome`.

The inductive invariant `Inv` joins the three with what they rest on.  `OneLock`:
there is one lock file, never replaced, so that whoever is past its lock has the
same one (an older server's helper goes on with it).  `NameHeld`: a name is free,
or taken, as its creation found it until that creation is done, which is why an
undo never takes an account somebody else was told of.  `Alone`, the lemma that
uses both, says that a process at work on an account is the only one.

`ServerProofs` proves from the same assumption, about the tables:

* `ServerTypes`: `Spec => []TypeOK`.
* `TableOwnHandlers`: `Spec => []TableOfOneServer`.
* `CleanupReaches`: `Spec => []NoListedSurvivor`.
* `SemaphoreReturns`: `Spec => []SemaphoreInHands`.

`ServerInv` says that a server has a segment of its own from `initSharedRegistry`
on (`OwnSegment`), that handlers have the one of their server (`Residents`), that a
listed process was a handler of that server and that if its id is in use now, it is by
one of that server or a later one (`Listed`).  As long as nobody passed the semaphore of a
segment without its count, handlers inside a section have it, one at a time and not while
the cleanup scans (`Holders`, by `InSection`, `Within` and `Exclusive`), so that nobody of a
running server is ended inside, and the scan leaves nobody alive behind it (`Scanned`).  The
first two parts, and with them `TableOwnHandlers`, hold after an interrupted `sem_wait` as well.

### Client

`ClientProofs` proves for all finite sets of transfer threads and all bounds of
queues and count, from `ClientAssumption` (there is a transfer thread):

* `ClientTypes`: `Spec => []TypeOK`.
* `PromptAndAnswer`: `Spec => []PromptIffAnswered`.
* `CountEnough`: `Spec => []CountCovers`.
* `ExitIsClean`: `Spec => ExitLeavesNothing`.

Already the type of `bg_ops_count`, a number that may be negative, needs an argument: each
transfer thread tests the count once, and takes one away only if it found one
(`BoundedBelow`); a command is counted only while there is room (`BoundedAbove`).
`Ports` says that a port is announced once, to a thread that was not started, by a
child that waits for it.  `CountInv` is the protocol of `bg_lock`, as long as the lock was not
taken away and no foreground transfer was counted down (`~miscounted`): who is under
the lock is alone and has read the count as it is (`Locked`), and the count is at
least the background commands in the writer's hands and in the queue and the transfers whose
port is announced or in use (`Covered`).  `ExitIsClean` is a corollary of it and of the test
of `exit`, so it has the same condition; a count that stays too high is not excluded by
either, and only keeps the user from leaving.  `ForegroundInv` says, with an open
connection and `~misused`, that a foreground command or its answer is in one place
(the queue, a child, the answers, the reader's hands), and that the writer
waits while it is; `AwaitedInv` is the converse, that what a writer about to wait or
asleep waits for is somewhere, so that no answer was taken off the connection and forgotten.
The count is compared with the cardinality of sets; lemmas of
their own say what `Append` and `Tail` do to the set of marked places of a queue.

### Files

`FileProofs` proves for all sets of processes, files and names and every size of
files, from `FileAssumption` (there are a home and a name):

* `FileTypes`: `Spec => []TypeOK`.
* `SizeStands`: `Spec => []AnnouncedIsThere`.
* `TransferCopies`: `Spec => []CopyFaithful`.
* `WritersLock`: `Spec => DataNeedsLock`.
* `PaddingFills`: `Spec => HolesOnlyFromCuts`.

`FileInv` says that an exclusive lock is alone on its file (`Alone`), and of each
request on its own (`Own`) what it has made ready, which lock it has at which step
(`Holding`), that the size it has read, and the position it has come to, are within its
file unless the file was truncated under its lock (`Sized`), and that what it has copied
is what the source has (`Copied`); the theorem `TransferCopies` is about that prefix.  The steps of the other processes are handled
once: `Undisturbed` says what a step of one process leaves of another's request,
which is everything but the content of files that are not locked, or cut.

### Data channel

`DataChannelProofs` proves for all finite sets of transfers, files of any length and
command connections that hold at least two writes, from `ChannelAssumption` and
`BoundsAssumption`:

* `DataTypes`: `Spec => []TypeOK`.
* `OnlyRequestsRead`: `Spec => []RequestsAreRequests`.
* `PortsReach`: `Spec => []PortAnnounced`.
* `LockedNeverMix`: `Spec => []ReaderInStep`.
* `DownloadWhole`: `Spec => LocalFileWhole`.
* `UploadStored`: `Spec => StoredWhole`.
* `ConcludedIsVisible`: `Spec => UploadVisible`.
* `NobodyStandsStill`: `Spec => []NoStandstill`.
* `TransfersRunOut`: a variant for each transfer (no run checks it).

The invariant `DataInv` has a part for each of the places data goes through.
`Sound` is about one transfer: which of its four parties can be where together
(`InStep`), what a report was made from (`Reported`), and that no block is lost
on the way: those of a download are in the client's file or in the socket until the client
stops reading, those of an upload in the file, the pipe or the socket until the disk fails
(`Download`, `Upload`).  `Aligned` is about the command connection: as long as no unlocked
reply was written together with a locked message, and no signal ended one within, it has
whole messages, and at its
end at most the header of one whose writer still has its payload to write; `SocketLock` ties
the lock to that writer.  `PortOnce` says that the port of a transfer is with the
handler, or on the wire, or with the client.  `Apart` and `Stored` are about the
file: an upload that streams has the lock alone, and while no other upload opens the
file it is what was stored of this one.  `UploadVisible` then needs no timing: a
download that gets the lock finds the upload's helper past its last block.

`NobodyStandsStill` is that no circle of waits closes, but the one with a cut file (`Stuck`),
and follows the waits.  A child in the middle of writing to the command connection waits for its
lock or for room: the lock's holder has a payload to write (`SocketLock`) and waits for room
only, and a full connection holds a whole message for the reader (`WritersGoOn`).  A child
that waits for its helper's answer waits for the record lock, whose holder streams, and whoever
streams can go on, or its child, or its client's thread (`StreamGoesOn`, by `InStep` which says
where the four parties of a transfer can be together).  A thread waits for a block or
for room in its socket, or has ended with the client, whose end closes it
(`GoneClosed`, an invariant of its own).  `TransfersRunOut` complements it: what is left to do of a
transfer (`Left`), from the fork to the end of its helper, is a number bounded by the size
of the file (`LeftBounded`) which every step of its own lowers and no other step
raises (`LeftFalls`); transfers cannot keep each other busy for ever.

Most steps are those of one transfer that the wire and the file do not notice
(`Quiet`); `Moves` collects them, and only the others are checked against the shared
parts.

### Only model-checked

* `MuxReleased`, `LeaveLeadsToExit`, `AnswerEndsWait`, `MainExits`: liveness under
  fairness is out of the prover's reach.
* `ReadyMoves`: that the guards `NoStandstill` is stated with are those of the actions
  is a fact about `ENABLED`, which the prover does not expand.
* The violation runs: TLC shows a behaviour of a small instance, which is enough.

## 6. Not modelled, and the plan

Every component of the inventory has a module.  Not modelled, or only in part:

* Helper file operations: permission bits (a call fails or not), symbolic links,
  nested directories together with files (`FileStore` has one level, `Sessions` has
  nesting without files).
* Wire protocol: bytes.  A read that a signal ends in the middle of a header gets
  the stream out of step (`utility.c:29`); it takes a header that arrives in
  two segments.  Length fields are taken as they were written.
* Privileges: ids and permissions as the operating system checks them.
* Children of transfers that are under way during a shutdown.
* String lengths, formatting and logging.

Next, in this order:

1. An abstract store of atomic operations which `FileStore` implements for
   operations that meet nobody, checked by TLC and proved step by step from `FileInv`.
2. The relations between modules of section 2, for which a module shows what
   another takes, as theorems: that the ids in a table name one live handler each
   (`Entries` of `RequestProofs` has it).
