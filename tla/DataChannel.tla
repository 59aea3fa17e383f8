---------------------------- MODULE DataChannel ----------------------------
(***************************************************************************)
(* Downloads and uploads: the handler of one client forks a child for each *)
(* (handleDownload, handleUpload), the child waits for the client on a     *)
(* data socket and moves the file between it and a process of the helper   *)
(* (HandleHelperDownload, HandleHelperUpload), which has the file open     *)
(* under a record lock; a thread of the client (backgroundDownloadFunc,    *)
(* backgroundUploadFunc) is at the other end.  Handler and children write  *)
(* their messages on the one command connection, each in two writes, the   *)
(* header and the payload, with or without the lock of the socket.         *)
(*                                                                         *)
(* All transfers here are about one file of the server.  A file is a       *)
(* sequence of blocks, each named for the transfer that wrote it; buffers  *)
(* and sockets hold at most one block, the command connection MaxWire      *)
(* writes.                                                                 *)
(***************************************************************************)
EXTENDS Naturals, Sequences, FiniteSets

CONSTANTS Channel,    \* the transfers of the client, one port and child each
          MaxBlocks,  \* blocks of the longest file
          MaxWire,    \* writes the command connection holds
          Handler,    \* the handler, as a writer of messages
          NoOne,      \* nobody has the lock of the socket
          Hole        \* a block nobody wrote, and the first contents

ASSUME ChannelAssumption ==
  /\ IsFiniteSet(Channel)
  /\ Handler \notin Channel /\ NoOne \notin Channel \cup {Handler}
  /\ Hole \notin Channel
ASSUME BoundsAssumption == MaxBlocks \in Nat \ {0} /\ MaxWire \in Nat \ {0, 1}

VARIABLES
  handler,  \* the parent: what it is about to write, and for which transfer
  lock,     \* who has the fcntl lock of the command socket
  wire,     \* what was written on the command connection and not read yet
  client,   \* whether the client's process is gone, its reader out of step
  ch,       \* per transfer: its three processes and what is between them
  file,     \* the file on the server
  spoiled   \* history: an unlocked reply and a locked message were written
            \* together, or a signal ended a message of the handler within it

vars == <<handler, lock, wire, client, ch, file, spoiled>>

Kind == {"download", "upload"}
What == {"port", "concluded", "failed", "reply"}
Half == [what : What, of : Channel \cup {Handler}, part : {"header", "payload", "piece"}]
Write(w, c, p) == Append(wire, [what |-> w, of |-> c, part |-> p])

ChildAt  == {"none", "accept", "ask", "answer", "move", "tell", "payload", "done"}
HelperAt == {"none", "open", "lock", "stream", "next", "done"}
ThreadAt == {"none", "connect", "open", "move", "closed"}

Idle ==
  [kind |-> "none", child |-> "none", helper |-> "none", thread |-> "none",
   conn |-> FALSE,       \* the data connection was made
   sock |-> 0,           \* blocks in the data connection
   pipe |-> 0,           \* blocks between the child and its helper process
   answer |-> "none",    \* helper_response: its status
   size |-> 0,           \* and its payload_len
   got |-> 0,            \* total_received of a download
   local |-> 0,          \* blocks the client sent, or wrote to its file
   pos |-> 0,            \* the helper's position in the file
   outcome |-> "none",   \* what the child has to tell
   heard |-> FALSE,      \* the client has read it
   diskError |-> FALSE,  \* history: a write to the file failed
   alone |-> TRUE,       \* history: no other upload since it opened the file
   unannounced |-> FALSE,\* history: a signal ended the message with its port
   after |-> {}]         \* history: uploads heard of as concluded at the start

TypeOK ==
  /\ handler \in [at : {"read", "port", "portload", "replyload", "gone"},
                  of : Channel \cup {NoOne}]
  /\ lock \in Channel \cup {Handler, NoOne}
  /\ wire \in Seq(Half) /\ Len(wire) <= MaxWire
  /\ client \in [gone : BOOLEAN, torn : BOOLEAN]
  /\ \A c \in Channel :
       /\ ch[c].kind \in Kind \cup {"none"} /\ ch[c].child \in ChildAt
       /\ ch[c].helper \in HelperAt /\ ch[c].thread \in ThreadAt
       /\ ch[c].sock \in 0..1 /\ ch[c].pipe \in 0..1
       /\ ch[c].answer \in {"none", "ok", "refused"}
       /\ {ch[c].size, ch[c].got, ch[c].local, ch[c].pos}
            \subseteq 0..MaxBlocks
       /\ ch[c].outcome \in {"none", "concluded", "failed"}
       /\ ch[c].after \subseteq Channel
  /\ file \in Seq(Channel \cup {Hole}) /\ Len(file) <= MaxBlocks
  /\ spoiled \in BOOLEAN

Init ==
  /\ handler = [at |-> "read", of |-> NoOne]
  /\ lock = NoOne /\ wire = <<>>
  /\ client = [gone |-> FALSE, torn |-> FALSE]
  /\ ch = [c \in Channel |-> Idle]
  /\ file \in {[i \in 1..n |-> Hole] : n \in 0..MaxBlocks}
  /\ spoiled = FALSE

-----------------------------------------------------------------------------
(* Messages on the command connection.                                     *)

Room == Len(wire) < MaxWire

(* A write reaches the wire, or is lost on a connection that has ended.    *)
Put(w, c, p) ==
  \/ ~client.gone /\ Room /\ wire' = Write(w, c, p)
  \/ client.gone /\ wire' = <<>>

(* Mutant of SendHeaderLocked: nobody asks for the lock. *)
SendHeaderUnlocked(me, w, c) ==
  /\ Put(w, c, "header")
  /\ spoiled' = (spoiled \/ handler.at = "replyload") /\ UNCHANGED lock

(* sendProtocolMsgLocked: the lock and the header, then the payload and    *)
(* the release.                                                            *)
SendHeaderLocked(me, w, c) ==
  /\ lock = NoOne /\ lock' = me
  /\ Put(w, c, "header")
  /\ spoiled' = (spoiled \/ handler.at = "replyload")

(* Mutant of SendPayload: the lock is kept. *)
SendPayloadHolding(me, w, c) == Put(w, c, "payload") /\ UNCHANGED <<lock, spoiled>>
SendPayload(me, w, c) ==
  /\ Put(w, c, "payload")
  /\ lock' = (IF lock = me THEN NoOne ELSE lock)
  /\ UNCHANGED spoiled

(* A write that waits for room is interrupted: of it nothing is on the     *)
(* wire, or the piece that filled the connection; begun tells whether the  *)
(* write before, of the header, is there.                                  *)
WriteInterrupted(w, c, begun) ==
  /\ ~client.gone
  /\ \/ ~Room /\ spoiled' = (spoiled \/ begun) /\ UNCHANGED wire
     \/ Len(wire) + 1 = MaxWire /\ spoiled' = TRUE /\ wire' = Write(w, c, "piece")

-----------------------------------------------------------------------------
(* The handler.                                                            *)

(* download and upload: a child is forked, then the client is told the     *)
(* port.                                                                   *)
Start(c, k) ==
  /\ handler.at = "read" /\ ch[c].child = "none"
  /\ handler' = [at |-> "port", of |-> c]
  /\ ch' = [ch EXCEPT ![c].kind = k, ![c].child = "accept",
                      ![c].after = {u \in Channel : /\ ch[u].kind = "upload"
                                                    /\ ch[u].outcome = "concluded"
                                                    /\ ch[u].heard}]
  /\ UNCHANGED <<lock, wire, client, file, spoiled>>

(* Mutant of PortHeader: F_SETLK in place of F_SETLKW. *)
PortHeaderOrNever ==
  /\ handler.at = "port"
  /\ \/ /\ handler' = [handler EXCEPT !.at = "portload"]
        /\ SendHeaderLocked(Handler, "port", handler.of)
     \/ /\ lock # NoOne /\ handler' = [at |-> "read", of |-> NoOne]
        /\ UNCHANGED <<lock, wire, spoiled>>
  /\ UNCHANGED <<client, ch, file>>

PortHeader ==
  /\ handler.at = "port" /\ handler' = [handler EXCEPT !.at = "portload"]
  /\ SendHeaderLocked(Handler, "port", handler.of)
  /\ UNCHANGED <<client, ch, file>>

(* SIGUSR1, which is for the handler and not for its children, while it    *)
(* waits for the lock, or in a write for room: the call fails with EINTR,  *)
(* the rest of the message is given up, and the lock with it.              *)
PortInterrupted ==
  /\ handler' = [at |-> "read", of |-> NoOne]
  /\ \/ handler.at = "port" /\ lock \in Channel /\ UNCHANGED <<wire, spoiled>>
     \/ /\ handler.at = "port" /\ lock = NoOne
        /\ WriteInterrupted("port", handler.of, FALSE)
     \/ handler.at = "portload" /\ WriteInterrupted("port", handler.of, TRUE)
  /\ lock' = (IF lock = Handler THEN NoOne ELSE lock)
  /\ ch' = [ch EXCEPT ![handler.of].unannounced = TRUE]
  /\ UNCHANGED <<client, file>>

PortPayload ==
  /\ handler.at = "portload" /\ handler' = [at |-> "read", of |-> NoOne]
  /\ SendPayload(Handler, "port", handler.of)
  /\ UNCHANGED <<client, ch, file>>

(* The answers to all other commands, and the notifications, take no lock. *)
ReplyHeader ==
  /\ handler.at = "read" /\ handler' = [handler EXCEPT !.at = "replyload"]
  /\ Put("reply", Handler, "header")
  /\ spoiled' = (spoiled \/ \E c \in Channel : ch[c].child = "payload")
  /\ UNCHANGED <<lock, client, ch, file>>

ReplyPayload ==
  /\ handler.at = "replyload" /\ handler' = [handler EXCEPT !.at = "read"]
  /\ Put("reply", Handler, "payload")
  /\ UNCHANGED <<lock, client, ch, file, spoiled>>

(* The same signal in a reply. *)
ReplyInterrupted ==
  /\ handler.at \in {"read", "replyload"}
  /\ handler' = [handler EXCEPT !.at = "read"]
  /\ WriteInterrupted("reply", Handler, handler.at = "replyload")
  /\ UNCHANGED <<lock, client, ch, file>>

(* The end of the connection, or SIGPIPE; the children stay.               *)
HandlerGone ==
  /\ client.gone /\ handler.at # "gone"
  /\ handler' = [at |-> "gone", of |-> NoOne]
  /\ lock' = (IF lock = Handler THEN NoOne ELSE lock)
  /\ UNCHANGED <<wire, client, ch, file, spoiled>>

-----------------------------------------------------------------------------
(* The child of transfer c.                                                *)

Moving(c, k) == ch[c].child = "move" /\ ch[c].kind = k

Accept(c) ==
  /\ ch[c].child = "accept" /\ ch[c].conn
  /\ ch' = [ch EXCEPT ![c].child = "ask"]
  /\ UNCHANGED <<handler, lock, wire, client, file, spoiled>>

(* The request, to a process the helper forks for this connection; or no   *)
(* helper to connect to.                                                   *)
Ask(c) ==
  /\ ch[c].child = "ask"
  /\ \/ ch' = [ch EXCEPT ![c].child = "answer", ![c].helper = "open"]
     \/ ch' = [ch EXCEPT ![c].child = "tell", ![c].outcome = "failed"]
  /\ UNCHANGED <<handler, lock, wire, client, file, spoiled>>

(* Mutant of Answer: the status is not looked at. *)
AnswerNotLookedAt(c) ==
  /\ ch[c].child = "answer" /\ ch[c].answer # "none"
  /\ ch' = [ch EXCEPT ![c].child = "move"]
  /\ UNCHANGED <<handler, lock, wire, client, file, spoiled>>

Answer(c) ==
  /\ ch[c].child = "answer" /\ ch[c].answer # "none"
  /\ ch' = [ch EXCEPT ![c].child = IF ch[c].answer = "ok" THEN "move" ELSE "tell",
                      ![c].outcome = IF ch[c].answer = "ok" THEN "none" ELSE "failed"]
  /\ UNCHANGED <<handler, lock, wire, client, file, spoiled>>

(* A block from the helper to the client; what is written to a client that *)
(* has closed the connection is lost.                                      *)
Pull(c) ==
  /\ Moving(c, "download") /\ ch[c].got < ch[c].size /\ ch[c].pipe = 1
  /\ ch[c].thread = "closed" \/ ch[c].sock = 0
  /\ ch' = [ch EXCEPT ![c].pipe = 0, ![c].got = @ + 1,
                      ![c].sock = IF ch[c].thread = "closed" THEN 0 ELSE 1]
  /\ UNCHANGED <<handler, lock, wire, client, file, spoiled>>

(* Mutant of PullEnd: it reads to the end of the connection, whatever was *)
(* announced.                                                              *)
PullEndAtClose(c) ==
  /\ Moving(c, "download") /\ ch[c].pipe = 0 /\ ch[c].helper = "done"
  /\ ch' = [ch EXCEPT ![c].child = "tell", ![c].outcome = "concluded"]
  /\ UNCHANGED <<handler, lock, wire, client, file, spoiled>>

(* As many blocks as were announced, or the helper's end of the connection *)
(* was closed before.                                                      *)
PullEnd(c) ==
  /\ Moving(c, "download")
  /\ \/ ch[c].got = ch[c].size
     \/ ch[c].pipe = 0 /\ ch[c].helper = "done"
  /\ ch' = [ch EXCEPT ![c].child = "tell", ![c].outcome = "concluded"]
  /\ UNCHANGED <<handler, lock, wire, client, file, spoiled>>

Push(c) ==
  /\ Moving(c, "upload") /\ ch[c].sock = 1 /\ ch[c].pipe = 0
  /\ ch' = [ch EXCEPT ![c].sock = 0, ![c].pipe = 1]
  /\ UNCHANGED <<handler, lock, wire, client, file, spoiled>>

(* Mutant of PushEnd: it does not wait for the end of the data. *)
PushEndEarly(c) ==
  /\ Moving(c, "upload") /\ ch[c].thread = "closed"
  /\ ch' = [ch EXCEPT ![c].child = "tell", ![c].outcome = "concluded"]
  /\ UNCHANGED <<handler, lock, wire, client, file, spoiled>>

PushEnd(c) ==
  /\ Moving(c, "upload") /\ ch[c].sock = 0 /\ ch[c].thread = "closed"
  /\ ch' = [ch EXCEPT ![c].child = "tell", ![c].outcome = "concluded"]
  /\ UNCHANGED <<handler, lock, wire, client, file, spoiled>>

TellHeader(c) ==
  /\ ch[c].child = "tell"
  /\ ch' = [ch EXCEPT ![c].child = "payload"]
  /\ SendHeaderLocked(c, ch[c].outcome, c)
  /\ UNCHANGED <<handler, client, file>>

(* The helper's connection is closed last.                                 *)
TellPayload(c) ==
  /\ ch[c].child = "payload"
  /\ ch' = [ch EXCEPT ![c].child = "done"]
  /\ SendPayload(c, ch[c].outcome, c)
  /\ UNCHANGED <<handler, client, file>>

(* SIGPIPE: a write to a data or command connection the client has left.   *)
ChildSigpipe(c) ==
  /\ \/ Moving(c, "download") /\ ch[c].pipe = 1 /\ ch[c].thread = "closed"
     \/ ch[c].child \in {"tell", "payload"} /\ client.gone
  /\ ch' = [ch EXCEPT ![c].child = "done"]
  /\ lock' = (IF lock = c THEN NoOne ELSE lock)
  /\ UNCHANGED <<handler, wire, client, file, spoiled>>

-----------------------------------------------------------------------------
(* The helper's process for the connection of child c.                     *)

Opened(c) == ch[c].helper \in {"lock", "stream"}

(* open: an upload truncates the file by opening it, before it asks for    *)
(* its lock.  Every upload that has it open is no longer alone with it.    *)
Open(c) ==
  /\ ch[c].helper = "open"
  /\ IF ch[c].kind = "download"
     THEN ch' = [ch EXCEPT ![c].helper = "lock"] /\ UNCHANGED file
     ELSE /\ file' = <<>>
          /\ ch' = [d \in Channel |->
                      IF d = c
                      THEN [ch[c] EXCEPT !.helper = "lock",
                              !.alone = ~\E u \in Channel \ {c} :
                                           ch[u].kind = "upload" /\ Opened(u)]
                      ELSE [ch[d] EXCEPT !.alone = FALSE]]
  /\ UNCHANGED <<handler, lock, wire, client, spoiled>>

(* open or lock_fd fails: the response says so, and the next request is    *)
(* read.                                                                   *)
Refuse(c) ==
  /\ ch[c].helper \in {"open", "lock"}
  /\ ch' = [ch EXCEPT ![c].helper = "next", ![c].answer = "refused"]
  /\ UNCHANGED <<handler, lock, wire, client, file, spoiled>>

(* Mutant of MayLock: an upload asks for a shared lock too. *)
MayLockShared(c) == TRUE

MayLock(c) ==
  \A d \in Channel \ {c} :
    ch[d].helper = "stream" => ch[c].kind = "download" /\ ch[d].kind = "download"

(* The lock, the size of the file, and the response.                       *)
Lock(c) ==
  /\ ch[c].helper = "lock" /\ MayLock(c)
  /\ ch' = [ch EXCEPT ![c].helper = "stream", ![c].answer = "ok",
                      ![c].size = IF ch[c].kind = "download" THEN Len(file) ELSE 0]
  /\ UNCHANGED <<handler, lock, wire, client, file, spoiled>>

ReadFile(c) ==
  /\ ch[c].helper = "stream" /\ ch[c].kind = "download"
  /\ ch[c].pos < Len(file) /\ ch[c].pipe = 0 /\ ch[c].child # "done"
  /\ ch' = [ch EXCEPT ![c].pos = @ + 1, ![c].pipe = 1]
  /\ UNCHANGED <<handler, lock, wire, client, file, spoiled>>

(* Mutant of ReadEnd: the helper closes the connection after the file. *)
ReadEndAndClose(c) ==
  /\ ch[c].helper = "stream" /\ ch[c].kind = "download"
  /\ ch[c].pos >= Len(file)
  /\ ch' = [ch EXCEPT ![c].helper = "done"]
  /\ UNCHANGED <<handler, lock, wire, client, file, spoiled>>

(* The end of the file: the lock is released, and the connection stays     *)
(* open for the next request.                                              *)
ReadEnd(c) ==
  /\ ch[c].helper = "stream" /\ ch[c].kind = "download"
  /\ ch[c].pos >= Len(file)
  /\ ch' = [ch EXCEPT ![c].helper = "next"]
  /\ UNCHANGED <<handler, lock, wire, client, file, spoiled>>

(* Mutant of WrittenAt: the file is opened with O_APPEND. *)
AppendedTo(p, c) == Append(file, c)

(* A block is written where the descriptor stands, behind a hole if the    *)
(* file was cut meanwhile.                                                 *)
WrittenAt(p, c) ==
  [i \in 1..(IF Len(file) > p THEN Len(file) ELSE p + 1) |->
     IF i = p + 1 THEN c ELSE IF i <= Len(file) THEN file[i] ELSE Hole]
StoreBlock(c) ==
  /\ ch[c].helper = "stream" /\ ch[c].kind = "upload" /\ ch[c].pipe = 1
  /\ file' = WrittenAt(ch[c].pos, c)
  /\ ch' = [ch EXCEPT ![c].pipe = 0, ![c].pos = @ + 1]
  /\ UNCHANGED <<handler, lock, wire, client, spoiled>>

(* A failed write ends the upload for the helper, not for the child.       *)
DiskError(c) ==
  /\ ch[c].helper = "stream" /\ ch[c].kind = "upload" /\ ch[c].pipe = 1
  /\ ch' = [ch EXCEPT ![c].pipe = 0, ![c].helper = "next", ![c].diskError = TRUE]
  /\ UNCHANGED <<handler, lock, wire, client, file, spoiled>>

(* The child's end of the connection is closed and all was read.           *)
StoreEnd(c) ==
  /\ ch[c].helper = "stream" /\ ch[c].kind = "upload"
  /\ ch[c].pipe = 0 /\ ch[c].child = "done"
  /\ ch' = [ch EXCEPT ![c].helper = "next"]
  /\ UNCHANGED <<handler, lock, wire, client, file, spoiled>>

(* handleCommands reads the next request: none comes, the connection ends; *)
(* or the rest of an upload is taken for one.                              *)
NextRequest(c) ==
  /\ ch[c].helper = "next"
  /\ \/ /\ ch[c].child = "done" /\ (ch[c].kind = "upload" => ch[c].pipe = 0)
        /\ ch' = [ch EXCEPT ![c].helper = "done"]
     \/ /\ ch[c].kind = "upload" /\ ch[c].pipe = 1
        /\ ch' = [ch EXCEPT ![c].pipe = 0]
  /\ UNCHANGED <<handler, lock, wire, client, file, spoiled>>

(* SIGPIPE: the child of a download is gone.                               *)
HelperSigpipe(c) ==
  /\ ch[c].helper = "stream" /\ ch[c].kind = "download" /\ ch[c].child = "done"
  /\ ch[c].pos < Len(file)
  /\ ch' = [ch EXCEPT ![c].helper = "done"]
  /\ UNCHANGED <<handler, lock, wire, client, file, spoiled>>

-----------------------------------------------------------------------------
(* The client: its reader, and its thread for transfer c.                  *)

(* A header and a payload.  Those of two messages: the reader is out of    *)
(* step, and what it reads from then on means nothing.                     *)
ReadMessage ==
  /\ ~client.gone /\ ~client.torn /\ Len(wire) >= 2
  /\ LET m == wire[1] n == wire[2] IN
     /\ wire' = SubSeq(wire, 3, Len(wire))
     /\ IF m.part = "header" /\ n.part = "payload" /\ n.what = m.what /\ n.of = m.of
        THEN /\ ch' = IF m.what = "port" THEN [ch EXCEPT ![m.of].thread = "connect"]
                      ELSE IF m.what = "reply" THEN ch
                      ELSE [ch EXCEPT ![m.of].heard = TRUE]
             /\ UNCHANGED client
        ELSE client' = [client EXCEPT !.torn = TRUE] /\ UNCHANGED ch
  /\ UNCHANGED <<handler, lock, file, spoiled>>

ReadTorn ==
  /\ ~client.gone /\ client.torn /\ wire # <<>>
  /\ wire' = Tail(wire)
  /\ UNCHANGED <<handler, lock, client, ch, file, spoiled>>

(* connectToServer works or not.                                           *)
Connect(c) ==
  /\ ~client.gone /\ ch[c].thread = "connect"
  /\ \/ ch' = [ch EXCEPT ![c].thread = "open", ![c].conn = TRUE]
     \/ ch' = [ch EXCEPT ![c].thread = "closed"]
  /\ UNCHANGED <<handler, lock, wire, client, file, spoiled>>

(* fopen works or not.                                                     *)
OpenLocal(c) ==
  /\ ~client.gone /\ ch[c].thread = "open"
  /\ \E at \in {"move", "closed"} : ch' = [ch EXCEPT ![c].thread = at]
  /\ UNCHANGED <<handler, lock, wire, client, file, spoiled>>

SendBlock(c) ==
  /\ ~client.gone /\ ch[c].thread = "move" /\ ch[c].kind = "upload"
  /\ ch[c].local < MaxBlocks /\ ch[c].sock = 0
  /\ ch' = [ch EXCEPT ![c].sock = 1, ![c].local = @ + 1]
  /\ UNCHANGED <<handler, lock, wire, client, file, spoiled>>

(* The end of the local file, which has any length, or an error of fread:  *)
(* the server cannot tell them apart.                                      *)
SendEnd(c) ==
  /\ ~client.gone /\ ch[c].thread = "move" /\ ch[c].kind = "upload"
  /\ ch' = [ch EXCEPT ![c].thread = "closed"]
  /\ UNCHANGED <<handler, lock, wire, client, file, spoiled>>

(* The data socket is closed when the child has left its loop.             *)
ClosedByChild(c) == ch[c].child \in {"tell", "payload", "done"}

ReceiveBlock(c) ==
  /\ ~client.gone /\ ch[c].thread = "move" /\ ch[c].kind = "download" /\ ch[c].sock = 1
  /\ \/ ch' = [ch EXCEPT ![c].sock = 0, ![c].local = @ + 1]
     \/ ch' = [ch EXCEPT ![c].sock = 0, ![c].thread = "closed"]  \* fwrite failed
  /\ UNCHANGED <<handler, lock, wire, client, file, spoiled>>

ReceiveEnd(c) ==
  /\ ~client.gone /\ ch[c].thread = "move" /\ ch[c].kind = "download"
  /\ ch[c].sock = 0 /\ ClosedByChild(c)
  /\ ch' = [ch EXCEPT ![c].thread = "closed"]
  /\ UNCHANGED <<handler, lock, wire, client, file, spoiled>>

(* The process of the client ends, with all of its connections.            *)
Vanish ==
  /\ ~client.gone /\ client' = [client EXCEPT !.gone = TRUE]
  /\ wire' = <<>>
  /\ ch' = [c \in Channel |->
              IF ch[c].thread = "none" THEN ch[c]
              ELSE [ch[c] EXCEPT !.thread = "closed",
                                 !.sock = IF ch[c].kind = "download" THEN 0 ELSE @]]
  /\ UNCHANGED <<handler, lock, file, spoiled>>

-----------------------------------------------------------------------------
HandlerStep == PortHeader \/ PortPayload \/ ReplyPayload \/ HandlerGone
ChildStep(c) ==
  \/ Accept(c) \/ Ask(c) \/ Answer(c) \/ Pull(c) \/ PullEnd(c) \/ Push(c) \/ PushEnd(c)
  \/ TellHeader(c) \/ TellPayload(c) \/ ChildSigpipe(c)
HelperStep(c) ==
  \/ Open(c) \/ Refuse(c) \/ Lock(c) \/ ReadFile(c) \/ ReadEnd(c) \/ StoreBlock(c)
  \/ DiskError(c) \/ StoreEnd(c) \/ NextRequest(c) \/ HelperSigpipe(c)
ReaderStep == ReadMessage \/ ReadTorn
ThreadStep(c) ==
  \/ OpenLocal(c) \/ SendBlock(c) \/ SendEnd(c) \/ ReceiveBlock(c) \/ ReceiveEnd(c)

Next ==
  \/ HandlerStep \/ PortInterrupted \/ ReplyHeader \/ ReplyInterrupted \/ ReaderStep \/ Vanish
  \/ \E c \in Channel : \/ \E k \in Kind : Start(c, k)
                        \/ Connect(c)
                        \/ ChildStep(c) \/ HelperStep(c) \/ ThreadStep(c)

Spec == Init /\ [][Next]_vars

-----------------------------------------------------------------------------
(* Properties.                                                             *)

(* The blocks of upload u, as the client sent them.                        *)
Blocks(u) == [i \in 1..ch[u].local |-> u]

(* The client's copy of a download that came to its end is as long as the  *)
(* helper announced, unless the child reports a failure: through both      *)
(* buffers, and though the file may be cut under the helper's lock.        *)
LocalFileWhole ==
  [][\A c \in Channel :
       /\ ch[c].kind = "download" /\ ch[c].thread = "move" /\ ch[c].sock = 0
       /\ ch'[c].thread = "closed" /\ ~client'.gone /\ ch[c].outcome # "failed"
       => ch[c].local = ch[c].size]_vars

(* When the helper gives the lock of an upload back, the file is what the  *)
(* client sent, no more and no less, unless the disk failed or another     *)
(* upload opened the file too.                                             *)
StoredWhole ==
  [][\A u \in Channel :
       /\ ch[u].kind = "upload" /\ ch[u].helper = "stream" /\ ch'[u].helper = "next"
       /\ ch[u].alone /\ ~ch'[u].diskError
       => file = Blocks(u)]_vars

(* "concluded" comes before the helper has stored the upload: what makes   *)
(* it true for the client is the exclusive lock, held to the end of the    *)
(* connection.  A download the client starts after it gets all of it.      *)
UploadVisible ==
  [][\A c \in Channel : \A u \in ch[c].after :
       /\ ch[c].kind = "download" /\ ch[c].helper = "lock" /\ ch'[c].helper = "stream"
       /\ ch[u].alone /\ ~ch[u].diskError
       => ch'[c].size = ch[u].local]_vars

(* The helper takes blocks of a file for requests only after a disk error: *)
(* the child streams nothing that was refused, and nothing behind the end. *)
RequestsAreRequests ==
  \A c \in Channel :
    ch[c].kind = "upload" /\ ch[c].helper = "next" /\ ch[c].pipe = 1 => ch[c].diskError

(* A child that waits for its client has had its port announced, or will   *)
(* have: the message waits its turn for the connection.  Only a signal     *)
(* while the handler waits there, for the lock or for room, or a reader    *)
(* out of step leaves the child, and the client, waiting.                  *)
Announced(c) ==
  \/ handler.of = c \/ ch[c].thread # "none"
  \/ \E i \in DOMAIN wire : wire[i].what = "port" /\ wire[i].of = c
PortAnnounced ==
  \A c \in Channel :
    ch[c].child = "accept" /\ ~client.gone /\ ~client.torn /\ ~ch[c].unannounced
      => Announced(c)

(* The client's reader gets out of step only by an unlocked reply of the   *)
(* handler within a locked message, or by a signal that ends a message of  *)
(* the handler within it: the lock keeps all other messages of handler and *)
(* children apart, whoever of them is killed in between.                   *)
ReaderInStep == client.torn => spoiled

(* What each party has at hand to go on with, without counting on a call   *)
(* to fail, a signal, or the end of a local file.                          *)
Wakes == client.gone \/ Room
HandlerReady ==
  \/ handler.at = "port" /\ lock = NoOne /\ Wakes
  \/ handler.at \in {"portload", "replyload"} /\ Wakes
ReaderReady == ~client.gone /\ Len(wire) >= IF client.torn THEN 1 ELSE 2
ChildReady(c) ==
  \/ ch[c].child = "ask"
  \/ ch[c].child = "accept" /\ ch[c].conn
  \/ ch[c].child = "answer" /\ ch[c].answer # "none"
  \/ Moving(c, "download") /\ ch[c].got = ch[c].size
  \/ Moving(c, "download") /\ ch[c].pipe = 1 /\ (ch[c].sock = 0 \/ ch[c].thread = "closed")
  \/ Moving(c, "upload") /\ ch[c].sock = 1 /\ ch[c].pipe = 0
  \/ Moving(c, "upload") /\ ch[c].sock = 0 /\ ch[c].thread = "closed"
  \/ ch[c].child = "tell" /\ lock = NoOne /\ Wakes
  \/ ch[c].child = "payload" /\ Wakes
HelperReady(c) ==
  \/ ch[c].helper = "open"
  \/ ch[c].helper = "lock" /\ MayLock(c)
  \/ ch[c].helper = "stream" /\ ch[c].child = "done"
  \/ ch[c].helper = "stream" /\ ch[c].pipe = (IF ch[c].kind = "download" THEN 0 ELSE 1)
  \/ ch[c].helper = "next" /\ ch[c].child = "done"
  \/ ch[c].helper = "next" /\ ch[c].kind = "upload" /\ ch[c].pipe = 1
ThreadReady(c) ==
  /\ ~client.gone
  /\ \/ ch[c].thread = "open"
     \/ ch[c].thread = "move" /\ ch[c].sock = (IF ch[c].kind = "upload" THEN 0 ELSE 1)
     \/ ch[c].thread = "move" /\ ch[c].kind = "download" /\ ClosedByChild(c)
SomebodyReady ==
  \/ HandlerReady \/ ReaderReady
  \/ \E c \in Channel : ChildReady(c) \/ HelperReady(c) \/ ThreadReady(c)

Progress ==
  \/ HandlerStep \/ ReaderStep
  \/ \E c \in Channel : ChildStep(c) \/ HelperStep(c) \/ ThreadStep(c)

(* Who is ready can go on: what the child waits for is what the helper     *)
(* gives, byte counts and ends of connections, and a lock is given back.   *)
ReadyMoves == SomebodyReady => ENABLED Progress

(* No standstill: as long as a child whose client has connected is not at *)
(* its end, somebody is ready, though helpers wait for each other's record *)
(* locks and writers for the connection; except that a child and its       *)
(* helper process wait for each other when the file was cut below the      *)
(* length announced: the child for bytes, the helper for a request.        *)
Stuck(c) ==
  /\ Moving(c, "download") /\ ch[c].helper = "next"
  /\ ch[c].pipe = 0 /\ ch[c].got < ch[c].size
NoStandstill ==
  (\E c \in Channel : ch[c].child \notin {"none", "accept", "done"} /\ ~Stuck(c))
    => SomebodyReady
=============================================================================
