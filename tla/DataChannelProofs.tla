------------------------- MODULE DataChannelProofs -------------------------
(***************************************************************************)
(* Proofs about DataChannel, for any number of transfers, files of any     *)
(* length and command connections of any capacity: what each of the four   *)
(* parties of a transfer may rely on, and what the locks of the file and   *)
(* of the command socket are worth.                                        *)
(***************************************************************************)
EXTENDS DataChannel, TLAPS

(* The record of a transfer.                                               *)
Few == 0..1
Many == 0..MaxBlocks
Chan ==
  [kind : Kind \cup {"none"}, child : ChildAt, helper : HelperAt, thread : ThreadAt,
   conn : BOOLEAN, sock : Few, pipe : Few, answer : {"none", "ok", "refused"},
   size : Many, got : Many, local : Many, pos : Many,
   outcome : {"none", "concluded", "failed"}, heard : BOOLEAN, diskError : BOOLEAN,
   alone : BOOLEAN, unannounced : BOOLEAN, after : SUBSET Channel]

(* How far the four parties of a transfer may be from each other.          *)
Ended(r) == r.child \in {"tell", "payload", "done"}
InStep(r) ==
  /\ r.child = "none" <=> r.kind = "none"
  /\ r.child = "none" => r.thread = "none" /\ ~r.conn
  /\ r.child \in {"none", "accept", "ask"} => r.helper = "none"
  /\ r.child \in {"none", "accept"} \/ r.conn
  /\ r.thread \in {"none", "connect"} => ~r.conn
  /\ r.thread \in {"open", "move"} => r.conn
  /\ r.answer = "none" => r.helper \in {"none", "open", "lock"}
  /\ r.answer = "ok" => r.helper \in {"stream", "next", "done"}
  /\ r.answer = "refused" => r.helper \in {"next", "done"}
  /\ r.helper = "done" => r.child = "done"
  /\ r.child = "answer" => r.helper # "none"

(* What the child has made of the answer and of the data.                  *)
Reported(r) ==
  /\ r.child = "move" => r.answer = "ok"
  /\ ~Ended(r) => r.outcome = "none"
  /\ r.child \in {"tell", "payload"} => r.outcome # "none"
  /\ r.outcome = "concluded" => r.answer = "ok"
  /\ r.outcome = "failed" => r.answer = "refused" \/ r.helper = "none"
  /\ r.child = "done" /\ r.outcome = "none" =>
       r.kind = "download" /\ r.thread = "closed"

(* The blocks of a download are in the client's file, in the socket, or    *)
(* lost by a client that does not read any more.                           *)
Download(r) ==
  /\ r.local + r.sock <= r.got /\ r.got <= r.size
  /\ r.thread # "closed" => r.local + r.sock = r.got
  /\ r.answer # "ok" => r.size = 0
  /\ r.outcome = "concluded" => r.got = r.size

(* Those of an upload are in the file, in the pipe or in the socket, until *)
(* the disk fails; the child ends when the socket has run dry.             *)
Upload(r) ==
  /\ r.pos + r.pipe + r.sock <= r.local
  /\ r.helper \in {"none", "open", "lock", "stream"} => r.pos + r.pipe + r.sock = r.local
  /\ r.child \in {"none", "accept", "ask", "answer"} \/ r.answer # "ok" => r.pipe = 0
  /\ r.answer # "ok" => r.pos = 0
  /\ r.outcome = "concluded" => r.sock = 0 /\ r.thread = "closed"
  /\ r.answer = "ok" /\ r.helper \in {"next", "done"} /\ ~r.diskError =>
       r.pipe = 0 /\ r.pos = r.local /\ r.sock = 0 /\ r.outcome = "concluded"

Fresh(r) ==
  /\ r.got = 0 /\ r.local = 0 /\ r.size = 0 /\ r.pos = 0 /\ r.sock = 0 /\ r.pipe = 0
  /\ r.answer = "none" /\ r.outcome = "none"

Sound(r) ==
  /\ InStep(r) /\ Reported(r)
  /\ r.kind = "none" => Fresh(r)
  /\ r.kind = "download" => Download(r)
  /\ r.kind = "upload" => Upload(r)

Typed ==
  /\ handler \in [at : {"read", "port", "portload", "replyload", "gone"},
                  of : Channel \cup {NoOne}]
  /\ handler.at \in {"port", "portload"} <=> handler.of # NoOne
  /\ lock \in Channel \cup {Handler, NoOne}
  /\ wire \in Seq(Half) /\ Len(wire) <= MaxWire
  /\ client \in [gone : BOOLEAN, torn : BOOLEAN]
  /\ ch \in [Channel -> Chan]
  /\ file \in Seq(Channel \cup {Hole}) /\ Len(file) <= MaxBlocks
  /\ spoiled \in BOOLEAN

(* The lock of the socket is with whoever is between header and payload of *)
(* a message it takes the lock for.                                        *)
SocketLock ==
  /\ lock = Handler <=> handler.at = "portload"
  /\ \A c \in Channel : lock = c <=> ch[c].child = "payload"

(* As long as no unlocked reply is written together with a locked message, *)
(* and no signal ends a message of the handler within it, the wire has     *)
(* whole messages, and at most the header of one more, whose writer has    *)
(* its payload to write.                                                   *)
Even(n) == n % 2 = 0
Whole(i) ==
  /\ wire[i].part = "header" /\ wire[i + 1].part = "payload"
  /\ wire[i + 1].what = wire[i].what /\ wire[i + 1].of = wire[i].of
Between(w, c) ==
  \/ handler.at = "portload" /\ w = "port" /\ c = handler.of
  \/ handler.at = "replyload" /\ w = "reply" /\ c = Handler
  \/ c \in Channel /\ ch[c].child = "payload" /\ w = ch[c].outcome
Writing ==
  handler.at \in {"portload", "replyload"} \/ \E c \in Channel : ch[c].child = "payload"
Aligned ==
  ~spoiled /\ ~client.gone =>
    /\ ~client.torn
    /\ \A i \in 1..Len(wire) : ~Even(i) /\ i < Len(wire) => Whole(i)
    /\ Even(Len(wire)) <=> ~Writing
    /\ ~Even(Len(wire)) =>
         /\ wire[Len(wire)].part = "header"
         /\ Between(wire[Len(wire)].what, wire[Len(wire)].of)
    /\ handler.at = "replyload" => \A c \in Channel : ch[c].child # "payload"

(* The port of a transfer is announced in one message, which is with the   *)
(* handler, on the wire or with the client.                                *)
PortIn(i, c) == wire[i].what = "port" /\ wire[i].of = c
PortOnce ==
  \A c \in Channel :
    /\ handler.of = c => ch[c].child # "none" /\ ch[c].thread = "none"
    /\ \A i \in 1..Len(wire) : PortIn(i, c) => ch[c].child # "none"
    /\ ~client.torn /\ ~client.gone =>
         /\ \A i, j \in 1..Len(wire) :
              PortIn(i, c) /\ PortIn(j, c) /\ wire[i].part = wire[j].part => i = j
         /\ \A i \in 1..Len(wire) : PortIn(i, c) =>
              /\ ch[c].thread = "none"
              /\ handler.of = c => handler.at = "portload" /\ wire[i].part = "header"
         /\ \A i, j \in 1..Len(wire) :
              PortIn(i, c) /\ PortIn(j, c)
                /\ wire[i].part = "header" /\ wire[j].part = "payload" => i < j
         /\ \A i, j \in 1..Len(wire) :
              PortIn(i, c) /\ PortIn(j, c) /\ wire[i].part = "piece" => wire[j].part # "payload"

(* Whoever streams has the lock of the file; an upload has it alone.       *)
Apart ==
  \A c, d \in Channel :
    c # d /\ ch[c].helper = "stream" /\ ch[d].helper = "stream" =>
      ch[c].kind = "download"

(* The file is what an upload has stored, as long as no other one opens    *)
(* it.                                                                     *)
HasFile(u) == ch[u].helper = "lock" \/ ch[u].answer = "ok"
Stored ==
  \A u \in Channel :
    ch[u].kind = "upload" /\ ch[u].alone /\ HasFile(u) =>
      /\ Len(file) = ch[u].pos /\ \A i \in 1..ch[u].pos : file[i] = u
      /\ \A d \in Channel \ {u} : ch[d].kind = "upload" => ~Opened(d)

(* Uploads heard of are concluded, and stay so.                            *)
Concluded ==
  \A c \in Channel : \A u \in ch[c].after :
    ch[u].kind = "upload" /\ ch[u].outcome = "concluded"

DataInv ==
  /\ Typed /\ (\A c \in Channel : Sound(ch[c])) /\ SocketLock /\ Aligned
  /\ PortOnce /\ PortAnnounced /\ Apart /\ Stored /\ Concluded

(* What a step of a transfer may do without anybody taking notice on the   *)
(* command connection, or at the file.                                     *)
OnWire(r, s) ==
  /\ s.unannounced = r.unannounced
  /\ s.child = "payload" <=> r.child = "payload"
  /\ s.child = "payload" => s.outcome = r.outcome
  /\ s.child = "none" <=> r.child = "none"
  /\ s.child = "accept" => r.child = "accept"
  /\ s.thread = "none" <=> r.thread = "none"
OnFile(r, s) ==
  /\ s.kind = r.kind /\ s.after = r.after /\ s.alone = r.alone
  /\ s.helper = "stream" => r.helper = "stream"
  /\ s.helper = "lock" => r.helper = "lock"
  /\ s.answer = "ok" <=> r.answer = "ok"
  /\ r.kind = "upload" => s.pos = r.pos
  /\ r.outcome = "concluded" => s.outcome = "concluded"
Quiet(r, s) == OnWire(r, s) /\ OnFile(r, s)

Connection == <<handler, lock, wire, client, spoiled>>
LEMMA Numbers == 0 \in Few /\ 1 \in Few
BY DEF Few

Moves(c) ==
  \E s \in Chan : Sound(s) /\ Quiet(ch[c], s) /\ ch' = [ch EXCEPT ![c] = s]

-----------------------------------------------------------------------------
(***************************************************************************)
(* The steps of one transfer, with nobody but its own parties.             *)
(***************************************************************************)
(* The child, but for its messages on the command connection.               *)
LEMMA ChildMoves ==
  ASSUME DataInv, NEW c \in Channel,
         Accept(c) \/ Ask(c) \/ Answer(c) \/ Pull(c) \/ PullEnd(c) \/ Push(c) \/ PushEnd(c)
  PROVE  Moves(c)
<1>1. ch \in [Channel -> Chan] /\ file \in Seq(Channel \cup {Hole})
      /\ Len(file) \in Nat /\ Len(file) <= MaxBlocks /\ MaxBlocks \in Nat
  BY BoundsAssumption DEF DataInv, Typed
<1>2. PICK r \in Chan : r = ch[c]
  BY <1>1
<1>3. Sound(r)
  BY <1>2 DEF DataInv
<1> USE <1>2 DEF Chan, Sound, InStep, Reported, Download, Upload, Fresh, Ended
<1>4. CASE Accept(c)
  <2> DEFINE s == [r EXCEPT !.child = "ask"]
  <2>1. ch' = [ch EXCEPT ![c] = s]
    BY <1>1, <1>4 DEF Accept
  <2>2. s \in Chan
    BY DEF ChildAt
  <2>3. InStep(s)
    BY <1>1, <1>3, <1>4 DEF Accept
  <2>4. Reported(s)
    BY <1>1, <1>3, <1>4 DEF Accept
  <2>5. s.kind # "none" /\ (s.kind = "download" => Download(s))
    BY <1>1, <1>3, <1>4 DEF Accept, Few, Many
  <2>6. s.kind = "upload" => Upload(s)
    BY <1>1, <1>3, <1>4 DEF Accept, Few, Many
  <2>7. Quiet(r, s)
    BY <1>1, <1>3, <1>4 DEF Accept, Quiet, OnWire, OnFile
  <2> HIDE DEF s
  <2> QED BY <2>1, <2>2, <2>3, <2>4, <2>5, <2>6, <2>7 DEF Moves
<1>5. CASE Ask(c)
  <2>1. CASE ch' = [ch EXCEPT ![c].child = "answer", ![c].helper = "open"]
    <3> DEFINE s == [r EXCEPT !.child = "answer", !.helper = "open"]
    <3>1. ch' = [ch EXCEPT ![c] = s]
      BY <1>1, <1>5, <2>1 DEF Ask
    <3>2. s \in Chan
      BY ZenonT(40) DEF ChildAt, HelperAt
    <3>3. InStep(s)
      BY <1>1, <1>3, <1>5, <2>1 DEF Ask
    <3>4. Reported(s)
      BY <1>1, <1>3, <1>5, <2>1 DEF Ask
    <3>5. s.kind # "none" /\ (s.kind = "download" => Download(s))
      BY <1>1, <1>3, <1>5, <2>1 DEF Ask, Few, Many
    <3>6. s.kind = "upload" => Upload(s)
      BY <1>1, <1>3, <1>5, <2>1 DEF Ask, Few, Many
    <3>7. Quiet(r, s)
      BY <1>1, <1>3, <1>5, <2>1 DEF Ask, Quiet, OnWire, OnFile
    <3> HIDE DEF s
    <3> QED BY <3>1, <3>2, <3>3, <3>4, <3>5, <3>6, <3>7 DEF Moves
  <2>2. CASE ch' = [ch EXCEPT ![c].child = "tell", ![c].outcome = "failed"]
    <3> DEFINE s == [r EXCEPT !.child = "tell", !.outcome = "failed"]
    <3>1. ch' = [ch EXCEPT ![c] = s]
      BY <1>1, <1>5, <2>2 DEF Ask
    <3>2. s \in Chan
      BY ZenonT(40) DEF ChildAt
    <3>3. InStep(s)
      BY <1>1, <1>3, <1>5, <2>2 DEF Ask
    <3>4. Reported(s)
      BY <1>1, <1>3, <1>5, <2>2 DEF Ask
    <3>5. s.kind # "none" /\ (s.kind = "download" => Download(s))
      BY <1>1, <1>3, <1>5, <2>2 DEF Ask, Few, Many
    <3>6. s.kind = "upload" => Upload(s)
      BY <1>1, <1>3, <1>5, <2>2 DEF Ask, Few, Many
    <3>7. Quiet(r, s)
      BY <1>1, <1>3, <1>5, <2>2 DEF Ask, Quiet, OnWire, OnFile
    <3> HIDE DEF s
    <3> QED BY <3>1, <3>2, <3>3, <3>4, <3>5, <3>6, <3>7 DEF Moves
  <2> QED BY <1>5, <2>1, <2>2 DEF Ask
<1>6. CASE Answer(c)
  <2>1. CASE ch[c].answer = "ok"
    <3> DEFINE s == [r EXCEPT !.child = "move", !.outcome = "none"]
    <3>1. ch' = [ch EXCEPT ![c] = s]
      BY <1>1, <1>6, <2>1 DEF Answer
    <3>2. s \in Chan
      BY ZenonT(40) DEF ChildAt
    <3>3. InStep(s)
      BY <1>1, <1>3, <1>6, <2>1 DEF Answer
    <3>4. Reported(s)
      BY <1>1, <1>3, <1>6, <2>1 DEF Answer
    <3>5. s.kind # "none" /\ (s.kind = "download" => Download(s))
      BY <1>1, <1>3, <1>6, <2>1 DEF Answer, Few, Many
    <3>6. s.kind = "upload" => Upload(s)
      BY <1>1, <1>3, <1>6, <2>1 DEF Answer, Few, Many
    <3>7. Quiet(r, s)
      BY <1>1, <1>3, <1>6, <2>1 DEF Answer, Quiet, OnWire, OnFile
    <3> HIDE DEF s
    <3> QED BY <3>1, <3>2, <3>3, <3>4, <3>5, <3>6, <3>7 DEF Moves
  <2>2. CASE ch[c].answer # "ok"
    <3> DEFINE s == [r EXCEPT !.child = "tell", !.outcome = "failed"]
    <3>1. ch' = [ch EXCEPT ![c] = s]
      BY <1>1, <1>6, <2>2 DEF Answer
    <3>2. s \in Chan
      BY ZenonT(40) DEF ChildAt
    <3>3. InStep(s)
      BY <1>1, <1>3, <1>6, <2>2 DEF Answer
    <3>4. Reported(s)
      BY <1>1, <1>3, <1>6, <2>2 DEF Answer
    <3>5. s.kind # "none" /\ (s.kind = "download" => Download(s))
      BY <1>1, <1>3, <1>6, <2>2 DEF Answer, Few, Many
    <3>6. s.kind = "upload" => Upload(s)
      BY <1>1, <1>3, <1>6, <2>2 DEF Answer, Few, Many
    <3>7. Quiet(r, s)
      BY <1>1, <1>3, <1>6, <2>2 DEF Answer, Quiet, OnWire, OnFile
    <3> HIDE DEF s
    <3> QED BY <3>1, <3>2, <3>3, <3>4, <3>5, <3>6, <3>7 DEF Moves
  <2> QED BY <1>6, <2>1, <2>2 DEF Answer
<1>7. CASE Pull(c)
  <2> DEFINE s == [r EXCEPT !.pipe = 0, !.got = @ + 1,
                            !.sock = IF r.thread = "closed" THEN 0 ELSE 1]
  <2>0. r.got + 1 \in Many
    BY <1>1, <1>3, <1>7 DEF Pull, Moving, Few, Many
  <2>1. ch' = [ch EXCEPT ![c] = s]
    BY <1>1, <1>7 DEF Pull, Moving
  <2>2. s \in Chan
    BY <2>0, Numbers
  <2>3. InStep(s)
    BY <1>1, <1>3, <1>7 DEF Pull, Moving
  <2>4. Reported(s)
    BY <1>1, <1>3, <1>7 DEF Pull, Moving
  <2>5. s.kind # "none" /\ (s.kind = "download" => Download(s))
    BY <1>1, <1>3, <1>7 DEF Pull, Moving, Few, Many
  <2>6. s.kind = "upload" => Upload(s)
    BY <1>1, <1>3, <1>7 DEF Pull, Moving, Few, Many
  <2>7. Quiet(r, s)
    BY <1>1, <1>3, <1>7 DEF Pull, Moving, Quiet, OnWire, OnFile
  <2> HIDE DEF s
  <2> QED BY <2>1, <2>2, <2>3, <2>4, <2>5, <2>6, <2>7 DEF Moves
<1>8. CASE PullEnd(c)
  <2> DEFINE s == [r EXCEPT !.child = "tell", !.outcome = "concluded"]
  <2>1. ch' = [ch EXCEPT ![c] = s]
    BY <1>1, <1>8 DEF PullEnd, Moving
  <2>2. s \in Chan
    BY DEF ChildAt
  <2>3. InStep(s)
    BY <1>1, <1>3, <1>8 DEF PullEnd, Moving
  <2>4. Reported(s)
    BY <1>1, <1>3, <1>8 DEF PullEnd, Moving
  <2>5. s.kind # "none" /\ (s.kind = "download" => Download(s))
    BY <1>1, <1>3, <1>8 DEF PullEnd, Moving, Few, Many
  <2>6. s.kind = "upload" => Upload(s)
    BY <1>1, <1>3, <1>8 DEF PullEnd, Moving, Few, Many
  <2>7. Quiet(r, s)
    BY <1>1, <1>3, <1>8 DEF PullEnd, Moving, Quiet, OnWire, OnFile
  <2> HIDE DEF s
  <2> QED BY <2>1, <2>2, <2>3, <2>4, <2>5, <2>6, <2>7 DEF Moves
<1>9. CASE Push(c)
  <2> DEFINE s == [r EXCEPT !.sock = 0, !.pipe = 1]
  <2>1. ch' = [ch EXCEPT ![c] = s]
    BY <1>1, <1>9 DEF Push, Moving
  <2>2. s \in Chan
    BY Numbers
  <2>3. InStep(s)
    BY <1>1, <1>3, <1>9 DEF Push, Moving
  <2>4. Reported(s)
    BY <1>1, <1>3, <1>9 DEF Push, Moving
  <2>5. s.kind # "none" /\ (s.kind = "download" => Download(s))
    BY <1>1, <1>3, <1>9 DEF Push, Moving, Few, Many
  <2>6. s.kind = "upload" => Upload(s)
    BY <1>1, <1>3, <1>9 DEF Push, Moving, Few, Many
  <2>7. Quiet(r, s)
    BY <1>1, <1>3, <1>9 DEF Push, Moving, Quiet, OnWire, OnFile
  <2> HIDE DEF s
  <2> QED BY <2>1, <2>2, <2>3, <2>4, <2>5, <2>6, <2>7 DEF Moves
<1>10. CASE PushEnd(c)
  <2> DEFINE s == [r EXCEPT !.child = "tell", !.outcome = "concluded"]
  <2>1. ch' = [ch EXCEPT ![c] = s]
    BY <1>1, <1>10 DEF PushEnd, Moving
  <2>2. s \in Chan
    BY DEF ChildAt
  <2>3. InStep(s)
    BY <1>1, <1>3, <1>10 DEF PushEnd, Moving
  <2>4. Reported(s)
    BY <1>1, <1>3, <1>10 DEF PushEnd, Moving
  <2>5. s.kind # "none" /\ (s.kind = "download" => Download(s))
    BY <1>1, <1>3, <1>10 DEF PushEnd, Moving, Few, Many
  <2>6. s.kind = "upload" => Upload(s)
    BY <1>1, <1>3, <1>10 DEF PushEnd, Moving, Few, Many
  <2>7. Quiet(r, s)
    BY <1>1, <1>3, <1>10 DEF PushEnd, Moving, Quiet, OnWire, OnFile
  <2> HIDE DEF s
  <2> QED BY <2>1, <2>2, <2>3, <2>4, <2>5, <2>6, <2>7 DEF Moves
<1> QED BY <1>4, <1>5, <1>6, <1>7, <1>8, <1>9, <1>10

(* The helper's process, but for its opening, locking and writing the file.  *)
LEMMA HelperMoves ==
  ASSUME DataInv, NEW c \in Channel,
         \/ Refuse(c) \/ ReadFile(c) \/ ReadEnd(c) \/ DiskError(c) \/ StoreEnd(c)
         \/ NextRequest(c) \/ HelperSigpipe(c)
  PROVE  Moves(c)
<1>1. ch \in [Channel -> Chan] /\ file \in Seq(Channel \cup {Hole})
      /\ Len(file) \in Nat /\ Len(file) <= MaxBlocks /\ MaxBlocks \in Nat
  BY BoundsAssumption DEF DataInv, Typed
<1>2. PICK r \in Chan : r = ch[c]
  BY <1>1
<1>3. Sound(r)
  BY <1>2 DEF DataInv
<1> USE <1>2 DEF Chan, Sound, InStep, Reported, Download, Upload, Fresh, Ended
<1>4. CASE Refuse(c)
  <2> DEFINE s == [r EXCEPT !.helper = "next", !.answer = "refused"]
  <2>1. ch' = [ch EXCEPT ![c] = s]
    BY <1>1, <1>4 DEF Refuse
  <2>2. s \in Chan
    BY DEF HelperAt
  <2>3. InStep(s)
    BY <1>1, <1>3, <1>4 DEF Refuse
  <2>4. Reported(s)
    BY <1>1, <1>3, <1>4 DEF Refuse
  <2>5. s.kind # "none" /\ (s.kind = "download" => Download(s))
    BY <1>1, <1>3, <1>4 DEF Refuse, Few, Many
  <2>6. s.kind = "upload" => Upload(s)
    BY <1>1, <1>3, <1>4 DEF Refuse, Few, Many
  <2>7. Quiet(r, s)
    BY <1>1, <1>3, <1>4 DEF Refuse, Quiet, OnWire, OnFile
  <2> HIDE DEF s
  <2> QED BY <2>1, <2>2, <2>3, <2>4, <2>5, <2>6, <2>7 DEF Moves
<1>5. CASE ReadFile(c)
  <2> DEFINE s == [r EXCEPT !.pos = @ + 1, !.pipe = 1]
  <2>0. r.pos + 1 \in Many
    BY <1>1, <1>3, <1>5 DEF ReadFile, Few, Many
  <2>1. ch' = [ch EXCEPT ![c] = s]
    BY <1>1, <1>5 DEF ReadFile
  <2>2. s \in Chan
    BY <2>0, Numbers
  <2>3. InStep(s)
    BY <1>1, <1>3, <1>5 DEF ReadFile
  <2>4. Reported(s)
    BY <1>1, <1>3, <1>5 DEF ReadFile
  <2>5. s.kind # "none" /\ (s.kind = "download" => Download(s))
    BY <1>1, <1>3, <1>5 DEF ReadFile, Few, Many
  <2>6. s.kind = "upload" => Upload(s)
    BY <1>1, <1>3, <1>5 DEF ReadFile, Few, Many
  <2>7. Quiet(r, s)
    BY <1>1, <1>3, <1>5 DEF ReadFile, Quiet, OnWire, OnFile
  <2> HIDE DEF s
  <2> QED BY <2>1, <2>2, <2>3, <2>4, <2>5, <2>6, <2>7 DEF Moves
<1>6. CASE ReadEnd(c)
  <2> DEFINE s == [r EXCEPT !.helper = "next"]
  <2>1. ch' = [ch EXCEPT ![c] = s]
    BY <1>1, <1>6 DEF ReadEnd
  <2>2. s \in Chan
    BY DEF HelperAt
  <2>3. InStep(s)
    BY <1>1, <1>3, <1>6 DEF ReadEnd
  <2>4. Reported(s)
    BY <1>1, <1>3, <1>6 DEF ReadEnd
  <2>5. s.kind # "none" /\ (s.kind = "download" => Download(s))
    BY <1>1, <1>3, <1>6 DEF ReadEnd, Few, Many
  <2>6. s.kind = "upload" => Upload(s)
    BY <1>1, <1>3, <1>6 DEF ReadEnd, Few, Many
  <2>7. Quiet(r, s)
    BY <1>1, <1>3, <1>6 DEF ReadEnd, Quiet, OnWire, OnFile
  <2> HIDE DEF s
  <2> QED BY <2>1, <2>2, <2>3, <2>4, <2>5, <2>6, <2>7 DEF Moves
<1>7. CASE DiskError(c)
  <2> DEFINE s == [r EXCEPT !.pipe = 0, !.helper = "next", !.diskError = TRUE]
  <2>1. ch' = [ch EXCEPT ![c] = s]
    BY <1>1, <1>7 DEF DiskError
  <2>2. s \in Chan
    BY Numbers DEF HelperAt
  <2>3. InStep(s)
    BY <1>1, <1>3, <1>7 DEF DiskError
  <2>4. Reported(s)
    BY <1>1, <1>3, <1>7 DEF DiskError
  <2>5. s.kind # "none" /\ (s.kind = "download" => Download(s))
    BY <1>1, <1>3, <1>7 DEF DiskError, Few, Many
  <2>6. s.kind = "upload" => Upload(s)
    BY <1>1, <1>3, <1>7 DEF DiskError, Few, Many
  <2>7. Quiet(r, s)
    BY <1>1, <1>3, <1>7 DEF DiskError, Quiet, OnWire, OnFile
  <2> HIDE DEF s
  <2> QED BY <2>1, <2>2, <2>3, <2>4, <2>5, <2>6, <2>7 DEF Moves
<1>8. CASE StoreEnd(c)
  <2> DEFINE s == [r EXCEPT !.helper = "next"]
  <2>1. ch' = [ch EXCEPT ![c] = s]
    BY <1>1, <1>8 DEF StoreEnd
  <2>2. s \in Chan
    BY DEF HelperAt
  <2>3. InStep(s)
    BY <1>1, <1>3, <1>8 DEF StoreEnd
  <2>4. Reported(s)
    BY <1>1, <1>3, <1>8 DEF StoreEnd
  <2>5. s.kind # "none" /\ (s.kind = "download" => Download(s))
    BY <1>1, <1>3, <1>8 DEF StoreEnd, Few, Many
  <2>6. s.kind = "upload" => Upload(s)
    BY <1>1, <1>3, <1>8 DEF StoreEnd, Few, Many
  <2>7. Quiet(r, s)
    BY <1>1, <1>3, <1>8 DEF StoreEnd, Quiet, OnWire, OnFile
  <2> HIDE DEF s
  <2> QED BY <2>1, <2>2, <2>3, <2>4, <2>5, <2>6, <2>7 DEF Moves
<1>9. CASE NextRequest(c)
  <2>1. CASE /\ ch[c].child = "done" /\ (ch[c].kind = "upload" => ch[c].pipe = 0)
            /\ ch' = [ch EXCEPT ![c].helper = "done"]
    <3> DEFINE s == [r EXCEPT !.helper = "done"]
    <3>1. ch' = [ch EXCEPT ![c] = s]
      BY <1>1, <1>9, <2>1 DEF NextRequest
    <3>2. s \in Chan
      BY DEF HelperAt
    <3>3. InStep(s)
      BY <1>1, <1>3, <1>9, <2>1 DEF NextRequest
    <3>4. Reported(s)
      BY <1>1, <1>3, <1>9, <2>1 DEF NextRequest
    <3>5. s.kind # "none" /\ (s.kind = "download" => Download(s))
      BY <1>1, <1>3, <1>9, <2>1 DEF NextRequest, Few, Many
    <3>6. s.kind = "upload" => Upload(s)
      BY <1>1, <1>3, <1>9, <2>1 DEF NextRequest, Few, Many
    <3>7. Quiet(r, s)
      BY <1>1, <1>3, <1>9, <2>1 DEF NextRequest, Quiet, OnWire, OnFile
    <3> HIDE DEF s
    <3> QED BY <3>1, <3>2, <3>3, <3>4, <3>5, <3>6, <3>7 DEF Moves
  <2>2. CASE /\ ch[c].kind = "upload" /\ ch[c].pipe = 1
            /\ ch' = [ch EXCEPT ![c].pipe = 0]
    <3> DEFINE s == [r EXCEPT !.pipe = 0]
    <3>1. ch' = [ch EXCEPT ![c] = s]
      BY <1>1, <1>9, <2>2 DEF NextRequest
    <3>2. s \in Chan
      BY Numbers
    <3>3. InStep(s)
      BY <1>1, <1>3, <1>9, <2>2 DEF NextRequest
    <3>4. Reported(s)
      BY <1>1, <1>3, <1>9, <2>2 DEF NextRequest
    <3>5. s.kind # "none" /\ (s.kind = "download" => Download(s))
      BY <1>1, <1>3, <1>9, <2>2 DEF NextRequest, Few, Many
    <3>6. s.kind = "upload" => Upload(s)
      BY <1>1, <1>3, <1>9, <2>2 DEF NextRequest, Few, Many
    <3>7. Quiet(r, s)
      BY <1>1, <1>3, <1>9, <2>2 DEF NextRequest, Quiet, OnWire, OnFile
    <3> HIDE DEF s
    <3> QED BY <3>1, <3>2, <3>3, <3>4, <3>5, <3>6, <3>7 DEF Moves
  <2> QED BY <1>9, <2>1, <2>2 DEF NextRequest
<1>10. CASE HelperSigpipe(c)
  <2> DEFINE s == [r EXCEPT !.helper = "done"]
  <2>1. ch' = [ch EXCEPT ![c] = s]
    BY <1>1, <1>10 DEF HelperSigpipe
  <2>2. s \in Chan
    BY DEF HelperAt
  <2>3. InStep(s)
    BY <1>1, <1>3, <1>10 DEF HelperSigpipe
  <2>4. Reported(s)
    BY <1>1, <1>3, <1>10 DEF HelperSigpipe
  <2>5. s.kind # "none" /\ (s.kind = "download" => Download(s))
    BY <1>1, <1>3, <1>10 DEF HelperSigpipe, Few, Many
  <2>6. s.kind = "upload" => Upload(s)
    BY <1>1, <1>3, <1>10 DEF HelperSigpipe, Few, Many
  <2>7. Quiet(r, s)
    BY <1>1, <1>3, <1>10 DEF HelperSigpipe, Quiet, OnWire, OnFile
  <2> HIDE DEF s
  <2> QED BY <2>1, <2>2, <2>3, <2>4, <2>5, <2>6, <2>7 DEF Moves
<1> QED BY <1>4, <1>5, <1>6, <1>7, <1>8, <1>9, <1>10

(* The client's thread.                                                    *)
LEMMA ThreadMoves ==
  ASSUME DataInv, NEW c \in Channel,
         Connect(c) \/ OpenLocal(c) \/ SendBlock(c) \/ SendEnd(c) \/ ReceiveBlock(c) \/ ReceiveEnd(c)
  PROVE  Moves(c)
<1>1. ch \in [Channel -> Chan] /\ file \in Seq(Channel \cup {Hole})
      /\ Len(file) \in Nat /\ Len(file) <= MaxBlocks /\ MaxBlocks \in Nat
  BY BoundsAssumption DEF DataInv, Typed
<1>2. PICK r \in Chan : r = ch[c]
  BY <1>1
<1>3. Sound(r)
  BY <1>2 DEF DataInv
<1> USE <1>2 DEF Chan, Sound, InStep, Reported, Download, Upload, Fresh, Ended
<1>4. CASE Connect(c)
  <2>1. CASE ch' = [ch EXCEPT ![c].thread = "open", ![c].conn = TRUE]
    <3> DEFINE s == [r EXCEPT !.thread = "open", !.conn = TRUE]
    <3>1. ch' = [ch EXCEPT ![c] = s]
      BY <1>1, <1>4, <2>1 DEF Connect
    <3>2. s \in Chan
      BY DEF ThreadAt
    <3>3. InStep(s)
      BY <1>1, <1>3, <1>4, <2>1 DEF Connect
    <3>4. Reported(s)
      BY <1>1, <1>3, <1>4, <2>1 DEF Connect
    <3>5. s.kind # "none" /\ (s.kind = "download" => Download(s))
      BY <1>1, <1>3, <1>4, <2>1 DEF Connect, Few, Many
    <3>6. s.kind = "upload" => Upload(s)
      BY <1>1, <1>3, <1>4, <2>1 DEF Connect, Few, Many
    <3>7. Quiet(r, s)
      BY <1>1, <1>3, <1>4, <2>1 DEF Connect, Quiet, OnWire, OnFile
    <3> HIDE DEF s
    <3> QED BY <3>1, <3>2, <3>3, <3>4, <3>5, <3>6, <3>7 DEF Moves
  <2>2. CASE ch' = [ch EXCEPT ![c].thread = "closed"]
    <3> DEFINE s == [r EXCEPT !.thread = "closed"]
    <3>1. ch' = [ch EXCEPT ![c] = s]
      BY <1>1, <1>4, <2>2 DEF Connect
    <3>2. s \in Chan
      BY DEF ThreadAt
    <3>3. InStep(s)
      BY <1>1, <1>3, <1>4, <2>2 DEF Connect
    <3>4. Reported(s)
      BY <1>1, <1>3, <1>4, <2>2 DEF Connect
    <3>5. s.kind # "none" /\ (s.kind = "download" => Download(s))
      BY <1>1, <1>3, <1>4, <2>2 DEF Connect, Few, Many
    <3>6. s.kind = "upload" => Upload(s)
      BY <1>1, <1>3, <1>4, <2>2 DEF Connect, Few, Many
    <3>7. Quiet(r, s)
      BY <1>1, <1>3, <1>4, <2>2 DEF Connect, Quiet, OnWire, OnFile
    <3> HIDE DEF s
    <3> QED BY <3>1, <3>2, <3>3, <3>4, <3>5, <3>6, <3>7 DEF Moves
  <2> QED BY <1>4, <2>1, <2>2 DEF Connect
<1>5. CASE OpenLocal(c)
  <2>0. PICK at \in {"move", "closed"} : ch' = [ch EXCEPT ![c].thread = at]
    BY <1>5 DEF OpenLocal
  <2> DEFINE s == [r EXCEPT !.thread = at]
  <2>1. ch' = [ch EXCEPT ![c] = s]
    BY <1>1, <1>5, <2>0 DEF OpenLocal
  <2>2. s \in Chan
    BY DEF ThreadAt
  <2>3. InStep(s)
    BY <1>1, <1>3, <1>5, <2>0 DEF OpenLocal
  <2>4. Reported(s)
    BY <1>1, <1>3, <1>5, <2>0 DEF OpenLocal
  <2>5. s.kind # "none" /\ (s.kind = "download" => Download(s))
    BY <1>1, <1>3, <1>5, <2>0 DEF OpenLocal, Few, Many
  <2>6. s.kind = "upload" => Upload(s)
    BY <1>1, <1>3, <1>5, <2>0 DEF OpenLocal, Few, Many
  <2>7. Quiet(r, s)
    BY <1>1, <1>3, <1>5, <2>0 DEF OpenLocal, Quiet, OnWire, OnFile
  <2> HIDE DEF s
  <2> QED BY <2>1, <2>2, <2>3, <2>4, <2>5, <2>6, <2>7 DEF Moves
<1>6. CASE SendBlock(c)
  <2> DEFINE s == [r EXCEPT !.sock = 1, !.local = @ + 1]
  <2>0. r.local + 1 \in Many
    BY <1>1, <1>3, <1>6 DEF SendBlock, Few, Many
  <2>1. ch' = [ch EXCEPT ![c] = s]
    BY <1>1, <1>6 DEF SendBlock
  <2>2. s \in Chan
    BY <2>0, Numbers
  <2>3. InStep(s)
    BY <1>1, <1>3, <1>6 DEF SendBlock
  <2>4. Reported(s)
    BY <1>1, <1>3, <1>6 DEF SendBlock
  <2>5. s.kind # "none" /\ (s.kind = "download" => Download(s))
    BY <1>1, <1>3, <1>6 DEF SendBlock, Few, Many
  <2>6. s.kind = "upload" => Upload(s)
    BY <1>1, <1>3, <1>6 DEF SendBlock, Few, Many
  <2>7. Quiet(r, s)
    BY <1>1, <1>3, <1>6 DEF SendBlock, Quiet, OnWire, OnFile
  <2> HIDE DEF s
  <2> QED BY <2>1, <2>2, <2>3, <2>4, <2>5, <2>6, <2>7 DEF Moves
<1>7. CASE SendEnd(c)
  <2> DEFINE s == [r EXCEPT !.thread = "closed"]
  <2>1. ch' = [ch EXCEPT ![c] = s]
    BY <1>1, <1>7 DEF SendEnd
  <2>2. s \in Chan
    BY DEF ThreadAt
  <2>3. InStep(s)
    BY <1>1, <1>3, <1>7 DEF SendEnd
  <2>4. Reported(s)
    BY <1>1, <1>3, <1>7 DEF SendEnd
  <2>5. s.kind # "none" /\ (s.kind = "download" => Download(s))
    BY <1>1, <1>3, <1>7 DEF SendEnd, Few, Many
  <2>6. s.kind = "upload" => Upload(s)
    BY <1>1, <1>3, <1>7 DEF SendEnd, Few, Many
  <2>7. Quiet(r, s)
    BY <1>1, <1>3, <1>7 DEF SendEnd, Quiet, OnWire, OnFile
  <2> HIDE DEF s
  <2> QED BY <2>1, <2>2, <2>3, <2>4, <2>5, <2>6, <2>7 DEF Moves
<1>8. CASE ReceiveBlock(c)
  <2>1. CASE ch' = [ch EXCEPT ![c].sock = 0, ![c].local = @ + 1]
    <3> DEFINE s == [r EXCEPT !.sock = 0, !.local = @ + 1]
    <3>0. r.local + 1 \in Many
      BY <1>1, <1>3, <1>8, <2>1 DEF ReceiveBlock, Few, Many
    <3>1. ch' = [ch EXCEPT ![c] = s]
      BY <1>1, <1>8, <2>1 DEF ReceiveBlock
    <3>2. s \in Chan
      BY <3>0, Numbers
    <3>3. InStep(s)
      BY <1>1, <1>3, <1>8, <2>1 DEF ReceiveBlock
    <3>4. Reported(s)
      BY <1>1, <1>3, <1>8, <2>1 DEF ReceiveBlock
    <3>5. s.kind # "none" /\ (s.kind = "download" => Download(s))
      BY <1>1, <1>3, <1>8, <2>1 DEF ReceiveBlock, Few, Many
    <3>6. s.kind = "upload" => Upload(s)
      BY <1>1, <1>3, <1>8, <2>1 DEF ReceiveBlock, Few, Many
    <3>7. Quiet(r, s)
      BY <1>1, <1>3, <1>8, <2>1 DEF ReceiveBlock, Quiet, OnWire, OnFile
    <3> HIDE DEF s
    <3> QED BY <3>1, <3>2, <3>3, <3>4, <3>5, <3>6, <3>7 DEF Moves
  <2>2. CASE ch' = [ch EXCEPT ![c].sock = 0, ![c].thread = "closed"]
    <3> DEFINE s == [r EXCEPT !.sock = 0, !.thread = "closed"]
    <3>1. ch' = [ch EXCEPT ![c] = s]
      BY <1>1, <1>8, <2>2 DEF ReceiveBlock
    <3>2. s \in Chan
      BY Numbers DEF ThreadAt
    <3>3. InStep(s)
      BY <1>1, <1>3, <1>8, <2>2 DEF ReceiveBlock
    <3>4. Reported(s)
      BY <1>1, <1>3, <1>8, <2>2 DEF ReceiveBlock
    <3>5. s.kind # "none" /\ (s.kind = "download" => Download(s))
      BY <1>1, <1>3, <1>8, <2>2 DEF ReceiveBlock, Few, Many
    <3>6. s.kind = "upload" => Upload(s)
      BY <1>1, <1>3, <1>8, <2>2 DEF ReceiveBlock, Few, Many
    <3>7. Quiet(r, s)
      BY <1>1, <1>3, <1>8, <2>2 DEF ReceiveBlock, Quiet, OnWire, OnFile
    <3> HIDE DEF s
    <3> QED BY <3>1, <3>2, <3>3, <3>4, <3>5, <3>6, <3>7 DEF Moves
  <2> QED BY <1>8, <2>1, <2>2 DEF ReceiveBlock
<1>9. CASE ReceiveEnd(c)
  <2> DEFINE s == [r EXCEPT !.thread = "closed"]
  <2>1. ch' = [ch EXCEPT ![c] = s]
    BY <1>1, <1>9 DEF ReceiveEnd, ClosedByChild
  <2>2. s \in Chan
    BY DEF ThreadAt
  <2>3. InStep(s)
    BY <1>1, <1>3, <1>9 DEF ReceiveEnd, ClosedByChild
  <2>4. Reported(s)
    BY <1>1, <1>3, <1>9 DEF ReceiveEnd, ClosedByChild
  <2>5. s.kind # "none" /\ (s.kind = "download" => Download(s))
    BY <1>1, <1>3, <1>9 DEF ReceiveEnd, ClosedByChild, Few, Many
  <2>6. s.kind = "upload" => Upload(s)
    BY <1>1, <1>3, <1>9 DEF ReceiveEnd, ClosedByChild, Few, Many
  <2>7. Quiet(r, s)
    BY <1>1, <1>3, <1>9 DEF ReceiveEnd, ClosedByChild, Quiet, OnWire, OnFile
  <2> HIDE DEF s
  <2> QED BY <2>1, <2>2, <2>3, <2>4, <2>5, <2>6, <2>7 DEF Moves
<1> QED BY <1>4, <1>5, <1>6, <1>7, <1>8, <1>9

-----------------------------------------------------------------------------
(***************************************************************************)
(* What the channel as a whole keeps.                                      *)
(***************************************************************************)
LEMMA OneSound ==
  ASSUME DataInv, NEW c \in Channel, NEW s \in Chan, Sound(s), ch' = [ch EXCEPT ![c] = s]
  PROVE  /\ ch' \in [Channel -> Chan] /\ ch'[c] = s
         /\ \A d \in Channel : d # c => ch'[d] = ch[d]
         /\ (\A d \in Channel : Sound(ch[d]))'
<1>1. ch \in [Channel -> Chan] /\ \A d \in Channel : Sound(ch[d])
  BY DEF DataInv, Typed
<1>2. /\ ch' \in [Channel -> Chan] /\ ch'[c] = s
      /\ \A d \in Channel : d # c => ch'[d] = ch[d]
  BY <1>1
<1>3. \A d \in Channel : Sound(ch'[d])
  BY <1>1, <1>2
<1> QED BY <1>2, <1>3

(* What nobody takes notice of changes nothing.                            *)
LEMMA WireKeeps ==
  ASSUME DataInv, \A d \in Channel : OnWire(ch[d], ch'[d]), UNCHANGED Connection
  PROVE  SocketLock' /\ Aligned' /\ PortOnce' /\ PortAnnounced'
<1> USE DEF Connection
<1>1. SocketLock'
  BY DEF DataInv, SocketLock, OnWire
<1>2. Aligned'
  <2>1. Writing' <=> Writing
    BY DEF Writing, OnWire
  <2>2. \A w, x : Between(w, x) => Between(w, x)'
    BY DEF Between, OnWire
  <2>3. \A d \in Channel : ch'[d].child # "payload" <=> ch[d].child # "payload"
    BY DEF OnWire
  <2> QED BY <2>1, <2>2, <2>3 DEF DataInv, Aligned, Whole
<1>3. PortOnce'
  BY DEF DataInv, PortOnce, PortIn, OnWire
<1>4. PortAnnounced'
  BY DEF DataInv, PortAnnounced, Announced, OnWire
<1> QED BY <1>1, <1>2, <1>3, <1>4

LEMMA FileKeeps ==
  ASSUME DataInv, \A d \in Channel : OnFile(ch[d], ch'[d]), UNCHANGED file
  PROVE  Apart' /\ Stored' /\ Concluded'
<1>1. Apart'
  BY DEF DataInv, Apart, OnFile
<1>2. Stored'
  <2> SUFFICES ASSUME NEW u \in Channel, ch'[u].kind = "upload", ch'[u].alone, HasFile(u)'
               PROVE  /\ Len(file) = ch'[u].pos /\ \A i \in 1..ch'[u].pos : file[i] = u
                      /\ \A d \in Channel \ {u} : ch'[d].kind = "upload" => ~Opened(d)'
    BY DEF Stored
  <2>1. ch[u].kind = "upload" /\ ch[u].alone /\ HasFile(u) /\ ch'[u].pos = ch[u].pos
    BY DEF OnFile, HasFile
  <2>2. \A d \in Channel : /\ Opened(d)' => Opened(d)
                           /\ ch'[d].kind = "upload" => ch[d].kind = "upload"
    BY DEF OnFile, Opened
  <2> QED BY <2>1, <2>2 DEF DataInv, Stored
<1>3. Concluded'
  <2>1. \A d \in Channel : ch[d].after \subseteq Channel /\ ch'[d].after = ch[d].after
    BY DEF DataInv, Typed, Chan, OnFile
  <2>2. \A u \in Channel : ch[u].kind = "upload" /\ ch[u].outcome = "concluded" =>
                            ch'[u].kind = "upload" /\ ch'[u].outcome = "concluded"
    BY DEF OnFile
  <2> QED BY <2>1, <2>2 DEF DataInv, Concluded
<1> QED BY <1>1, <1>2, <1>3

(* A quiet step keeps the invariant.                                       *)
LEMMA QuietKeeps ==
  ASSUME DataInv, NEW c \in Channel, Moves(c), UNCHANGED Connection, UNCHANGED file
  PROVE  DataInv'
<1>1. PICK s \in Chan : Sound(s) /\ Quiet(ch[c], s) /\ ch' = [ch EXCEPT ![c] = s]
  BY DEF Moves
<1>2. /\ ch' \in [Channel -> Chan] /\ ch'[c] = s
      /\ \A d \in Channel : d # c => ch'[d] = ch[d]
      /\ (\A d \in Channel : Sound(ch[d]))'
  BY <1>1, OneSound
<1>3. \A d \in Channel : OnWire(ch[d], ch'[d]) /\ OnFile(ch[d], ch'[d])
  BY <1>1, <1>2 DEF Quiet, OnWire, OnFile
<1>4. Typed'
  BY <1>2 DEF DataInv, Typed, Connection
<1> QED BY <1>2, <1>3, <1>4, WireKeeps, FileKeeps DEF DataInv

-----------------------------------------------------------------------------
(***************************************************************************)
(* The steps at the file.                                                  *)
(***************************************************************************)
(* The lock, which no other transfer has, or only downloads.               *)
LEMMA LockKeeps ==
  ASSUME DataInv, NEW c \in Channel, Lock(c)
  PROVE  DataInv'
<1>1. /\ ch \in [Channel -> Chan] /\ Len(file) \in Many
      /\ MaxBlocks \in Nat
  BY BoundsAssumption DEF DataInv, Typed, Many
<1>2. PICK r \in Chan : r = ch[c]
  BY <1>1
<1>3. Sound(r)
  BY <1>2 DEF DataInv
<1> DEFINE s == [r EXCEPT !.helper = "stream", !.answer = "ok",
                          !.size = IF r.kind = "download" THEN Len(file) ELSE 0]
<1>4. ch' = [ch EXCEPT ![c] = s] /\ UNCHANGED Connection /\ UNCHANGED file
  BY <1>1, <1>2 DEF Lock, Connection
<1>5. s \in Chan
  <2>1. 0 \in Many
    BY <1>1 DEF Many
  <2> QED BY <1>1, <2>1 DEF Chan, HelperAt
<1>6. Sound(s)
  <2> USE <1>2, <1>3 DEF Lock, Chan, Sound, InStep
  <2>1. InStep(s) /\ s.kind # "none"
    OBVIOUS
  <2>2. Reported(s)
    BY DEF Reported, Ended
  <2>3. s.kind = "download" => Download(s)
    BY <1>1 DEF Download, Few, Many
  <2>4. s.kind = "upload" => Upload(s)
    BY DEF Upload, Few, Many
  <2> QED BY <2>1, <2>2, <2>3, <2>4
<1>7. /\ s.kind = r.kind /\ s.after = r.after /\ s.alone = r.alone
      /\ s.outcome = r.outcome /\ s.pos = r.pos /\ s.helper = "stream" /\ s.answer = "ok"
      /\ r.helper = "lock" /\ OnWire(r, s)
  BY <1>2 DEF Lock, Chan, OnWire
<1> HIDE DEF s
<1>8. /\ ch' \in [Channel -> Chan] /\ ch'[c] = s
      /\ \A d \in Channel : d # c => ch'[d] = ch[d]
      /\ (\A d \in Channel : Sound(ch[d]))'
  BY <1>4, <1>5, <1>6, OneSound
<1>9. \A d \in Channel : OnWire(ch[d], ch'[d])
  BY <1>2, <1>7, <1>8 DEF OnWire
<1>10. Typed'
  BY <1>4, <1>8 DEF DataInv, Typed, Connection
<1>11. Apart'
  BY <1>2, <1>7, <1>8 DEF DataInv, Apart, Lock, MayLock
<1>12. Stored'
  <2>1. \A d \in Channel :
          /\ ch'[d].kind = ch[d].kind /\ ch'[d].alone = ch[d].alone /\ ch'[d].pos = ch[d].pos
          /\ HasFile(d)' <=> HasFile(d)
          /\ Opened(d)' <=> Opened(d)
    BY <1>2, <1>7, <1>8 DEF HasFile, Opened
  <2> QED BY <1>4, <2>1 DEF DataInv, Stored
<1>13. Concluded'
  <2>1. \A d \in Channel :
          /\ ch[d].after \subseteq Channel /\ ch'[d].after = ch[d].after
          /\ ch'[d].kind = ch[d].kind /\ ch'[d].outcome = ch[d].outcome
    BY <1>2, <1>7, <1>8 DEF DataInv, Typed, Chan
  <2> QED BY <2>1 DEF DataInv, Concluded
<1> QED BY <1>4, <1>8, <1>9, <1>10, <1>11, <1>12, <1>13, WireKeeps DEF DataInv

(* The file after a write, block by block.                                 *)
LEMMA WrittenFacts ==
  ASSUME NEW S, file \in Seq(S), Hole \in S, NEW p \in Nat, NEW c \in S
  PROVE  /\ WrittenAt(p, c) \in Seq(S)
         /\ Len(WrittenAt(p, c)) = IF Len(file) > p THEN Len(file) ELSE p + 1
         /\ Len(file) = p => /\ Len(WrittenAt(p, c)) = p + 1
                             /\ WrittenAt(p, c)[p + 1] = c
                             /\ \A i \in 1..p : WrittenAt(p, c)[i] = file[i]
<1> DEFINE n == IF Len(file) > p THEN Len(file) ELSE p + 1
           w == [i \in 1..n |-> IF i = p + 1 THEN c ELSE IF i <= Len(file) THEN file[i] ELSE Hole]
<1>1. Len(file) \in Nat /\ n \in Nat /\ \A i \in 1..Len(file) : file[i] \in S
  OBVIOUS
<1>2. WrittenAt(p, c) = w
  BY DEF WrittenAt
<1> HIDE DEF n
<1>3. \A i \in 1..n : (IF i = p + 1 THEN c ELSE IF i <= Len(file) THEN file[i] ELSE Hole) \in S
  BY <1>1
<1>4. w \in [1..n -> S]
  BY <1>3
<1>5. w \in Seq(S) /\ Len(w) = n
  BY <1>1, <1>4
<1>6. ASSUME Len(file) = p
      PROVE  n = p + 1 /\ w[p + 1] = c /\ \A i \in 1..p : w[i] = file[i]
  <2>1. n = p + 1
    BY <1>6 DEF n
  <2> QED BY <1>6, <2>1
<1> HIDE DEF w
<1>7. n = IF Len(file) > p THEN Len(file) ELSE p + 1
  BY DEF n
<1> QED BY <1>2, <1>5, <1>6, <1>7

(* A block more in the file.                                               *)
LEMMA StoreKeeps ==
  ASSUME DataInv, NEW c \in Channel, StoreBlock(c)
  PROVE  DataInv'
<1>1. /\ ch \in [Channel -> Chan] /\ file \in Seq(Channel \cup {Hole}) /\ Len(file) \in Nat
      /\ Len(file) <= MaxBlocks /\ MaxBlocks \in Nat
  BY BoundsAssumption DEF DataInv, Typed
<1>2. PICK r \in Chan : r = ch[c]
  BY <1>1
<1>3. Sound(r)
  BY <1>2 DEF DataInv
<1>4. PICK p \in Nat : p = r.pos
  BY <1>1 DEF Chan, Many
<1>5. p + 1 \in Many /\ p + 1 <= MaxBlocks
  BY <1>1, <1>2, <1>3, <1>4 DEF StoreBlock, Sound, Upload, Chan, Few, Many
<1> DEFINE s == [r EXCEPT !.pipe = 0, !.pos = p + 1]
<1>6. ch' = [ch EXCEPT ![c] = s] /\ UNCHANGED Connection /\ file' = WrittenAt(p, c)
  BY <1>1, <1>2, <1>4 DEF StoreBlock, Connection
<1>7. s \in Chan
  BY <1>5, Numbers DEF Chan
<1>8. Sound(s)
  <2> USE <1>2, <1>3, <1>4 DEF StoreBlock, Chan, Sound
  <2>1. InStep(s) /\ s.kind # "none"
    BY DEF InStep
  <2>2. Reported(s)
    BY DEF Reported, Ended
  <2>3. s.kind = "upload" /\ Upload(s)
    BY DEF Upload, InStep, Few, Many
  <2> QED BY <2>1, <2>2, <2>3
<1>9. /\ s.kind = "upload" /\ s.after = r.after /\ s.alone = r.alone /\ s.outcome = r.outcome
      /\ s.answer = r.answer /\ s.pos = p + 1
      /\ r.kind = "upload" /\ r.helper = "stream" /\ s.helper = "stream" /\ OnWire(r, s)
      /\ r.answer = "ok"
  BY <1>2, <1>3 DEF StoreBlock, Chan, OnWire, Sound, InStep
<1> HIDE DEF s
<1>10. /\ ch' \in [Channel -> Chan] /\ ch'[c] = s
       /\ \A d \in Channel : d # c => ch'[d] = ch[d]
       /\ (\A d \in Channel : Sound(ch[d]))'
  BY <1>6, <1>7, <1>8, OneSound
<1>11. \A d \in Channel : OnWire(ch[d], ch'[d])
  BY <1>2, <1>9, <1>10 DEF OnWire
<1>12. Typed'
  <2>1. file' \in Seq(Channel \cup {Hole})
        /\ Len(file') = IF Len(file) > p THEN Len(file) ELSE p + 1
    BY <1>1, <1>6, WrittenFacts
  <2>2. Len(file') <= MaxBlocks
    BY <1>1, <1>5, <2>1
  <2> QED BY <1>6, <1>10, <2>1, <2>2 DEF DataInv, Typed, Connection
<1>13. Apart'
  BY <1>2, <1>9, <1>10 DEF DataInv, Apart
<1>14. Stored'
  <2>1. \A d \in Channel :
          /\ ch'[d].kind = ch[d].kind /\ ch'[d].alone = ch[d].alone
          /\ HasFile(d)' <=> HasFile(d)
          /\ Opened(d)' <=> Opened(d)
    BY <1>2, <1>9, <1>10 DEF HasFile, Opened
  <2> SUFFICES ASSUME NEW u \in Channel, ch[u].kind = "upload", ch[u].alone, HasFile(u)
               PROVE  Len(file') = ch'[u].pos /\ \A i \in 1..ch'[u].pos : file'[i] = u
    BY <2>1 DEF DataInv, Stored
  <2>2. \A d \in Channel \ {u} : ch[d].kind = "upload" => ~Opened(d)
    BY DEF DataInv, Stored
  <2>3. u = c
    BY <1>2, <1>9, <2>2 DEF Opened
  <2>4. Len(file) = p /\ \A i \in 1..p : file[i] = c
    BY <1>2, <1>4, <2>3 DEF DataInv, Stored
  <2>5. Len(file') = p + 1 /\ file'[p + 1] = c /\ \A i \in 1..p : file'[i] = file[i]
    BY <1>1, <1>6, <2>4, WrittenFacts
  <2> QED BY <1>9, <1>10, <2>3, <2>4, <2>5
<1>15. Concluded'
  <2>1. \A d \in Channel :
          /\ ch[d].after \subseteq Channel /\ ch'[d].after = ch[d].after
          /\ ch'[d].kind = ch[d].kind /\ ch'[d].outcome = ch[d].outcome
    BY <1>2, <1>9, <1>10 DEF DataInv, Typed, Chan
  <2> QED BY <2>1 DEF DataInv, Concluded
<1> QED BY <1>6, <1>10, <1>11, <1>12, <1>13, <1>14, <1>15, WireKeeps DEF DataInv

(* The open of an upload empties the file, and ends the promise to all     *)
(* others.                                                                 *)
LEMMA OpenKeeps ==
  ASSUME DataInv, NEW c \in Channel, Open(c)
  PROVE  DataInv'
<1>1. ch \in [Channel -> Chan] /\ \A d \in Channel : Sound(ch[d])
  BY DEF DataInv, Typed
<1>2. ch[c].helper = "open" /\ ch[c].answer # "ok" /\ (ch[c].kind = "upload" => ch[c].pos = 0)
      /\ ch[c].kind \in Kind /\ UNCHANGED Connection
  BY <1>1 DEF Open, Connection, Sound, InStep, Upload, Chan
<1>3. PICK a \in [Channel -> BOOLEAN] :
        /\ \A d \in Channel : ch'[d] = [ch[d] EXCEPT !.helper = IF d = c THEN "lock" ELSE @,
                                                    !.alone = a[d]]
        /\ ch' \in [Channel -> Chan]
        /\ \/ /\ ch[c].kind = "download" /\ UNCHANGED file
              /\ \A d \in Channel : a[d] = ch[d].alone
           \/ /\ ch[c].kind = "upload" /\ file' = <<>>
              /\ \A d \in Channel \ {c} : ~a[d]
              /\ a[c] => ~\E u \in Channel \ {c} : ch[u].kind = "upload" /\ Opened(u)
  <2>1. CASE ch[c].kind = "download"
    <3>1. ch' = [ch EXCEPT ![c].helper = "lock"] /\ UNCHANGED file
      BY <2>1 DEF Open
    <3>2. [d \in Channel |-> ch[d].alone] \in [Channel -> BOOLEAN]
      BY <1>1 DEF Chan
    <3>3. \A d \in Channel : ch'[d] = [ch[d] EXCEPT !.helper = IF d = c THEN "lock" ELSE @,
                                                   !.alone = ch[d].alone]
      BY <1>1, <3>1 DEF Chan
    <3>4. ch' \in [Channel -> Chan]
      BY <1>1, <3>1 DEF Chan, HelperAt
    <3> QED BY <2>1, <3>1, <3>2, <3>3, <3>4
  <2>2. CASE ch[c].kind # "download"
    <3> DEFINE x == ~\E u \in Channel \ {c} : ch[u].kind = "upload" /\ Opened(u)
    <3>1. file' = <<>> /\ ch' = [d \in Channel |->
                      IF d = c THEN [ch[c] EXCEPT !.helper = "lock", !.alone = x]
                      ELSE [ch[d] EXCEPT !.alone = FALSE]]
      BY <2>2 DEF Open
    <3>2. x \in BOOLEAN
      OBVIOUS
    <3> DEFINE b == [d \in Channel |-> d = c /\ x]
    <3>3. b \in [Channel -> BOOLEAN] /\ (\A d \in Channel \ {c} : ~b[d]) /\ (b[c] => x)
      OBVIOUS
    <3> HIDE DEF x
    <3>4. ch' \in [Channel -> Chan]
      <4>1. ASSUME NEW r \in Chan, NEW y \in BOOLEAN
            PROVE  /\ [r EXCEPT !.alone = y] \in Chan
                   /\ [r EXCEPT !.helper = "lock", !.alone = y] \in Chan
        BY DEF Chan, HelperAt
      <4> QED BY <1>1, <3>1, <3>2, <4>1
    <3>5. \A d \in Channel : ch'[d] = [ch[d] EXCEPT !.helper = IF d = c THEN "lock" ELSE @,
                                                   !.alone = b[d]]
      BY <1>1, <3>1, <3>2 DEF Chan
    <3> HIDE DEF b
    <3> QED BY <1>2, <2>2, <3>1, <3>3, <3>4, <3>5 DEF Kind, x
  <2> QED BY <2>1, <2>2
<1>4. \A d \in Channel :
        /\ ch'[d].kind = ch[d].kind /\ ch'[d].after = ch[d].after
        /\ ch'[d].outcome = ch[d].outcome /\ ch'[d].pos = ch[d].pos
        /\ ch'[d].answer = ch[d].answer /\ ch'[d].alone = a[d]
        /\ d # c => ch'[d].helper = ch[d].helper
        /\ OnWire(ch[d], ch'[d])
  <2> TAKE d \in Channel
  <2>1. PICK r \in Chan : r = ch[d]
    BY <1>1
  <2>2. ch'[d] = [r EXCEPT !.helper = IF d = c THEN "lock" ELSE @, !.alone = a[d]]
    BY <1>3, <2>1
  <2> QED BY <2>1, <2>2 DEF Chan, OnWire
<1>5. ch'[c].helper = "lock"
  BY <1>1, <1>3 DEF Chan
<1>6. (\A d \in Channel : Sound(ch[d]))'
  <2> SUFFICES ASSUME NEW d \in Channel
               PROVE  Sound(ch'[d])
    OBVIOUS
  <2>1. PICK r \in Chan : r = ch[d]
    BY <1>1
  <2>2. PICK s \in Chan : s = ch'[d]
    BY <1>3
  <2>3. Sound(r) /\ (d = c => r.helper = "open")
        /\ s = [r EXCEPT !.helper = IF d = c THEN "lock" ELSE @, !.alone = a[d]]
    BY <1>1, <1>2, <1>3, <2>1, <2>2
  <2>4. InStep(s) /\ (s.kind = "none" => Fresh(s))
    BY <2>3 DEF Sound, InStep, Chan, Fresh
  <2>5. Reported(s)
    BY <2>3 DEF Sound, Reported, Ended, Chan
  <2>6. s.kind = "download" => Download(s)
    BY <2>3 DEF Sound, Download, Chan
  <2>7. s.kind = "upload" => Upload(s)
    BY <2>3 DEF Sound, Upload, Chan
  <2> QED BY <2>2, <2>4, <2>5, <2>6, <2>7 DEF Sound
<1>7. Typed'
  <2>1. file' \in Seq(Channel \cup {Hole}) /\ Len(file') <= MaxBlocks
    <3>1. CASE UNCHANGED file
      BY <3>1 DEF DataInv, Typed
    <3>2. CASE file' = <<>>
      <4>1. Len(file') = 0 /\ file' \in Seq(Channel \cup {Hole})
        BY <3>2
      <4> QED BY <4>1, BoundsAssumption
    <3> QED BY <1>3, <3>1, <3>2
  <2> QED BY <1>2, <1>3, <2>1 DEF DataInv, Typed, Connection
<1>8. Apart'
  BY <1>4, <1>5 DEF DataInv, Apart
<1>9. Stored'
  <2> SUFFICES ASSUME NEW u \in Channel, ch[u].kind = "upload", a[u], HasFile(u)'
               PROVE  /\ Len(file') = ch[u].pos /\ \A i \in 1..ch[u].pos : file'[i] = u
                      /\ \A d \in Channel \ {u} : ch[d].kind = "upload" => ~Opened(d)'
    BY <1>4 DEF Stored
  <2>1. CASE ch[c].kind = "download"
    <3>1. u # c /\ ch[u].alone /\ HasFile(u) /\ UNCHANGED file
      BY <1>3, <1>4, <2>1 DEF HasFile
    <3>2. \A d \in Channel : ch[d].kind = "upload" => (Opened(d)' <=> Opened(d))
      BY <1>4, <2>1 DEF Opened
    <3> QED BY <3>1, <3>2 DEF DataInv, Stored
  <2>2. CASE ch[c].kind = "upload"
    <3>1. u = c /\ file' = <<>> /\ ch[u].pos = 0
          /\ ~\E d \in Channel \ {c} : ch[d].kind = "upload" /\ Opened(d)
      BY <1>2, <1>3, <2>2
    <3>2. \A d \in Channel \ {c} : Opened(d)' <=> Opened(d)
      BY <1>4 DEF Opened
    <3> QED BY <3>1, <3>2
  <2> QED BY <1>2, <2>1, <2>2 DEF Kind
<1>10. Concluded'
  <2>1. \A d \in Channel : ch[d].after \subseteq Channel
    BY <1>1 DEF Chan
  <2> QED BY <1>4, <2>1 DEF DataInv, Concluded
<1> QED BY <1>2, <1>4, <1>6, <1>7, <1>8, <1>9, <1>10, WireKeeps DEF DataInv

-----------------------------------------------------------------------------
(***************************************************************************)
(* Messages on the command connection.                                     *)
(***************************************************************************)
LEMMA Parity ==
  ASSUME NEW n \in Nat
  PROVE  /\ Even(n + 1) <=> ~Even(n)
         /\ Even(0) /\ ~Even(1)
         /\ n >= 2 => (Even(n - 2) <=> Even(n))
BY DEF Even

(* What a write leaves on the wire.                                        *)
LEMMA PutFacts ==
  ASSUME DataInv, NEW w \in What, NEW c \in Channel \cup {Handler},
         NEW p \in {"header", "payload", "piece"}, Put(w, c, p)
  PROVE  /\ wire' \in Seq(Half) /\ Len(wire') <= MaxWire
         /\ client.gone => wire' = <<>>
         /\ ~client.gone => /\ Len(wire') = Len(wire) + 1
                            /\ wire'[Len(wire) + 1] = [what |-> w, of |-> c, part |-> p]
                            /\ \A i \in 1..Len(wire) : wire'[i] = wire[i]
<1>1. wire \in Seq(Half) /\ Len(wire) \in Nat /\ MaxWire \in Nat
  BY BoundsAssumption DEF DataInv, Typed
<1>2. CASE client.gone /\ wire' = <<>>
  <2>1. <<>> \in Seq(Half) /\ Len(<<>>) = 0
    OBVIOUS
  <2> QED BY <1>1, <1>2, <2>1
<1>3. CASE ~client.gone /\ Room /\ wire' = Write(w, c, p)
  <2>1. PICK h \in Half : h = [what |-> w, of |-> c, part |-> p]
    BY DEF Half
  <2>2. wire' = Append(wire, h)
    BY <1>3, <2>1 DEF Write
  <2>3. /\ wire' \in Seq(Half) /\ Len(wire') = Len(wire) + 1
        /\ wire'[Len(wire) + 1] = h /\ \A i \in 1..Len(wire) : wire'[i] = wire[i]
    BY <1>1, <2>2
  <2> QED BY <1>1, <1>3, <2>1, <2>3 DEF Room
<1> QED BY <1>2, <1>3 DEF Put

(* What a write that is interrupted leaves on the wire.                    *)
LEMMA InterruptFacts ==
  ASSUME DataInv, NEW w \in What, NEW c \in Channel \cup {Handler}, NEW b \in BOOLEAN,
         WriteInterrupted(w, c, b)
  PROVE  /\ ~client.gone /\ spoiled' \in BOOLEAN /\ (spoiled => spoiled')
         /\ ~spoiled' => UNCHANGED wire /\ ~b
         /\ UNCHANGED wire \/ Put(w, c, "piece")
<1>1. wire \in Seq(Half) /\ Len(wire) \in Nat /\ MaxWire \in Nat /\ spoiled \in BOOLEAN
  BY BoundsAssumption DEF DataInv, Typed
<1>2. CASE ~Room /\ spoiled' = (spoiled \/ b) /\ UNCHANGED wire
  BY <1>1, <1>2 DEF WriteInterrupted
<1>3. CASE Len(wire) + 1 = MaxWire /\ spoiled' = TRUE /\ wire' = Write(w, c, "piece")
  BY <1>1, <1>3 DEF WriteInterrupted, Put, Room
<1> QED BY <1>2, <1>3 DEF WriteInterrupted

(* A header, written when nobody is in the middle of a message.            *)
LEMMA HeaderAligned ==
  ASSUME DataInv, NEW w \in What, NEW c \in Channel \cup {Handler}, Put(w, c, "header"),
         UNCHANGED client, spoiled => spoiled',
         ~spoiled' /\ ~client.gone =>
           /\ ~Writing /\ Writing' /\ Between(w, c)'
           /\ handler'.at = "replyload" => \A d \in Channel : ch'[d].child # "payload"
  PROVE  Aligned'
<1> SUFFICES ASSUME ~spoiled', ~client.gone
             PROVE  Aligned'
  BY DEF Aligned
<1>1. /\ Len(wire) \in Nat /\ Len(wire') = Len(wire) + 1
      /\ wire'[Len(wire) + 1] = [what |-> w, of |-> c, part |-> "header"]
      /\ \A i \in 1..Len(wire) : wire'[i] = wire[i]
  <2>1. Len(wire) \in Nat
    BY DEF DataInv, Typed
  <2> QED BY <2>1, PutFacts
<1>2. /\ ~client.torn /\ Even(Len(wire)) /\ ~Even(Len(wire'))
      /\ \A i \in 1..Len(wire) : ~Even(i) /\ i < Len(wire) => Whole(i)
  BY <1>1, Parity DEF DataInv, Aligned
<1>3. ASSUME NEW i \in 1..Len(wire'), ~Even(i), i < Len(wire')
      PROVE  Whole(i)'
  <2>1. i \in 1..Len(wire) /\ i # Len(wire)
    BY <1>1, <1>2, <1>3
  <2>2. i + 1 \in 1..Len(wire) /\ Whole(i)
    BY <1>1, <1>2, <1>3, <2>1
  <2> QED BY <1>1, <2>1, <2>2 DEF Whole
<1>4. wire'[Len(wire')].part = "header" /\ wire'[Len(wire')].what = w /\ wire'[Len(wire')].of = c
  BY <1>1
<1> QED BY <1>2, <1>3, <1>4 DEF Aligned

(* The payload of the message that is under way.                           *)
LEMMA PayloadAligned ==
  ASSUME DataInv, NEW w \in What, NEW c \in Channel \cup {Handler}, Put(w, c, "payload"),
         UNCHANGED <<client, spoiled>>,
         ~spoiled /\ ~client.gone =>
           /\ Writing /\ ~Writing' /\ \A v, d : Between(v, d) => v = w /\ d = c
           /\ handler'.at # "replyload"
  PROVE  Aligned'
<1> SUFFICES ASSUME ~spoiled, ~client.gone
             PROVE  Aligned'
  BY DEF Aligned
<1>1. /\ Len(wire) \in Nat /\ Len(wire') = Len(wire) + 1
      /\ wire'[Len(wire) + 1] = [what |-> w, of |-> c, part |-> "payload"]
      /\ \A i \in 1..Len(wire) : wire'[i] = wire[i]
  <2>1. Len(wire) \in Nat
    BY DEF DataInv, Typed
  <2> QED BY <2>1, PutFacts
<1>2. /\ ~client.torn /\ ~Even(Len(wire)) /\ Even(Len(wire'))
      /\ \A i \in 1..Len(wire) : ~Even(i) /\ i < Len(wire) => Whole(i)
      /\ wire[Len(wire)].part = "header"
      /\ wire[Len(wire)].what = w /\ wire[Len(wire)].of = c
  BY <1>1, Parity, SMTT(20) DEF DataInv, Aligned
<1>3. Len(wire) \in 1..Len(wire)
  BY <1>1, <1>2, Parity
<1>4. ASSUME NEW i \in 1..Len(wire'), ~Even(i), i < Len(wire')
      PROVE  Whole(i)'
  <2>1. CASE i = Len(wire)
    BY <1>1, <1>2, <1>3, <2>1 DEF Whole
  <2>2. CASE i # Len(wire)
    <3>1. i \in 1..Len(wire) /\ i + 1 \in 1..Len(wire) /\ Whole(i)
      BY <1>1, <1>2, <1>4, <2>2
    <3> QED BY <1>1, <3>1 DEF Whole
  <2> QED BY <2>1, <2>2
<1> QED BY <1>2, <1>4 DEF Aligned

(* A message that is not a port leaves the ports where they are.           *)
LEMMA OtherMessage ==
  ASSUME DataInv, NEW w \in What \ {"port"}, NEW c \in Channel \cup {Handler},
         NEW p \in {"header", "payload", "piece"}, Put(w, c, p), UNCHANGED client,
         handler'.of = handler.of, handler.of \in Channel => handler'.at = handler.at,
         \A d \in Channel : /\ ch'[d].child = "none" <=> ch[d].child = "none"
                            /\ ch'[d].child = "accept" => ch[d].child = "accept"
                            /\ ch'[d].thread = ch[d].thread
                            /\ ch'[d].unannounced = ch[d].unannounced
  PROVE  PortOnce' /\ PortAnnounced'
<1>1. Len(wire) \in Nat
  BY DEF DataInv, Typed
<1>2. CASE client.gone
  <2>1. Len(wire') = 0
    <3>1. w \in What
      OBVIOUS
    <3>2. wire' = <<>>
      BY <1>2, <3>1, PutFacts
    <3> QED BY <3>2
  <2> QED BY <1>2, <2>1 DEF DataInv, PortOnce, PortAnnounced, PortIn
<1>3. CASE ~client.gone
  <2>1. /\ Len(wire') = Len(wire) + 1 /\ wire'[Len(wire) + 1].what = w
        /\ \A i \in 1..Len(wire) : wire'[i] = wire[i]
    <3>1. w \in What
      OBVIOUS
    <3>2. /\ Len(wire') = Len(wire) + 1
          /\ wire'[Len(wire) + 1] = [what |-> w, of |-> c, part |-> p]
          /\ \A i \in 1..Len(wire) : wire'[i] = wire[i]
      BY <1>3, <3>1, PutFacts
    <3> QED BY <3>2
  <2>2. \A i \in 1..Len(wire'), d \in Channel :
          PortIn(i, d)' => i \in 1..Len(wire) /\ PortIn(i, d) /\ wire'[i] = wire[i]
    BY <1>1, <2>1 DEF PortIn
  <2>3. PortOnce'
    BY <1>3, <2>2 DEF DataInv, PortOnce
  <2>4. PortAnnounced'
    <3> SUFFICES ASSUME NEW d \in Channel, ch'[d].child = "accept", ~client.torn,
                        ~ch'[d].unannounced, ~Announced(d)'
                 PROVE  FALSE
      BY DEF PortAnnounced
    <3>1. Announced(d)
      BY <1>3 DEF DataInv, PortAnnounced
    <3>2. PICK i \in DOMAIN wire : PortIn(i, d)
      BY <3>1 DEF Announced, PortIn
    <3>3. i \in 1..Len(wire) /\ i \in 1..Len(wire')
      BY <1>1, <2>1 DEF DataInv, Typed
    <3>4. i \in DOMAIN wire' /\ PortIn(i, d)'
      <4>1. w \in What
        OBVIOUS
      <4>2. wire' \in Seq(Half)
        BY <4>1, PutFacts
      <4> QED BY <2>1, <3>2, <3>3, <4>2 DEF PortIn
    <3> QED BY <3>4 DEF Announced, PortIn
  <2> QED BY <2>3, <2>4
<1> QED BY <1>2, <1>3

-----------------------------------------------------------------------------
(***************************************************************************)
(* The steps of the handler.                                               *)
(***************************************************************************)
LEMMA SameTransfers ==
  ASSUME DataInv, UNCHANGED <<ch, file>>
  PROVE  /\ ch' \in [Channel -> Chan] /\ (\A c \in Channel : Sound(ch[c]))'
         /\ Apart' /\ Stored' /\ Concluded'
<1>1. \A d \in Channel : OnFile(ch[d], ch'[d])
  BY DEF OnFile
<1> QED BY <1>1, FileKeeps DEF DataInv, Typed

LEMMA PortHeaderKeeps ==
  ASSUME DataInv, PortHeader
  PROVE  DataInv'
<1> USE ChannelAssumption
<1>1. PICK c \in Channel : c = handler.of
  BY DEF DataInv, Typed, PortHeader
<1>2. /\ handler.at = "port" /\ handler' = [handler EXCEPT !.at = "portload"]
      /\ lock = NoOne /\ lock' = Handler /\ Put("port", c, "header")
      /\ spoiled' = spoiled /\ UNCHANGED client /\ UNCHANGED <<ch, file>>
  BY <1>1 DEF PortHeader, SendHeaderLocked, DataInv, Typed
<1>3. "port" \in What /\ "port" # "reply"
  BY DEF What
<1>4. /\ handler'.at = "portload" /\ handler'.of = c
      /\ handler' \in [at : {"read", "port", "portload", "replyload", "gone"},
                       of : Channel \cup {NoOne}]
  BY <1>1, <1>2 DEF DataInv, Typed
<1>5. \A d \in Channel : ch[d].child # "payload"
  BY <1>2 DEF DataInv, SocketLock
<1>6. /\ wire' \in Seq(Half) /\ Len(wire') <= MaxWire
      /\ client.gone => wire' = <<>>
      /\ ~client.gone => /\ Len(wire') = Len(wire) + 1
                         /\ wire'[Len(wire) + 1] = [what |-> "port", of |-> c, part |-> "header"]
                         /\ \A i \in 1..Len(wire) : wire'[i] = wire[i]
  BY <1>2, <1>3, PutFacts
<1>7. Typed'
  BY <1>2, <1>4, <1>6 DEF DataInv, Typed
<1>8. SocketLock'
  BY <1>2, <1>4, <1>5 DEF SocketLock
<1>9. Aligned'
  <2>1. ~Writing /\ Writing' /\ Between("port", c)' /\ handler'.at # "replyload"
    BY <1>2, <1>4, <1>5 DEF Writing, Between
  <2> QED BY <1>2, <1>3, <2>1, HeaderAligned
<1>10. Len(wire) \in Nat
  BY DEF DataInv, Typed
<1>11. PortOnce'
  <2>1. CASE client.gone
    <3>1. Len(wire') = 0
      BY <1>6, <2>1
    <3> QED BY <1>1, <1>2, <1>4, <2>1, <3>1 DEF DataInv, PortOnce
  <2>2. CASE ~client.gone
    <3>1. \A i \in 1..Len(wire'), d \in Channel :
            PortIn(i, d)' =>
              \/ i \in 1..Len(wire) /\ PortIn(i, d) /\ wire'[i] = wire[i]
              \/ i = Len(wire) + 1 /\ d = c /\ wire'[i].part = "header"
      BY <1>6, <1>10, <2>2 DEF PortIn
    <3>2. ~client.torn => \A i \in 1..Len(wire) : ~PortIn(i, c)
      BY <1>1, <1>2, <2>2 DEF DataInv, PortOnce
    <3> QED BY <1>1, <1>2, <1>4, <2>2, <3>1, <3>2 DEF DataInv, PortOnce
  <2> QED BY <2>1, <2>2
<1>12. PortAnnounced'
  <2> SUFFICES ASSUME NEW d \in Channel, ch[d].child = "accept", ~client.gone,
                      ~client.torn, ~ch[d].unannounced, d # c
               PROVE  Announced(d)'
    BY <1>2, <1>4 DEF PortAnnounced, Announced
  <2>1. Announced(d) /\ handler.of # d
    BY <1>1 DEF DataInv, PortAnnounced
  <2>2. CASE ch[d].thread # "none"
    BY <1>2, <2>2 DEF Announced
  <2>3. CASE \E i \in DOMAIN wire : wire[i].what = "port" /\ wire[i].of = d
    <3>1. PICK i \in 1..Len(wire) : wire[i].what = "port" /\ wire[i].of = d
      BY <2>3 DEF DataInv, Typed
    <3>2. i \in DOMAIN wire' /\ wire'[i] = wire[i]
      BY <1>6, <1>10, <3>1
    <3> QED BY <3>1, <3>2 DEF Announced
  <2> QED BY <2>1, <2>2, <2>3 DEF Announced
<1> QED BY <1>2, <1>7, <1>8, <1>9, <1>11, <1>12, SameTransfers DEF DataInv

LEMMA PortPayloadKeeps ==
  ASSUME DataInv, PortPayload
  PROVE  DataInv'
<1> USE ChannelAssumption
<1>1. PICK c \in Channel : c = handler.of
  BY DEF DataInv, Typed, PortPayload
<1>2. /\ handler.at = "portload" /\ handler' = [at |-> "read", of |-> NoOne]
      /\ lock = Handler /\ lock' = NoOne /\ Put("port", c, "payload")
      /\ UNCHANGED <<client, spoiled>> /\ UNCHANGED <<ch, file>>
  BY <1>1 DEF PortPayload, SendPayload, DataInv, Typed, SocketLock
<1>3. "port" \in What /\ "port" # "reply"
  BY DEF What
<1>4. /\ handler'.at = "read" /\ handler'.of = NoOne
      /\ handler' \in [at : {"read", "port", "portload", "replyload", "gone"},
                       of : Channel \cup {NoOne}]
  BY <1>2
<1>5. \A d \in Channel : ch[d].child # "payload"
  BY <1>2 DEF DataInv, SocketLock
<1>6. /\ wire' \in Seq(Half) /\ Len(wire') <= MaxWire
      /\ client.gone => wire' = <<>>
      /\ ~client.gone => /\ Len(wire') = Len(wire) + 1
                         /\ wire'[Len(wire) + 1] = [what |-> "port", of |-> c, part |-> "payload"]
                         /\ \A i \in 1..Len(wire) : wire'[i] = wire[i]
  BY <1>2, <1>3, PutFacts
<1>7. Typed'
  BY <1>2, <1>4, <1>6 DEF DataInv, Typed
<1>8. SocketLock'
  BY <1>2, <1>4, <1>5 DEF SocketLock
<1>9. Aligned'
  <2>1. Writing /\ ~Writing' /\ handler'.at # "replyload"
        /\ \A v, d : Between(v, d) => v = "port" /\ d = c
    BY <1>1, <1>2, <1>4, <1>5 DEF Writing, Between
  <2> QED BY <1>2, <1>3, <2>1, PayloadAligned
<1>10. Len(wire) \in Nat
  BY DEF DataInv, Typed
<1>11. PortOnce'
  <2>1. CASE client.gone
    <3>1. Len(wire') = 0
      BY <1>6, <2>1
    <3> QED BY <1>1, <1>2, <1>4, <2>1, <3>1 DEF DataInv, PortOnce
  <2>2. CASE ~client.gone
    <3>1. \A i \in 1..Len(wire'), d \in Channel :
            PortIn(i, d)' =>
              \/ i \in 1..Len(wire) /\ PortIn(i, d) /\ wire'[i] = wire[i]
              \/ i = Len(wire) + 1 /\ d = c /\ wire'[i].part = "payload"
      BY <1>6, <1>10, <2>2 DEF PortIn
    <3>2. ~client.torn => \A i \in 1..Len(wire) : PortIn(i, c) => wire[i].part = "header"
      BY <1>1, <1>2, <2>2 DEF DataInv, PortOnce
    <3> QED BY <1>1, <1>2, <1>4, <1>10, <2>2, <3>1, <3>2 DEF DataInv, PortOnce
  <2> QED BY <2>1, <2>2
<1>12. PortAnnounced'
  <2> SUFFICES ASSUME NEW d \in Channel, ch[d].child = "accept", ~client.gone,
                      ~client.torn, ~ch[d].unannounced
               PROVE  Announced(d)'
    BY <1>2, <1>4 DEF PortAnnounced, Announced
  <2>1. Announced(d)
    BY DEF DataInv, PortAnnounced
  <2>2. CASE ch[d].thread # "none"
    BY <1>2, <2>2 DEF Announced
  <2>3. CASE \E i \in DOMAIN wire : wire[i].what = "port" /\ wire[i].of = d
    <3>1. PICK i \in 1..Len(wire) : wire[i].what = "port" /\ wire[i].of = d
      BY <2>3 DEF DataInv, Typed
    <3>2. i \in DOMAIN wire' /\ wire'[i] = wire[i]
      BY <1>6, <1>10, <3>1
    <3> QED BY <3>1, <3>2 DEF Announced
  <2>4. CASE d = c
    <3>1. Len(wire) + 1 \in DOMAIN wire'
      BY <1>6, <1>10
    <3>2. wire'[Len(wire) + 1].what = "port" /\ wire'[Len(wire) + 1].of = d
      BY <1>6, <2>4
    <3> QED BY <3>1, <3>2 DEF Announced
  <2> QED BY <1>1, <2>1, <2>2, <2>3, <2>4 DEF Announced
<1> QED BY <1>2, <1>7, <1>8, <1>9, <1>11, <1>12, SameTransfers DEF DataInv

(* A signal ends the message with the port of a transfer: it is not        *)
(* announced, and the wire has a header without a payload, a piece, both   *)
(* or nothing of it.                                                       *)
LEMMA PortInterruptedKeeps ==
  ASSUME DataInv, PortInterrupted
  PROVE  DataInv'
<1> USE ChannelAssumption
<1>1. PICK c \in Channel : c = handler.of
  BY DEF DataInv, Typed, PortInterrupted
<1>2. PICK r \in Chan : r = ch[c]
  BY DEF DataInv, Typed
<1> DEFINE s == [r EXCEPT !.unannounced = TRUE]
<1>3. /\ handler.at \in {"port", "portload"} /\ handler' = [at |-> "read", of |-> NoOne]
      /\ ch' = [ch EXCEPT ![c] = s] /\ UNCHANGED <<client, file>>
      /\ lock' = IF lock = Handler THEN NoOne ELSE lock
  BY <1>1, <1>2 DEF PortInterrupted, DataInv, Typed
<1>4. "port" \in What /\ spoiled \in BOOLEAN
  BY DEF What, DataInv, Typed
<1>5. /\ spoiled' \in BOOLEAN /\ (spoiled => spoiled')
      /\ ~spoiled' => UNCHANGED wire /\ handler.at = "port"
      /\ UNCHANGED wire \/ (~client.gone /\ Put("port", c, "piece"))
  <2>1. ASSUME NEW b \in BOOLEAN, WriteInterrupted("port", c, b), ~b => handler.at = "port"
        PROVE  /\ spoiled' \in BOOLEAN /\ (spoiled => spoiled')
               /\ ~spoiled' => UNCHANGED wire /\ handler.at = "port"
               /\ UNCHANGED wire \/ (~client.gone /\ Put("port", c, "piece"))
    <3>1. c \in Channel \cup {Handler}
      OBVIOUS
    <3>2. /\ ~client.gone /\ spoiled' \in BOOLEAN /\ (spoiled => spoiled')
          /\ ~spoiled' => UNCHANGED wire /\ ~b
          /\ UNCHANGED wire \/ Put("port", c, "piece")
      BY <1>4, <2>1, <3>1, InterruptFacts, Zenon
    <3> QED BY <2>1, <3>2
  <2>2. CASE handler.at = "port" /\ UNCHANGED wire /\ UNCHANGED spoiled
    <3>1. spoiled' \in BOOLEAN
      BY <1>4, <2>2, Zenon
    <3> QED BY <2>2, <3>1
  <2>3. TRUE \in BOOLEAN /\ FALSE \in BOOLEAN
    BY Zenon
  <2>4. \/ handler.at = "port" /\ UNCHANGED wire /\ UNCHANGED spoiled
        \/ handler.at = "port" /\ WriteInterrupted("port", c, FALSE)
        \/ WriteInterrupted("port", c, TRUE)
    BY <1>1 DEF PortInterrupted
  <2>5. CASE handler.at = "port" /\ WriteInterrupted("port", c, FALSE)
    BY <2>1, <2>3, <2>5
  <2>6. CASE WriteInterrupted("port", c, TRUE)
    BY <2>1, <2>3, <2>6
  <2> QED BY <2>2, <2>4, <2>5, <2>6
<1>6. s \in Chan
  BY DEF Chan
<1>7. Sound(s)
  BY <1>2 DEF DataInv, Sound, InStep, Reported, Ended, Fresh, Download, Upload, Chan
<1>8. /\ OnFile(r, s) /\ s.child = r.child /\ s.thread = r.thread /\ s.outcome = r.outcome
      /\ s.unannounced
  BY DEF OnFile, Chan
<1> HIDE DEF s
<1>9. /\ ch' \in [Channel -> Chan] /\ ch'[c] = s
      /\ \A d \in Channel : d # c => ch'[d] = ch[d]
      /\ (\A d \in Channel : Sound(ch[d]))'
  BY <1>3, <1>6, <1>7, OneSound
<1>10. \A d \in Channel :
         /\ OnFile(ch[d], ch'[d]) /\ ch'[d].child = ch[d].child
         /\ ch'[d].thread = ch[d].thread /\ ch'[d].outcome = ch[d].outcome
  BY <1>2, <1>8, <1>9 DEF OnFile
<1>11. /\ handler'.at = "read" /\ handler'.of = NoOne
       /\ handler' \in [at : {"read", "port", "portload", "replyload", "gone"},
                        of : Channel \cup {NoOne}]
  BY <1>3
<1>12. /\ wire' \in Seq(Half) /\ Len(wire') <= MaxWire /\ Len(wire) \in Nat
       /\ \A i \in 1..Len(wire) : i \in 1..Len(wire') /\ wire'[i] = wire[i]
       /\ \A i \in 1..Len(wire') :
            \/ i \in 1..Len(wire)
            \/ i = Len(wire) + 1 /\ wire'[i] = [what |-> "port", of |-> c, part |-> "piece"]
  <2>1. wire \in Seq(Half) /\ Len(wire) <= MaxWire /\ Len(wire) \in Nat
    BY DEF DataInv, Typed
  <2>2. CASE UNCHANGED wire
    BY <2>1, <2>2
  <2>3. CASE ~client.gone /\ Put("port", c, "piece")
    <3>1. /\ wire' \in Seq(Half) /\ Len(wire') <= MaxWire /\ Len(wire') = Len(wire) + 1
          /\ wire'[Len(wire) + 1] = [what |-> "port", of |-> c, part |-> "piece"]
          /\ \A i \in 1..Len(wire) : wire'[i] = wire[i]
      BY <1>4, <2>3, PutFacts
    <3> QED BY <2>1, <3>1
  <2> QED BY <1>5, <2>2, <2>3
<1>13. Typed'
  BY <1>3, <1>5, <1>9, <1>11, <1>12 DEF DataInv, Typed
<1>14. SocketLock'
  BY <1>3, <1>10, <1>11 DEF DataInv, SocketLock
<1>15. Aligned'
  <2> SUFFICES ASSUME ~spoiled', ~client.gone PROVE Aligned'
    BY <1>3 DEF Aligned
  <2>1. ~spoiled /\ UNCHANGED wire /\ handler.at = "port"
    BY <1>5
  <2>2. Writing' <=> Writing
    BY <1>10, <1>11, <2>1 DEF Writing
  <2>3. \A w, x : Between(w, x) => Between(w, x)'
    BY <1>10, <1>11, <2>1 DEF Between
  <2> QED BY <1>3, <1>10, <1>11, <2>1, <2>2, <2>3 DEF DataInv, Aligned, Whole
<1>16. \A i \in 1..Len(wire'), d \in Channel :
         PortIn(i, d)' =>
           \/ i \in 1..Len(wire) /\ PortIn(i, d) /\ wire'[i] = wire[i]
           \/ i = Len(wire) + 1 /\ d = c /\ wire'[i].part = "piece"
  BY <1>12 DEF PortIn
<1>17. PortOnce'
  <2>1. ~client.torn /\ ~client.gone =>
          \A i \in 1..Len(wire) : PortIn(i, c) => wire[i].part = "header"
    BY <1>1 DEF DataInv, PortOnce
  <2>2. ch[c].child # "none" /\ ch[c].thread = "none"
    BY <1>1 DEF DataInv, PortOnce
  <2>3. ~client.torn /\ ~client.gone =>
          \A i, j \in 1..Len(wire'), d \in Channel :
            PortIn(i, d)' /\ PortIn(j, d)' =>
              /\ wire'[i].part = wire'[j].part => i = j
              /\ wire'[i].part = "header" /\ wire'[j].part = "payload" => i < j
              /\ wire'[i].part = "piece" => wire'[j].part # "payload"
    BY <1>12, <1>16, <2>1, SMTT(30) DEF DataInv, PortOnce
  <2>4. \A i \in 1..Len(wire'), d \in Channel : PortIn(i, d)' =>
          /\ ch'[d].child # "none"
          /\ ~client.torn /\ ~client.gone => ch'[d].thread = "none"
    BY <1>10, <1>16, <2>2 DEF DataInv, PortOnce
  <2>5. \A d \in Channel : handler'.of # d
    BY <1>11
  <2> QED BY <1>3, <2>3, <2>4, <2>5 DEF PortOnce
<1>18. PortAnnounced'
  <2> SUFFICES ASSUME NEW d \in Channel, ch[d].child = "accept", ~client.gone,
                      ~client.torn, ~ch'[d].unannounced
               PROVE  Announced(d)'
    BY <1>3, <1>10 DEF PortAnnounced
  <2>1. d # c /\ ch'[d] = ch[d]
    BY <1>8, <1>9
  <2>2. Announced(d) /\ handler.of # d
    BY <1>1, <2>1 DEF DataInv, PortAnnounced
  <2>3. CASE ch[d].thread # "none"
    BY <2>1, <2>3 DEF Announced
  <2>4. CASE \E i \in DOMAIN wire : wire[i].what = "port" /\ wire[i].of = d
    <3>1. PICK i \in 1..Len(wire) : wire[i].what = "port" /\ wire[i].of = d
      BY <2>4 DEF DataInv, Typed
    <3>2. i \in DOMAIN wire' /\ wire'[i] = wire[i]
      BY <1>12, <3>1
    <3> QED BY <3>1, <3>2 DEF Announced
  <2> QED BY <2>2, <2>3, <2>4 DEF Announced
<1> QED BY <1>3, <1>9, <1>10, <1>13, <1>14, <1>15, <1>17, <1>18, FileKeeps DEF DataInv

(* The same in a reply.                                                    *)
LEMMA ReplyInterruptedKeeps ==
  ASSUME DataInv, ReplyInterrupted
  PROVE  DataInv'
<1> USE ChannelAssumption
<1>1. "reply" \in What \ {"port"} /\ Handler \in Channel \cup {Handler}
  BY DEF What
<1>2. /\ UNCHANGED <<lock, client, ch, file>>
      /\ handler.at \in {"read", "replyload"} /\ handler' = [handler EXCEPT !.at = "read"]
  BY DEF ReplyInterrupted
<1>3. PICK b \in BOOLEAN : b = (handler.at = "replyload") /\ WriteInterrupted("reply", Handler, b)
  BY DEF ReplyInterrupted
<1>4. /\ spoiled' \in BOOLEAN /\ (spoiled => spoiled') /\ ~client.gone
      /\ ~spoiled' => UNCHANGED wire /\ handler.at = "read"
      /\ UNCHANGED wire \/ Put("reply", Handler, "piece")
  <2>1. "reply" \in What
    BY <1>1
  <2>2. /\ spoiled' \in BOOLEAN /\ (spoiled => spoiled') /\ ~client.gone
        /\ ~spoiled' => UNCHANGED wire /\ ~b
        /\ UNCHANGED wire \/ Put("reply", Handler, "piece")
    BY <1>1, <1>3, <2>1, InterruptFacts, Zenon
  <2> QED BY <1>2, <1>3, <2>2, Zenon
<1>5. /\ handler.of = NoOne /\ handler'.of = handler.of /\ handler'.at = "read"
      /\ handler' \in [at : {"read", "port", "portload", "replyload", "gone"},
                       of : Channel \cup {NoOne}]
  BY <1>2 DEF DataInv, Typed
<1>6. wire' \in Seq(Half) /\ Len(wire') <= MaxWire
  BY <1>1, <1>4, PutFacts DEF DataInv, Typed
<1>7. Typed'
  BY <1>2, <1>4, <1>5, <1>6 DEF DataInv, Typed
<1>8. SocketLock'
  BY <1>2, <1>5 DEF DataInv, SocketLock
<1>9. Aligned'
  <2> SUFFICES ASSUME ~spoiled' PROVE Aligned'
    BY DEF Aligned
  <2>1. UNCHANGED <<wire, handler, ch, client>> /\ ~spoiled
    BY <1>2, <1>4 DEF DataInv, Typed
  <2> QED BY <2>1 DEF DataInv, Aligned, Whole, Writing, Between
<1>10. PortOnce' /\ PortAnnounced'
  <2>1. CASE UNCHANGED wire
    BY <1>2, <1>5, <2>1 DEF DataInv, PortOnce, PortAnnounced, PortIn, Announced
  <2>2. CASE Put("reply", Handler, "piece")
    BY <1>1, <1>2, <1>5, <2>2, OtherMessage
  <2> QED BY <1>4, <2>1, <2>2
<1> QED BY <1>2, <1>7, <1>8, <1>9, <1>10, SameTransfers DEF DataInv

LEMMA ReplyKeeps ==
  ASSUME DataInv, ReplyHeader \/ ReplyPayload
  PROVE  DataInv'
<1> USE ChannelAssumption
<1>1. "reply" \in What \ {"port"} /\ Handler \in Channel \cup {Handler}
  BY DEF What
<1>2. /\ UNCHANGED <<lock, client, ch, file>> /\ handler'.of = handler.of
      /\ handler.at # "port" /\ handler.at # "portload"
      /\ handler'.at \in {"read", "replyload"}
      /\ handler' \in [at : {"read", "port", "portload", "replyload", "gone"},
                       of : Channel \cup {NoOne}]
      /\ spoiled' \in BOOLEAN
  BY DEF ReplyHeader, ReplyPayload, DataInv, Typed
<1>3. handler.of = NoOne
  BY <1>2 DEF DataInv, Typed
<1>4. PICK p \in {"header", "payload"} : Put("reply", Handler, p)
  BY DEF ReplyHeader, ReplyPayload
<1>5. wire' \in Seq(Half) /\ Len(wire') <= MaxWire
  BY <1>1, <1>4, PutFacts
<1>6. Typed'
  BY <1>2, <1>3, <1>5 DEF DataInv, Typed
<1>7. SocketLock'
  BY <1>2 DEF DataInv, SocketLock
<1>8. Aligned'
  <2>1. CASE ReplyHeader
    <3>1. /\ Put("reply", Handler, "header") /\ (spoiled => spoiled')
          /\ handler.at = "read" /\ handler'.at = "replyload"
          /\ ~spoiled' => \A d \in Channel : ch[d].child # "payload"
      BY <2>1 DEF ReplyHeader, DataInv, Typed
    <3>2. ~spoiled' => /\ ~Writing /\ Writing' /\ Between("reply", Handler)'
                       /\ \A d \in Channel : ch'[d].child # "payload"
      BY <1>2, <3>1 DEF Writing, Between
    <3>3. "reply" \in What /\ UNCHANGED client
      BY <1>1, <1>2
    <3>4. ~spoiled' /\ ~client.gone =>
            /\ ~Writing /\ Writing' /\ Between("reply", Handler)'
            /\ handler'.at = "replyload" => \A d \in Channel : ch'[d].child # "payload"
      BY <3>2
    <3> QED BY <1>1, <3>1, <3>3, <3>4, HeaderAligned
  <2>2. CASE ReplyPayload
    <3>1. /\ Put("reply", Handler, "payload") /\ UNCHANGED spoiled
          /\ handler.at = "replyload" /\ handler'.at = "read"
      BY <2>2 DEF ReplyPayload, DataInv, Typed
    <3>2. ~spoiled /\ ~client.gone => \A d \in Channel : ch[d].child # "payload"
      BY <3>1 DEF DataInv, Aligned
    <3>3. ~spoiled /\ ~client.gone =>
            /\ Writing /\ ~Writing'
            /\ \A v, d : Between(v, d) => v = "reply" /\ d = Handler
      BY <1>2, <3>1, <3>2 DEF Writing, Between
    <3> QED BY <1>1, <1>2, <3>1, <3>3, PayloadAligned
  <2> QED BY <2>1, <2>2
<1>9. PortOnce' /\ PortAnnounced'
  BY <1>1, <1>2, <1>3, <1>4, OtherMessage
<1> QED BY <1>2, <1>6, <1>7, <1>8, <1>9, SameTransfers DEF DataInv

LEMMA HandlerGoneKeeps ==
  ASSUME DataInv, HandlerGone
  PROVE  DataInv'
<1> USE ChannelAssumption
<1>1. /\ client.gone /\ UNCHANGED <<wire, client, ch, file, spoiled>>
      /\ handler'.at = "gone" /\ handler'.of = NoOne
      /\ handler' \in [at : {"read", "port", "portload", "replyload", "gone"},
                       of : Channel \cup {NoOne}]
      /\ lock' = IF lock = Handler THEN NoOne ELSE lock
  BY DEF HandlerGone
<1>2. Typed'
  BY <1>1 DEF DataInv, Typed
<1>3. SocketLock'
  BY <1>1 DEF DataInv, SocketLock
<1>4. Aligned'
  BY <1>1 DEF Aligned
<1>5. PortOnce'
  BY <1>1 DEF DataInv, PortOnce, PortIn
<1>6. PortAnnounced'
  BY <1>1 DEF PortAnnounced
<1> QED BY <1>1, <1>2, <1>3, <1>4, <1>5, <1>6, SameTransfers DEF DataInv

(* A new transfer: nothing of it is on the wire yet, and what it may rely  *)
(* on are the uploads heard of by now.                                     *)
LEMMA StartKeeps ==
  ASSUME DataInv, NEW c \in Channel, NEW k \in Kind, Start(c, k)
  PROVE  DataInv'
<1> USE ChannelAssumption
<1>1. PICK r \in Chan : r = ch[c]
  BY DEF DataInv, Typed
<1>2. PICK h \in SUBSET Channel :
        h = {u \in Channel : ch[u].kind = "upload" /\ ch[u].outcome = "concluded" /\ ch[u].heard}
  OBVIOUS
<1> DEFINE s == [r EXCEPT !.kind = k, !.child = "accept", !.after = h]
<1>3. /\ handler.at = "read" /\ handler' = [at |-> "port", of |-> c] /\ r.child = "none"
      /\ ch' = [ch EXCEPT ![c] = s]
      /\ UNCHANGED <<lock, wire, client, file, spoiled>>
  BY <1>1, <1>2 DEF Start, DataInv, Typed
<1>4. s \in Chan
  BY DEF Chan, ChildAt
<1>5. /\ Sound(r) /\ r.kind = "none" /\ r.helper = "none" /\ r.thread = "none"
      /\ r.answer = "none" /\ r.outcome = "none"
  BY <1>1, <1>3 DEF DataInv, Sound, InStep, Fresh
<1>6. Sound(s)
  <2>1. InStep(s) /\ Reported(s) /\ s.kind # "none"
    BY <1>3, <1>5 DEF Sound, InStep, Reported, Ended, Chan, Kind
  <2>2. Fresh(s)
    BY <1>5 DEF Sound, Fresh, Chan
  <2>3. Download(s)
    BY <1>5, <2>2 DEF Download, Fresh, Chan
  <2>4. Upload(s)
    BY <1>5, <2>2 DEF Upload, Fresh, Chan
  <2> QED BY <2>1, <2>3, <2>4 DEF Sound
<1>7. /\ s.child = "accept" /\ s.helper = "none" /\ s.thread = "none" /\ s.answer = "none"
      /\ s.after = h
  BY <1>5 DEF Chan
<1> HIDE DEF s
<1>8. /\ ch' \in [Channel -> Chan] /\ ch'[c] = s
      /\ \A d \in Channel : d # c => ch'[d] = ch[d]
      /\ (\A d \in Channel : Sound(ch[d]))'
  BY <1>3, <1>4, <1>6, OneSound
<1>9. /\ handler'.at = "port" /\ handler'.of = c
      /\ handler' \in [at : {"read", "port", "portload", "replyload", "gone"},
                       of : Channel \cup {NoOne}]
  BY <1>3
<1>10. \A d \in Channel : ch'[d].child = "payload" <=> ch[d].child = "payload"
  BY <1>1, <1>3, <1>7, <1>8
<1>11. Typed'
  BY <1>3, <1>8, <1>9 DEF DataInv, Typed
<1>12. SocketLock'
  BY <1>3, <1>9, <1>10 DEF DataInv, SocketLock
<1>13. Aligned'
  <2>1. Writing' <=> Writing
    BY <1>3, <1>9, <1>10 DEF Writing
  <2>2. \A w, x : Between(w, x) => Between(w, x)'
    BY <1>1, <1>3, <1>8, <1>9 DEF Between
  <2> QED BY <1>3, <1>9, <2>1, <2>2 DEF DataInv, Aligned, Whole
<1>14. \A i \in 1..Len(wire) : ~PortIn(i, c)
  BY <1>1, <1>3 DEF DataInv, PortOnce
<1>15. PortOnce'
  BY <1>3, <1>7, <1>8, <1>9, <1>14 DEF DataInv, PortOnce, PortIn
<1>16. PortAnnounced'
  <2> SUFFICES ASSUME NEW d \in Channel, d # c, ch[d].child = "accept", ~client.gone,
                      ~client.torn, ~ch[d].unannounced
               PROVE  Announced(d)'
    BY <1>3, <1>8, <1>9 DEF PortAnnounced, Announced
  <2>1. Announced(d) /\ handler.of # d
    BY <1>3 DEF DataInv, Typed, PortAnnounced
  <2> QED BY <1>3, <1>8, <2>1 DEF Announced
<1>17. Apart'
  BY <1>7, <1>8 DEF DataInv, Apart
<1>18. Stored'
  <2>1. ~HasFile(c)' /\ ~Opened(c)'
    BY <1>7, <1>8 DEF HasFile, Opened
  <2>2. \A d \in Channel : d # c => (HasFile(d)' <=> HasFile(d)) /\ (Opened(d)' <=> Opened(d))
    BY <1>8 DEF HasFile, Opened
  <2> QED BY <1>3, <1>8, <2>1, <2>2 DEF DataInv, Stored
<1>19. Concluded'
  <2>1. \A d, u \in Channel : u \in ch'[d].after =>
          ch[u].kind = "upload" /\ ch[u].outcome = "concluded"
    BY <1>2, <1>7, <1>8 DEF DataInv, Concluded
  <2>2. \A d \in Channel : ch'[d].after \subseteq Channel
    BY <1>8 DEF Chan
  <2> QED BY <1>1, <1>5, <1>8, <2>1, <2>2 DEF Concluded
<1> QED BY <1>8, <1>11, <1>12, <1>13, <1>15, <1>16, <1>17, <1>18, <1>19 DEF DataInv

-----------------------------------------------------------------------------
(***************************************************************************)
(* The messages of a child, and its end.                                   *)
(***************************************************************************)
LEMMA TellHeaderKeeps ==
  ASSUME DataInv, NEW c \in Channel, TellHeader(c)
  PROVE  DataInv'
<1> USE ChannelAssumption
<1>1. PICK r \in Chan : r = ch[c]
  BY DEF DataInv, Typed
<1> DEFINE s == [r EXCEPT !.child = "payload"]
<1>2. /\ r.child = "tell" /\ ch' = [ch EXCEPT ![c] = s] /\ lock = NoOne /\ lock' = c
      /\ Put(r.outcome, c, "header") /\ UNCHANGED <<handler, client, file>>
      /\ spoiled' = (spoiled \/ handler.at = "replyload") /\ spoiled' \in BOOLEAN
  BY <1>1 DEF TellHeader, SendHeaderLocked, DataInv, Typed
<1>3. s \in Chan
  BY DEF Chan, ChildAt
<1>4. Sound(r) /\ r.outcome \in {"concluded", "failed"}
  BY <1>1, <1>2 DEF DataInv, Sound, Reported, Chan
<1>5. Sound(s)
  BY <1>2, <1>4 DEF Sound, InStep, Reported, Ended, Fresh, Download, Upload, Chan
<1>6. /\ OnFile(r, s) /\ s.child = "payload" /\ s.thread = r.thread /\ s.outcome = r.outcome
      /\ s.unannounced = r.unannounced
  BY DEF OnFile, Chan
<1> HIDE DEF s
<1>7. /\ ch' \in [Channel -> Chan] /\ ch'[c] = s
      /\ \A d \in Channel : d # c => ch'[d] = ch[d]
      /\ (\A d \in Channel : Sound(ch[d]))'
  BY <1>2, <1>3, <1>5, OneSound
<1>8. \A d \in Channel : OnFile(ch[d], ch'[d])
  BY <1>1, <1>6, <1>7 DEF OnFile
<1>9. r.outcome \in What \ {"port"} /\ r.outcome \in What
  BY <1>4 DEF What
<1>10. wire' \in Seq(Half) /\ Len(wire') <= MaxWire
  BY <1>2, <1>9, PutFacts
<1>11. Typed'
  BY <1>2, <1>7, <1>10 DEF DataInv, Typed
<1>12. handler.at # "portload" /\ \A d \in Channel : ch[d].child # "payload"
  BY <1>2 DEF DataInv, SocketLock
<1>13. SocketLock'
  BY <1>2, <1>6, <1>7, <1>12 DEF SocketLock
<1>14. Aligned'
  <2>1. ~spoiled' => ~Writing /\ Writing' /\ Between(r.outcome, c)' /\ handler'.at # "replyload"
    BY <1>2, <1>6, <1>7, <1>12 DEF Writing, Between
  <2>2. ~spoiled' /\ ~client.gone =>
          /\ ~Writing /\ Writing' /\ Between(r.outcome, c)'
          /\ handler'.at = "replyload" => \A d \in Channel : ch'[d].child # "payload"
    BY <2>1
  <2>3. (spoiled => spoiled') /\ UNCHANGED client
    BY <1>2
  <2> QED BY <1>2, <1>9, <2>2, <2>3, HeaderAligned
<1>15. PortOnce' /\ PortAnnounced'
  <2>1. \A d \in Channel : /\ ch'[d].child = "none" <=> ch[d].child = "none"
                           /\ ch'[d].child = "accept" => ch[d].child = "accept"
                           /\ ch'[d].thread = ch[d].thread
                           /\ ch'[d].unannounced = ch[d].unannounced
    BY <1>1, <1>2, <1>6, <1>7
  <2> QED BY <1>2, <1>9, <2>1, OtherMessage
<1> QED BY <1>2, <1>7, <1>8, <1>11, <1>13, <1>14, <1>15, FileKeeps DEF DataInv

LEMMA TellPayloadKeeps ==
  ASSUME DataInv, NEW c \in Channel, TellPayload(c)
  PROVE  DataInv'
<1> USE ChannelAssumption
<1>1. PICK r \in Chan : r = ch[c]
  BY DEF DataInv, Typed
<1> DEFINE s == [r EXCEPT !.child = "done"]
<1>2. /\ r.child = "payload" /\ ch' = [ch EXCEPT ![c] = s] /\ lock = c /\ lock' = NoOne
      /\ Put(r.outcome, c, "payload") /\ UNCHANGED <<handler, client, file, spoiled>>
  BY <1>1 DEF TellPayload, SendPayload, DataInv, Typed, SocketLock
<1>3. s \in Chan
  BY DEF Chan, ChildAt
<1>4. Sound(r) /\ r.outcome \in {"concluded", "failed"}
  BY <1>1, <1>2 DEF DataInv, Sound, Reported, Chan
<1>5. Sound(s)
  BY <1>2, <1>4 DEF Sound, InStep, Reported, Ended, Fresh, Download, Upload, Chan
<1>6. /\ OnFile(r, s) /\ s.child = "done" /\ s.thread = r.thread /\ s.outcome = r.outcome
      /\ s.unannounced = r.unannounced
  BY DEF OnFile, Chan
<1> HIDE DEF s
<1>7. /\ ch' \in [Channel -> Chan] /\ ch'[c] = s
      /\ \A d \in Channel : d # c => ch'[d] = ch[d]
      /\ (\A d \in Channel : Sound(ch[d]))'
  BY <1>2, <1>3, <1>5, OneSound
<1>8. \A d \in Channel : OnFile(ch[d], ch'[d])
  BY <1>1, <1>6, <1>7 DEF OnFile
<1>9. r.outcome \in What \ {"port"} /\ r.outcome \in What
  BY <1>4 DEF What
<1>10. wire' \in Seq(Half) /\ Len(wire') <= MaxWire
  BY <1>2, <1>9, PutFacts
<1>11. Typed'
  BY <1>2, <1>7, <1>10 DEF DataInv, Typed
<1>12. handler.at # "portload" /\ \A d \in Channel : ch[d].child = "payload" => d = c
  BY <1>2 DEF DataInv, SocketLock
<1>13. SocketLock'
  BY <1>2, <1>6, <1>7, <1>12 DEF SocketLock
<1>14. Aligned'
  <2>1. ~spoiled /\ ~client.gone => handler.at # "replyload"
    BY <1>1, <1>2 DEF DataInv, Aligned
  <2>2. Writing /\ \A d \in Channel : ch'[d].child # "payload"
    BY <1>1, <1>2, <1>6, <1>7, <1>12 DEF Writing
  <2>3. ~spoiled /\ ~client.gone =>
          /\ Writing /\ ~Writing' /\ \A v, d : Between(v, d) => v = r.outcome /\ d = c
          /\ handler'.at # "replyload"
    BY <1>1, <1>2, <1>12, <2>1, <2>2 DEF Writing, Between
  <2>4. UNCHANGED <<client, spoiled>>
    BY <1>2
  <2> QED BY <1>2, <1>9, <2>3, <2>4, PayloadAligned
<1>15. PortOnce' /\ PortAnnounced'
  <2>1. \A d \in Channel : /\ ch'[d].child = "none" <=> ch[d].child = "none"
                           /\ ch'[d].child = "accept" => ch[d].child = "accept"
                           /\ ch'[d].thread = ch[d].thread
                           /\ ch'[d].unannounced = ch[d].unannounced
    BY <1>1, <1>2, <1>6, <1>7
  <2> QED BY <1>2, <1>9, <2>1, OtherMessage
<1> QED BY <1>2, <1>7, <1>8, <1>11, <1>13, <1>14, <1>15, FileKeeps DEF DataInv

(* A child that is killed: in the middle of a message only when the client *)
(* has gone.                                                               *)
LEMMA ChildSigpipeKeeps ==
  ASSUME DataInv, NEW c \in Channel, ChildSigpipe(c)
  PROVE  DataInv'
<1> USE ChannelAssumption
<1>1. PICK r \in Chan : r = ch[c]
  BY DEF DataInv, Typed
<1> DEFINE s == [r EXCEPT !.child = "done"]
<1>2. /\ \/ r.child = "move" /\ r.kind = "download" /\ r.thread = "closed"
         \/ r.child \in {"tell", "payload"} /\ client.gone
      /\ ch' = [ch EXCEPT ![c] = s] /\ lock' = (IF lock = c THEN NoOne ELSE lock)
      /\ UNCHANGED <<handler, wire, client, file, spoiled>>
  BY <1>1 DEF ChildSigpipe, Moving, DataInv, Typed
<1>3. s \in Chan
  BY DEF Chan, ChildAt
<1>4. Sound(r)
  BY <1>1 DEF DataInv
<1>5. Sound(s)
  <2>1. InStep(s) /\ (s.kind = "none" => Fresh(s))
    BY <1>2, <1>4 DEF Sound, InStep, Fresh, Chan
  <2>2. Reported(s)
    BY <1>2, <1>4 DEF Sound, Reported, Ended, Chan
  <2>3. /\ s.kind = "download" => Download(s)
        /\ s.kind = "upload" => Upload(s)
    BY <1>2, <1>4 DEF Sound, Download, Upload, Chan
  <2> QED BY <2>1, <2>2, <2>3 DEF Sound
<1>6. /\ OnFile(r, s) /\ s.child = "done" /\ s.thread = r.thread /\ s.outcome = r.outcome
      /\ s.unannounced = r.unannounced
  BY DEF OnFile, Chan
<1> HIDE DEF s
<1>7. /\ ch' \in [Channel -> Chan] /\ ch'[c] = s
      /\ \A d \in Channel : d # c => ch'[d] = ch[d]
      /\ (\A d \in Channel : Sound(ch[d]))'
  BY <1>2, <1>3, <1>5, OneSound
<1>8. \A d \in Channel : OnFile(ch[d], ch'[d])
  BY <1>1, <1>6, <1>7 DEF OnFile
<1>9. \A d \in Channel : /\ ch'[d].child = "none" <=> ch[d].child = "none"
                         /\ ch'[d].child = "accept" => ch[d].child = "accept"
                         /\ ch'[d].child = "payload" <=> d # c /\ ch[d].child = "payload"
                         /\ ch'[d].thread = ch[d].thread
                         /\ ch'[d].outcome = ch[d].outcome
                         /\ ch'[d].unannounced = ch[d].unannounced
  BY <1>1, <1>2, <1>6, <1>7
<1>10. Typed'
  BY <1>2, <1>7 DEF DataInv, Typed
<1>11. SocketLock'
  BY <1>2, <1>9 DEF DataInv, SocketLock
<1>12. Aligned'
  <2>1. CASE client.gone
    BY <1>2, <2>1 DEF Aligned
  <2>2. CASE ~client.gone
    <3>1. \A d \in Channel : ch'[d].child = "payload" <=> ch[d].child = "payload"
      BY <1>1, <1>2, <1>9, <2>2
    <3>2. Writing' <=> Writing
      BY <1>2, <3>1 DEF Writing
    <3>3. \A w, x : Between(w, x) => Between(w, x)'
      BY <1>2, <1>9, <3>1 DEF Between
    <3> QED BY <1>2, <3>1, <3>2, <3>3 DEF DataInv, Aligned, Whole
  <2> QED BY <2>1, <2>2
<1>13. PortOnce'
  BY <1>2, <1>9 DEF DataInv, PortOnce, PortIn
<1>14. PortAnnounced'
  BY <1>2, <1>9 DEF DataInv, PortAnnounced, Announced
<1> QED BY <1>2, <1>7, <1>8, <1>10, <1>11, <1>12, <1>13, <1>14, FileKeeps DEF DataInv

-----------------------------------------------------------------------------
(***************************************************************************)
(* The client.                                                             *)
(***************************************************************************)
LEMMA RestOf ==
  ASSUME NEW S, NEW q \in Seq(S), NEW k \in Nat, k <= Len(q)
  PROVE  /\ SubSeq(q, k + 1, Len(q)) \in Seq(S)
         /\ Len(SubSeq(q, k + 1, Len(q))) = Len(q) - k
         /\ \A i \in 1..(Len(q) - k) : SubSeq(q, k + 1, Len(q))[i] = q[i + k]
<1> DEFINE m == Len(q) - k
<1>1. Len(q) \in Nat /\ m \in Nat /\ \A i \in 1..m : i + k \in 1..Len(q) /\ q[i + k] \in S
  OBVIOUS
<1>2. SubSeq(q, k + 1, Len(q)) = [i \in 1..m |-> q[i + k]]
  BY <1>1
<1> HIDE DEF m
<1>3. [i \in 1..m |-> q[i + k]] \in Seq(S) /\ Len([i \in 1..m |-> q[i + k]]) = m
  BY <1>1
<1> QED BY <1>1, <1>2, <1>3 DEF m

(* A message is read.  Header and payload of two messages come only after  *)
(* an unlocked reply; the port of a transfer comes once, and its thread    *)
(* has not started.                                                        *)
LEMMA ReadMessageKeeps ==
  ASSUME DataInv, ReadMessage
  PROVE  DataInv'
<1> USE ChannelAssumption
<1>1. /\ wire \in Seq(Half) /\ Len(wire) \in Nat /\ Len(wire) >= 2 /\ Len(wire) <= MaxWire
      /\ ~client.gone /\ ~client.torn /\ MaxWire \in Nat
      /\ UNCHANGED <<handler, lock, file, spoiled>> /\ wire' = SubSeq(wire, 3, Len(wire))
  BY BoundsAssumption DEF DataInv, Typed, ReadMessage
<1>2. PICK m \in Half, n \in Half : m = wire[1] /\ n = wire[2]
  BY <1>1
<1>3. /\ wire' \in Seq(Half) /\ Len(wire') = Len(wire) - 2 /\ Len(wire') \in Nat
      /\ \A i \in 1..Len(wire') : wire'[i] = wire[i + 2] /\ i + 2 \in 1..Len(wire)
  <2>1. wire' = SubSeq(wire, 2 + 1, Len(wire))
    BY <1>1
  <2>2. /\ wire' \in Seq(Half) /\ Len(wire') = Len(wire) - 2
        /\ \A i \in 1..(Len(wire) - 2) : wire'[i] = wire[i + 2]
    <3>1. 2 \in Nat /\ 2 <= Len(wire)
      BY <1>1
    <3>2. /\ SubSeq(wire, 2 + 1, Len(wire)) \in Seq(Half)
          /\ Len(SubSeq(wire, 2 + 1, Len(wire))) = Len(wire) - 2
          /\ \A i \in 1..(Len(wire) - 2) :
               SubSeq(wire, 2 + 1, Len(wire))[i] = wire[i + 2]
      BY <1>1, <3>1, RestOf, ZenonT(40)
    <3> QED BY <2>1, <3>2
  <2> QED BY <1>1, <2>2
<1>4. \A i \in 1..Len(wire'), d \in Channel : PortIn(i, d)' => PortIn(i + 2, d)
  BY <1>3 DEF PortIn
<1> DEFINE Matched == /\ m.part = "header" /\ n.part = "payload"
                      /\ n.what = m.what /\ n.of = m.of
<1>5. CASE ~Matched
  <2>1. /\ UNCHANGED ch /\ client' \in [gone : BOOLEAN, torn : BOOLEAN]
        /\ ~client'.gone /\ client'.torn
    BY <1>1, <1>2, <1>5 DEF ReadMessage, DataInv, Typed
  <2>2. Typed'
    BY <1>1, <1>3, <2>1 DEF DataInv, Typed
  <2>3. SocketLock'
    BY <1>1, <2>1 DEF DataInv, SocketLock
  <2>4. spoiled
    <3>1. ~Even(1) /\ 1 \in 1..Len(wire) /\ 1 < Len(wire)
      BY <1>1 DEF Even
    <3>2. ~spoiled => Whole(1)
      BY <1>1, <3>1 DEF DataInv, Aligned
    <3> QED BY <1>2, <1>5, <3>2 DEF Whole
  <2>5. Aligned'
    BY <1>1, <2>4 DEF Aligned
  <2>6. PortOnce'
    BY <1>1, <1>3, <1>4, <2>1 DEF DataInv, PortOnce
  <2>7. PortAnnounced'
    BY <2>1 DEF PortAnnounced
  <2> QED BY <1>1, <2>1, <2>2, <2>3, <2>5, <2>6, <2>7, SameTransfers DEF DataInv
<1>6. CASE Matched
  <2>1. /\ UNCHANGED client
        /\ ch' = IF m.what = "port" THEN [ch EXCEPT ![m.of].thread = "connect"]
                 ELSE IF m.what = "reply" THEN ch
                 ELSE [ch EXCEPT ![m.of].heard = TRUE]
    BY <1>2, <1>6 DEF ReadMessage
  <2>2. ASSUME NEW c \in Channel, m.what = "port", m.of = c
        PROVE  /\ ch[c].thread = "none" /\ ch[c].child # "none" /\ handler.of # c
               /\ \A i \in 1..Len(wire') : ~PortIn(i, c)'
    <3>1. 1 \in 1..Len(wire) /\ 2 \in 1..Len(wire) /\ PortIn(1, c) /\ PortIn(2, c)
      BY <1>1, <1>2, <1>6, <2>2 DEF PortIn
    <3>2. /\ ch[c].thread = "none" /\ ch[c].child # "none"
          /\ handler.of = c => wire[2].part = "header"
          /\ \A i, j \in 1..Len(wire) :
               PortIn(i, c) /\ PortIn(j, c) /\ wire[i].part = "piece" => wire[j].part # "payload"
          /\ \A i, j \in 1..Len(wire) :
               PortIn(i, c) /\ PortIn(j, c) /\ wire[i].part = wire[j].part => i = j
      BY <1>1, <3>1 DEF DataInv, PortOnce
    <3>3. wire[1].part = "header" /\ wire[2].part = "payload"
      BY <1>1, <1>2, <1>6, <3>1, <3>2 DEF Half
    <3>4. ASSUME NEW i \in 1..Len(wire'), PortIn(i, c)'
          PROVE  FALSE
      <4>1. PortIn(i + 2, c) /\ i + 2 \in 1..Len(wire) /\ i + 2 # 1 /\ i + 2 # 2
        BY <1>3, <1>4, <3>4
      <4>2. wire[i + 2].part \in {"header", "payload", "piece"}
        <5>1. wire[i + 2] \in Half
          BY <1>1, <4>1
        <5> QED BY <5>1 DEF Half
      <4> QED BY <3>1, <3>2, <3>3, <4>1, <4>2
    <3> QED BY <3>2, <3>3, <3>4
  <2>3. ASSUME NEW c \in Channel
        PROVE  /\ ch'[c] \in Chan /\ Sound(ch'[c]) /\ OnFile(ch[c], ch'[c])
               /\ ch'[c].child = ch[c].child /\ ch'[c].unannounced = ch[c].unannounced
               /\ ch'[c].outcome = ch[c].outcome
               /\ ch'[c].thread =
                    IF m.what = "port" /\ m.of = c THEN "connect" ELSE ch[c].thread
    <3>1. PICK r \in Chan : r = ch[c] /\ Sound(r) /\ ch \in [Channel -> Chan]
      BY DEF DataInv, Typed
    <3>2. CASE m.what = "port" /\ m.of = c
      <4> DEFINE s == [r EXCEPT !.thread = "connect"]
      <4>1. ch'[c] = s /\ r.thread = "none" /\ r.child # "none"
        BY <2>1, <2>2, <3>1, <3>2
      <4>2. s \in Chan
        BY DEF Chan, ThreadAt
      <4>3. InStep(s) /\ Reported(s) /\ s.kind # "none"
        BY <3>1, <4>1 DEF Sound, InStep, Reported, Ended, Chan
      <4>4. s.kind = "download" => Download(s)
        BY <3>1, <4>1 DEF Sound, Download, Chan
      <4>5. s.kind = "upload" => Upload(s)
        BY <3>1, <4>1 DEF Sound, Upload, Chan
      <4>6. /\ OnFile(r, s) /\ s.child = r.child /\ s.unannounced = r.unannounced
            /\ s.outcome = r.outcome /\ s.thread = "connect"
        BY DEF OnFile, Chan
      <4> HIDE DEF s
      <4> QED BY <3>1, <3>2, <4>1, <4>2, <4>3, <4>4, <4>5, <4>6 DEF Sound
    <3>3. CASE m.what \notin {"port", "reply"} /\ m.of = c
      <4> DEFINE s == [r EXCEPT !.heard = TRUE]
      <4>1. ch'[c] = s
        BY <2>1, <3>1, <3>3
      <4>2. s \in Chan
        BY DEF Chan
      <4>3. Sound(s)
        BY <3>1 DEF Sound, InStep, Reported, Ended, Fresh, Download, Upload, Chan
      <4>4. /\ OnFile(r, s) /\ s.child = r.child /\ s.unannounced = r.unannounced
            /\ s.outcome = r.outcome /\ s.thread = r.thread
        BY DEF OnFile, Chan
      <4> HIDE DEF s
      <4> QED BY <3>1, <3>3, <4>1, <4>2, <4>3, <4>4
    <3>4. CASE m.of # c \/ m.what = "reply"
      <4>1. ch'[c] = ch[c]
        BY <2>1, <3>1, <3>4
      <4>2. OnFile(r, r)
        BY DEF OnFile
      <4> QED BY <3>1, <3>4, <4>1, <4>2
    <3> QED BY <3>2, <3>3, <3>4
  <2>4. ch' \in [Channel -> Chan]
    <3>1. ch' = [d \in Channel |-> ch'[d]]
      BY <2>1 DEF DataInv, Typed
    <3> QED BY <2>3, <3>1
  <2>5. (\A c \in Channel : Sound(ch[c]))'
    BY <2>3
  <2>6. Typed'
    BY <1>1, <1>3, <2>1, <2>4 DEF DataInv, Typed
  <2>7. SocketLock'
    BY <1>1, <2>3 DEF DataInv, SocketLock
  <2>8. Aligned'
    <3>1. Writing' <=> Writing
      BY <1>1, <2>3 DEF Writing
    <3>2. \A w, x : Between(w, x) => Between(w, x)'
      BY <1>1, <2>3 DEF Between
    <3>3. Even(Len(wire')) <=> Even(Len(wire))
      BY <1>1, <1>3, Parity
    <3> SUFFICES ASSUME ~spoiled
                 PROVE  Aligned'
      BY <1>1 DEF Aligned
    <3>4. ASSUME NEW i \in 1..Len(wire'), ~Even(i), i < Len(wire')
          PROVE  Whole(i)'
      <4>1. i + 2 \in 1..Len(wire) /\ i + 2 < Len(wire) /\ ~Even(i + 2)
        <5>1. i \in Nat /\ i + 2 \in Nat /\ (i + 2) - 2 = i /\ i + 2 >= 2
          BY <1>3
        <5> QED BY <1>1, <1>3, <3>4, <5>1, Parity
      <4>2. Whole(i + 2)
        BY <1>1, <4>1 DEF DataInv, Aligned
      <4>3. /\ i + 1 \in 1..Len(wire') /\ wire'[i] = wire[i + 2]
            /\ wire'[i + 1] = wire[(i + 2) + 1]
        BY <1>3, <3>4
      <4> QED BY <4>2, <4>3 DEF Whole
    <3>5. ASSUME ~Even(Len(wire'))
          PROVE  /\ wire'[Len(wire')].part = "header"
                 /\ Between(wire[Len(wire)].what, wire[Len(wire)].of)'
      <4>1. Len(wire') \in 1..Len(wire') /\ wire'[Len(wire')] = wire[Len(wire)]
        BY <1>1, <1>3, <3>5, Parity
      <4>2. /\ wire[Len(wire)].part = "header"
            /\ Between(wire[Len(wire)].what, wire[Len(wire)].of)
        BY <1>1, <3>3, <3>5 DEF DataInv, Aligned
      <4>3. PICK w, x : w = wire[Len(wire)].what /\ x = wire[Len(wire)].of
        OBVIOUS
      <4>4. Between(w, x)' /\ w = (wire[Len(wire)].what)' /\ x = (wire[Len(wire)].of)'
        BY <3>2, <4>1, <4>2, <4>3
      <4> QED BY <4>1, <4>2, <4>4 DEF Between
    <3> QED BY <1>1, <2>1, <2>3, <3>1, <3>3, <3>4, <3>5 DEF DataInv, Aligned
  <2>9. PortOnce'
    <3> SUFFICES ASSUME NEW c \in Channel
                 PROVE  (/\ handler.of = c => ch[c].child # "none" /\ ch[c].thread = "none"
                         /\ \A i \in 1..Len(wire) : PortIn(i, c) => ch[c].child # "none"
                         /\ ~client.torn /\ ~client.gone =>
                              /\ \A i, j \in 1..Len(wire) :
                                   PortIn(i, c) /\ PortIn(j, c)
                                     /\ wire[i].part = wire[j].part => i = j
                              /\ \A i \in 1..Len(wire) : PortIn(i, c) =>
                                   /\ ch[c].thread = "none"
                                   /\ handler.of = c =>
                                        handler.at = "portload" /\ wire[i].part = "header"
                              /\ \A i, j \in 1..Len(wire) :
                                   PortIn(i, c) /\ PortIn(j, c)
                                     /\ wire[i].part = "header" /\ wire[j].part = "payload"
                                     => i < j
                              /\ \A i, j \in 1..Len(wire) :
                                   PortIn(i, c) /\ PortIn(j, c) /\ wire[i].part = "piece"
                                     => wire[j].part # "payload")'
      BY DEF PortOnce
    <3>1. CASE m.what = "port" /\ m.of = c
      BY <1>1, <2>2, <2>3, <3>1
    <3>2. CASE ~(m.what = "port" /\ m.of = c)
      <4>1. ch'[c].thread = ch[c].thread /\ ch'[c].child = ch[c].child
        BY <2>3, <3>2
      <4>2. \A i \in 1..Len(wire') : PortIn(i, c)' =>
              /\ i + 2 \in 1..Len(wire) /\ PortIn(i + 2, c) /\ wire'[i].part = wire[i + 2].part
        BY <1>3, <1>4
      <4>3. \A i, j \in 1..Len(wire') : /\ i + 2 = j + 2 => i = j
                                        /\ i + 2 < j + 2 => i < j
        BY <1>3
      <4> QED BY <1>1, <2>1, <4>1, <4>2, <4>3, SMTT(20) DEF DataInv, PortOnce
    <3> QED BY <3>1, <3>2
  <2>10. PortAnnounced'
    <3> SUFFICES ASSUME NEW c \in Channel, ch[c].child = "accept", ~ch[c].unannounced
                 PROVE  Announced(c)'
      BY <2>3 DEF PortAnnounced
    <3>1. Announced(c)
      BY <1>1 DEF DataInv, PortAnnounced
    <3>2. CASE m.what = "port" /\ m.of = c
      BY <2>3, <3>2 DEF Announced
    <3>3. CASE ~(m.what = "port" /\ m.of = c)
      <4>1. CASE handler.of = c \/ ch[c].thread # "none"
        BY <1>1, <2>3, <3>3, <4>1 DEF Announced
      <4>2. CASE \E i \in DOMAIN wire : wire[i].what = "port" /\ wire[i].of = c
        <5>1. PICK i \in 1..Len(wire) : wire[i].what = "port" /\ wire[i].of = c
          BY <1>1, <4>2
        <5>2. i # 1 /\ i # 2
          BY <1>2, <1>6, <3>3, <5>1
        <5>3. PICK j \in 1..Len(wire') : i = j + 2
          <6>1. i - 2 \in 1..Len(wire') /\ i = (i - 2) + 2
            BY <1>1, <1>3, <5>2
          <6> QED BY <6>1
        <5>4. wire'[j].what = "port" /\ wire'[j].of = c /\ j \in DOMAIN wire'
          BY <1>3, <5>1, <5>3
        <5> QED BY <5>4 DEF Announced
      <4> QED BY <3>1, <4>1, <4>2 DEF Announced
    <3> QED BY <3>2, <3>3
  <2>11. Apart' /\ Stored' /\ Concluded'
    BY <1>1, <2>3, FileKeeps
  <2> QED BY <2>5, <2>6, <2>7, <2>8, <2>9, <2>10, <2>11 DEF DataInv
<1> QED BY <1>5, <1>6

LEMMA ReadTornKeeps ==
  ASSUME DataInv, ReadTorn
  PROVE  DataInv'
<1>1. /\ client.torn /\ ~client.gone /\ wire' = Tail(wire) /\ wire # <<>>
      /\ UNCHANGED <<handler, lock, client, ch, file, spoiled>>
      /\ wire \in Seq(Half) /\ Len(wire) \in Nat /\ Len(wire) <= MaxWire /\ MaxWire \in Nat
  BY BoundsAssumption DEF ReadTorn, DataInv, Typed
<1>2. /\ wire' \in Seq(Half) /\ Len(wire') = Len(wire) - 1 /\ Len(wire') \in Nat
      /\ \A i \in 1..Len(wire') : wire'[i] = wire[i + 1] /\ i + 1 \in 1..Len(wire)
  <2>1. Len(wire) >= 1
    BY <1>1
  <2> QED BY <1>1, <2>1
<1>3. Typed'
  BY <1>1, <1>2 DEF DataInv, Typed
<1>4. SocketLock'
  BY <1>1 DEF DataInv, SocketLock
<1>5. Aligned'
  BY <1>1 DEF DataInv, Aligned
<1>6. PortOnce'
  <2>1. \A i \in 1..Len(wire'), c \in Channel : PortIn(i, c)' => PortIn(i + 1, c)
    BY <1>2 DEF PortIn
  <2> QED BY <1>1, <1>2, <2>1 DEF DataInv, PortOnce
<1>7. PortAnnounced'
  BY <1>1 DEF PortAnnounced
<1> QED BY <1>1, <1>3, <1>4, <1>5, <1>6, <1>7, SameTransfers DEF DataInv

LEMMA VanishKeeps ==
  ASSUME DataInv, Vanish
  PROVE  DataInv'
<1>1. /\ wire' = <<>> /\ Len(wire') = 0 /\ UNCHANGED <<handler, lock, file, spoiled>>
      /\ client' \in [gone : BOOLEAN, torn : BOOLEAN] /\ client'.gone
      /\ ch \in [Channel -> Chan] /\ MaxWire \in Nat
  BY BoundsAssumption DEF Vanish, DataInv, Typed
<1>2. ASSUME NEW c \in Channel
      PROVE  /\ ch'[c] \in Chan /\ Sound(ch'[c]) /\ OnFile(ch[c], ch'[c])
             /\ ch'[c].child = ch[c].child
             /\ ch[c].thread = "none" => ch'[c].thread = "none"
  <2>1. PICK r \in Chan : r = ch[c] /\ Sound(r)
    BY DEF DataInv, Typed
  <2>2. CASE r.thread = "none"
    <3>1. ch'[c] = r
      BY <1>1, <2>1, <2>2 DEF Vanish
    <3> QED BY <2>1, <3>1 DEF OnFile
  <2>3. CASE r.thread # "none"
    <3> DEFINE s == [r EXCEPT !.thread = "closed",
                              !.sock = IF r.kind = "download" THEN 0 ELSE @]
    <3>1. ch'[c] = s
      <4>1. ch' = [d \in Channel |->
                    IF ch[d].thread = "none" THEN ch[d]
                    ELSE [ch[d] EXCEPT !.thread = "closed",
                                       !.sock = IF ch[d].kind = "download" THEN 0 ELSE @]]
        BY DEF Vanish
      <4>2. ch'[c] = [ch[c] EXCEPT !.thread = "closed",
                                   !.sock = IF ch[c].kind = "download" THEN 0 ELSE @]
        BY <2>1, <2>3, <4>1
      <4> QED BY <2>1, <4>2 DEF Chan
    <3>2. s \in Chan
      BY Numbers DEF Chan, ThreadAt
    <3>3. InStep(s) /\ Reported(s) /\ s.kind # "none"
      BY <2>1, <2>3 DEF Sound, InStep, Reported, Ended, Chan
    <3>4. s.kind = "download" => Download(s)
      BY <2>1 DEF Sound, Download, Chan, Few, Many
    <3>5. s.kind = "upload" => Upload(s)
      BY <2>1 DEF Sound, Upload, Chan
    <3>6. OnFile(r, s) /\ s.child = r.child
      BY DEF OnFile, Chan
    <3> HIDE DEF s
    <3> QED BY <2>1, <2>3, <3>1, <3>2, <3>3, <3>4, <3>5, <3>6 DEF Sound
  <2> QED BY <2>2, <2>3
<1>3. ch' \in [Channel -> Chan]
  <2>1. ch' = [c \in Channel |-> ch'[c]]
    BY DEF Vanish
  <2> QED BY <1>2, <2>1
<1>4. (\A c \in Channel : Sound(ch[c]))'
  BY <1>2
<1>5. Typed'
  <2>1. wire' \in Seq(Half)
    BY <1>1
  <2> QED BY <1>1, <1>3, <2>1 DEF DataInv, Typed
<1>6. SocketLock'
  BY <1>1, <1>2 DEF DataInv, SocketLock
<1>7. Aligned' /\ PortAnnounced'
  BY <1>1 DEF Aligned, PortAnnounced
<1>8. PortOnce'
  BY <1>1, <1>2 DEF DataInv, PortOnce
<1> QED BY <1>1, <1>2, <1>4, <1>5, <1>6, <1>7, <1>8, FileKeeps DEF DataInv

-----------------------------------------------------------------------------
(***************************************************************************)
(* The invariant.                                                          *)
(***************************************************************************)
LEMMA DataInit == Init => DataInv
<1> SUFFICES ASSUME Init
             PROVE  DataInv
  OBVIOUS
<1> USE ChannelAssumption, BoundsAssumption
<1>1. \A c \in Channel : ch[c] = Idle
  BY DEF Init
<1>2. Idle \in Chan
  <2>1. 0 \in Few /\ 0 \in Many
    BY DEF Few, Many
  <2> QED BY <2>1 DEF Idle, Chan, Kind, ChildAt, HelperAt, ThreadAt
<1>3. Sound(Idle)
  BY DEF Idle, Sound, InStep, Reported, Ended, Fresh
<1>4. /\ wire = <<>> /\ Len(wire) = 0 /\ handler.at = "read" /\ handler.of = NoOne
      /\ lock = NoOne /\ ~client.gone /\ ~client.torn /\ spoiled = FALSE
  BY DEF Init
<1>5. Typed
  <2>1. file \in Seq(Channel \cup {Hole}) /\ Len(file) <= MaxBlocks
    <3>1. PICK n \in 0..MaxBlocks : file = [i \in 1..n |-> Hole]
      BY DEF Init
    <3>2. n \in Nat /\ n <= MaxBlocks
      OBVIOUS
    <3> QED BY <3>1, <3>2
  <2>2. ch \in [Channel -> Chan]
    BY <1>1, <1>2 DEF Init
  <2>3. /\ wire \in Seq(Half) /\ Len(wire) <= MaxWire
        /\ handler \in [at : {"read", "port", "portload", "replyload", "gone"},
                        of : Channel \cup {NoOne}]
        /\ client \in [gone : BOOLEAN, torn : BOOLEAN]
    BY <1>4 DEF Init
  <2> QED BY <1>4, <2>1, <2>2, <2>3 DEF Typed
<1>6. \A c \in Channel : Sound(ch[c])
  BY <1>1, <1>3
<1>7. SocketLock
  BY <1>1, <1>4 DEF SocketLock, Idle
<1>8. Aligned
  <2>1. ~Writing
    BY <1>1, <1>4 DEF Writing, Idle
  <2>2. Even(0)
    BY DEF Even
  <2> QED BY <1>4, <2>1, <2>2 DEF Aligned
<1>9. PortOnce /\ PortAnnounced
  BY <1>1, <1>4 DEF PortOnce, PortAnnounced, Idle
<1>10. Apart /\ Stored /\ Concluded
  BY <1>1 DEF Apart, Stored, Concluded, Idle
<1> QED BY <1>5, <1>6, <1>7, <1>8, <1>9, <1>10 DEF DataInv

LEMMA DataNext ==
  ASSUME DataInv, [Next]_vars
  PROVE  DataInv'
<1>1. ASSUME NEW c \in Channel, ChildStep(c)
      PROVE  DataInv'
  <2>1. CASE Accept(c) \/ Ask(c) \/ Answer(c) \/ Pull(c) \/ PullEnd(c) \/ Push(c) \/ PushEnd(c)
    <3>1. UNCHANGED Connection /\ UNCHANGED file
      BY <2>1 DEF Connection, Accept, Ask, Answer, Pull, PullEnd, Push, PushEnd
    <3> QED BY <2>1, <3>1, ChildMoves, QuietKeeps
  <2> QED BY <1>1, <2>1, TellHeaderKeeps, TellPayloadKeeps, ChildSigpipeKeeps DEF ChildStep
<1>2. ASSUME NEW c \in Channel, HelperStep(c)
      PROVE  DataInv'
  <2>1. CASE Refuse(c) \/ ReadFile(c) \/ ReadEnd(c) \/ DiskError(c) \/ StoreEnd(c)
               \/ NextRequest(c) \/ HelperSigpipe(c)
    <3>1. UNCHANGED Connection /\ UNCHANGED file
      BY <2>1 DEF Connection, Refuse, ReadFile, ReadEnd, DiskError, StoreEnd, NextRequest,
                  HelperSigpipe
    <3> QED BY <2>1, <3>1, HelperMoves, QuietKeeps
  <2> QED BY <1>2, <2>1, OpenKeeps, LockKeeps, StoreKeeps DEF HelperStep
<1>3. ASSUME NEW c \in Channel, Connect(c) \/ ThreadStep(c)
      PROVE  DataInv'
  <2>1. UNCHANGED Connection /\ UNCHANGED file
    BY <1>3 DEF Connection, Connect, ThreadStep, OpenLocal, SendBlock, SendEnd, ReceiveBlock,
                ReceiveEnd
  <2> QED BY <1>3, <2>1, ThreadMoves, QuietKeeps DEF ThreadStep
<1>4. CASE HandlerStep \/ PortInterrupted \/ ReplyHeader \/ ReplyInterrupted
  BY <1>4, PortHeaderKeeps, PortPayloadKeeps, ReplyKeeps, HandlerGoneKeeps,
     PortInterruptedKeeps, ReplyInterruptedKeeps DEF HandlerStep
<1>5. CASE ReaderStep \/ Vanish
  BY <1>5, ReadMessageKeeps, ReadTornKeeps, VanishKeeps DEF ReaderStep
<1>6. ASSUME NEW c \in Channel, NEW k \in Kind, Start(c, k)
      PROVE  DataInv'
  BY <1>6, StartKeeps
<1>7. CASE UNCHANGED vars
  <2>1. UNCHANGED <<ch, file>> /\ UNCHANGED Connection /\ \A d \in Channel : OnWire(ch[d], ch'[d])
    BY <1>7 DEF vars, Connection, OnWire
  <2>2. Typed'
    BY <1>7 DEF vars, DataInv, Typed
  <2> QED BY <2>1, <2>2, WireKeeps, SameTransfers DEF DataInv
<1> QED BY <1>1, <1>2, <1>3, <1>4, <1>5, <1>6, <1>7 DEF Next

THEOREM DataInvariant == Spec => []DataInv
<1>1. DataInv /\ [Next]_vars => DataInv'
  BY DataNext
<1> QED BY <1>1, DataInit, PTL DEF Spec

-----------------------------------------------------------------------------
(***************************************************************************)
(* Who moves the thread of the client, the process of the helper.          *)
(***************************************************************************)
LEMMA OpenFrame ==
  ASSUME DataInv, NEW d \in Channel, Open(d), NEW c \in Channel
  PROVE  ch'[c].thread = ch[c].thread /\ (d # c => ch'[c].helper = ch[c].helper)
<1>1. PICK r \in Chan : r = ch[c] /\ ch \in [Channel -> Chan]
  BY DEF DataInv, Typed
<1>2. CASE ch[d].kind = "download"
  <2>1. ch' = [ch EXCEPT ![d].helper = "lock"]
    BY <1>2 DEF Open
  <2> QED BY <1>1, <2>1 DEF Chan
<1>3. CASE ch[d].kind # "download"
  <2>1. PICK a : ch' = [e \in Channel |-> IF e = d THEN [ch[d] EXCEPT !.helper = "lock", !.alone = a]
                                         ELSE [ch[e] EXCEPT !.alone = FALSE]]
    BY <1>3 DEF Open
  <2>2. ch'[c] = IF c = d THEN [r EXCEPT !.helper = "lock", !.alone = a]
                 ELSE [r EXCEPT !.alone = FALSE]
    BY <1>1, <2>1
  <2> QED BY <2>2, <1>1 DEF Chan
<1> QED BY <1>2, <1>3

LEMMA ClientFrame ==
  ASSUME DataInv, NEW c \in Channel, ReadMessage \/ Vanish
  PROVE  /\ ch'[c].helper = ch[c].helper
         /\ ReadMessage => ch'[c].thread = ch[c].thread \/ ch'[c].thread = "connect"
<1>1. PICK r \in Chan : r = ch[c] /\ ch \in [Channel -> Chan]
  BY DEF DataInv, Typed
<1>2. CASE ReadMessage
  <2>1. PICK x : \/ ch' = [ch EXCEPT ![x].thread = "connect"]
                 \/ ch' = ch
                 \/ ch' = [ch EXCEPT ![x].heard = TRUE]
    <3>1. \/ ch' = [ch EXCEPT ![wire[1].of].thread = "connect"]
          \/ ch' = ch
          \/ ch' = [ch EXCEPT ![wire[1].of].heard = TRUE]
      BY <1>2 DEF ReadMessage
    <3> QED BY <3>1
  <2>2. \/ ch'[c] = [r EXCEPT !.thread = "connect"]
        \/ ch'[c] = r
        \/ ch'[c] = [r EXCEPT !.heard = TRUE]
    BY <1>1, <2>1
  <2> QED BY <1>1, <2>2 DEF Chan
<1>3. CASE Vanish
  <2>1. ch' = [e \in Channel |->
                IF ch[e].thread = "none" THEN ch[e]
                ELSE [ch[e] EXCEPT !.thread = "closed",
                                   !.sock = IF ch[e].kind = "download" THEN 0 ELSE @]]
    BY <1>3 DEF Vanish
  <2>2. \/ ch'[c] = ch[c]
        \/ ch'[c] = [ch[c] EXCEPT !.thread = "closed",
                                  !.sock = IF ch[c].kind = "download" THEN 0 ELSE @]
    BY <2>1
  <2>3. ~ReadMessage
    BY <1>3 DEF Vanish, ReadMessage, DataInv, Typed
  <2> QED BY <1>1, <2>2, <2>3 DEF Chan
<1> QED BY <1>2, <1>3

LEMMA ThreadFrame ==
  ASSUME DataInv, [Next]_vars, NEW c \in Channel
  PROVE  \/ ch'[c].thread = ch[c].thread
         \/ ch'[c].thread = "connect" /\ ReadMessage
         \/ Connect(c) \/ ThreadStep(c) \/ Vanish
<1>1. ch \in [Channel -> Chan]
  BY DEF DataInv, Typed
<1> DEFINE Same == ch'[c].thread = ch[c].thread
<1>2. CASE \/ HandlerStep \/ PortInterrupted \/ ReplyHeader \/ ReplyInterrupted
          \/ ReadTorn \/ UNCHANGED vars
  BY <1>1, <1>2 DEF HandlerStep, PortHeader, PortPayload, ReplyPayload, HandlerGone,
     PortInterrupted, ReplyHeader, ReplyInterrupted, WriteInterrupted, ReadTorn, vars, Chan
<1>3. CASE ReadMessage
  BY <1>3, ClientFrame
<1>4. ASSUME NEW d \in Channel, NEW k \in Kind, Start(d, k)
      PROVE  Same
  BY <1>1, <1>4 DEF Start, Chan
<1>5. ASSUME NEW d \in Channel, d # c, Connect(d) \/ ThreadStep(d)
      PROVE  Same
  BY <1>1, <1>5 DEF Connect, ThreadStep, OpenLocal, SendBlock, SendEnd, ReceiveBlock, ReceiveEnd
<1>6. ASSUME NEW d \in Channel, ChildStep(d)
      PROVE  Same
  <2>1. CASE Accept(d) \/ Ask(d) \/ Answer(d) \/ Pull(d) \/ PullEnd(d)
    BY <1>1, <2>1 DEF Accept, Ask, Answer, Pull, PullEnd, Chan
  <2>2. CASE Push(d) \/ PushEnd(d) \/ TellHeader(d) \/ TellPayload(d) \/ ChildSigpipe(d)
    BY <1>1, <2>2 DEF Push, PushEnd, TellHeader, TellPayload, ChildSigpipe, Chan
  <2> QED BY <1>6, <2>1, <2>2 DEF ChildStep
<1>7. ASSUME NEW d \in Channel, HelperStep(d)
      PROVE  Same
  <2>1. CASE Open(d)
    BY <2>1, OpenFrame
  <2>2. CASE Refuse(d) \/ Lock(d) \/ ReadFile(d) \/ ReadEnd(d) \/ StoreBlock(d)
    BY <1>1, <2>2 DEF Refuse, Lock, ReadFile, ReadEnd, StoreBlock, Chan
  <2>3. CASE DiskError(d) \/ StoreEnd(d) \/ NextRequest(d) \/ HelperSigpipe(d)
    BY <1>1, <2>3 DEF DiskError, StoreEnd, NextRequest, HelperSigpipe, Chan
  <2> QED BY <1>7, <2>1, <2>2, <2>3 DEF HelperStep
<1> QED BY <1>2, <1>3, <1>4, <1>5, <1>6, <1>7 DEF Next, ReaderStep

LEMMA HelperFrame ==
  ASSUME DataInv, [Next]_vars, NEW c \in Channel
  PROVE  \/ ch'[c].helper = ch[c].helper \/ ch'[c].helper = "open"
         \/ HelperStep(c)
<1>1. ch \in [Channel -> Chan]
  BY DEF DataInv, Typed
<1> DEFINE Same == ch'[c].helper = ch[c].helper \/ ch'[c].helper = "open"
<1>2. CASE \/ HandlerStep \/ PortInterrupted \/ ReplyHeader \/ ReplyInterrupted
          \/ ReadTorn \/ UNCHANGED vars
  BY <1>1, <1>2 DEF HandlerStep, PortHeader, PortPayload, ReplyPayload, HandlerGone,
     PortInterrupted, ReplyHeader, ReplyInterrupted, WriteInterrupted, ReadTorn, vars, Chan
<1>3. CASE ReadMessage
  BY <1>3, ClientFrame
<1>4. CASE Vanish
  BY <1>4, ClientFrame
<1>5. ASSUME NEW d \in Channel, NEW k \in Kind, Start(d, k)
      PROVE  Same
  BY <1>1, <1>5 DEF Start, Chan
<1>6. ASSUME NEW d \in Channel, Connect(d) \/ ThreadStep(d)
      PROVE  Same
  BY <1>1, <1>6 DEF Connect, ThreadStep, OpenLocal, SendBlock, SendEnd, ReceiveBlock,
                    ReceiveEnd, Chan
<1>7. ASSUME NEW d \in Channel, ChildStep(d)
      PROVE  Same
  <2>1. CASE Accept(d) \/ Ask(d) \/ Answer(d) \/ Pull(d) \/ PullEnd(d)
    BY <1>1, <2>1 DEF Accept, Ask, Answer, Pull, PullEnd, Chan
  <2>2. CASE Push(d) \/ PushEnd(d) \/ TellHeader(d) \/ TellPayload(d) \/ ChildSigpipe(d)
    BY <1>1, <2>2 DEF Push, PushEnd, TellHeader, TellPayload, ChildSigpipe, Chan
  <2> QED BY <1>7, <2>1, <2>2 DEF ChildStep
<1>8. ASSUME NEW d \in Channel, d # c, HelperStep(d)
      PROVE  Same
  <2>1. CASE Open(d)
    BY <1>8, <2>1, OpenFrame
  <2>2. CASE Refuse(d) \/ Lock(d) \/ ReadFile(d) \/ ReadEnd(d) \/ StoreBlock(d)
    BY <1>1, <1>8, <2>2 DEF Refuse, Lock, ReadFile, ReadEnd, StoreBlock
  <2>3. CASE DiskError(d) \/ StoreEnd(d) \/ NextRequest(d) \/ HelperSigpipe(d)
    BY <1>1, <1>8, <2>3 DEF DiskError, StoreEnd, NextRequest, HelperSigpipe
  <2> QED BY <1>8, <2>1, <2>2, <2>3 DEF HelperStep
<1> QED BY <1>2, <1>3, <1>4, <1>5, <1>6, <1>7, <1>8 DEF Next, ReaderStep

(* The process of the client ends by Vanish, and its threads with it.      *)
LEMMA ClientLeaves ==
  ASSUME DataInv, [Next]_vars, ~Vanish
  PROVE  client'.gone = client.gone
<1>1. CASE \/ HandlerStep \/ PortInterrupted \/ ReplyHeader \/ ReplyInterrupted
          \/ ReaderStep \/ UNCHANGED vars
  BY <1>1 DEF HandlerStep, PortHeader, PortPayload, ReplyPayload, HandlerGone,
     PortInterrupted, ReplyHeader, ReplyInterrupted, ReaderStep, ReadMessage, ReadTorn, vars,
     DataInv, Typed
<1>2. ASSUME NEW c \in Channel, ChildStep(c)
      PROVE  UNCHANGED client
  BY <1>2 DEF ChildStep, Accept, Ask, Answer, Pull, PullEnd, Push, PushEnd, TellHeader,
     TellPayload, ChildSigpipe
<1>3. ASSUME NEW c \in Channel, HelperStep(c)
      PROVE  UNCHANGED client
  BY <1>3 DEF HelperStep, Open, Refuse, Lock, ReadFile, ReadEnd, StoreBlock, DiskError,
     StoreEnd, NextRequest, HelperSigpipe
<1>4. ASSUME NEW c \in Channel, Connect(c) \/ ThreadStep(c) \/ \E k \in Kind : Start(c, k)
      PROVE  UNCHANGED client
  BY <1>4 DEF Start, Connect, ThreadStep, OpenLocal, SendBlock, SendEnd, ReceiveBlock,
     ReceiveEnd
<1> QED BY <1>1, <1>2, <1>3, <1>4 DEF Next

GoneClosed == client.gone => \A c \in Channel : ch[c].thread \in {"none", "closed"}

LEMMA GoneStaysClosed == Spec => []GoneClosed
<1>1. Init => GoneClosed
  BY DEF Init, GoneClosed
<1>2. ASSUME DataInv, GoneClosed, [Next]_vars
      PROVE  GoneClosed'
  <2> SUFFICES ASSUME client'.gone, NEW c \in Channel
               PROVE  ch'[c].thread \in {"none", "closed"}
    BY DEF GoneClosed
  <2>1. ch \in [Channel -> Chan] /\ client \in [gone : BOOLEAN, torn : BOOLEAN]
    BY <1>2 DEF DataInv, Typed
  <2>2. CASE Vanish
    <3>1. ch'[c] = IF ch[c].thread = "none" THEN ch[c]
                   ELSE [ch[c] EXCEPT !.thread = "closed",
                                      !.sock = IF ch[c].kind = "download" THEN 0 ELSE @]
      BY <2>2 DEF Vanish
    <3> QED BY <2>1, <3>1 DEF Chan
  <2>3. CASE ~Vanish
    <3>1. client.gone
      BY <1>2, <2>3, ClientLeaves
    <3>2. ~ReadMessage /\ ~Connect(c) /\ ~ThreadStep(c)
      BY <3>1 DEF ReadMessage, Connect, ThreadStep, OpenLocal, SendBlock, SendEnd,
                  ReceiveBlock, ReceiveEnd
    <3> QED BY <1>2, <2>3, <3>1, <3>2, ThreadFrame DEF GoneClosed
  <2> QED BY <2>2, <2>3
<1>3. DataInv /\ GoneClosed /\ [Next]_vars => GoneClosed'
  BY <1>2
<1> QED BY <1>1, <1>3, DataInvariant, PTL DEF Spec

-----------------------------------------------------------------------------
(***************************************************************************)
(* Nobody stands still.                                                    *)
(***************************************************************************)
(* A connection that is full has its reader, and a lock its holder, who    *)
(* has a payload to write.                                                 *)
LEMMA WritersGoOn ==
  ASSUME DataInv, NEW c \in Channel, ch[c].child \in {"tell", "payload"}
  PROVE  SomebodyReady
<1>1. /\ Len(wire) \in Nat /\ MaxWire \in Nat /\ MaxWire >= 2
      /\ client.gone \in BOOLEAN /\ client.torn \in BOOLEAN
      /\ lock \in Channel \cup {Handler, NoOne}
  BY BoundsAssumption DEF DataInv, Typed
<1>2. CASE ~Wakes
  <2>1. ~client.gone /\ Len(wire) >= 2
    BY <1>1, <1>2 DEF Wakes, Room
  <2> QED BY <1>1, <2>1 DEF SomebodyReady, ReaderReady
<1>3. CASE Wakes /\ lock \in Channel
  BY <1>3 DEF DataInv, SocketLock, SomebodyReady, ChildReady
<1>4. CASE Wakes /\ lock = Handler
  BY <1>4 DEF DataInv, SocketLock, SomebodyReady, HandlerReady
<1>5. CASE Wakes /\ lock = NoOne
  BY <1>5 DEF SomebodyReady, ChildReady
<1> QED BY <1>1, <1>2, <1>3, <1>4, <1>5

(* The thread of the client empties the socket of a download, and fills or *)
(* closes that of an upload.                                               *)
LEMMA ThreadsGoOn ==
  ASSUME DataInv, GoneClosed, NEW c \in Channel, ch[c].conn, ch[c].thread # "closed",
         ch[c].sock = (IF ch[c].kind = "upload" THEN 0 ELSE 1)
  PROVE  SomebodyReady
<1>1. ch[c] \in Chan /\ InStep(ch[c])
  BY DEF DataInv, Typed, Sound
<1>2. ch[c].thread \in {"open", "move"}
  BY <1>1 DEF Chan, ThreadAt, InStep
<1>3. ~client.gone
  BY <1>2 DEF GoneClosed
<1> QED BY <1>2, <1>3 DEF SomebodyReady, ThreadReady

(* Whoever has the record lock of the file can go on, or its child or      *)
(* client.                                                                 *)
LEMMA StreamGoesOn ==
  ASSUME DataInv, GoneClosed, NEW c \in Channel, ch[c].helper = "stream"
  PROVE  SomebodyReady
<1>1. ch[c] \in Chan /\ Sound(ch[c])
  BY DEF DataInv, Typed
<1>2. ch[c].answer = "ok" /\ ch[c].conn /\ ch[c].kind \in Kind
      /\ ch[c].child \in {"answer", "move", "tell", "payload", "done"}
  BY <1>1 DEF Sound, InStep, Chan, ChildAt
<1>3. CASE ch[c].child = "answer"
  BY <1>2, <1>3 DEF SomebodyReady, ChildReady
<1>4. CASE ch[c].child \in {"tell", "payload"}
  BY <1>4, WritersGoOn
<1>5. CASE ch[c].child = "done"
  BY <1>5 DEF SomebodyReady, HelperReady
<1>6. CASE ch[c].child = "move" /\ ch[c].kind = "download"
  <2>1. CASE ch[c].pipe = 0
    BY <1>6, <2>1 DEF SomebodyReady, HelperReady
  <2>2. CASE ch[c].pipe = 1 /\ (ch[c].sock = 0 \/ ch[c].thread = "closed")
    BY <1>6, <2>2 DEF SomebodyReady, ChildReady, Moving
  <2>3. CASE ch[c].sock = 1 /\ ch[c].thread # "closed"
    BY <1>2, <1>6, <2>3, ThreadsGoOn
  <2> QED BY <1>1, <2>1, <2>2, <2>3 DEF Chan, Few
<1>7. CASE ch[c].child = "move" /\ ch[c].kind = "upload"
  <2>1. CASE ch[c].pipe = 1
    BY <1>7, <2>1 DEF SomebodyReady, HelperReady
  <2>2. CASE ch[c].pipe = 0 /\ (ch[c].sock = 1 \/ ch[c].thread = "closed")
    BY <1>1, <1>7, <2>2 DEF SomebodyReady, ChildReady, Moving, Chan, Few
  <2>3. CASE ch[c].sock = 0 /\ ch[c].thread # "closed"
    BY <1>2, <1>7, <2>3, ThreadsGoOn
  <2> QED BY <1>1, <2>1, <2>2, <2>3 DEF Chan, Few
<1> QED BY <1>2, <1>3, <1>4, <1>5, <1>6, <1>7 DEF Kind

LEMMA SomebodyGoesOn ==
  ASSUME DataInv, GoneClosed, NEW c \in Channel,
         ch[c].child \notin {"none", "accept", "done"}, ~Stuck(c)
  PROVE  SomebodyReady
<1>1. ch[c] \in Chan /\ Sound(ch[c])
  BY DEF DataInv, Typed
<1>2. ch[c].conn /\ ch[c].kind \in Kind
  BY <1>1 DEF Sound, InStep, Chan
<1>3. CASE ch[c].child = "ask"
  BY <1>3 DEF SomebodyReady, ChildReady
<1>4. CASE ch[c].child \in {"tell", "payload"}
  BY <1>4, WritersGoOn
<1>5. CASE ch[c].child = "answer"
  <2>1. CASE ch[c].answer # "none"
    BY <1>5, <2>1 DEF SomebodyReady, ChildReady
  <2>2. CASE ch[c].answer = "none"
    <3>1. ch[c].helper \in {"open", "lock"}
      BY <1>1, <1>5, <2>2 DEF Sound, InStep
    <3>2. CASE ch[c].helper = "open" \/ MayLock(c)
      BY <3>1, <3>2 DEF SomebodyReady, HelperReady
    <3>3. CASE ~MayLock(c)
      <4>1. PICK d \in Channel : ch[d].helper = "stream"
        BY <3>3 DEF MayLock
      <4> QED BY <4>1, StreamGoesOn
    <3> QED BY <3>2, <3>3
  <2> QED BY <2>1, <2>2
<1>6. CASE ch[c].child = "move"
  <2>1. ch[c].helper \in {"stream", "next"}
    BY <1>1, <1>6 DEF Sound, InStep, Reported
  <2>2. CASE ch[c].helper = "stream"
    BY <2>2, StreamGoesOn
  <2>3. CASE ch[c].helper = "next" /\ ch[c].kind = "download"
    <3>1. ch[c].got = ch[c].size \/ ch[c].pipe = 1
      BY <1>1, <1>6, <2>3 DEF Stuck, Moving, Sound, Download, Chan, Few, Many
    <3>2. CASE ch[c].got = ch[c].size \/ ch[c].sock = 0 \/ ch[c].thread = "closed"
      BY <1>6, <2>3, <3>1, <3>2 DEF SomebodyReady, ChildReady, Moving
    <3>3. CASE ch[c].sock = 1 /\ ch[c].thread # "closed"
      BY <1>2, <2>3, <3>3, ThreadsGoOn
    <3> QED BY <1>1, <3>2, <3>3 DEF Chan, Few
  <2>4. CASE ch[c].helper = "next" /\ ch[c].kind = "upload"
    <3>1. CASE ch[c].pipe = 1
      BY <2>4, <3>1 DEF SomebodyReady, HelperReady
    <3>2. CASE ch[c].pipe = 0 /\ (ch[c].sock = 1 \/ ch[c].thread = "closed")
      BY <1>1, <1>6, <2>4, <3>2 DEF SomebodyReady, ChildReady, Moving, Chan, Few
    <3>3. CASE ch[c].sock = 0 /\ ch[c].thread # "closed"
      BY <1>2, <2>4, <3>3, ThreadsGoOn
    <3> QED BY <1>1, <3>1, <3>2, <3>3 DEF Chan, Few
  <2> QED BY <1>2, <2>1, <2>2, <2>3, <2>4 DEF Kind
<1> QED BY <1>1, <1>3, <1>4, <1>5, <1>6 DEF Chan, ChildAt

-----------------------------------------------------------------------------
(***************************************************************************)
(* Theorems.                                                               *)
(***************************************************************************)
(* Every variable keeps its type; in particular no block is read, sent or  *)
(* stored behind the end of the longest file, and the wire is never        *)
(* overfull.                                                               *)
THEOREM DataTypes == Spec => []TypeOK
<1>1. DataInv => TypeOK
  <2> SUFFICES ASSUME DataInv
               PROVE  TypeOK
    OBVIOUS
  <2>1. \A c \in Channel : ch[c] \in Chan
    BY DEF DataInv, Typed
  <2> QED BY <2>1 DEF DataInv, Typed, TypeOK, Chan, Few, Many
<1> QED BY <1>1, DataInvariant, PTL

(* handleCommands of the helper reads requests from its child and never    *)
(* blocks of a file, unless a write to the disk failed.                    *)
THEOREM OnlyRequestsRead == Spec => []RequestsAreRequests
<1>1. DataInv => RequestsAreRequests
  BY DEF DataInv, Typed, RequestsAreRequests, Sound, Upload, InStep, Chan, Few
<1> QED BY <1>1, DataInvariant, PTL

(* The port of a child that waits for its client is with the handler, on   *)
(* the wire or with the client, unless a signal ended the handler's        *)
(* message with it, or the client's reader is out of step.                 *)
THEOREM PortsReach == Spec => []PortAnnounced
<1>1. DataInv => PortAnnounced
  BY DEF DataInv
<1> QED BY <1>1, DataInvariant, PTL

(* The client's reader gets out of step only by what sendProtocolMsg wrote *)
(* without the lock of the socket, into a message that was written with    *)
(* it, or by a message of the handler that a signal ended within it.       *)
THEOREM LockedNeverMix == Spec => []ReaderInStep
<1>1. Init => ReaderInStep
  BY DEF Init, ReaderInStep
<1>2. ASSUME DataInv, ReaderInStep, [Next]_vars
      PROVE  ReaderInStep'
  <2>1. spoiled => spoiled'
    <3>1. DataInv'
      BY <1>2, DataNext
    <3>2. spoiled \in BOOLEAN
      BY <1>2 DEF DataInv, Typed
    <3>3. CASE HandlerStep \/ PortInterrupted \/ ReplyHeader \/ ReplyInterrupted \/ ReaderStep \/ Vanish
               \/ UNCHANGED vars
      BY <3>3 DEF HandlerStep, PortHeader, SendHeaderLocked, PortPayload, SendPayload,
         ReplyPayload, HandlerGone, PortInterrupted, ReplyHeader, ReplyInterrupted,
         WriteInterrupted, ReaderStep, ReadMessage, ReadTorn, Vanish, vars
    <3>4. ASSUME NEW c \in Channel, ChildStep(c)
          PROVE  spoiled => spoiled'
      BY <3>4 DEF ChildStep, Accept, Ask, Answer, Pull, PullEnd, Push, PushEnd, TellHeader,
         SendHeaderLocked, TellPayload, SendPayload, ChildSigpipe
    <3>5. ASSUME NEW c \in Channel, HelperStep(c)
          PROVE  spoiled => spoiled'
      BY <3>5 DEF HelperStep, Open, Refuse, Lock, ReadFile, ReadEnd, StoreBlock, DiskError,
         StoreEnd, NextRequest, HelperSigpipe
    <3>6. ASSUME NEW c \in Channel, Connect(c) \/ ThreadStep(c) \/ \E k \in Kind : Start(c, k)
          PROVE  spoiled => spoiled'
      BY <3>6 DEF Start, Connect, ThreadStep, OpenLocal, SendBlock, SendEnd, ReceiveBlock,
         ReceiveEnd
    <3> QED BY <1>2, <3>3, <3>4, <3>5, <3>6 DEF Next
  <2>2. CASE client'.gone = FALSE
    <3>1. ~spoiled' => ~client'.torn
      BY <1>2, <2>2, DataNext DEF DataInv, Aligned
    <3> QED BY <3>1 DEF ReaderInStep
  <2>3. CASE client'.gone # FALSE
    <3>1. client.torn = client'.torn
      <4>1. CASE Vanish \/ UNCHANGED vars
        BY <1>2, <4>1 DEF Vanish, vars, DataInv, Typed
      <4>2. CASE HandlerStep \/ PortInterrupted \/ ReplyHeader \/ ReplyInterrupted \/ ReaderStep
        BY <1>2, <2>3, <4>2 DEF HandlerStep, PortHeader, PortPayload, ReplyPayload, HandlerGone,
           PortInterrupted, ReplyHeader, ReplyInterrupted, ReaderStep, ReadMessage, ReadTorn,
           DataInv, Typed
      <4>3. ASSUME NEW c \in Channel, ChildStep(c)
            PROVE  UNCHANGED client
        BY <4>3 DEF ChildStep, Accept, Ask, Answer, Pull, PullEnd, Push, PushEnd, TellHeader,
           TellPayload, ChildSigpipe
      <4>4. ASSUME NEW c \in Channel, HelperStep(c)
            PROVE  UNCHANGED client
        BY <4>4 DEF HelperStep, Open, Refuse, Lock, ReadFile, ReadEnd, StoreBlock, DiskError,
           StoreEnd, NextRequest, HelperSigpipe
      <4>5. ASSUME NEW c \in Channel, Connect(c) \/ ThreadStep(c) \/ \E k \in Kind : Start(c, k)
            PROVE  UNCHANGED client
        BY <4>5 DEF Start, Connect, ThreadStep, OpenLocal, SendBlock, SendEnd, ReceiveBlock,
           ReceiveEnd
      <4> QED BY <1>2, <4>1, <4>2, <4>3, <4>4, <4>5 DEF Next
    <3> QED BY <1>2, <2>1, <3>1 DEF ReaderInStep
  <2> QED BY <2>2, <2>3
<1>3. DataInv /\ ReaderInStep /\ [Next]_vars => ReaderInStep'
  BY <1>2
<1> QED BY <1>1, <1>3, DataInvariant, PTL DEF Spec

(* A download that comes to its end at the client, and was not reported as *)
(* failed, is as long as the helper said.                                  *)
THEOREM DownloadWhole == Spec => LocalFileWhole
<1> DEFINE Step == \A c \in Channel :
       /\ ch[c].kind = "download" /\ ch[c].thread = "move" /\ ch[c].sock = 0
       /\ ch'[c].thread = "closed" /\ ~client'.gone /\ ch[c].outcome # "failed"
       => ch[c].local = ch[c].size
<1>1. ASSUME DataInv, [Next]_vars
      PROVE  Step
  <2> SUFFICES ASSUME NEW c \in Channel, ch[c].kind = "download", ch[c].thread = "move",
                      ch[c].sock = 0, ch'[c].thread = "closed", ~client'.gone,
                      ch[c].outcome # "failed"
               PROVE  ch[c].local = ch[c].size
    OBVIOUS
  <2>1. ch \in [Channel -> Chan] /\ Sound(ch[c])
    BY <1>1 DEF DataInv, Typed
  <2>2. Connect(c) \/ ThreadStep(c)
    <3>1. ~Vanish
      BY <1>1 DEF Vanish, DataInv, Typed
    <3> QED BY <1>1, <3>1, ThreadFrame
  <2>3. ReceiveEnd(c)
    BY <2>2 DEF Connect, ThreadStep, OpenLocal, SendBlock, SendEnd, ReceiveBlock
  <2>4. ch[c].outcome = "concluded"
    BY <2>1, <2>3 DEF ReceiveEnd, ClosedByChild, Sound, Reported, Ended, Chan
  <2> QED BY <2>1, <2>4 DEF Sound, Download, Chan, Few, Many
<1>2. DataInv /\ [Next]_vars => [Step]_vars
  BY <1>1
<1> HIDE DEF Step
<1>3. Spec => [][Step]_vars
  BY <1>2, DataInvariant, PTL DEF Spec
<1> QED BY <1>3 DEF LocalFileWhole, Step

(* When the helper lets an upload's file go, it holds what the client sent *)
(* and nothing else.                                                       *)
THEOREM UploadStored == Spec => StoredWhole
<1> DEFINE Step == \A u \in Channel :
       /\ ch[u].kind = "upload" /\ ch[u].helper = "stream" /\ ch'[u].helper = "next"
       /\ ch[u].alone /\ ~ch'[u].diskError
       => file = Blocks(u)
<1>1. ASSUME DataInv, [Next]_vars
      PROVE  Step
  <2> SUFFICES ASSUME NEW u \in Channel, ch[u].kind = "upload", ch[u].helper = "stream",
                      ch'[u].helper = "next", ch[u].alone, ~ch'[u].diskError
               PROVE  file = Blocks(u)
    OBVIOUS
  <2>1. /\ ch \in [Channel -> Chan] /\ Sound(ch[u]) /\ file \in Seq(Channel \cup {Hole})
        /\ ch[u].answer = "ok"
    BY <1>1 DEF DataInv, Typed, Sound, InStep, Chan
  <2>2. HelperStep(u)
    BY <1>1, HelperFrame
  <2>3. ~DiskError(u) /\ ~StoreBlock(u) /\ ~Open(u)
    BY <2>1 DEF DiskError, StoreBlock, Open, Chan
  <2>4. StoreEnd(u)
    BY <2>2, <2>3 DEF HelperStep, Refuse, Lock, ReadFile, ReadEnd, NextRequest, HelperSigpipe
  <2>5. ch[u].pos = ch[u].local
    BY <2>1, <2>4 DEF StoreEnd, Sound, Upload, Reported, Chan, Few, Many
  <2>6. Len(file) = ch[u].pos /\ \A i \in 1..ch[u].pos : file[i] = u
    BY <1>1, <2>1 DEF DataInv, Stored, HasFile
  <2>7. file = [i \in 1..Len(file) |-> file[i]]
    BY <2>1
  <2> QED BY <2>5, <2>6, <2>7 DEF Blocks
<1>2. DataInv /\ [Next]_vars => [Step]_vars
  BY <1>1
<1> HIDE DEF Step
<1>3. Spec => [][Step]_vars
  BY <1>2, DataInvariant, PTL DEF Spec
<1> QED BY <1>3 DEF StoredWhole, Step

(* A download begun after the client heard that an upload is concluded     *)
(* gets all of it, though the helper was not through with it then.         *)
THEOREM ConcludedIsVisible == Spec => UploadVisible
<1> DEFINE Step == \A c \in Channel : \A u \in ch[c].after :
       /\ ch[c].kind = "download" /\ ch[c].helper = "lock" /\ ch'[c].helper = "stream"
       /\ ch[u].alone /\ ~ch[u].diskError
       => ch'[c].size = ch[u].local
<1>1. ASSUME DataInv, [Next]_vars
      PROVE  Step
  <2> SUFFICES ASSUME NEW c \in Channel, NEW u \in ch[c].after, ch[c].kind = "download",
                      ch[c].helper = "lock", ch'[c].helper = "stream",
                      ch[u].alone, ~ch[u].diskError
               PROVE  ch'[c].size = ch[u].local
    OBVIOUS
  <2>1. ch \in [Channel -> Chan] /\ u \in Channel
    BY <1>1 DEF DataInv, Typed, Chan
  <2>2. ch[u].kind = "upload" /\ ch[u].outcome = "concluded" /\ Sound(ch[u])
    BY <1>1, <2>1 DEF DataInv, Concluded
  <2>3. HelperStep(c)
    BY <1>1, HelperFrame
  <2>4. ~Open(c)
    BY DEF Open
  <2>5. Lock(c)
    BY <2>1, <2>3, <2>4 DEF HelperStep, Refuse, ReadFile, ReadEnd, StoreBlock, DiskError,
       StoreEnd, NextRequest, HelperSigpipe, Chan
  <2>6. ch[u].answer = "ok" /\ ch[u].helper \in {"next", "done"}
    BY <2>1, <2>2, <2>5 DEF Sound, InStep, Reported, Lock, MayLock
  <2>7. ch[u].pos = ch[u].local
    BY <2>1, <2>2, <2>6 DEF Sound, Upload, Chan
  <2>8. Len(file) = ch[u].pos
    BY <1>1, <2>1, <2>2, <2>6 DEF DataInv, Stored, HasFile
  <2>9. ch'[c].size = Len(file)
    BY <2>1, <2>5 DEF Lock, Chan
  <2> QED BY <2>7, <2>8, <2>9
<1>2. DataInv /\ [Next]_vars => [Step]_vars
  BY <1>1
<1> HIDE DEF Step
<1>3. Spec => [][Step]_vars
  BY <1>2, DataInvariant, PTL DEF Spec
<1> QED BY <1>3 DEF UploadVisible, Step

(* A child that is connected and not at its end is never left with nobody  *)
(* to move: neither the record locks that helpers wait for nor the lock    *)
(* and the room of the command connection can be waited for in a circle.   *)
THEOREM NobodyStandsStill == Spec => []NoStandstill
<1>1. DataInv /\ GoneClosed => NoStandstill
  BY SomebodyGoesOn DEF NoStandstill
<1> QED BY <1>1, DataInvariant, GoneStaysClosed, PTL

(* What is left of a transfer: the steps of its child, of its helper       *)
(* process and of the client's thread, and those of the blocks that are    *)
(* still to be read, are between two of them, or in the last.              *)
ChildLeft(at) ==
  CASE at = "none" -> 12 [] at = "accept" -> 11 [] at = "ask" -> 10 [] at = "answer" -> 4
    [] at = "move" -> 3 [] at = "tell" -> 2 [] at = "payload" -> 1 [] at = "done" -> 0
HelperLeft(at) ==
  CASE at = "open" -> 4 [] at = "lock" -> 3 [] at = "stream" -> 2 [] at = "next" -> 1
    [] at \in {"none", "done"} -> 0
ThreadLeft(at) ==
  CASE at = "none" -> 4 [] at = "connect" -> 3 [] at = "open" -> 2 [] at = "move" -> 1
    [] at = "closed" -> 0
BlocksLeft(r) ==
  IF r.kind = "download" THEN 3 * (MaxBlocks - r.pos) + 2 * r.pipe + r.sock
                         ELSE 3 * (MaxBlocks - r.local) + 2 * r.sock + r.pipe
Left(r) ==
  ChildLeft(r.child) + HelperLeft(r.helper) + ThreadLeft(r.thread) + BlocksLeft(r)

StepOf(c) ==
  \/ \E k \in Kind : Start(c, k)
  \/ Connect(c) \/ ChildStep(c) \/ HelperStep(c) \/ ThreadStep(c)

Others(c) == \A d \in Channel \ {c} : Left(ch'[d]) = Left(ch[d])
Less(c) == Others(c) /\ Left(ch'[c]) < Left(ch[c])
SameBlocks(r, s) == /\ s.kind = r.kind /\ s.pos = r.pos /\ s.local = r.local
                    /\ s.pipe = r.pipe /\ s.sock = r.sock

LEMMA Tables ==
  /\ ChildLeft("none") = 12 /\ ChildLeft("accept") = 11 /\ ChildLeft("ask") = 10
  /\ ChildLeft("answer") = 4 /\ ChildLeft("move") = 3 /\ ChildLeft("tell") = 2
  /\ ChildLeft("payload") = 1 /\ ChildLeft("done") = 0
  /\ HelperLeft("none") = 0 /\ HelperLeft("open") = 4 /\ HelperLeft("lock") = 3
  /\ HelperLeft("stream") = 2 /\ HelperLeft("next") = 1 /\ HelperLeft("done") = 0
  /\ ThreadLeft("none") = 4 /\ ThreadLeft("connect") = 3 /\ ThreadLeft("open") = 2
  /\ ThreadLeft("move") = 1 /\ ThreadLeft("closed") = 0
BY DEF ChildLeft, HelperLeft, ThreadLeft

LEMMA Parts ==
  ASSUME NEW r \in Chan
  PROVE  /\ ChildLeft(r.child) \in Nat /\ HelperLeft(r.helper) \in Nat
         /\ ThreadLeft(r.thread) \in Nat /\ BlocksLeft(r) \in Nat /\ Left(r) \in Nat
<1>1. ChildLeft(r.child) \in Nat
  BY DEF ChildLeft, Chan, ChildAt
<1>2. HelperLeft(r.helper) \in Nat
  BY DEF HelperLeft, Chan, HelperAt
<1>3. ThreadLeft(r.thread) \in Nat
  BY DEF ThreadLeft, Chan, ThreadAt
<1>4. BlocksLeft(r) \in Nat
  BY BoundsAssumption DEF BlocksLeft, Chan, Few, Many
<1> QED BY <1>1, <1>2, <1>3, <1>4 DEF Left

(* Every step of a child brings its transfer nearer to the end.            *)
LEMMA ChildLess ==
  ASSUME DataInv, NEW c \in Channel, ChildStep(c)
  PROVE  Less(c)
<1>0. PICK r \in Chan : r = ch[c]
  BY DEF DataInv, Typed
<1>1. /\ ch \in [Channel -> Chan] /\ ch[c] \in Chan /\ Sound(ch[c])
      /\ MaxBlocks \in Nat /\ Len(file) \in Nat /\ Len(file) <= MaxBlocks
  BY BoundsAssumption DEF DataInv, Typed
<1>2. /\ ChildLeft(r.child) \in Nat /\ HelperLeft(r.helper) \in Nat
      /\ ThreadLeft(r.thread) \in Nat /\ MaxBlocks \in Nat
      /\ r.pos \in 0..MaxBlocks /\ r.local \in 0..MaxBlocks
      /\ r.pipe \in 0..1 /\ r.sock \in 0..1
  BY <1>1, Parts DEF Chan, Few, Many
<1>3. CASE Accept(c)
  <2>1. Others(c)
    BY <1>1, <1>3 DEF Accept, Others
  <2>2. /\ r.child = "accept" /\ ch'[c].child = "ask"
        /\ ch'[c].helper = r.helper
        /\ ch'[c].thread = r.thread
        /\ SameBlocks(r, ch'[c])
    BY <1>0, <1>1, <1>3 DEF Accept, Chan, SameBlocks, Sound, Fresh, InStep, Few, Many
  <2> QED BY <1>0, <1>2, Tables, <2>1, <2>2 DEF Less, Left, BlocksLeft, SameBlocks
<1>4. CASE Ask(c)
  <2>1. Others(c)
    BY <1>1, <1>4 DEF Ask, Others
  <2>2. /\ r.child = "ask" /\ ch'[c].thread = r.thread /\ r.helper = "none"
        /\ \/ ch'[c].child = "answer" /\ ch'[c].helper = "open"
           \/ ch'[c].child = "tell" /\ ch'[c].helper = "none"
        /\ SameBlocks(r, ch'[c])
    BY <1>0, <1>1, <1>4 DEF Ask, Chan, SameBlocks, Sound, Fresh, InStep, Few, Many
  <2> QED BY <1>0, <1>2, Tables, <2>1, <2>2 DEF Less, Left, BlocksLeft, SameBlocks
<1>5. CASE Answer(c)
  <2>1. Others(c)
    BY <1>1, <1>5 DEF Answer, Others
  <2>2. /\ r.child = "answer" /\ ch'[c].child \in {"move", "tell"}
        /\ ch'[c].helper = r.helper
        /\ ch'[c].thread = r.thread
        /\ SameBlocks(r, ch'[c])
    BY <1>0, <1>1, <1>5 DEF Answer, Chan, SameBlocks, Sound, Fresh, InStep, Few, Many
  <2> QED BY <1>0, <1>2, Tables, <2>1, <2>2 DEF Less, Left, BlocksLeft, SameBlocks
<1>6. CASE Pull(c)
  <2>1. Others(c)
    BY <1>1, <1>6 DEF Pull, Moving, Others
  <2>2. /\ r.kind = "download" /\ ch'[c].kind = "download" /\ ch'[c].pos = r.pos
        /\ ch'[c].child = r.child
        /\ ch'[c].helper = r.helper /\ ch'[c].thread = r.thread
        /\ r.pipe = 1 /\ ch'[c].pipe = 0 /\ (ch'[c].sock = 0 \/ (r.sock = 0 /\ ch'[c].sock = 1))
    BY <1>0, <1>1, <1>6 DEF Pull, Moving, Chan, SameBlocks, Sound, Fresh, InStep, Few, Many
  <2> QED BY <1>0, <1>2, Tables, <2>1, <2>2 DEF Less, Left, BlocksLeft, SameBlocks
<1>7. CASE PullEnd(c)
  <2>1. Others(c)
    BY <1>1, <1>7 DEF PullEnd, Moving, Others
  <2>2. /\ r.child = "move" /\ ch'[c].child = "tell"
        /\ ch'[c].helper = r.helper
        /\ ch'[c].thread = r.thread
        /\ SameBlocks(r, ch'[c])
    BY <1>0, <1>1, <1>7 DEF PullEnd, Moving, Chan, SameBlocks, Sound, Fresh, InStep, Few, Many
  <2> QED BY <1>0, <1>2, Tables, <2>1, <2>2 DEF Less, Left, BlocksLeft, SameBlocks
<1>8. CASE Push(c)
  <2>1. Others(c)
    BY <1>1, <1>8 DEF Push, Moving, Others
  <2>2. /\ r.kind = "upload" /\ ch'[c].kind = "upload" /\ ch'[c].local = r.local
        /\ ch'[c].child = r.child
        /\ ch'[c].helper = r.helper /\ ch'[c].thread = r.thread
        /\ r.sock = 1 /\ ch'[c].sock = 0 /\ r.pipe = 0 /\ ch'[c].pipe = 1
    BY <1>0, <1>1, <1>8 DEF Push, Moving, Chan, SameBlocks, Sound, Fresh, InStep, Few, Many
  <2> QED BY <1>0, <1>2, Tables, <2>1, <2>2 DEF Less, Left, BlocksLeft, SameBlocks
<1>9. CASE PushEnd(c)
  <2>1. Others(c)
    BY <1>1, <1>9 DEF PushEnd, Moving, Others
  <2>2. /\ r.child = "move" /\ ch'[c].child = "tell"
        /\ ch'[c].helper = r.helper
        /\ ch'[c].thread = r.thread
        /\ SameBlocks(r, ch'[c])
    BY <1>0, <1>1, <1>9 DEF PushEnd, Moving, Chan, SameBlocks, Sound, Fresh, InStep, Few, Many
  <2> QED BY <1>0, <1>2, Tables, <2>1, <2>2 DEF Less, Left, BlocksLeft, SameBlocks
<1>10. CASE TellHeader(c)
  <2>1. Others(c)
    BY <1>1, <1>10 DEF TellHeader, Others
  <2>2. /\ r.child = "tell" /\ ch'[c].child = "payload"
        /\ ch'[c].helper = r.helper
        /\ ch'[c].thread = r.thread
        /\ SameBlocks(r, ch'[c])
    BY <1>0, <1>1, <1>10 DEF TellHeader, Chan, SameBlocks, Sound, Fresh, InStep, Few, Many
  <2> QED BY <1>0, <1>2, Tables, <2>1, <2>2 DEF Less, Left, BlocksLeft, SameBlocks
<1>11. CASE TellPayload(c)
  <2>1. Others(c)
    BY <1>1, <1>11 DEF TellPayload, Others
  <2>2. /\ r.child = "payload" /\ ch'[c].child = "done"
        /\ ch'[c].helper = r.helper
        /\ ch'[c].thread = r.thread
        /\ SameBlocks(r, ch'[c])
    BY <1>0, <1>1, <1>11 DEF TellPayload, Chan, SameBlocks, Sound, Fresh, InStep, Few, Many
  <2> QED BY <1>0, <1>2, Tables, <2>1, <2>2 DEF Less, Left, BlocksLeft, SameBlocks
<1>12. CASE ChildSigpipe(c)
  <2>1. Others(c)
    BY <1>1, <1>12 DEF ChildSigpipe, Moving, Others
  <2>2. /\ r.child \in {"move", "tell", "payload"} /\ ch'[c].child = "done"
        /\ ch'[c].helper = r.helper
        /\ ch'[c].thread = r.thread
        /\ SameBlocks(r, ch'[c])
    BY <1>0, <1>1, <1>12 DEF ChildSigpipe, Moving, Chan, SameBlocks, Sound, Fresh, InStep, Few, Many
  <2> QED BY <1>0, <1>2, Tables, <2>1, <2>2 DEF Less, Left, BlocksLeft, SameBlocks
<1> QED BY <1>3, <1>4, <1>5, <1>6, <1>7, <1>8, <1>9, <1>10, <1>11, <1>12 DEF ChildStep

(* So does every step of the helper's process.                             *)
LEMMA HelperLess ==
  ASSUME DataInv, NEW c \in Channel, HelperStep(c)
  PROVE  Less(c)
<1>0. PICK r \in Chan : r = ch[c]
  BY DEF DataInv, Typed
<1>1. /\ ch \in [Channel -> Chan] /\ ch[c] \in Chan /\ Sound(ch[c])
      /\ MaxBlocks \in Nat /\ Len(file) \in Nat /\ Len(file) <= MaxBlocks
  BY BoundsAssumption DEF DataInv, Typed
<1>2. /\ ChildLeft(r.child) \in Nat /\ HelperLeft(r.helper) \in Nat
      /\ ThreadLeft(r.thread) \in Nat /\ MaxBlocks \in Nat
      /\ r.pos \in 0..MaxBlocks /\ r.local \in 0..MaxBlocks
      /\ r.pipe \in 0..1 /\ r.sock \in 0..1
  BY <1>1, Parts DEF Chan, Few, Many
<1>3. CASE Open(c)
  <2>1. CASE ch' = [ch EXCEPT ![c].helper = "lock"]
    <3>1. Others(c)
      BY <1>1, <2>1 DEF Others
    <3>2. /\ r.helper = "open" /\ ch'[c].helper = "lock"
          /\ ch'[c].child = r.child /\ ch'[c].thread = r.thread
          /\ SameBlocks(r, ch'[c])
      BY <1>0, <1>1, <1>3, <2>1 DEF Open, Chan, SameBlocks
    <3> QED BY <1>0, <1>2, Tables, <3>1, <3>2 DEF Less, Left, BlocksLeft, SameBlocks
  <2>2. CASE ch' = [d \in Channel |->
                      IF d = c
                      THEN [ch[c] EXCEPT !.helper = "lock",
                              !.alone = ~\E u \in Channel \ {c} :
                                           ch[u].kind = "upload" /\ Opened(u)]
                      ELSE [ch[d] EXCEPT !.alone = FALSE]]
    <3>1. ASSUME NEW d \in Channel \ {c}
          PROVE  Left(ch'[d]) = Left(ch[d])
      <4>1. ch'[d] = [ch[d] EXCEPT !.alone = FALSE] /\ ch[d] \in Chan
        BY <1>1, <2>2
      <4>2. /\ ch'[d].child = ch[d].child /\ ch'[d].helper = ch[d].helper
            /\ ch'[d].thread = ch[d].thread /\ SameBlocks(ch[d], ch'[d])
        BY <4>1 DEF Chan, SameBlocks
      <4> QED BY <4>2 DEF Left, BlocksLeft, SameBlocks
    <3> DEFINE y == ~\E u \in Channel \ {c} : ch[u].kind = "upload" /\ Opened(u)
    <3>2. ch'[c] = [r EXCEPT !.helper = "lock", !.alone = y]
      BY <1>0, <2>2
    <3> HIDE DEF y
    <3>3. /\ r.helper = "open" /\ ch'[c].helper = "lock"
          /\ ch'[c].child = r.child /\ ch'[c].thread = r.thread
          /\ SameBlocks(r, ch'[c])
      BY <1>0, <1>3, <3>2 DEF Open, Chan, SameBlocks
    <3> QED BY <1>0, <1>2, Tables, <3>1, <3>3 DEF Less, Others, Left, BlocksLeft, SameBlocks
  <2> QED BY <1>3, <2>1, <2>2 DEF Open
<1>4. CASE Refuse(c)
  <2>1. Others(c)
    BY <1>1, <1>4 DEF Refuse, Others
  <2>2. /\ r.helper \in {"open", "lock"} /\ ch'[c].helper = "next"
        /\ ch'[c].child = r.child
        /\ ch'[c].thread = r.thread
        /\ SameBlocks(r, ch'[c])
    BY <1>0, <1>1, <1>4 DEF Refuse, Chan, SameBlocks, Sound, Fresh, InStep, Few, Many
  <2> QED BY <1>0, <1>2, Tables, <2>1, <2>2 DEF Less, Left, BlocksLeft, SameBlocks
<1>5. CASE Lock(c)
  <2>1. Others(c)
    BY <1>1, <1>5 DEF Lock, Others
  <2>2. /\ r.helper = "lock" /\ ch'[c].helper = "stream"
        /\ ch'[c].child = r.child
        /\ ch'[c].thread = r.thread
        /\ SameBlocks(r, ch'[c])
    BY <1>0, <1>1, <1>5 DEF Lock, Chan, SameBlocks, Sound, Fresh, InStep, Few, Many
  <2> QED BY <1>0, <1>2, Tables, <2>1, <2>2 DEF Less, Left, BlocksLeft, SameBlocks
<1>6. CASE ReadFile(c)
  <2>1. Others(c)
    BY <1>1, <1>6 DEF ReadFile, Others
  <2>2. /\ r.kind = "download" /\ ch'[c].kind = "download" /\ ch'[c].pos = r.pos + 1
        /\ ch'[c].helper = r.helper
        /\ ch'[c].child = r.child /\ ch'[c].thread = r.thread
        /\ r.pipe = 0 /\ ch'[c].pipe = 1 /\ ch'[c].sock = r.sock /\ r.pos < MaxBlocks
    BY <1>0, <1>1, <1>6 DEF ReadFile, Chan, SameBlocks, Sound, Fresh, InStep, Few, Many
  <2> QED BY <1>0, <1>2, Tables, <2>1, <2>2 DEF Less, Left, BlocksLeft, SameBlocks
<1>7. CASE ReadEnd(c)
  <2>1. Others(c)
    BY <1>1, <1>7 DEF ReadEnd, Others
  <2>2. /\ r.helper = "stream" /\ ch'[c].helper = "next"
        /\ ch'[c].child = r.child
        /\ ch'[c].thread = r.thread
        /\ SameBlocks(r, ch'[c])
    BY <1>0, <1>1, <1>7 DEF ReadEnd, Chan, SameBlocks, Sound, Fresh, InStep, Few, Many
  <2> QED BY <1>0, <1>2, Tables, <2>1, <2>2 DEF Less, Left, BlocksLeft, SameBlocks
<1>8. CASE StoreBlock(c)
  <2>1. Others(c)
    BY <1>1, <1>8 DEF StoreBlock, Others
  <2>2. /\ r.kind = "upload" /\ ch'[c].kind = "upload" /\ ch'[c].local = r.local
        /\ ch'[c].helper = r.helper
        /\ ch'[c].child = r.child /\ ch'[c].thread = r.thread
        /\ r.pipe = 1 /\ ch'[c].pipe = 0 /\ ch'[c].sock = r.sock
    BY <1>0, <1>1, <1>8 DEF StoreBlock, Chan, SameBlocks, Sound, Fresh, InStep, Few, Many
  <2> QED BY <1>0, <1>2, Tables, <2>1, <2>2 DEF Less, Left, BlocksLeft, SameBlocks
<1>9. CASE DiskError(c)
  <2>1. Others(c)
    BY <1>1, <1>9 DEF DiskError, Others
  <2>2. /\ r.kind = "upload" /\ ch'[c].kind = "upload" /\ ch'[c].local = r.local
        /\ r.helper = "stream" /\ ch'[c].helper = "next"
        /\ ch'[c].child = r.child /\ ch'[c].thread = r.thread
        /\ r.pipe = 1 /\ ch'[c].pipe = 0 /\ ch'[c].sock = r.sock
    BY <1>0, <1>1, <1>9 DEF DiskError, Chan, SameBlocks, Sound, Fresh, InStep, Few, Many
  <2> QED BY <1>0, <1>2, Tables, <2>1, <2>2 DEF Less, Left, BlocksLeft, SameBlocks
<1>10. CASE StoreEnd(c)
  <2>1. Others(c)
    BY <1>1, <1>10 DEF StoreEnd, Others
  <2>2. /\ r.helper = "stream" /\ ch'[c].helper = "next"
        /\ ch'[c].child = r.child
        /\ ch'[c].thread = r.thread
        /\ SameBlocks(r, ch'[c])
    BY <1>0, <1>1, <1>10 DEF StoreEnd, Chan, SameBlocks, Sound, Fresh, InStep, Few, Many
  <2> QED BY <1>0, <1>2, Tables, <2>1, <2>2 DEF Less, Left, BlocksLeft, SameBlocks
<1>11. CASE NextRequest(c)
  <2>1. Others(c)
    BY <1>1, <1>11 DEF NextRequest, Others
  <2>2. /\ ch'[c].kind = r.kind /\ ch'[c].local = r.local /\ ch'[c].pos = r.pos /\ ch'[c].sock = r.sock
        /\ ch'[c].child = r.child
        /\ ch'[c].thread = r.thread
        /\ \/ r.helper = "next" /\ ch'[c].helper = "done" /\ ch'[c].pipe = r.pipe
           \/ ch'[c].helper = r.helper /\ r.kind = "upload" /\ r.pipe = 1 /\ ch'[c].pipe = 0
    BY <1>0, <1>1, <1>11 DEF NextRequest, Chan, SameBlocks, Sound, Fresh, InStep, Few, Many
  <2> QED BY <1>0, <1>2, Tables, <2>1, <2>2 DEF Less, Left, BlocksLeft, SameBlocks
<1>12. CASE HelperSigpipe(c)
  <2>1. Others(c)
    BY <1>1, <1>12 DEF HelperSigpipe, Others
  <2>2. /\ r.helper = "stream" /\ ch'[c].helper = "done"
        /\ ch'[c].child = r.child
        /\ ch'[c].thread = r.thread
        /\ SameBlocks(r, ch'[c])
    BY <1>0, <1>1, <1>12 DEF HelperSigpipe, Chan, SameBlocks, Sound, Fresh, InStep, Few, Many
  <2> QED BY <1>0, <1>2, Tables, <2>1, <2>2 DEF Less, Left, BlocksLeft, SameBlocks
<1> QED BY <1>3, <1>4, <1>5, <1>6, <1>7, <1>8, <1>9, <1>10, <1>11, <1>12 DEF HelperStep

(* And every step of the client's thread.                                  *)
LEMMA ThreadLess ==
  ASSUME DataInv, NEW c \in Channel, ThreadStep(c)
  PROVE  Less(c)
<1>0. PICK r \in Chan : r = ch[c]
  BY DEF DataInv, Typed
<1>1. /\ ch \in [Channel -> Chan] /\ ch[c] \in Chan /\ Sound(ch[c])
      /\ MaxBlocks \in Nat /\ Len(file) \in Nat /\ Len(file) <= MaxBlocks
  BY BoundsAssumption DEF DataInv, Typed
<1>2. /\ ChildLeft(r.child) \in Nat /\ HelperLeft(r.helper) \in Nat
      /\ ThreadLeft(r.thread) \in Nat /\ MaxBlocks \in Nat
      /\ r.pos \in 0..MaxBlocks /\ r.local \in 0..MaxBlocks
      /\ r.pipe \in 0..1 /\ r.sock \in 0..1
  BY <1>1, Parts DEF Chan, Few, Many
<1>3. CASE OpenLocal(c)
  <2>1. Others(c)
    BY <1>1, <1>3 DEF OpenLocal, Others
  <2>2. /\ r.thread = "open" /\ ch'[c].thread \in {"move", "closed"}
        /\ ch'[c].child = r.child
        /\ ch'[c].helper = r.helper
        /\ SameBlocks(r, ch'[c])
    BY <1>0, <1>1, <1>3 DEF OpenLocal, Chan, SameBlocks, Sound, Fresh, InStep, Few, Many
  <2> QED BY <1>0, <1>2, Tables, <2>1, <2>2 DEF Less, Left, BlocksLeft, SameBlocks
<1>4. CASE SendBlock(c)
  <2>1. Others(c)
    BY <1>1, <1>4 DEF SendBlock, Others
  <2>2. /\ r.kind = "upload" /\ ch'[c].kind = "upload" /\ ch'[c].local = r.local + 1
        /\ ch'[c].thread = r.thread
        /\ ch'[c].child = r.child /\ ch'[c].helper = r.helper /\ r.local < MaxBlocks
        /\ r.sock = 0 /\ ch'[c].sock = 1 /\ ch'[c].pipe = r.pipe
    BY <1>0, <1>1, <1>4 DEF SendBlock, Chan, SameBlocks, Sound, Fresh, InStep, Few, Many
  <2> QED BY <1>0, <1>2, Tables, <2>1, <2>2 DEF Less, Left, BlocksLeft, SameBlocks
<1>5. CASE SendEnd(c)
  <2>1. Others(c)
    BY <1>1, <1>5 DEF SendEnd, Others
  <2>2. /\ r.thread = "move" /\ ch'[c].thread = "closed"
        /\ ch'[c].child = r.child
        /\ ch'[c].helper = r.helper
        /\ SameBlocks(r, ch'[c])
    BY <1>0, <1>1, <1>5 DEF SendEnd, Chan, SameBlocks, Sound, Fresh, InStep, Few, Many
  <2> QED BY <1>0, <1>2, Tables, <2>1, <2>2 DEF Less, Left, BlocksLeft, SameBlocks
<1>6. CASE ReceiveBlock(c)
  <2>1. Others(c)
    BY <1>1, <1>6 DEF ReceiveBlock, Others
  <2>2. /\ r.kind = "download" /\ ch'[c].kind = "download" /\ ch'[c].pos = r.pos
        /\ \/ ch'[c].thread = r.thread
           \/ r.thread = "move" /\ ch'[c].thread = "closed"
        /\ ch'[c].child = r.child
        /\ ch'[c].helper = r.helper
        /\ r.sock = 1 /\ ch'[c].sock = 0 /\ ch'[c].pipe = r.pipe
    BY <1>0, <1>1, <1>6 DEF ReceiveBlock, Chan, SameBlocks, Sound, Fresh, InStep, Few, Many
  <2> QED BY <1>0, <1>2, Tables, <2>1, <2>2 DEF Less, Left, BlocksLeft, SameBlocks
<1>7. CASE ReceiveEnd(c)
  <2>1. Others(c)
    BY <1>1, <1>7 DEF ReceiveEnd, Others
  <2>2. /\ r.thread = "move" /\ ch'[c].thread = "closed"
        /\ ch'[c].child = r.child
        /\ ch'[c].helper = r.helper
        /\ SameBlocks(r, ch'[c])
    BY <1>0, <1>1, <1>7 DEF ReceiveEnd, Chan, SameBlocks, Sound, Fresh, InStep, Few, Many
  <2> QED BY <1>0, <1>2, Tables, <2>1, <2>2 DEF Less, Left, BlocksLeft, SameBlocks
<1> QED BY <1>3, <1>4, <1>5, <1>6, <1>7 DEF ThreadStep

(* The fork of the child, and the thread's connection to it.               *)
LEMMA BeginningLess ==
  ASSUME DataInv, NEW c \in Channel, Connect(c) \/ \E k \in Kind : Start(c, k)
  PROVE  Less(c)
<1>0. PICK r \in Chan : r = ch[c]
  BY DEF DataInv, Typed
<1>1. ch \in [Channel -> Chan] /\ Sound(ch[c])
  BY DEF DataInv, Typed
<1>2. /\ ChildLeft(r.child) \in Nat /\ HelperLeft(r.helper) \in Nat
      /\ ThreadLeft(r.thread) \in Nat /\ MaxBlocks \in Nat
      /\ r.pos \in 0..MaxBlocks /\ r.local \in 0..MaxBlocks
      /\ r.pipe \in 0..1 /\ r.sock \in 0..1
  BY Parts, BoundsAssumption DEF Chan, Few, Many
<1>3. CASE Connect(c)
  <2>1. Others(c)
    BY <1>1, <1>3 DEF Connect, Others
  <2>2. /\ r.thread = "connect" /\ ch'[c].thread \in {"open", "closed"}
        /\ ch'[c].child = r.child /\ ch'[c].helper = r.helper
        /\ SameBlocks(r, ch'[c])
    BY <1>0, <1>1, <1>3 DEF Connect, Chan, SameBlocks
  <2> QED BY <1>0, <1>2, Tables, <2>1, <2>2 DEF Less, Left, BlocksLeft, SameBlocks
<1>4. ASSUME NEW k \in Kind, Start(c, k)
      PROVE  Less(c)
  <2> DEFINE a == {u \in Channel : /\ ch[u].kind = "upload"
                                   /\ ch[u].outcome = "concluded" /\ ch[u].heard}
  <2>1. ch' = [ch EXCEPT ![c] = [r EXCEPT !.kind = k, !.child = "accept", !.after = a]]
    BY <1>0, <1>1, <1>4 DEF Start
  <2> HIDE DEF a
  <2>2. Others(c)
    BY <1>1, <2>1 DEF Others
  <2>3. /\ r.child = "none" /\ r.kind = "none"
        /\ r.pos = 0 /\ r.local = 0 /\ r.pipe = 0 /\ r.sock = 0
    BY <1>0, <1>1, <1>4 DEF Start, Sound, InStep, Fresh
  <2>4. ch'[c] = [r EXCEPT !.kind = k, !.child = "accept", !.after = a]
    BY <1>1, <2>1
  <2>5. /\ ch'[c].child = "accept"
        /\ ch'[c].helper = r.helper /\ ch'[c].thread = r.thread
        /\ ch'[c].pos = r.pos /\ ch'[c].local = r.local
        /\ ch'[c].pipe = r.pipe /\ ch'[c].sock = r.sock
    BY <2>4 DEF Chan
  <2> QED BY <1>0, <1>2, Tables, <2>2, <2>3, <2>5 DEF Less, Left, BlocksLeft
<1> QED BY <1>3, <1>4

(* A port that is read makes a thread where none was, and what is gone     *)
(* with the client is not to be done any more.                             *)
LEMMA OthersNoMore ==
  ASSUME DataInv, NEW c \in Channel,
         \/ HandlerStep \/ PortInterrupted \/ ReplyHeader \/ ReplyInterrupted
         \/ ReaderStep \/ Vanish \/ UNCHANGED vars
  PROVE  Left(ch'[c]) <= Left(ch[c])
<1>0. PICK r \in Chan : r = ch[c]
  BY DEF DataInv, Typed
<1>1. ch \in [Channel -> Chan] /\ Sound(ch[c]) /\ Left(r) \in Nat
  BY Parts DEF DataInv, Typed
<1>2. /\ ChildLeft(r.child) \in Nat /\ HelperLeft(r.helper) \in Nat
      /\ ThreadLeft(r.thread) \in Nat /\ MaxBlocks \in Nat
      /\ r.pos \in 0..MaxBlocks /\ r.local \in 0..MaxBlocks
      /\ r.pipe \in 0..1 /\ r.sock \in 0..1
  BY Parts, BoundsAssumption DEF Chan, Few, Many
<1> DEFINE Same == /\ ch'[c].child = r.child /\ ch'[c].helper = r.helper
                   /\ ch'[c].thread = r.thread /\ SameBlocks(r, ch'[c])
<1>3. Same => Left(ch'[c]) <= Left(ch[c])
  BY <1>0, <1>1 DEF Left, BlocksLeft, SameBlocks
<1>4. CASE \/ HandlerStep \/ PortInterrupted \/ ReplyHeader \/ ReplyInterrupted
          \/ ReadTorn \/ UNCHANGED vars
  <2>1. CASE PortInterrupted
    <3>1. ch'[c] = r \/ ch'[c] = [r EXCEPT !.unannounced = TRUE]
      BY <1>0, <1>1, <2>1 DEF PortInterrupted
    <3>2. Same
      BY <3>1 DEF Chan, SameBlocks
    <3> QED BY <1>3, <3>2
  <2>2. CASE HandlerStep \/ ReplyHeader \/ ReplyInterrupted \/ ReadTorn \/ UNCHANGED vars
    <3>1. UNCHANGED ch
      BY <2>2 DEF HandlerStep, PortHeader, PortPayload, ReplyPayload, HandlerGone, ReplyHeader,
         ReplyInterrupted, ReadTorn, vars
    <3> QED BY <1>0, <1>1, <3>1
  <2> QED BY <1>4, <2>1, <2>2
<1>5. CASE ReadMessage
  <2>1. CASE ch'[c] = r
    BY <1>0, <1>1, <2>1
  <2>2. CASE ch'[c] # r /\ ch' = [ch EXCEPT ![c].heard = TRUE]
    <3>1. Same
      BY <1>0, <1>1, <2>2 DEF Chan, SameBlocks
    <3> QED BY <1>3, <3>1
  <2>3. CASE ch'[c] # r /\ ch' = [ch EXCEPT ![c].thread = "connect"] /\ r.thread = "none"
    <3>1. /\ ch'[c].child = r.child /\ ch'[c].helper = r.helper
          /\ r.thread = "none" /\ ch'[c].thread = "connect" /\ SameBlocks(r, ch'[c])
      BY <1>0, <1>1, <2>3 DEF Chan, SameBlocks
    <3> QED BY <1>0, <1>2, Tables, <3>1 DEF Left, BlocksLeft, SameBlocks
  <2>4. ASSUME ch'[c] # r
        PROVE  \/ ch' = [ch EXCEPT ![c].heard = TRUE]
               \/ ch' = [ch EXCEPT ![c].thread = "connect"] /\ r.thread = "none"
    <3>1. /\ wire \in Seq(Half) /\ Len(wire) \in Nat /\ Len(wire) >= 2
          /\ ~client.gone /\ ~client.torn
      BY <1>5 DEF DataInv, Typed, ReadMessage
    <3>2. PICK m \in Half, n \in Half : m = wire[1] /\ n = wire[2]
      BY <3>1
    <3>3. \/ ch' = [ch EXCEPT ![m.of].thread = "connect"] /\ m.what = "port"
          \/ ch' = ch
          \/ ch' = [ch EXCEPT ![m.of].heard = TRUE]
      BY <1>5, <3>2 DEF ReadMessage
    <3>4. m.of = c
      BY <1>0, <1>1, <2>4, <3>3
    <3>5. m.what = "port" => r.thread = "none"
      <4>1. m.what = "port" => 1 \in 1..Len(wire) /\ PortIn(1, c)
        BY <3>1, <3>2, <3>4 DEF PortIn
      <4> QED BY <1>0, <3>1, <4>1 DEF DataInv, PortOnce
    <3> QED BY <1>0, <1>1, <2>4, <3>3, <3>4, <3>5
  <2> QED BY <2>1, <2>2, <2>3, <2>4
<1>6. CASE Vanish
  <2>1. ch'[c] = (IF r.thread = "none" THEN r
                  ELSE [r EXCEPT !.thread = "closed",
                                 !.sock = IF r.kind = "download" THEN 0 ELSE @])
    BY <1>0, <1>1, <1>6 DEF Vanish
  <2>2. CASE r.thread = "none"
    BY <1>0, <1>1, <2>1, <2>2
  <2>3. CASE r.thread # "none"
    <3>1. /\ ch'[c].child = r.child /\ ch'[c].helper = r.helper
          /\ ch'[c].thread = "closed" /\ ch'[c].kind = r.kind
          /\ ch'[c].pos = r.pos /\ ch'[c].local = r.local /\ ch'[c].pipe = r.pipe
          /\ ch'[c].sock = r.sock \/ (r.kind = "download" /\ ch'[c].sock = 0)
      <4>1. CASE r.kind = "download"
        <5>1. ch'[c] = [r EXCEPT !.thread = "closed", !.sock = 0]
          BY <2>1, <2>3, <4>1
        <5> QED BY <4>1, <5>1 DEF Chan
      <4>2. CASE r.kind # "download"
        <5>1. ch'[c] = [r EXCEPT !.thread = "closed", !.sock = r.sock]
          BY <2>1, <2>3, <4>2
        <5> QED BY <4>2, <5>1 DEF Chan
      <4> QED BY <4>1, <4>2
    <3> QED BY <1>0, <1>2, Tables, <3>1 DEF Left, BlocksLeft
  <2> QED BY <2>2, <2>3
<1> QED BY <1>4, <1>5, <1>6 DEF ReaderStep

(* The measure of a transfer is a number, and every step of one of its     *)
(* parties lowers it; no other step raises it.                             *)
LeftBounded == \A c \in Channel : Left(ch[c]) \in 0..(16 + 3 * MaxBlocks)
LeftFalls == \A c \in Channel : /\ Left(ch'[c]) <= Left(ch[c])
                                /\ StepOf(c) => Left(ch'[c]) < Left(ch[c])

(* Transfers end: each step of one of a transfer's parties brings it       *)
(* nearer to its end, and nothing that happens to others, or on the        *)
(* command connection, ever takes it back; so that it takes a number of    *)
(* steps the length of the file bounds.                                    *)
THEOREM TransfersRunOut == Spec => []LeftBounded /\ [][LeftFalls]_vars
<1>1. Init => LeftBounded
  <2>1. MaxBlocks \in Nat
    BY BoundsAssumption
  <2>2. Left(Idle) = 16 + 3 * MaxBlocks
    BY <2>1, Tables DEF Left, BlocksLeft, Idle
  <2> QED BY <2>1, <2>2 DEF Init, LeftBounded
<1>2. ASSUME DataInv, [Next]_vars
      PROVE  LeftFalls
  <2> SUFFICES ASSUME NEW c \in Channel
               PROVE  /\ Left(ch'[c]) <= Left(ch[c])
                      /\ StepOf(c) => Left(ch'[c]) < Left(ch[c])
    BY DEF LeftFalls
  <2>1. Left(ch[c]) \in Nat /\ Left(ch'[c]) \in Nat
    <3>1. DataInv'
      BY <1>2, DataNext
    <3>2. ch[c] \in Chan /\ ch'[c] \in Chan
      BY <1>2, <3>1 DEF DataInv, Typed
    <3> QED BY <3>2, Parts
  <2>2. ASSUME NEW d \in Channel, StepOf(d)
        PROVE  Less(d)
    BY <1>2, <2>2, ChildLess, HelperLess, ThreadLess, BeginningLess DEF StepOf
  <2>3. ASSUME NEW d \in Channel, StepOf(d)
        PROVE  Left(ch'[c]) <= Left(ch[c])
    BY <2>1, <2>2, <2>3 DEF Less, Others
  <2>4. StepOf(c) => Left(ch'[c]) < Left(ch[c])
    BY <2>2 DEF Less
  <2>5. CASE HandlerStep \/ PortInterrupted \/ ReplyHeader \/ ReplyInterrupted \/ ReaderStep \/ Vanish
             \/ UNCHANGED vars
    BY <1>2, <2>4, <2>5, OthersNoMore
  <2> QED BY <1>2, <2>3, <2>4, <2>5 DEF Next, StepOf
<1>3. ASSUME DataInv, LeftBounded, [Next]_vars
      PROVE  LeftBounded'
  <2>1. LeftFalls /\ DataInv'
    BY <1>2, <1>3, DataNext
  <2>2. ASSUME NEW c \in Channel
        PROVE  Left(ch'[c]) \in Nat
    <3>1. ch'[c] \in Chan
      BY <2>1 DEF DataInv, Typed
    <3> QED BY <3>1, Parts
  <2> QED BY <1>3, <2>1, <2>2, BoundsAssumption DEF LeftBounded, LeftFalls
<1>4. DataInv /\ [Next]_vars => [LeftFalls]_vars
  BY <1>2
<1> QED BY <1>1, <1>3, <1>4, DataInvariant, PTL DEF Spec
=============================================================================
