------------------------- MODULE DirectoryService --------------------------
(***************************************************************************)
(* What the server promises the connections of one user about their        *)
(* directories, without handlers, processes of the helper or signals: a    *)
(* connection makes one call after the other, each in the directory the    *)
(* connection was last told it is in.  A call takes effect at most once,   *)
(* in one step, before its client is answered.                             *)
(*                                                                         *)
(*   none -> asked -> inside -> done -> none                               *)
(*               \        \       \                                        *)
(*                ----------------- -> failed -> none                      *)
(*                                                                         *)
(* A client may give up on a call.  It is nobody's then, and may still     *)
(* take effect, once.                                                      *)
(***************************************************************************)
EXTENDS Naturals

CONSTANTS Session, Call, Home, Dir, Parent, NoOne

VARIABLES dirs,  \* the directories that exist
          cwd,   \* the directory of each connection
          call   \* the calls under way

Place == Dir \cup {Home}
There == dirs \cup {Home}
Command == [op : {"login", "cd", "ls", "mkdir", "delete", "file"}, dir : Place]

None == [stage |-> "none", of |-> NoOne]
Asked(s, d)    == [stage : {"asked"}, of : {s}, cmd : Command, in : {d}]
Inside(s, c)   == [stage |-> "inside", of |-> s, cmd |-> c]
Done(s, d)     == [stage |-> "done", of |-> s, to |-> d]
Failed(s)      == [stage |-> "failed", of |-> s]

Start == dirs = {} /\ cwd = [s \in Session |-> Home] /\ call = [k \in Call |-> None]

At(k, S) == call[k].stage \in S
Becomes(k, new) == call' = [call EXCEPT ![k] = new]
(* Nobody is there to see how a call ends that was given up. *)
Ends(k, new) == Becomes(k, IF call[k].of = NoOne THEN None ELSE new)

Ask(s, k) ==
  /\ At(k, {"none"}) /\ \A j \in Call : call[j].of # s
  /\ call'[k] \in Asked(s, cwd[s]) /\ Becomes(k, call'[k])
  /\ UNCHANGED <<dirs, cwd>>

Enter(k) ==
  /\ At(k, {"asked"}) /\ call[k].cmd.op # "login" /\ call[k].in \in There
  /\ Becomes(k, Inside(call[k].of, call[k].cmd))
  /\ UNCHANGED <<dirs, cwd>>

LogIn(k) ==
  /\ At(k, {"asked"}) /\ call[k].cmd.op = "login"
  /\ Ends(k, Done(call[k].of, cwd[call[k].of]))
  /\ UNCHANGED <<dirs, cwd>>

Effect(c) ==
  \/ c.op \in {"cd", "ls", "file"} /\ c.dir \in There /\ dirs' = dirs
  \/ c.op = "mkdir" /\ c.dir \in Dir \ dirs /\ Parent[c.dir] \in There
       /\ dirs' = dirs \cup {c.dir}
  \/ c.op = "delete" /\ c.dir \in dirs /\ (\A d \in dirs : Parent[d] # c.dir)
       /\ dirs' = dirs \ {c.dir}

TakeEffect(k) ==
  LET c == call[k].cmd IN
  /\ At(k, {"inside"}) /\ Effect(c)
  /\ Ends(k, Done(call[k].of, IF c.op = "cd" THEN c.dir ELSE cwd[call[k].of]))
  /\ UNCHANGED cwd

(* Before it took effect, or behind it. *)
Fail(k) ==
  /\ At(k, {"asked", "inside", "done"}) /\ Ends(k, Failed(call[k].of))
  /\ UNCHANGED <<dirs, cwd>>

Return(k) ==
  /\ At(k, {"done", "failed"})
  /\ cwd' = IF At(k, {"done"}) THEN [cwd EXCEPT ![call[k].of] = call[k].to] ELSE cwd
  /\ Becomes(k, None)
  /\ UNCHANGED dirs

GiveUp(k) ==
  /\ call[k].of # NoOne
  /\ Becomes(k, IF At(k, {"asked", "inside"}) THEN [call[k] EXCEPT !.of = NoOne] ELSE None)
  /\ UNCHANGED <<dirs, cwd>>

(* The connection ends, between two calls or before an answer is sent.     *)
Leave(s) ==
  /\ cwd' = [cwd EXCEPT ![s] = Home]
  /\ \A k \in Call : call[k].of = s => At(k, {"done", "failed"})
  /\ call' = [k \in Call |-> IF call[k].of = s THEN None ELSE call[k]]
  /\ UNCHANGED dirs

(* A step is one of one call, or of one connection. *)
Step ==
  \/ \E k \in Call :
       /\ call'[k] # call[k]
       /\ \/ Enter(k) \/ LogIn(k) \/ TakeEffect(k) \/ Fail(k) \/ Return(k) \/ GiveUp(k)
          \/ \E s \in Session : Ask(s, k)
  \/ \E s \in Session : Leave(s)

Service == Start /\ [][Step]_<<dirs, cwd, call>>
=============================================================================
