------------------------- MODULE TransferLifecycle -------------------------
(***************************************************************************)
(* What the registry promises about transfer requests, without slots,      *)
(* semaphore, handlers or signals: the stages one request goes through and *)
(* whose action moves it on.                                               *)
(*                                                                         *)
(*   none -> pending -> notified -> accepted                               *)
(*              \          \-----> rejected -> reported                    *)
(*               \-> rejected                                              *)
(*                                                                         *)
(* and each stage before the last can be dropped by the receiver leaving.  *)
(***************************************************************************)
EXTENDS Integers

CONSTANTS
  User,     \* account names
  MaxId     \* requests are numbered 1..MaxId

VARIABLE request   \* request r: its stage, and its parties while it is open

Request == 1..MaxId
Open    == {"pending", "notified", "rejected"}
Over    == {"accepted", "reported", "dropped"}

(* A request no longer, or not yet, held by the registry. *)
Nothing(s) == [stage |-> s]
Held(s, from, to) == [stage |-> s, sender |-> from, receiver |-> to]

LifecycleTypeOK ==
  request \in [Request -> {Nothing(s) : s \in Over \cup {"none"}}
                            \cup {Held(s, u, v) : s \in Open, u \in User, v \in User}]

At(r, s) == request[r].stage = s
IsOpen(r) == request[r].stage \in Open
MoveTo(r, s) == request' = [request EXCEPT ![r].stage = s]

Start == request = [r \in Request |-> Nothing("none")]

(* Numbers are handed out in order. *)
Create(r, from, to) ==
  /\ At(r, "none") /\ \A q \in Request : q < r => ~At(q, "none")
  /\ request' = [request EXCEPT ![r] = Held("pending", from, to)]

(* User u looks at its notifications: it hears of every request addressed  *)
(* to it and of every refusal of its own requests.                         *)
Hear(u) ==
  request' = [r \in Request |->
    IF At(r, "pending") /\ request[r].receiver = u
    THEN [request[r] EXCEPT !.stage = "notified"]
    ELSE IF At(r, "rejected") /\ request[r].sender = u THEN Nothing("reported")
    ELSE request[r]]

(* Only what was announced can be accepted. *)
Accept(u, r) ==
  /\ At(r, "notified") /\ request[r].receiver = u
  /\ request' = [request EXCEPT ![r] = Nothing("accepted")]

Reject(u, r) ==
  /\ IsOpen(r) /\ request[r].receiver = u
  /\ MoveTo(r, "rejected")

(* The receiver's session ends. *)
Drop(u) ==
  request' = [r \in Request |->
    IF IsOpen(r) /\ request[r].receiver = u THEN Nothing("dropped") ELSE request[r]]

Step == \E u \in User :
  \/ Hear(u) \/ Drop(u)
  \/ \E r \in Request : Accept(u, r) \/ Reject(u, r) \/ \E v \in User : Create(r, u, v)

Lifecycle == Start /\ [][Step]_request
=============================================================================
