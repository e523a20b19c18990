---------------------------- MODULE RequestReply ----------------------------
(***************************************************************************)
(* What ServiceBusBroker.request promises its callers, with no receiver,   *)
(* no waiter table and no mailbox: a request that was accepted is pending  *)
(* until it ends exactly once, either with one of the replies that were    *)
(* sent to this very request, or with an error.                            *)
(***************************************************************************)
CONSTANTS Requests,  \* calls of broker.request
          Copies,    \* the replies a responder may send to one request
          NoReply    \* "no reply": not a reply

Replies == Requests \X Copies

VARIABLES status,    \* status[r]: where the call r is
          answer,    \* answer[r]: the reply that r returned
          replied    \* the replies that were sent

vars == <<status, answer, replied>>

TypeOK ==
  /\ status \in [Requests -> {"new", "pending", "answered", "failed"}]
  /\ answer \in [Requests -> Replies \cup {NoReply}]
  /\ replied \subseteq Replies

Init ==
  /\ status = [r \in Requests |-> "new"]
  /\ answer = [r \in Requests |-> NoReply]
  /\ replied = {}

\* The call is accepted, or refused at once (no connection, id in use).
Issue(r) ==
  /\ status[r] = "new"
  /\ \E s \in {"pending", "failed"} : status' = [status EXCEPT ![r] = s]
  /\ UNCHANGED <<answer, replied>>

\* A responder answers the request r, which may have ended meanwhile.
Respond(m) ==
  /\ m \notin replied
  /\ status[m[1]] # "new"
  /\ replied' = replied \cup {m}
  /\ UNCHANGED <<status, answer>>

Answer(r) ==
  /\ status[r] = "pending"
  /\ \E m \in replied : m[1] = r /\ answer' = [answer EXCEPT ![r] = m]
  /\ status' = [status EXCEPT ![r] = "answered"]
  /\ UNCHANGED replied

Fail(r) ==
  /\ status[r] = "pending"
  /\ status' = [status EXCEPT ![r] = "failed"]
  /\ UNCHANGED <<answer, replied>>

Next ==
  \/ \E r \in Requests : Issue(r) \/ Answer(r) \/ Fail(r)
  \/ \E m \in Replies : Respond(m)

Spec == Init /\ [][Next]_vars
=============================================================================
