---------------------------- MODULE ReplyReceiver ----------------------------
(***************************************************************************)
(* Request/reply over one reply queue: ServiceBusProducer.request and the  *)
(* ServiceBusReplyReceiver it shares with every other request on that      *)
(* queue, with the reply queue itself (peek-lock deliveries) and the part  *)
(* of ServiceBusProducer.disconnect and of broker start/stop that drives   *)
(* them.  asyncio runs one task at a time, so an action is what a task     *)
(* does between two awaits.                                                *)
(***************************************************************************)
EXTENDS Naturals

CONSTANTS Requests,   \* calls of broker.request(..., reply_to=the queue)
          Ids,        \* correlation ids
          Id,         \* Id[r]: the correlation id the call r uses
          Copies,     \* the replies a responder may send to one request
          NoRequest, NoReply,
          AmbiguousCompletion, \* may complete_message fail once it was applied?
          MaxFaults,  \* bound: link errors and locks lost under the loop
          MaxStarts   \* bound: how often the broker is started

ASSUME IdAssumption == Id \in [Requests -> Ids]
ASSUME NullAssumption == NoRequest \notin Requests /\ NoReply \notin Requests \X Copies
ASSUME BoundAssumption ==
  AmbiguousCompletion \in BOOLEAN /\ MaxFaults \in Nat /\ MaxStarts \in Nat

Replies == Requests \X Copies

VARIABLES
  broker,     \* producer/connection: "up" is connected; "join", "close" are the
              \* awaits of stop(); "disconnect" closes the client; or "down"
  loop,       \* where the task _receive_replies is
  receiver,   \* _receiver: "none", or an "open" AMQP receiver
  links,      \* AMQP receivers that were opened and not closed
  batch,      \* replies still to dispatch in `for reply in replies`
  current,    \* the reply inside _dispatch
  waiters,    \* _waiters: correlation id -> the request whose future it holds
  future,     \* future[r]: state of the future of r
  answer,     \* answer[r]: the result of that future
  pc,         \* where the call r is
  published,  \* requests the service accepted
  mail,       \* mail[m]: the reply m in the reply queue; "gone" once it was completed
  faults, starts

loopVars == <<loop, receiver, links, batch, current>>
callVars == <<waiters, future, answer, pc>>
vars == <<broker, loopVars, callVars, published, mail, faults, starts>>

\* The calls between register and the finally that unregisters.
Active(r) == pc[r] \in {"publishing", "waiting", "unwinding"}

\* The request is owed an outcome: nothing settled its future yet.
Outstanding(r) == pc[r] \in {"publishing", "waiting"} /\ future[r] = "pending"

Init ==
  /\ broker = "down"
  /\ loop = "none" /\ receiver = "none" /\ links = 0
  /\ batch = {} /\ current = NoReply
  /\ waiters = [i \in Ids |-> NoRequest]
  /\ future = [r \in Requests |-> "none"]
  /\ answer = [r \in Requests |-> NoReply]
  /\ pc = [r \in Requests |-> "idle"]
  /\ published = {}
  /\ mail = [m \in Replies |-> "unsent"]
  /\ faults = 0 /\ starts = 0

-----------------------------------------------------------------------------
(* The caller: ServiceBusProducer.request *)

Connect ==
  /\ broker = "down" /\ starts < MaxStarts
  /\ broker' = "up"
  /\ starts' = starts + 1
  /\ UNCHANGED <<loopVars, callVars, published, mail, faults>>

\* start(): open the receiver and create the task unless one runs already.
\* The lock is free while the broker is up, so start() does not wait.
StartLoop ==
  IF loop # "none"
    THEN UNCHANGED loopVars
    ELSE /\ loop' = "created"
         /\ receiver' = "open"
         /\ links' = links + 1
         /\ UNCHANGED <<batch, current>>

RequestRefused(r) ==
  /\ pc[r] = "idle" /\ broker # "up"
  /\ pc' = [pc EXCEPT ![r] = "rejected"]
  /\ UNCHANGED <<broker, loopVars, waiters, future, answer, published, mail, faults, starts>>

\* register(): the id may be taken by a call that has not ended.
Register(r) ==
  IF waiters[Id[r]] # NoRequest
    THEN /\ pc' = [pc EXCEPT ![r] = "rejected"]
         /\ UNCHANGED <<waiters, future>>
    ELSE /\ waiters' = [waiters EXCEPT ![Id[r]] = r]
         /\ future' = [future EXCEPT ![r] = "pending"]
         /\ pc' = [pc EXCEPT ![r] = "publishing"]

\* The receiver is started before the id is found to be taken.
Request(r) ==
  /\ pc[r] = "idle" /\ broker = "up"
  /\ StartLoop
  /\ Register(r)
  /\ UNCHANGED <<broker, answer, published, mail, faults, starts>>

\* The service accepts the request; the publisher does not know it yet.
Send(r) ==
  /\ pc[r] = "publishing" /\ r \notin published
  /\ published' = published \cup {r}
  /\ UNCHANGED <<broker, loopVars, callVars, mail, faults, starts>>

PublishReturns(r) ==
  /\ pc[r] = "publishing" /\ r \in published
  /\ pc' = [pc EXCEPT ![r] = "waiting"]
  /\ UNCHANGED <<broker, loopVars, waiters, future, answer, published, mail, faults, starts>>

\* Mutant: the finally forgets the waiter.
MutKeepWaiter(r) == UNCHANGED waiters

\* unregister pops whatever waiter holds the id.
Unregister(r) == waiters' = [waiters EXCEPT ![Id[r]] = NoRequest]

\* publish raises, or the timeout or a cancellation hits the call inside it.
PublishFails(r) ==
  /\ pc[r] = "publishing"
  /\ Unregister(r)
  /\ pc' = [pc EXCEPT ![r] = "failed"]
  /\ UNCHANGED <<broker, loopVars, future, answer, published, mail, faults, starts>>

\* The timeout or a cancellation hits `await future`: the future is cancelled
\* at once (unless it is done), the finally runs when the task resumes.
Interrupt(r) ==
  /\ pc[r] = "waiting"
  /\ future' = [future EXCEPT ![r] = IF @ = "pending" THEN "cancelled" ELSE @]
  /\ pc' = [pc EXCEPT ![r] = "unwinding"]
  /\ UNCHANGED <<broker, loopVars, waiters, answer, published, mail, faults, starts>>

Unwind(r) ==
  /\ pc[r] = "unwinding"
  /\ Unregister(r)
  /\ pc' = [pc EXCEPT ![r] = "failed"]
  /\ UNCHANGED <<broker, loopVars, future, answer, published, mail, faults, starts>>

\* Mutant: the exception stop() has set is taken for a reply.
MutResume(r) ==
  /\ pc[r] = "waiting" /\ future[r] \in {"resolved", "stopped"}
  /\ Unregister(r)
  /\ pc' = [pc EXCEPT ![r] = "answered"]
  /\ UNCHANGED <<broker, loopVars, future, answer, published, mail, faults, starts>>

\* `await future` returns the reply or raises the error stop() has set.
Resume(r) ==
  /\ pc[r] = "waiting" /\ future[r] \in {"resolved", "stopped"}
  /\ Unregister(r)
  /\ pc' = [pc EXCEPT ![r] = IF future[r] = "resolved" THEN "answered" ELSE "failed"]
  /\ UNCHANGED <<broker, loopVars, future, answer, published, mail, faults, starts>>

-----------------------------------------------------------------------------
(* The reply queue and the responders (external) *)

Respond(m) ==
  /\ mail[m] = "unsent" /\ m[1] \in published
  /\ mail' = [mail EXCEPT ![m] = "queued"]
  /\ UNCHANGED <<broker, loopVars, callVars, published, faults, starts>>

\* The service settles the completion the loop has asked for.
Complete ==
  /\ loop = "dispatching" /\ mail[current] = "locked"
  /\ mail' = [mail EXCEPT ![current] = "gone"]
  /\ UNCHANGED <<broker, loopVars, callVars, published, faults, starts>>

Held == batch \cup {current}

\* A lock expires and the reply is queued again.
LockExpires(m) ==
  /\ mail[m] = "locked"
  /\ \/ m \in Held /\ faults < MaxFaults /\ faults' = faults + 1
     \/ m \notin Held /\ UNCHANGED faults
  /\ mail' = [mail EXCEPT ![m] = "queued"]
  /\ UNCHANGED <<broker, loopVars, callVars, published, starts>>

-----------------------------------------------------------------------------
(* The task _receive_replies *)

LoopStarts ==
  /\ loop = "created"
  /\ loop' = "receiving"
  /\ UNCHANGED <<broker, receiver, links, batch, current, callVars, published, mail, faults, starts>>

\* The next reply of the batch enters _dispatch, or the loop receives again.
NextReply(rest) ==
  \/ \E m \in rest : loop' = "dispatching" /\ current' = m /\ batch' = rest \ {m}
  \/ rest = {} /\ loop' = "receiving" /\ current' = NoReply /\ batch' = {}

Receive(S) ==
  /\ loop = "receiving" /\ S # {}
  /\ \A m \in S : mail[m] = "queued"
  /\ mail' = [m \in Replies |-> IF m \in S THEN "locked" ELSE mail[m]]
  /\ NextReply(S)
  /\ UNCHANGED <<broker, receiver, links, callVars, published, faults, starts>>

\* Mutant: replies go to some waiter, whatever their correlation id.
MutAnyWaiter(m) ==
  IF \E i \in Ids : waiters[i] # NoRequest
    THEN waiters[CHOOSE i \in Ids : waiters[i] # NoRequest]
    ELSE NoRequest

Waiter(m) == waiters[Id[m[1]]]

\* Mutant: no `not future.done()`.
MutDeliverAlways(m) ==
  /\ waiters' = [waiters EXCEPT ![Id[m[1]]] = NoRequest]
  /\ IF Waiter(m) # NoRequest
       THEN /\ future' = [future EXCEPT ![Waiter(m)] = "resolved"]
            /\ answer' = [answer EXCEPT ![Waiter(m)] = m]
       ELSE UNCHANGED <<future, answer>>

\* Mutant: a reply whose lock was lost is not delivered.
MutDeliverSettled(m) ==
  /\ waiters' = [waiters EXCEPT ![Id[m[1]]] = NoRequest]
  /\ IF Waiter(m) # NoRequest /\ future[Waiter(m)] = "pending" /\ mail[m] = "gone"
       THEN /\ future' = [future EXCEPT ![Waiter(m)] = "resolved"]
            /\ answer' = [answer EXCEPT ![Waiter(m)] = m]
       ELSE UNCHANGED <<future, answer>>

\* The waiter is popped and resolved, unless there is none or it is done.
Deliver(m) ==
  /\ waiters' = [waiters EXCEPT ![Id[m[1]]] = NoRequest]
  /\ IF Waiter(m) # NoRequest /\ future[Waiter(m)] = "pending"
       THEN /\ future' = [future EXCEPT ![Waiter(m)] = "resolved"]
            /\ answer' = [answer EXCEPT ![Waiter(m)] = m]
       ELSE UNCHANGED <<future, answer>>

\* complete_message has returned, or raised one of LOST_LOCK_ERRORS.
Dispatch ==
  /\ loop = "dispatching" /\ mail[current] # "locked"
  /\ Deliver(current)
  /\ NextReply(batch)
  /\ UNCHANGED <<broker, receiver, links, pc, published, mail, faults, starts>>

\* Mutant: the error ends the task.
MutLinkFails ==
  /\ loop \in {"receiving", "dispatching"} /\ faults < MaxFaults
  /\ loop' = "none" /\ batch' = {} /\ current' = NoReply
  /\ receiver' = "none" /\ links' = 0
  /\ faults' = faults + 1
  /\ UNCHANGED <<broker, callVars, published, mail, starts>>

\* The service completed the reply, complete_message failed all the same: no one
\* gets this reply any more.
Vanished(m) == loop = "dispatching" /\ m = current /\ mail[m] = "gone"

\* Any other error of receive_messages or complete_message: the rest of the
\* batch is dropped and the link closed.
LinkFails ==
  /\ loop \in {"receiving", "dispatching"} /\ faults < MaxFaults
  /\ (\E m \in Replies : Vanished(m)) => AmbiguousCompletion
  /\ mail' = [m \in Replies |-> IF Vanished(m) THEN "lost" ELSE mail[m]]
  /\ loop' = "closing" /\ batch' = {} /\ current' = NoReply
  /\ faults' = faults + 1
  /\ UNCHANGED <<broker, receiver, links, callVars, published, starts>>

\* Mutant: the receiver is closed whether it is there or not.
MutCloseReceiver ==
  /\ receiver' = "none"
  /\ links' = links - 1

\* _close_receiver; closing twice is harmless, hence no guard on receiver.
CloseReceiver ==
  /\ receiver' = "none"
  /\ links' = IF receiver = "open" THEN links - 1 ELSE links

CloseLink ==
  /\ loop = "closing"
  /\ CloseReceiver
  /\ loop' = "backoff"
  /\ UNCHANGED <<broker, batch, current, callVars, published, mail, faults, starts>>

BackoffEnds ==
  /\ loop = "backoff"
  /\ loop' = "receiving" /\ receiver' = "open" /\ links' = links + 1
  /\ UNCHANGED <<broker, batch, current, callVars, published, mail, faults, starts>>

\* The finally of the cancelled task.
LoopExits ==
  /\ loop = "exiting"
  /\ CloseReceiver
  /\ loop' = "none"
  /\ broker' = "close"
  /\ UNCHANGED <<batch, current, callVars, published, mail, faults, starts>>

-----------------------------------------------------------------------------
(* ServiceBusProducer.disconnect -> ServiceBusReplyReceiver.stop *)

\* A task cancelled before its first step ends without its finally.
StopBegins ==
  /\ broker = "up"
  /\ IF loop \in {"none", "created"}
       THEN loop' = "none" /\ broker' = "close"
       ELSE loop' = "exiting" /\ broker' = "join"
  /\ batch' = {} /\ current' = NoReply
  /\ UNCHANGED <<receiver, links, callVars, published, mail, faults, starts>>

\* Mutant: stop clears the table and tells no one.
MutFailWaiters ==
  /\ waiters' = [i \in Ids |-> NoRequest]
  /\ UNCHANGED future

FailWaiters ==
  /\ future' = [r \in Requests |->
                  IF future[r] = "pending" /\ \E i \in Ids : waiters[i] = r
                    THEN "stopped" ELSE future[r]]
  /\ waiters' = [i \in Ids |-> NoRequest]

\* Mutant: stop leaves the receiver to the finally of the task.
MutStopFinishes ==
  /\ broker = "close"
  /\ FailWaiters
  /\ broker' = "disconnect"
  /\ UNCHANGED <<loopVars, answer, pc, published, mail, faults, starts>>

StopFinishes ==
  /\ broker = "close"
  /\ CloseReceiver
  /\ FailWaiters
  /\ broker' = "disconnect"
  /\ UNCHANGED <<loop, batch, current, answer, pc, published, mail, faults, starts>>

Disconnect ==
  /\ broker = "disconnect"
  /\ broker' = "down"
  /\ UNCHANGED <<loopVars, callVars, published, mail, faults, starts>>

-----------------------------------------------------------------------------
Call(r) ==
  \/ RequestRefused(r) \/ Request(r) \/ Send(r)
  \/ PublishReturns(r) \/ PublishFails(r) \/ Interrupt(r) \/ Unwind(r) \/ Resume(r)

Loop ==
  \/ LoopStarts \/ (\E S \in SUBSET Replies : Receive(S)) \/ Dispatch \/ LinkFails
  \/ CloseLink \/ BackoffEnds \/ LoopExits

Stop == StopBegins \/ StopFinishes \/ Disconnect

Service == Complete \/ \E m \in Replies : Respond(m) \/ LockExpires(m)

Next == Connect \/ (\E r \in Requests : Call(r)) \/ Loop \/ Stop \/ Service

Spec == Init /\ [][Next]_vars

\* The event loop runs every ready task, the service answers and returns
\* expired locks.  Nothing forces a caller to time out, a publish to return,
\* a responder to answer or the broker to start or stop.
Fairness ==
  /\ WF_vars(LoopStarts) /\ WF_vars(\E S \in SUBSET Replies : Receive(S))
  /\ WF_vars(Complete) /\ WF_vars(Dispatch)
  /\ WF_vars(CloseLink) /\ WF_vars(BackoffEnds) /\ WF_vars(LoopExits)
  /\ WF_vars(StopFinishes) /\ WF_vars(Disconnect)
  /\ \A m \in Replies : WF_vars(m \notin Held /\ LockExpires(m))
  /\ \A r \in Requests : WF_vars(Resume(r)) /\ WF_vars(Unwind(r))

FairSpec == Spec /\ Fairness

-----------------------------------------------------------------------------
(* Properties *)

LoopStates == {"none", "created", "receiving", "dispatching", "closing", "backoff", "exiting"}

\* Every variable of the model of reply.py has its type.
TypeOK ==
  /\ broker \in {"down", "up", "join", "close", "disconnect"}
  /\ loop \in LoopStates
  /\ receiver \in {"none", "open"} /\ links \in Nat
  /\ batch \subseteq Replies /\ current \in Replies \cup {NoReply}
  /\ (loop = "dispatching" => current \in Replies)
  /\ waiters \in [Ids -> Requests \cup {NoRequest}]
  /\ future \in [Requests -> {"none", "pending", "resolved", "stopped", "cancelled"}]
  /\ answer \in [Requests -> Replies \cup {NoReply}]
  /\ pc \in [Requests -> {"idle", "publishing", "waiting", "unwinding",
                          "answered", "failed", "rejected"}]
  /\ published \subseteq Requests
  /\ mail \in [Replies -> {"unsent", "queued", "locked", "gone", "lost"}]
  /\ faults \in Nat /\ starts \in Nat

\* No two calls use one correlation id: what gen_cor_id gives the callers of
\* broker.request that pass none.
UniqueIds == \A r, q \in Requests : Id[r] = Id[q] => r = q

\* Whatever order timeouts, replies, publish errors and stop come in, the
\* table _waiters never keeps an entry of a call that has ended: no id stays
\* taken and no future is kept for ever.
NoWaiterLeaks ==
  \A i \in Ids : waiters[i] # NoRequest => Active(waiters[i]) /\ Id[waiters[i]] = i

\* A request that is owed an outcome is known to the receiver, so a reply and
\* stop() both find it, although four code paths remove entries of _waiters.
OutstandingIsRegistered == \A r \in Requests : Outstanding(r) => waiters[Id[r]] = r

\* While the broker is up, a request that is owed an outcome has a task that
\* receives its reply: start() never takes an ending task for a running one.
OutstandingIsServed ==
  broker = "up" /\ (\E r \in Requests : Outstanding(r)) => loop \notin {"none", "exiting"}

\* Restarts of the link, cancellation of the task before it ran and restarts
\* of the broker leave no AMQP receiver open that no one refers to, and stop()
\* leaves none at all.
NoLeakedLink ==
  /\ links = (IF receiver = "open" THEN 1 ELSE 0)
  /\ broker \in {"disconnect", "down"} => links = 0 /\ loop = "none"

\* "Stop receiving and fail every request that is still outstanding":
\* the client is closed only when no request is left without an outcome.
StopFailsOutstanding ==
  broker \in {"disconnect", "down"} => \A r \in Requests : ~Outstanding(r)

\* A request returns only a reply that a responder sent to that very request.
AnswerIsOwn ==
  \A r \in Requests : pc[r] = "answered" => answer[r] \in Replies /\ answer[r][1] = r

\* The dispatch of a reply, the stop of the receiver and the timeout of the
\* call race for a future: only the first one of them settles it.
FuturesSettleOnce ==
  [][\A r \in Requests : future[r] \in {"resolved", "stopped", "cancelled"} =>
       future'[r] = future[r] /\ answer'[r] = answer[r]]_vars

\* A queued reply ends the wait of its request, past link errors, lost locks
\* and a restart of the link, even for a caller with timeout=None: only an error
\* of a completion that the service did apply can lose it.
QueuedReplyEndsTheWait ==
  \A m \in Replies :
    pc[m[1]] = "waiting" /\ mail[m] = "queued" ~> pc[m[1]] # "waiting" \/ mail[m] = "lost"

\* stop() ends, and with it every call that waits for a reply.
StopEndsTheWait ==
  \A r \in Requests :
    broker = "join" /\ pc[r] = "waiting" ~> pc[r] # "waiting" /\ broker \in {"down", "up"}

-----------------------------------------------------------------------------
(* Refinement: what callers see of all this is RequestReply. *)

status ==
  [r \in Requests |->
     CASE pc[r] = "idle" -> "new"
       [] Active(r) -> "pending"
       [] pc[r] = "answered" -> "answered"
       [] OTHER -> "failed"]

Abstract == INSTANCE RequestReply WITH
  status <- status,
  answer <- [r \in Requests |-> IF pc[r] = "answered" THEN answer[r] ELSE NoReply],
  replied <- {m \in Replies : mail[m] # "unsent"}

\* The receiver, the waiter table and the reply queue together implement the
\* promise of RequestReply.
ImplementsRequestReply == Abstract!Spec
=============================================================================
