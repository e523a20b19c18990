------------------------- MODULE ReplyReceiverProofs -------------------------
(***************************************************************************)
(* Theorems about ReplyReceiver for all requests, ids, replies and bounds. *)
(***************************************************************************)
EXTENDS ReplyReceiver, TLAPS

\* What ties the task, the state of stop() and the AMQP receiver together.
LinkInv ==
  /\ links = (IF receiver = "open" THEN 1 ELSE 0)
  /\ loop \in {"none", "backoff"} => receiver = "none" \/ broker = "close"
  /\ broker \in {"close", "disconnect", "down"} => loop = "none"
  /\ (broker = "join") <=> (loop = "exiting")

Base == TypeOK /\ LinkInv

\* The types and the link hold in every reachable state: TypeOK needs LinkInv,
\* since CloseReceiver subtracts from a natural number.
LEMMA BaseStep == Base /\ [Next]_vars => Base'
<1> SUFFICES ASSUME Base, [Next]_vars PROVE Base'
  OBVIOUS
<1> USE NullAssumption, IdAssumption DEF Base, TypeOK, LinkInv, LoopStates, Replies
<1>1. CASE Connect
  BY <1>1 DEF Connect, loopVars, callVars
<1>2. ASSUME NEW r \in Requests, Call(r) PROVE Base'
  <2>1. CASE RequestRefused(r)
    BY <2>1 DEF RequestRefused, loopVars
  <2>2. CASE Request(r)
    BY <2>2 DEF Request, Register, StartLoop, loopVars
  <2>4. CASE Send(r)
    BY <2>4 DEF Send, loopVars, callVars
  <2>5. CASE PublishReturns(r)
    BY <2>5 DEF PublishReturns, loopVars
  <2>6. CASE PublishFails(r)
    BY <2>6 DEF PublishFails, Unregister, loopVars
  <2>7. CASE Interrupt(r)
    BY <2>7 DEF Interrupt, loopVars
  <2>8. CASE Unwind(r)
    BY <2>8 DEF Unwind, Unregister, loopVars
  <2>9. CASE Resume(r)
    BY <2>9 DEF Resume, Unregister, loopVars
  <2> QED
    BY <1>2, <2>1, <2>2, <2>4, <2>5, <2>6, <2>7, <2>8, <2>9 DEF Call
<1>3. CASE Loop
  <2>1. CASE LoopStarts
    BY <2>1 DEF LoopStarts, callVars
  <2>2. ASSUME NEW S \in SUBSET Replies, Receive(S) PROVE Base'
    BY <2>2 DEF Receive, NextReply, callVars
  <2>3. CASE Dispatch
    <3>1. Id[current[1]] \in Ids
      BY <2>3 DEF Dispatch
    <3>2. answer' \in [Requests -> Replies \cup {NoReply}]
          /\ future' \in [Requests -> {"none", "pending", "resolved", "stopped", "cancelled"}]
      BY <2>3, <3>1 DEF Dispatch, Deliver, Waiter
    <3> QED
      BY <2>3, <3>1, <3>2 DEF Dispatch, Deliver, NextReply
  <2>4. CASE LinkFails
    BY <2>4 DEF LinkFails, Vanished, callVars
  <2>5. CASE CloseLink
    BY <2>5 DEF CloseLink, CloseReceiver, callVars
  <2>6. CASE BackoffEnds
    BY <2>6 DEF BackoffEnds, callVars
  <2>7. CASE LoopExits
    BY <2>7 DEF LoopExits, CloseReceiver, callVars
  <2> QED
    BY <1>3, <2>1, <2>2, <2>3, <2>4, <2>5, <2>6, <2>7 DEF Loop
<1>4. CASE Stop
  <2>1. CASE StopBegins
    BY <2>1 DEF StopBegins, callVars
  <2>2. CASE StopFinishes
    BY <2>2 DEF StopFinishes, CloseReceiver, FailWaiters
  <2>3. CASE Disconnect
    BY <2>3 DEF Disconnect, loopVars, callVars
  <2> QED
    BY <1>4, <2>1, <2>2, <2>3 DEF Stop
<1>5. CASE Service
  <2>1. CASE Complete
    BY <2>1 DEF Complete, loopVars, callVars
  <2>2. ASSUME NEW m \in Replies, Respond(m) PROVE Base'
    BY <2>2 DEF Respond, loopVars, callVars
  <2>3. ASSUME NEW m \in Replies, LockExpires(m) PROVE Base'
    BY <2>3 DEF LockExpires, loopVars, callVars
  <2> QED
    BY <1>5, <2>1, <2>2, <2>3 DEF Service
<1>6. CASE UNCHANGED vars
  BY <1>6 DEF vars, loopVars, callVars
<1> QED
  BY <1>1, <1>2, <1>3, <1>4, <1>5, <1>6 DEF Next

LEMMA BaseInvariant == Spec => []Base
<1>1. Init => Base
  BY NullAssumption, IdAssumption
     DEF Init, Base, TypeOK, LinkInv, LoopStates
<1> QED
  BY <1>1, BaseStep, PTL DEF Spec

\* Every variable keeps its type, for any number of requests and replies.
THEOREM TypeCorrect == Spec => []TypeOK
<1>1. Base => TypeOK
  BY DEF Base
<1> QED
  BY <1>1, BaseInvariant, PTL

\* Restarts, link errors and a task that is cancelled before it runs leave no
\* AMQP receiver open behind the receiver object.
THEOREM LinkSafety == Spec => []NoLeakedLink
<1>1. Base => NoLeakedLink
  BY DEF Base, TypeOK, LinkInv, NoLeakedLink
<1> QED
  BY <1>1, BaseInvariant, PTL

-----------------------------------------------------------------------------
(* The waiter table, for ids that may repeat *)

\* The steps that touch the futures, the waiters or the calls.
CallStep ==
  \/ \E r \in Requests :
       \/ RequestRefused(r) \/ Request(r) \/ PublishReturns(r)
       \/ PublishFails(r) \/ Interrupt(r) \/ Unwind(r) \/ Resume(r)
  \/ Dispatch
  \/ StopFinishes

LEMMA CallSteps == [Next]_vars => UNCHANGED callVars \/ CallStep
<1>1. Next => UNCHANGED callVars \/ CallStep
  BY DEF Next, Call, Loop, Stop, Service, CallStep, Connect, Send, LoopStarts, Receive,
         LinkFails, CloseLink, BackoffEnds, LoopExits, StopBegins, Disconnect,
         Complete, Respond, LockExpires
<1>2. UNCHANGED vars => UNCHANGED callVars
  BY DEF vars
<1> QED
  BY <1>1, <1>2

\* An entry of _waiters belongs to a call that has not ended: its future is
\* pending, or cancelled with the finally of the call still to run.
WaiterInv ==
  /\ \A i \in Ids : waiters[i] # NoRequest =>
       /\ Id[waiters[i]] = i
       /\ \/ pc[waiters[i]] \in {"publishing", "waiting"} /\ future[waiters[i]] = "pending"
          \/ pc[waiters[i]] = "unwinding" /\ future[waiters[i]] = "cancelled"
  /\ \A r \in Requests : pc[r] = "idle" => future[r] = "none"

LEMMA WaiterStep == Base /\ WaiterInv /\ [Next]_vars => WaiterInv'
<1> SUFFICES ASSUME Base, WaiterInv, [Next]_vars PROVE WaiterInv'
  OBVIOUS
<1> USE NullAssumption, IdAssumption DEF Base, TypeOK, WaiterInv, Replies
<1>1. CASE UNCHANGED callVars
  BY <1>1 DEF callVars
<1>2. ASSUME NEW r \in Requests,
             RequestRefused(r) \/ Request(r) \/ PublishReturns(r)
      PROVE  WaiterInv'
  BY <1>2 DEF RequestRefused, Request, Register, PublishReturns
<1>3. ASSUME NEW r \in Requests, PublishFails(r) \/ Unwind(r) \/ Resume(r)
      PROVE  WaiterInv'
  <2>1. /\ \A q \in Requests \ {r} : pc'[q] = pc[q]
        /\ pc'[r] \in {"answered", "failed"}
        /\ waiters' = [waiters EXCEPT ![Id[r]] = NoRequest]
        /\ UNCHANGED future
    BY <1>3 DEF PublishFails, Unwind, Resume, Unregister
  <2>2. ASSUME NEW i \in Ids, waiters'[i] # NoRequest
        PROVE  i # Id[r] /\ waiters'[i] = waiters[i] /\ waiters[i] \in Requests \ {r}
    BY <2>1, <2>2
  <2> QED
    BY <2>1, <2>2
<1>4. ASSUME NEW r \in Requests, Interrupt(r) PROVE WaiterInv'
  BY <1>4 DEF Interrupt
<1>5. CASE Dispatch
  <2>1. Id[current[1]] \in Ids
    BY <1>5 DEF Dispatch
  <2> QED
    BY <1>5, <2>1 DEF Dispatch, Deliver, Waiter
<1>6. CASE StopFinishes
  BY <1>6 DEF StopFinishes, FailWaiters
<1> QED
  BY <1>1, <1>2, <1>3, <1>4, <1>5, <1>6, CallSteps DEF CallStep

LEMMA WaiterInvariant == Spec => [](Base /\ WaiterInv)
<1>1. Init => WaiterInv
  BY DEF Init, WaiterInv
<1> QED
  BY <1>1, WaiterStep, BaseInvariant, PTL DEF Spec

\* No entry of _waiters outlives its call, whatever ids the callers choose.
THEOREM WaiterSafety == Spec => []NoWaiterLeaks
<1>1. Base /\ WaiterInv => NoWaiterLeaks
  BY NullAssumption DEF Base, TypeOK, WaiterInv, NoWaiterLeaks, Active
<1> QED
  BY <1>1, WaiterInvariant, PTL

\* A dispatched reply, stop() and a timeout settle a future once.
THEOREM SettleOnce == Spec => FuturesSettleOnce
<1> DEFINE Once == \A r \in Requests : future[r] \in {"resolved", "stopped", "cancelled"} =>
                     future'[r] = future[r] /\ answer'[r] = answer[r]
<1>1. Base /\ WaiterInv /\ [Next]_vars => Once
  <2> SUFFICES ASSUME Base, WaiterInv, [Next]_vars PROVE Once
    OBVIOUS
  <2> USE NullAssumption, IdAssumption DEF Base, TypeOK, WaiterInv, Replies
  <2>1. CASE UNCHANGED callVars
    BY <2>1 DEF callVars
  <2>2. ASSUME NEW r \in Requests,
               RequestRefused(r) \/ PublishReturns(r)
               \/ PublishFails(r) \/ Unwind(r) \/ Resume(r)
        PROVE  Once
    BY <2>2 DEF RequestRefused, PublishReturns, PublishFails, Unwind, Resume
  <2>3. ASSUME NEW r \in Requests, Request(r) \/ Interrupt(r) PROVE Once
    BY <2>3 DEF Request, Register, Interrupt
  <2>4. CASE Dispatch
    <3>1. Id[current[1]] \in Ids
      BY <2>4 DEF Dispatch
    <3> QED
      BY <2>4, <3>1 DEF Dispatch, Deliver, Waiter
  <2>5. CASE StopFinishes
    BY <2>5 DEF StopFinishes, FailWaiters
  <2> QED
    BY <2>1, <2>2, <2>3, <2>4, <2>5, CallSteps DEF CallStep
<1>2. Base /\ WaiterInv /\ [Next]_vars => [Once]_vars
  BY <1>1
<1> QED
  BY <1>2, WaiterInvariant, PTL DEF Spec, FuturesSettleOnce

-----------------------------------------------------------------------------
(* Outcomes, when no two calls use one id *)

\* Only stop() leads away from a broker that is up, and while it is up nothing
\* ends the task.
LEMMA LifeSteps ==
  ASSUME Base, [Next]_vars
  PROVE  /\ broker' \in {"disconnect", "down"} =>
              StopFinishes \/ broker \in {"disconnect", "down"}
         /\ broker' = "up" =>
              \/ broker = "down"
              \/ broker = "up" /\ (loop' \in {"none", "exiting"} => loop \in {"none", "exiting"})
<1> USE DEF Base, TypeOK, LinkInv, LoopStates
<1>1. CASE Connect
  BY <1>1 DEF Connect
<1>2. ASSUME NEW r \in Requests, Call(r)
      PROVE  broker' = broker /\ (loop' = loop \/ loop' = "created")
  BY <1>2 DEF Call, RequestRefused, Request, Register, Send, PublishReturns,
              PublishFails, Interrupt, Unwind, Resume, StartLoop, loopVars
<1>3. CASE Loop
  BY <1>3 DEF Loop, LoopStarts, Receive, NextReply, Dispatch, LinkFails, CloseLink,
              BackoffEnds, LoopExits
<1>4. CASE Stop
  BY <1>4 DEF Stop, StopBegins, StopFinishes, Disconnect
<1>5. CASE Service
  BY <1>5 DEF Service, Complete, Respond, LockExpires, loopVars
<1>6. CASE UNCHANGED vars
  BY <1>6 DEF vars, loopVars
<1> QED
  BY <1>1, <1>2, <1>3, <1>4, <1>5, <1>6 DEF Next

OutcomeInv == OutstandingIsRegistered /\ OutstandingIsServed /\ StopFailsOutstanding

\* The ways an entry is removed from _waiters all concern the call that is
\* registered under its own id, so they remove no entry of another call.
LEMMA OutcomeStep ==
  ASSUME UniqueIds, Base, WaiterInv, OutcomeInv, [Next]_vars
  PROVE  OutcomeInv'
<1> USE NullAssumption, IdAssumption
    DEF Base, TypeOK, WaiterInv, OutcomeInv, OutstandingIsRegistered, OutstandingIsServed,
        StopFailsOutstanding, Outstanding
<1>1. OutstandingIsRegistered'
  <2>1. CASE UNCHANGED callVars
    BY <2>1 DEF callVars
  <2>2. ASSUME NEW r \in Requests,
               RequestRefused(r) \/ Request(r) \/ PublishReturns(r)
               \/ Interrupt(r)
        PROVE  OutstandingIsRegistered'
    BY <2>2 DEF RequestRefused, Request, Register, PublishReturns, Interrupt, UniqueIds
  <2>3. ASSUME NEW r \in Requests, PublishFails(r) \/ Unwind(r) \/ Resume(r)
        PROVE  OutstandingIsRegistered'
    BY <2>3 DEF PublishFails, Unwind, Resume, Unregister, UniqueIds
  <2>4. CASE Dispatch
    <3>1. Id[current[1]] \in Ids
      BY <2>4 DEF Dispatch, Replies
    <3> QED
      BY <2>4, <3>1 DEF Dispatch, Deliver, Waiter
  <2>5. CASE StopFinishes
    BY <2>5 DEF StopFinishes, FailWaiters
  <2> QED
    BY <2>1, <2>2, <2>3, <2>4, <2>5, CallSteps DEF CallStep
\* No step but Request makes a call outstanding.
<1>2. ASSUME NEW q \in Requests, Outstanding(q)', ~Request(q) PROVE Outstanding(q)
  <2>1. CASE UNCHANGED callVars
    BY <1>2, <2>1 DEF callVars
  <2>2. ASSUME NEW r \in Requests,
               RequestRefused(r) \/ Request(r) \/ PublishReturns(r)
               \/ PublishFails(r) \/ Interrupt(r) \/ Unwind(r) \/ Resume(r)
        PROVE  Outstanding(q)
    BY <1>2, <2>2 DEF RequestRefused, Request, Register, PublishReturns,
                      PublishFails, Interrupt, Unwind, Resume
  <2>3. CASE Dispatch
    BY <1>2, <2>3 DEF Dispatch, Deliver
  <2>4. CASE StopFinishes
    BY <1>2, <2>4 DEF StopFinishes, FailWaiters
  <2> QED
    BY <2>1, <2>2, <2>3, <2>4, CallSteps DEF CallStep
<1>3. OutstandingIsServed' /\ StopFailsOutstanding'
  <2>1. ASSUME NEW r \in Requests, Request(r) PROVE OutstandingIsServed' /\ StopFailsOutstanding'
    BY <2>1 DEF Request, Register, StartLoop, LinkInv, loopVars
  <2>2. CASE StopFinishes
    BY <2>2 DEF StopFinishes, FailWaiters
  <2>3. ASSUME ~StopFinishes, \A r \in Requests : ~Request(r)
        PROVE  OutstandingIsServed' /\ StopFailsOutstanding'
    <3>1. \A q \in Requests : Outstanding(q)' => Outstanding(q)
      BY <1>2, <2>3
    <3> QED
      BY <2>3, <3>1, LifeSteps
  <2> QED
    BY <2>1, <2>2, <2>3
<1> QED
  BY <1>1, <1>3

LEMMA OutcomeInvariant == ASSUME UniqueIds PROVE Spec => [](Base /\ WaiterInv /\ OutcomeInv)
<1>1. Init => OutcomeInv
  BY DEF Init, OutcomeInv, OutstandingIsRegistered, OutstandingIsServed,
         StopFailsOutstanding, Outstanding
<1>2. Base /\ WaiterInv /\ OutcomeInv /\ [Next]_vars => OutcomeInv'
  BY OutcomeStep
<1> QED
  BY <1>1, <1>2, WaiterInvariant, PTL DEF Spec

\* A request that is owed an outcome stays in _waiters, and is failed by stop().
THEOREM OutcomeSafety ==
  ASSUME UniqueIds PROVE Spec => [](OutstandingIsRegistered /\ StopFailsOutstanding)
<1>1. OutcomeInv => OutstandingIsRegistered /\ StopFailsOutstanding
  BY DEF OutcomeInv
<1> QED
  BY <1>1, OutcomeInvariant, PTL

\* While the broker is up there is a task that receives its reply, whatever failures of
\* the link, stops and restarts came before.
THEOREM ServedSafety == ASSUME UniqueIds PROVE Spec => []OutstandingIsServed
<1>1. OutcomeInv => OutstandingIsServed
  BY DEF OutcomeInv
<1> QED
  BY <1>1, OutcomeInvariant, PTL

-----------------------------------------------------------------------------
(* Answers, and the promise of RequestReply *)

\* Every reply the loop holds was sent, to a request that was published; a
\* resolved future holds such a reply, to its own request.
AnswerInv ==
  /\ \A r \in published : pc[r] # "idle"
  /\ \A m \in Replies : mail[m] # "unsent" => m[1] \in published
  /\ \A m \in batch \cup {current} : m \in Replies => mail[m] # "unsent"
  /\ \A r \in Requests : pc[r] = "answered" => future[r] = "resolved"
  /\ \A r \in Requests : future[r] = "resolved" =>
       answer[r] \in Replies /\ answer[r][1] = r /\ mail[answer[r]] # "unsent"

\* The steps that touch the mailbox or the replies the loop holds.
LEMMA MailSteps ==
  ASSUME Base, AnswerInv, [Next]_vars
  PROVE  /\ \A m \in Replies : mail[m] # "unsent" => mail'[m] # "unsent"
         /\ \A m \in Replies : mail'[m] # "unsent" => m[1] \in published
         /\ \A m \in batch' \cup {current'} : m \in Replies => mail'[m] # "unsent"
         /\ \A r \in published' : r \in published \/ (pc[r] = "publishing" /\ pc' = pc)
         /\ published \subseteq published'
<1> USE NullAssumption DEF Base, TypeOK, AnswerInv
<1>1. CASE Connect \/ Stop
  BY <1>1 DEF Connect, Stop, StopBegins, StopFinishes, Disconnect, loopVars, Replies
<1>2. ASSUME NEW r \in Requests, Call(r)
      PROVE  /\ mail' = mail /\ batch' = batch /\ current' = current
             /\ \/ published' = published
                \/ published' = published \cup {r} /\ pc[r] = "publishing" /\ pc' = pc
  BY <1>2 DEF Call, RequestRefused, Request, Register, Send, PublishReturns,
              PublishFails, Interrupt, Unwind, Resume, StartLoop, loopVars, callVars
<1>3. CASE Loop
  <2>1. ASSUME NEW S \in SUBSET Replies, Receive(S)
        PROVE  /\ \A m \in Replies : mail[m] # "unsent" <=> mail'[m] # "unsent"
               /\ batch' \cup {current'} \subseteq S \cup {NoReply}
               /\ \A m \in S : mail'[m] # "unsent"
               /\ published' = published
    BY <2>1 DEF Receive, NextReply
  <2>2. CASE Dispatch
    BY <2>2 DEF Dispatch, NextReply, Replies
  <2>3. CASE LoopStarts \/ CloseLink \/ BackoffEnds \/ LoopExits
    BY <2>3 DEF LoopStarts, CloseLink, BackoffEnds, LoopExits, Replies
  <2>4. CASE LinkFails
    <3>1. \A m \in Replies : mail[m] # "unsent" <=> mail'[m] # "unsent"
      BY <2>4 DEF LinkFails, Vanished
    <3>2. batch' = {} /\ current' = NoReply /\ published' = published
      BY <2>4 DEF LinkFails
    <3> QED
      BY <3>1, <3>2 DEF Replies
  <2> QED
    BY <1>3, <2>1, <2>2, <2>3, <2>4 DEF Loop, Replies
<1>4. CASE Service
  <2>1. CASE Complete
    BY <2>1 DEF Complete, loopVars, callVars
  <2>2. ASSUME NEW m \in Replies, Respond(m) PROVE mail' = [mail EXCEPT ![m] = "queued"]
               /\ m[1] \in published /\ published' = published
               /\ batch' = batch /\ current' = current
    BY <2>2 DEF Respond, loopVars
  <2>3. ASSUME NEW m \in Replies, LockExpires(m) PROVE mail' = [mail EXCEPT ![m] = "queued"]
               /\ mail[m] # "unsent" /\ published' = published
               /\ batch' = batch /\ current' = current
    BY <2>3 DEF LockExpires, loopVars
  <2> QED
    BY <1>4, <2>1, <2>2, <2>3 DEF Service
<1>5. CASE UNCHANGED vars
  BY <1>5 DEF vars, loopVars, callVars
<1> QED
  BY <1>1, <1>2, <1>3, <1>4, <1>5 DEF Next

\* With ids of their own, the waiter found for a reply is the request that the
\* reply was sent to.
LEMMA AnswerStep ==
  ASSUME UniqueIds, Base, WaiterInv, AnswerInv, [Next]_vars
  PROVE  AnswerInv'
<1> USE NullAssumption, IdAssumption DEF Base, TypeOK, WaiterInv, AnswerInv
<1>1. /\ \A r \in Requests : pc[r] # "idle" => pc'[r] # "idle"
      /\ \A r \in Requests : pc'[r] = "answered" => future'[r] = "resolved"
      /\ \A r \in Requests : future'[r] = "resolved" =>
           \/ future[r] = "resolved" /\ answer'[r] = answer[r]
           \/ answer'[r] = current /\ current \in Replies /\ current[1] = r
  <2>1. CASE UNCHANGED callVars
    BY <2>1 DEF callVars
  <2>2. ASSUME NEW r \in Requests,
               RequestRefused(r) \/ Request(r) \/ PublishReturns(r)
        PROVE  <1>1!:
    BY <2>2 DEF RequestRefused, Request, Register, PublishReturns
  <2>3. ASSUME NEW r \in Requests, PublishFails(r) \/ Unwind(r) \/ Resume(r) PROVE <1>1!:
    BY <2>3 DEF PublishFails, Unwind, Resume
  <2>4. ASSUME NEW r \in Requests, Interrupt(r) PROVE <1>1!:
    BY <2>4 DEF Interrupt
  <2>5. CASE Dispatch
    <3>1. current \in Replies /\ current[1] \in Requests /\ Id[current[1]] \in Ids
      BY <2>5 DEF Dispatch, Replies
    <3>2. Waiter(current) # NoRequest => Waiter(current) = current[1]
      BY <3>1 DEF Waiter, UniqueIds
    <3> QED
      BY <2>5, <3>1, <3>2 DEF Dispatch, Deliver
  <2>6. CASE StopFinishes
    BY <2>6 DEF StopFinishes, FailWaiters
  <2> QED
    BY <2>1, <2>2, <2>3, <2>4, <2>5, <2>6, CallSteps DEF CallStep
<1> QED
  BY <1>1, MailSteps

LEMMA AnswerInvariant ==
  ASSUME UniqueIds
  PROVE  Spec => [](Base /\ WaiterInv /\ AnswerInv)
<1>1. Init => AnswerInv
  BY NullAssumption DEF Init, AnswerInv, Replies
<1>2. Base /\ WaiterInv /\ AnswerInv /\ [Next]_vars => AnswerInv'
  BY AnswerStep
<1> QED
  BY <1>1, <1>2, WaiterInvariant, PTL DEF Spec

\* A request returns a reply that was sent to it, never the reply of another.
THEOREM AnswerSafety == ASSUME UniqueIds PROVE Spec => []AnswerIsOwn
<1>1. AnswerInv => AnswerIsOwn
  BY DEF AnswerInv, AnswerIsOwn
<1> QED
  BY <1>1, AnswerInvariant, PTL

\* Every step of the receiver, its callers, the queue and stop() is a step of
\* RequestReply or changes nothing a caller can see.
LEMMA RefinementStep ==
  ASSUME UniqueIds, Base, WaiterInv, AnswerInv, [Next]_vars
  PROVE  [Abstract!Next]_(Abstract!vars)
<1> DEFINE ans == [r \in Requests |-> IF pc[r] = "answered" THEN answer[r] ELSE NoReply]
           sent == {m \in Replies : mail[m] # "unsent"}
<1> USE NullAssumption, IdAssumption DEF Base, TypeOK, Active
<1>1. \A r \in Requests : pc[r] = "answered" /\ pc'[r] = pc[r] => answer'[r] = answer[r]
  <2>1. CASE UNCHANGED callVars
    BY <2>1 DEF callVars
  <2>2. CASE Dispatch
    BY <2>2 DEF Dispatch, Deliver, AnswerInv
  <2>3. ASSUME ~Dispatch, CallStep PROVE answer' = answer
    BY <2>3 DEF CallStep, RequestRefused, Request, Register, PublishReturns,
                PublishFails, Interrupt, Unwind, Resume, StopFinishes
  <2> QED
    BY <2>1, <2>2, <2>3, CallSteps
<1>2. ASSUME NEW r \in Requests,
             RequestRefused(r) \/ Request(r)
      PROVE  Abstract!Issue(r)
  <2>1. /\ pc[r] = "idle" /\ mail' = mail /\ answer' = answer
        /\ (pc' = [pc EXCEPT ![r] = "rejected"] \/ pc' = [pc EXCEPT ![r] = "publishing"])
    BY <1>2 DEF RequestRefused, Request, Register
  <2>2. status[r] = "new"
        /\ \E s \in {"pending", "failed"} : status' = [status EXCEPT ![r] = s]
    <3>1. CASE pc' = [pc EXCEPT ![r] = "rejected"]
      <4>1. status[r] = "new" /\ status' = [status EXCEPT ![r] = "failed"]
        BY <2>1, <3>1 DEF status
      <4> QED
        BY <4>1
    <3>2. CASE pc' = [pc EXCEPT ![r] = "publishing"]
      <4>1. status[r] = "new" /\ status' = [status EXCEPT ![r] = "pending"]
        BY <2>1, <3>2 DEF status
      <4> QED
        BY <4>1
    <3> QED
      BY <2>1, <3>1, <3>2
  <2>3. ans' = ans /\ sent' = sent
    BY <2>1
  <2> QED
    BY <2>2, <2>3 DEF Abstract!Issue
<1>3. ASSUME NEW r \in Requests,
             PublishFails(r) \/ Unwind(r) \/ (Resume(r) /\ future[r] = "stopped")
      PROVE  Abstract!Fail(r)
  <2>1. /\ pc[r] \in {"publishing", "waiting", "unwinding"}
        /\ mail' = mail /\ answer' = answer
        /\ pc' = [pc EXCEPT ![r] = "failed"]
    BY <1>3 DEF PublishFails, Unwind, Resume
  <2>2. status[r] = "pending" /\ status' = [status EXCEPT ![r] = "failed"]
    BY <2>1 DEF status
  <2>3. ans' = ans /\ sent' = sent
    BY <2>1
  <2> QED
    BY <2>2, <2>3 DEF Abstract!Fail
<1>4. ASSUME NEW r \in Requests, Resume(r), future[r] # "stopped" PROVE Abstract!Answer(r)
  <2>1. /\ pc[r] = "waiting" /\ mail' = mail /\ answer' = answer
        /\ pc' = [pc EXCEPT ![r] = "answered"] /\ future[r] = "resolved"
    BY <1>4 DEF Resume
  <2>2. status[r] = "pending" /\ status' = [status EXCEPT ![r] = "answered"]
    BY <2>1 DEF status
  <2>3. answer[r] \in sent /\ answer[r][1] = r
    BY <2>1 DEF AnswerInv
  <2>4. ans' = [ans EXCEPT ![r] = answer[r]] /\ sent' = sent
    BY <2>1
  <2> QED
    BY <2>2, <2>3, <2>4 DEF Abstract!Answer
<1>5. ASSUME NEW m \in Replies, Respond(m) PROVE Abstract!Respond(m)
  <2>1. mail[m] = "unsent" /\ m[1] \in published /\ mail' = [mail EXCEPT ![m] = "queued"]
        /\ pc' = pc /\ answer' = answer
    BY <1>5 DEF Respond, callVars
  <2>2. status[m[1]] # "new" /\ status' = status /\ ans' = ans
    BY <2>1 DEF status, AnswerInv
  <2>3. m \notin sent /\ sent' = sent \cup {m}
    BY <2>1
  <2> QED
    BY <2>2, <2>3 DEF Abstract!Respond
\* The steps that callers do not see.
<1>6. ASSUME \A r \in Requests : (pc'[r] = "answered" <=> pc[r] = "answered")
                               /\ status'[r] = status[r],
             \A m \in Replies : mail'[m] = "unsent" <=> mail[m] = "unsent"
      PROVE  UNCHANGED Abstract!vars
  <2>1. ans' = ans
    BY <1>1, <1>6
  <2>2. sent' = sent
    BY <1>6
  <2>3. status' = status
    BY <1>6 DEF status
  <2> QED
    BY <2>1, <2>2, <2>3 DEF Abstract!vars
<1>7. ASSUME NEW r \in Requests, Send(r) \/ PublishReturns(r) \/ Interrupt(r)
      PROVE  UNCHANGED Abstract!vars
  <2>1. mail' = mail /\ (pc' = pc \/ (pc[r] \in {"publishing", "waiting"} /\
          \E s \in {"waiting", "unwinding"} : pc' = [pc EXCEPT ![r] = s]))
    BY <1>7 DEF Send, PublishReturns, Interrupt, callVars
  <2> QED
    BY <1>6, <2>1 DEF status
<1>8. CASE Connect \/ Loop \/ Stop \/ UNCHANGED vars
  <2>1. pc' = pc /\ \A m \in Replies : mail'[m] = "unsent" <=> mail[m] = "unsent"
    <3>1. ASSUME NEW S \in SUBSET Replies, Receive(S) PROVE <2>1!:
      BY <3>1 DEF Receive, callVars
    <3>2. CASE Connect \/ Stop \/ UNCHANGED vars
      BY <3>2 DEF Connect, Stop, StopBegins, StopFinishes, Disconnect, vars, callVars
    <3>3. CASE LoopStarts \/ Dispatch \/ CloseLink \/ BackoffEnds \/ LoopExits
      BY <3>3 DEF LoopStarts, Dispatch, CloseLink, BackoffEnds, LoopExits, callVars
    <3>4. CASE LinkFails
      BY <3>4 DEF LinkFails, Vanished, callVars
    <3> QED
      BY <1>8, <3>1, <3>2, <3>3, <3>4 DEF Loop
  <2> QED
    BY <1>6, <2>1 DEF status
<1>9. ASSUME Complete \/ \E m \in Replies : LockExpires(m) PROVE UNCHANGED Abstract!vars
  <2>1. pc' = pc /\ \A m \in Replies : mail'[m] = "unsent" <=> mail[m] = "unsent"
    BY <1>9 DEF Complete, LockExpires, callVars
  <2> QED
    BY <1>6, <2>1 DEF status
<1> QED
  BY <1>2, <1>3, <1>4, <1>5, <1>7, <1>8, <1>9
     DEF Next, Call, Service, Abstract!Next, Abstract!Replies, Replies

\* With ids of their own, callers cannot tell the receiver, the waiter table and
\* the reply queue from RequestReply.
THEOREM Refinement == ASSUME UniqueIds PROVE Spec => ImplementsRequestReply
<1>1. Init => Abstract!Init
  BY DEF Init, Abstract!Init, status, Active
<1>2. Base /\ WaiterInv /\ AnswerInv /\ [Next]_vars => [Abstract!Next]_(Abstract!vars)
  BY RefinementStep
<1> QED
  BY <1>1, <1>2, AnswerInvariant, PTL DEF Spec, Abstract!Spec, ImplementsRequestReply
=============================================================================
