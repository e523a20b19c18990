------------------------ MODULE MCConcurrentSubscriber ------------------------
(***************************************************************************)
(* Instances of ConcurrentSubscriber for TLC.                              *)
(***************************************************************************)
EXTENDS ConcurrentSubscriber

Call(prefetch, renewal, policy) ==
  [queue |-> <<"orders">>, topic |-> NoName, subscription |-> NoName, prefetch |-> prefetch,
   workers |-> 2, renewal |-> renewal, policy |-> policy]

\* Without renewal a message may wait behind a second delivery of itself; with it
\* the subscriber is restarted, and one stop times out, one renewal ends too early or
\* one settlement fails.  A fetch smaller than the workers is refused.
WorkerScenarios ==
  {[arguments |-> Call(2, None, EMPTY), outer |-> EMPTY, starts |-> 1, faults |-> 0],
   [arguments |-> Call(2, "300s", EMPTY), outer |-> EMPTY, starts |-> 2, faults |-> 1],
   [arguments |-> Call(1, "300s", EMPTY), outer |-> EMPTY, starts |-> 2, faults |-> 1]}

\* ACK_FIRST given to the subscriber, or inherited from the broker.
AckFirstScenarios ==
  {[arguments |-> Call(2, "300s", own), outer |-> outer, starts |-> 1, faults |-> 0] :
     own \in {EMPTY, "ACK_FIRST"}, outer \in {EMPTY, "ACK_FIRST"}}
=============================================================================
