\* Two calls with an id each, two faults of the link or of a lock, one restart.
CONSTANTS
  Requests = {r1, r2}
  Ids = {r1, r2}
  Id <- OwnId
  Copies = {c1}
  NoRequest = NoRequest
  NoReply = NoReply
  AmbiguousCompletion = TRUE
  MaxFaults = 2
  MaxStarts = 2
SPECIFICATION FairSpec
INVARIANTS
  TypeOK
  NoWaiterLeaks
  OutstandingIsServed
  NoLeakedLink
  StopFailsOutstanding
  AnswerIsOwn
PROPERTIES
  FuturesSettleOnce
  ImplementsRequestReply
  QueuedReplyEndsTheWait
  StopEndsTheWait
CHECK_DEADLOCK FALSE
