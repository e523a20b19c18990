\* A caller that uses a correlation id again, and stop.
CONSTANTS
  Requests = {r1, r2}
  Ids = {i1}
  Id <- SameId
  Copies = {c1}
  NoRequest = NoRequest
  NoReply = NoReply
  AmbiguousCompletion = FALSE
  MaxFaults = 0
  MaxStarts = 1
SPECIFICATION Spec
INVARIANT StopFailsOutstanding
CHECK_DEADLOCK FALSE
