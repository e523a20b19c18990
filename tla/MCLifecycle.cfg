\* Two subscribers, two reply queues with a request each, two connections.
CONSTANTS
  s1 = s1
  s2 = s2
  r1 = r1
  r2 = r2
  Subscribers = {s1, s2}
  Queues = {r1, r2}
  Requests = {r1, r2}
  QueueOf <- OwnQueue
  NoTarget = NoTarget
  OwnsCredential = TRUE
  MaxClients = 2
  MaxStarts = 2
SPECIFICATION FairSpec
INVARIANTS
  StopReleasesEverything
  StartedIsServed
  PingTellsUp
PROPERTY StopCompletes
CHECK_DEADLOCK FALSE
