\* Two workers over two starts, two messages of up to two deliveries each.
CONSTANTS
  Messages = {m1, m2}
  MaxStarts = 2
  MaxDeliveries = 2
  Scenarios <- WorkerScenarios
  NoCopy = NoCopy
SPECIFICATION FairSpec
INVARIANTS
  TypeOK
  NoDuplicateOnALink
  StopEndsTheWork
PROPERTIES
  EveryMessageIsSettled
  StopReleasesMessages
CHECK_DEADLOCK FALSE
