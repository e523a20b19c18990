\* Peek-lock over two starts; one stop may reach graceful_timeout.
CONSTANTS
  Messages = {m1, m2}
  Tasks = {t1, t2}
  NoMessage = NoMessage
  NoTask = NoTask
  Stopper = Stopper
  Prefetch = 2
  AckFirst = FALSE
  OnError = "dead-letter"
  Renew = TRUE
  SlowStop = TRUE
  MaxCalls = 3
  MaxFaults = 1
SPECIFICATION FairSpec
INVARIANTS
  TypeOK
  OneHandlerAtATime
  StopEndsTheLoop
  HandlesItsOwn
  SettledAsHandled
PROPERTIES
  EveryMessageIsSettled
  StopReleasesTheBatch
CHECK_DEADLOCK FALSE
