\* A fetch or a handler outlasts graceful_timeout, then the broker restarts.
CONSTANTS
  Messages = {m1, m2}
  Tasks = {t1, t2}
  NoMessage = NoMessage
  NoTask = NoTask
  Stopper = Stopper
  Prefetch = 1
  AckFirst = FALSE
  OnError = "dead-letter"
  Renew = TRUE
  SlowStop = TRUE
  MaxCalls = 3
  MaxFaults = 0
SPECIFICATION Spec
INVARIANT OneHandlerPerReceiver
CHECK_DEADLOCK FALSE
