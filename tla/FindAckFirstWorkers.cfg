\* ACK_FIRST comes from the broker, where no number of workers refuses it.
CONSTANTS
  Messages = {m1}
  MaxStarts = 1
  MaxDeliveries = 1
  Scenarios <- AckFirstScenarios
  NoCopy = NoCopy
SPECIFICATION Spec
INVARIANT WorkersLoseNothing
CHECK_DEADLOCK FALSE
