\* Two calls of the code under test, one of them perhaps inside a handler; batches
\* of up to two bodies.
CONSTANTS
  Applications <- TestApplications
  MaxCalls = 2
  MaxBatch = 2
SPECIFICATION Spec
INVARIANTS
  RoutedAsByTheService
  CompletedMeansDone
  CorrelationFollows
CHECK_DEADLOCK FALSE
