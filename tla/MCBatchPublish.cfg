\* Two calls, lists of up to four messages, batches of two units.
CONSTANTS
  Calls = {c1, c2}
  NoCall = NoCall
  Limit = 2
  MaxLength = 4
SPECIFICATION Spec
SYMMETRY Symmetry
INVARIANTS
  SentInOrder
  BatchesNotInterleaved
  FewestSends
CHECK_DEADLOCK FALSE
