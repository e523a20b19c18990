\* Three calls on two deliveries.
CONSTANTS
  Calls = {c1, c2, c3}
  MaxDeliveries = 2
SPECIFICATION Spec
SYMMETRY Symmetry
INVARIANTS
  TypeOK
  FirstVerbSettles
CHECK_DEADLOCK FALSE
