SPECIFICATION Spec
CONSTANTS
  N = 2
  Gated = {2}
  Polled = TRUE
  MaxRetries = 1
  MaxGotos = 1
  MaxGates = 1
  MaxCrashes = 0
CHECK_DEADLOCK FALSE
INVARIANT ClosedByWork
INVARIANT InOrder
PROPERTY Finishes
