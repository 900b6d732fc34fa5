SPECIFICATION Spec
CONSTANTS
  N = 3
  Gated = {2, 3}
  Polled = FALSE
  MaxRetries = 2
  MaxGotos = 1
  MaxGates = 0
  MaxCrashes = 1
CHECK_DEADLOCK FALSE
INVARIANT TypeOK
INVARIANT OneRunningPhase
INVARIANT RetriesPaidFor
INVARIANT CompletedIsOver
PROPERTY Finishes
