SPECIFICATION Spec
CONSTANTS
  Cap = 2
  MaxTasks = 3
  MaxBounces = 2
  MaxAsks = 2
  MaxFaults = 2
CHECK_DEADLOCK FALSE
INVARIANT TypeOK
INVARIANT DecidedOnce
PROPERTY PersonDecides
PROPERTY Heard
