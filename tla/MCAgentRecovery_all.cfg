SPECIFICATION Spec
CONSTANTS
  Agents = {1, 2}
  Troubles <- AllTroubles
  MaxTroubles = 1
  MaxRetries = 1
INVARIANT TypeOK
INVARIANT OneAgent
PROPERTY ReportKept
PROPERTY Settles
CHECK_DEADLOCK FALSE
