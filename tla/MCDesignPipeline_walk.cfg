SPECIFICATION Spec
CONSTANTS
  Features <- MCFeatures
  DependsOn <- Chain
  Parallel <- Nothing
  ReviewMode = TRUE
  Dashboard = TRUE
  MaxRetries = 1
  Troubles <- WithCrash
INVARIANT TypeOK
PROPERTY DesignSettles
PROPERTY BuiltOnApproved
CHECK_DEADLOCK FALSE
