SPECIFICATION Spec
CONSTANTS
  MaxRetries = 3
  LocalFallback = TRUE
  Troubles <- Pairs
INVARIANTS TypeOK NobodySkipped
PROPERTIES ReachesReviewer LandsApproved QueuedLands
CHECK_DEADLOCK FALSE
