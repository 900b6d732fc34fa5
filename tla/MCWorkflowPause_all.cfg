SPECIFICATION PauseSpec
CONSTANTS
  Workflows = {w1}
  MaxCycles = 2
  ReviewMode = TRUE
  Others = FALSE
  MaxClicks = 4
CHECK_DEADLOCK FALSE
PROPERTY SweepRespects
PROPERTY SystemPauseRecovers
PROPERTY BudgetBites
