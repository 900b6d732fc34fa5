SPECIFICATION Spec
CONSTANTS
  t1 = t1
  t2 = t2
  Tasks <- MCTasks
  PhaseOf <- TwoPhases
  Urgent <- MCUrgent
  Limited <- Both
  Agents <- MCAgents
  Workers <- MCWorkers
  Capacity = 2
  Limit = 1
  MaxClicks = 1
  MaxFaults = 1
  MaxCrashes = 0
INVARIANT TypeOK
INVARIANT SlotsKept
PROPERTY ReportKept
CHECK_DEADLOCK FALSE
