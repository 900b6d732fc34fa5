SPECIFICATION Spec
CONSTANTS
  t1 = t1
  t2 = t2
  Tasks <- MCTasks
  PhaseOf <- OnePhase
  Urgent <- MCUrgent
  Limited <- OnlyFirst
  Agents <- MCAgents
  Workers <- MCWorkers
  Capacity = 1
  Limit = 1
  MaxClicks = 0
  MaxFaults = 1
  MaxCrashes = 1
INVARIANT OneAgent
PROPERTY TaskServed
CHECK_DEADLOCK FALSE
