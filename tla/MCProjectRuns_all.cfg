SPECIFICATION Spec
CONSTANTS
  Projects = {p1, p2}
  Walks = {w1, w2, w3}
  Requests = {r1, r2}
  Cap = 1
  MaxStarts = 3
  Troubles <- Pairs
  NoWalk = NoWalk
  NoProject = NoProject
INVARIANT TypeOK
INVARIANT OneWalk
INVARIANT CapKept
INVARIANT StopMeansStop
PROPERTY Restarts
CHECK_DEADLOCK FALSE
