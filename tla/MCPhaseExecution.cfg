CONSTANTS
  p1 = p1
  p2 = p2
  s1 = s1
  s2 = s2
  Phases <- MCPhases
  Sessions <- MCSessions
SPECIFICATION Spec
SYMMETRY Symmetry
PROPERTY ImplementsLifecycle
