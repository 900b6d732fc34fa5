CONSTANT MaxCrashes = 3
SPECIFICATION FirstSpec
INVARIANT OneFirstTask
PROPERTY TaskSurfaces
