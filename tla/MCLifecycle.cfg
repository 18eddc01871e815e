SPECIFICATION LifeSpec
CONSTANTS
  MaxRuns = 2
CHECK_DEADLOCK FALSE
INVARIANTS
  UsesOpenResources
  LeavesNothing
  SocketIsTidy
PROPERTIES
  FailFast
  ServesUnlessDisturbed
  StoppingEnds
