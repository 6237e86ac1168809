SPECIFICATION Spec
CONSTANTS
  a = a
  s = s
  r = r
  SlowClients <- MCSlow
  RealTimeClients <- MCRealTime
  AutoCalls = {"init", "start"}
SYMMETRY ClientSymmetry
INVARIANTS
  TypeOK
  UnitReleased
CHECK_DEADLOCK FALSE
