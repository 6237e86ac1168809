SPECIFICATION Spec
CONSTANTS
  a = a
  s = s
  r = r
  SlowClients <- None
  RealTimeClients <- Alone
  AutoCalls = {}
INVARIANT
  EndsDeinitialised
CHECK_DEADLOCK FALSE
