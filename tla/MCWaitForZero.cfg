SPECIFICATION Spec
CONSTANT
  Timeouts <- MCTimeouts
INVARIANT
  ZeroIsNoTimeout
CHECK_DEADLOCK FALSE
