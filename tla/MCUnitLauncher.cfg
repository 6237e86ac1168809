SPECIFICATION Spec
CONSTANTS
  l1 = l1
  l2 = l2
  p1 = p1
  p2 = p2
  p3 = p3
  None = None
  Launchers <- MCLaunchers
  Pid <- MCPids
SYMMETRY MCSymmetry
INVARIANTS
  TypeOK
  OneServer
  NoneLost
