SPECIFICATION Spec
CONSTANTS
  s1 = s1
  s2 = s2
  s3 = s3
  v1 = v1
  v2 = v2
  BadSeed = BadSeed
  Run = Run
  Setters <- MCSetters
  Values <- MCValues
INVARIANTS
  TypeOK
  SetpointApplied
  SeedUntilSet
  ListCleared
PROPERTY
  ReadBack
CHECK_DEADLOCK FALSE
