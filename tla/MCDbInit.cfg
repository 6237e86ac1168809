SPECIFICATION Spec
CONSTANTS
  r1 = r1
  r2 = r2
  Home = Home
  None = None
  Run <- MCRuns
  Attempts <- MCAttempts
INVARIANTS
  TypeOK
  DatabaseComplete
PROPERTIES
  UpIsFound
  Ends
