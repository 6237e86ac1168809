SPECIFICATION Spec
CONSTANTS
  AskSets <- MCAskSets
INVARIANTS
  TypeOK
  InstalledCanStart
PROPERTIES
  DeletesNothingInUse
  NoOrphan
  RemovalComplete
  MdsStopsLast
