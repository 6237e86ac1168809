SPECIFICATION Spec
CONSTANTS
  AskSets <- MCAskSets
INVARIANT
  PostinstHasJobs
