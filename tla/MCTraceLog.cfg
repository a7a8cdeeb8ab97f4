SPECIFICATION FairSpec
CONSTANTS
  Clients = {"c1", "c2"}
  Script <- MCScript
  Workers <- MCWorkers
  MayFail = TRUE
CHECK_DEADLOCK FALSE
INVARIANTS TypeOK LinesInOrder NothingKeptBack ErrorsAreShown FailuresAreReported
  WorkersEnd
PROPERTY CallsReturn
