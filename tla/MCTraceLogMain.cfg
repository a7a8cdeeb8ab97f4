SPECIFICATION Spec
CONSTANTS
  Clients = {"main"}
  Script <- MainScript
  Workers <- MainWorkers
  MayFail = FALSE
CHECK_DEADLOCK FALSE
INVARIANT ExitTellsErrors
