SPECIFICATION FairSpec
CONSTANTS
  Sinks <- BufferedFirst
  Cap = 1
  MaxEchoes = 3
  Chunks = 1
CHECK_DEADLOCK FALSE
INVARIANTS TypeOK NilMeansAllWritten HaltsWithAllWritten
  RunReportsTheOutcome MachineIsStill
PROPERTIES ExpiredMachineReturns
