\* A standard input that stays silent, an output that blocks, a step without an end.
SPECIFICATION FairSpec
CONSTANTS
  Sinks <- OneBuffered
  Cap = 1
  MaxEchoes = 1
  Chunks = 1
CHECK_DEADLOCK FALSE
PROPERTY TimeLimitHolds
