\* A buffer of two chunks and a shell that writes seven.
SPECIFICATION OutputFairSpec
CONSTANTS
  Chunks = 7
  Buffer = 2
INVARIANTS GaplessUntilDead
PROPERTY DeadEnds
CHECK_DEADLOCK FALSE
