\* One container, and three events among its lines, restarts, stops and the breaks of the stream.
SPECIFICATION FairSpec
CONSTANTS
  c1 = c1
  Containers = {c1}
  Unseen = Unseen
  LoopRestarts = 2
  Window = 1
  KeepFor = 2
  BufMax = 1
  BufKeep = 1
  MaxEvents = 3
  MaxTime = 1
  W = 8
  MaxSamples = 5
  MaxLinesPerSecond = 2
  Second = 2
  MaxTicks = 4
INVARIANTS LiveTailIsListed ShippedInOrder CrashLoopIsReal
PROPERTIES StopReturns
CHECK_DEADLOCK FALSE
