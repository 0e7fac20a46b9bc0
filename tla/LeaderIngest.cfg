\* Three messages of a node, two viewers of its log, a restart of the leader.
SPECIFICATION Spec
CONSTANTS
  a = a
  b = b
  v1 = v1
  v2 = v2
  Containers = {a, b}
  Viewers = {v1, v2}
  None = None
  MinuteLen = 1
  Rx = {0, 1}
  LogMax = 1
  Every = 2
  TailLen = 1
  Keep = 0
  ViewBuf = 1
  MaxBatch = 2
  MaxMsgs = 3
  MaxLines = 4
  MaxCrashes = 1
  MaxTime = 2
INVARIANTS ShownIsLatest BucketIsMinute LiveIsGapless NoPanic
SYMMETRY ViewerSymmetry
CHECK_DEADLOCK FALSE
