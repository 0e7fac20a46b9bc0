\* Two terminals on a node that takes one, two reconnects, two inputs, fair timers.
SPECIFICATION FairSpec
CONSTANTS
  Sessions = {s1, s2}
  MaxPtySessions = 1
  MaxStreams = 3
  MaxInputs = 2
INVARIANT OpenedIsClosed
PROPERTY ContainerEnds
CHECK_DEADLOCK FALSE
