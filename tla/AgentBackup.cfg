\* Both engines: a tree of two sources with two changes under the walk, and up to two databases.
SPECIFICATION FairSpec
CONSTANTS
  Requests <- MCRequests
  Tree <- MCTree
  Links = {"link"}
  Size <- MCSize
  Line <- MCLine
  MaxSize = 2
  Buf = 2
  Secrets = {"pw"}
  MaxEdits = 2
INVARIANTS NeverPartial SuccessIsStored CauseReported
PROPERTIES NothingLeaks
CHECK_DEADLOCK FALSE
