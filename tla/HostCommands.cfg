\* A request that creates a job or writes a file beside one of any kind, one broken stream, one change of the managed roots.
SPECIFICATION FairSpec
CONSTANTS
  j1 = j1
  j2 = j2
  q1 = q1
  q2 = q2
  Jobs = {j1, j2}
  Absent = Absent
  None = None
  NoNode = NoNode
  Reqs = {q1, q2}
  Requests <- MCRequests
  Paths <- MCPaths
  HostInit <- MCHostInit
  RootsInit <- MCRootsInit
  Profiles <- MCProfiles
  MaxInlineBytes = 3
  FSMaxInlineBytes = 4
  Word = 4
  HostPasswd <- MCHostPasswd
  ImagePasswd <- MCImagePasswd
  Room = 1
  MaxBreaks = 1
  MaxRootEdits = 1
INVARIANTS AppliedIsRunning AckedWriteStands
PROPERTIES ReadOnlyHolds Answered
CHECK_DEADLOCK FALSE
