\* One plan with two runs, one agent; the leader may crash once.
SPECIFICATION FairSpec
CONSTANTS
  Plans = {p1}
  Runs = {r1, r2}
  Nodes = {n1}
  Scope <- ScopeAll
  Mode <- ModeOnError
  MaxCrashes = 1
  SafeChars = {"a"}
  OtherChars = {":", " "}
  MaxName = 4
  MaxParts = 3
INVARIANTS NoOrphanRun SuccessIsComplete
PROPERTIES PlanReleased RunSettles ImplementsContract
CHECK_DEADLOCK FALSE
