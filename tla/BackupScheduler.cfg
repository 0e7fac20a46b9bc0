\* Two plans, two concurrent requests and a fair ticker.
SPECIFICATION SchedulerFairSpec
CONSTANTS
  Ticker = Ticker
  PlanIds = {p1, p2}
  Valid = {"daily", "hourly"}
  Invalid = {"nonsense"}
  Requests = {h1, h2}
  MaxWrites = 2
  MaxFailures = 1
INVARIANTS EntriesMatchJobs
PROPERTY Converges
