\* Two writers, two clients and three page views around a midnight; one failure, one restart.
SPECIFICATION FairSpec
CONSTANTS
  Clients = {c1, c2}
  Writers = {w1, w2}
  MaxDay = 2
  MaxViews = 3
  MaxFailures = 1
  MaxRestarts = 1
  MaxHost = 4
  MaxBatch = 4
INVARIANTS Accounted VisitorOnce
PROPERTIES Forgotten
