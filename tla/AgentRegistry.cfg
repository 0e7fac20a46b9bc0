\* One agent with up to three streams, one leader restart, fair handlers.
SPECIFICATION FairSpec
CONSTANTS
  Nodes = {n1}
  Streams = {c1, c2, c3}
  NodeOf <- AllOfOne
  None = None
  MaxRestarts = 1
INVARIANTS RegistryHoldsOpenStream OfflineIsClean
PROPERTIES StatusHeals
CHECK_DEADLOCK FALSE
