\* One target; ages on both sides of every number; one restart, a second rule.
SPECIFICATION EngineFairSpec
CONSTANTS
  Targets = {n1}
  Duration = 2
  Cooldown = 3
  Threshold = 2
  Horizon = 3
  MaxStarts = 1
  MaxRules = 2
PROPERTIES NoEarlyAlarm NoFalseOffline AlertFollows
