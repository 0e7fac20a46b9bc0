\* Two alerts, an edit of the webhook, two browsers; channels at their limits.
SPECIFICATION DeliveryFairSpec
CONSTANTS
  Clients = {c1, c2}
  Admins = {h1}
  LongURLs = {u1}
  ShortURLs = {u2}
  NoURL = NoURL
  Masked = Masked
  Bullets = Bullets
  Tries = 2
  BusCap = 1
  QueueCap = 1
  ChanCap = 1
  MaxFires = 2
  MaxEdits = 1
INVARIANTS CacheIsCurrent AtMostOnce HubNeverPanics
PROPERTIES HandlersLeave
CHECK_DEADLOCK FALSE
