SPECIFICATION FairSpec
CONSTANTS
  PingInterval = 3
  PongTimeout = 3
  RenewTimeout = 1
  SlotTTL = 22
  MaxFails = 1
  MaxLife = 4
  Leeway = 1
INVARIANTS ExpiryArmed UnresponsiveClosed 
PROPERTIES  ExpiredCloses
CHECK_DEADLOCK FALSE
