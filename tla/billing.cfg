SPECIFICATION FairSpec
CONSTANTS
  Handler = {h1}
  Worker = w
  MaxAttempts = 2
  MaxClock = 2
  MaxChanges = 2
  MaxEvents = 2
  MaxFaults = 1
INVARIANTS TypeOK  ReadyIsUsable 
PROPERTY MirrorHeals
