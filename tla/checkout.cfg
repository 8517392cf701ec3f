SPECIFICATION FairSpec
CONSTANTS
  Nonce = {n1}
  Start = {s1, s2}
  Return = {r1}
  Claim = {c1, c2}
  Admin = {a1}
  MaxFaults = 1
  None = None
CHECK_DEADLOCK FALSE
INVARIANTS TypeOK HandedOnce HandedIsUsable
PROPERTIES ClaimForward ReadyIsDelivered
