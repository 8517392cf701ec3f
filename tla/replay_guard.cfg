SPECIFICATION Spec
CONSTANTS
  Id = {a, b, c}
  TS <- Clock
  Key = {k1, k2}
  Window = 2
INVARIANTS  SeenInWindow FirstDeliveryAccepted
