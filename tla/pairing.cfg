SPECIFICATION Spec
CONSTANTS
  None = None
  Completion = {c1, c2}
  Registration = {g1}
  TokenRequest = {}
  Unpair = {u1}
  Fallible = {c1, c2, u1}
  Desktop = {d1, d2}
  Phone = {f1, f2}
  License = {l1}
  PairingToken = {q1, q2}
  DeviceCap = 3
  Quota = {1, 2}
  MaxChanges = 1
CHECK_DEADLOCK FALSE
INVARIANTS TypeOK CapacityHeld 
PROPERTY ImplementsSlots
SYMMETRY Symmetry
