SPECIFICATION Spec
CONSTANTS
  None = None
  Completion = {c1, c2}
  Registration = {}
  TokenRequest = {t1, t2, t3}
  Unpair = {}
  Fallible = {}
  Desktop = {d1}
  Phone = {f1, f2}
  License = {l1}
  PairingToken = {q1, q2}
  DeviceCap = 3
  Quota = {1}
  MaxChanges = 1
CHECK_DEADLOCK FALSE
INVARIANTS MintedForMember ChainLinear
SYMMETRY Symmetry
