SPECIFICATION Spec
CONSTANTS
  Conn = {c1, c2}
  Kid = {k1, k2}
  Malformed = Malformed
  Threshold = 2
  StrikeWindow = 1
  BanWindow = 2
  Burst = 2
  Idle = 2
  MinWait = 2
  Timeout = 1
  None = None
INVARIANTS SweepKeepsLimit  RotationLag
SYMMETRY Symmetry
