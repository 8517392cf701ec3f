SPECIFICATION FairSpec
CONSTANTS
  Transport = {t1, t2, t3}
  Msg = {m1}
  MaxFaults = 1
  None = None
CHECK_DEADLOCK FALSE
INVARIANTS TypeOK NeverStranded FutureAccounted
 
