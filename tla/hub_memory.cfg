SPECIFICATION Spec
CONSTANTS
  m1 = m1  m2 = m2  m3 = m3  d1 = d1
  i1 = i1  i2 = i2
  Conn = {m1, m2}
  Instance = {i1, i2}
  Key <- MCKey
  PeerOf <- MCPeerOf
  KeyOf <- MCKeyOf
  NoConn = NoConn
  Redis = FALSE
  MayExpire = TRUE
  Crashable = {}
  Drainable = {}
  Scopes <- PairRevoked
  ChanSize = 1
INVARIANTS IndexedIsServed NewestKeepsSlot NoLeakedSlot RevocationCuts
CHECK_DEADLOCK FALSE
