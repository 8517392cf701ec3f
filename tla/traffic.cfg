SPECIFICATION TSpec
CONSTANTS
  m1 = m1  m2 = m2  d1 = d1
  i1 = i1  i2 = i2
  Conn = {m1, d1}
  Instance = {i1, i2}
  Key <- MCKey
  PeerOf <- MCPeerOf
  KeyOf <- MCKeyOf
  NoConn = NoConn
  Redis = TRUE
  MayExpire = FALSE
  Crashable = {}
  Drainable = {i2}
  Scopes <- NoScopes
  ChanSize = 2
  OutQueueSize = 1
  MaxFrames = 2
INVARIANTS TTypeOK 
CHECK_DEADLOCK FALSE
