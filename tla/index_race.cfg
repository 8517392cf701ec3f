SPECIFICATION Spec
CONSTANTS
  m1 = m1  m2 = m2  m3 = m3  d1 = d1
  i1 = i1  i2 = i2
  Conn = {m1, m2}
  Instance = {i1}
  Key <- MCKey
  PeerOf <- MCPeerOf
  KeyOf <- MCKeyOf
  NoConn = NoConn
  Redis = FALSE
  MayExpire = FALSE
  Crashable = {}
  Drainable = {}
  Scopes <- NoScopes
  ChanSize = 1
INVARIANT OwnerIsIndexed
CHECK_DEADLOCK FALSE
