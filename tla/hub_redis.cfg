SPECIFICATION FairSpec
CONSTANTS
  m1 = m1  m2 = m2  m3 = m3  d1 = d1
  i1 = i1  i2 = i2
  Conn = {m1, m2}
  Instance = {i1, i2}
  Key <- MCKey
  PeerOf <- MCPeerOf
  KeyOf <- MCKeyOf
  NoConn = NoConn
  Redis = TRUE
  MayExpire = TRUE
  Crashable = {i1}
  Drainable = {i2}
  Scopes <- NoScopes
  ChanSize = 1
PROPERTIES ImplementsLease LoserCloses 
CHECK_DEADLOCK FALSE
