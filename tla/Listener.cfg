SPECIFICATION Spec
CONSTANTS
  c1 = c1
  c2 = c2
  c3 = c3
  a0 = a0
  a1 = a1
  ka = ka
  kd = kd
  peer = peer
  DialKeys = {}
  AcceptKeys = {ka}
  Remotes = {peer}
  RemoteOf <- OnePeer
  Conns = {c1, c2, c3}
  Idx <- OneIndex
  Addrs = {a0, a1}
  AcceptAddrs = {a0}
  NoAddr = NoAddr
  PubLists <- NoLists
  MaxGen = 2
  AcceptBuf = 1
  None = None
  NilMap = NilMap
  Retries = 0
INVARIANTS TypeOK LiveXorClosed NoNilMapWrite AcceptOnce DroppedIsClosed AddrCountExact
PROPERTIES NeverReplaced ClosedStays LastOneOut
CHECK_DEADLOCK FALSE
