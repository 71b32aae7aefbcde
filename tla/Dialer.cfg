SPECIFICATION FairSpec
CONSTANTS
  c1 = c1
  c2 = c2
  c3 = c3
  a0 = a0
  a1 = a1
  ka = ka
  kd = kd
  peer = peer
  DialKeys = {kd}
  AcceptKeys = {}
  Remotes = {peer}
  RemoteOf <- OnePeer
  Conns = {c1, c2, c3}
  Idx <- TwoIndexes
  Addrs = {a0, a1}
  AcceptAddrs = {a0}
  NoAddr = NoAddr
  PubLists <- Lists
  MaxGen = 1
  AcceptBuf = 1
  None = None
  NilMap = NilMap
  Retries <- NoLimit
INVARIANTS DialedIsServed DialedIsRegistered DialErrReported CacheIsLive
PROPERTY DialerWindsDown
CHECK_DEADLOCK FALSE
