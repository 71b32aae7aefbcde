SPECIFICATION Spec
CONSTANTS
  c1 = c1
  c2 = c2
  c3 = c3
  a0 = a0
  a1 = a1
  ka = ka
  kd = kd
  peer = peer
  DialKeys = {kd}
  AcceptKeys = {}
  Remotes = {peer}
  RemoteOf <- OnePeer
  Conns = {c1, c2, c3}
  Idx <- TwoIndexes
  Addrs = {a0, a1}
  AcceptAddrs = {a0}
  NoAddr = NoAddr
  PubLists <- ShortLists
  MaxGen = 1
  AcceptBuf = 1
  None = None
  NilMap = NilMap
  Retries <- NoLimit
INVARIANTS RetriesUnlimited
CHECK_DEADLOCK FALSE
