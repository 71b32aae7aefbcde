SPECIFICATION RequestFairSpec
CONSTANTS
  Attempts = {i0, i1}
  NumExits = 2
  Addrs = {a1}
  NoAddr = NoAddr
  SessionClosed = SessionClosed
  Garbled = Garbled
  Null = Null
PROPERTIES FetchSpec Returns
