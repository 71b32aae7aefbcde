SPECIFICATION FairSpec
CONSTANTS
  w1 = w1
  w2 = w2
  m1 = m1
  m2 = m2
  m3 = m3
  None = None
  Dialer = Dialer
  Addr = Addr
  Meta = Meta
  Writers = {w1, w2}
  Msgs = {m1, m2, m3}
  Size <- Lengths
  Limit <- ShortLimits
  Accept = TRUE
  Base = 2
  HdrLen = 2
INVARIANT TypeOK
PROPERTIES PipeSpec StopsForReason WrittenArrives
CHECK_DEADLOCK FALSE
