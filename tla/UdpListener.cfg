SPECIFICATION FairSpec
CONSTANTS
  d1 = d1
  d2 = d2
  k1 = k1
  None = None
  Dials = {d1, d2}
  Keys = {k1}
  KeyOf <- Redialed
INVARIANTS MapsAgree ClosedForgets CloseTellsAll
PROPERTY ClosedConnsLeave
CHECK_DEADLOCK FALSE
