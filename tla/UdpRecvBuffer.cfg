SPECIFICATION BufferFairSpec
CONSTANTS
  r1 = r1
  r2 = r2
  Readers = {r1, r2}
  Sizes = {0, 2, 3}
  BufferSize = 6
  MaxCount = 3
  MaxDeadline = 2
INVARIANTS BufferTypeOK SizeExact
PROPERTIES QueueSpec DeadlineEndsReads
CHECK_DEADLOCK FALSE
