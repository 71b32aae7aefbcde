SPECIFICATION Spec
CONSTANTS
  Retries <- NoLimit
  MaxDial = 2
INVARIANT RedialsUnlimited
CHECK_DEADLOCK FALSE
