SPECIFICATION SysSpec
CONSTANTS
  Retries = 1
  MaxDial = 2
  Key = Key
  None = None
PROPERTY ReconnectIsHeard
CHECK_DEADLOCK FALSE
