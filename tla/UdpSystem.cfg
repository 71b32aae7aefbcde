SPECIFICATION SysFairSpec
CONSTANTS
  Retries = 1
  MaxDial = 1
  Key = Key
  None = None
PROPERTIES DialerCloseReaches ListenerCloseReaches
CHECK_DEADLOCK FALSE
