SPECIFICATION FairSpec
CONSTANTS
  Retries = 2
  MaxDial = 3
INVARIANTS TypeOK PeerIsSet
PROPERTIES StaysClosed LostIsReplaced GoroutinesEnd
CHECK_DEADLOCK FALSE
