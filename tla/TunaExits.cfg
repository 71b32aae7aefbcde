SPECIFICATION FairSpec
CONSTANTS
  e1 = e1
  e2 = e2
  e3 = e3
  e4 = e4
  r1 = r1
  r2 = r2
  None = None
  NumTunaListeners = 2
  Exits = {e1, e2, e3, e4}
  Rotators = {r1, r2}
INVARIANTS NoExitLost InstalledRun RotateReplaces
PROPERTY ConnectedServes
CHECK_DEADLOCK FALSE
