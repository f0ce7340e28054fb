\* The primary, and starts of the job at any minute but the four of MeetsOldLock.
CONSTANTS
  primary = primary
  other = other
  Wrappers = {primary, other}
  None = None
  Slot = 30
  FireAt <- SafeStarts
  LockTTL = 16
  Cooldown = 12
  WatchAt = 8
  StuckAge = 5
  FreshAge = 17
  MinCycle = 1
  MaxCycle = 15
  MaxSurvey = 2
  MayHang = FALSE
  MaxDeaths = 0
SPECIFICATION Spec
INVARIANT AtMostOneCycle
