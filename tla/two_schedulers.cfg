\* launchd and cron fire in the same minute after one of them was killed.
CONSTANTS
  primary = primary
  other = other
  Wrappers = {primary, other}
  None = None
  Slot = 30
  FireAt <- SameMinute
  LockTTL = 16
  Cooldown = 12
  WatchAt = 8
  StuckAge = 5
  FreshAge = 17
  MinCycle = 4
  MaxCycle = 15
  MaxSurvey = 2
  MayHang = FALSE
  MaxDeaths = 1
SPECIFICATION Spec
INVARIANT AtMostOneCycle
