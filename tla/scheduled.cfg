\* The primary and its backup; an invocation may be killed at any step.
CONSTANTS
  primary = primary
  other = other
  Wrappers = {primary, other}
  None = None
  Slot = 30
  FireAt <- PrimaryAndBackup
  LockTTL = 16
  Cooldown = 12
  WatchAt = 8
  StuckAge = 5
  FreshAge = 17
  MinCycle = 4
  MaxCycle = 15
  MaxSurvey = 2
  MayHang = FALSE
  MaxDeaths = 1
SPECIFICATION FairSpec
INVARIANTS TypeOK RunnerHoldsLock
PROPERTIES PrimaryNeverStarved NoFalseAlarm CyclesKeepStarting
