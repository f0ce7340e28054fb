\* A cycle whose alarm is swallowed.
CONSTANTS
  primary = primary
  other = other
  Wrappers = {primary, other}
  None = None
  Slot = 30
  FireAt <- PrimaryAndBackup
  LockTTL = 16
  Cooldown = 12
  WatchAt = 8
  StuckAge = 5
  FreshAge = 17
  MinCycle = 4
  MaxCycle = 15
  MaxSurvey = 2
  MayHang = TRUE
  MaxDeaths = 0
SPECIFICATION FairSpec
PROPERTY HungCycleKilled
