\* One market, a midnight of UTC and one of the city; every crash, fault and mode.
CONSTANTS
  t1 = t1
  t2 = t2
  t3 = t3
  c1 = c1
  c2 = c2
  Tickers = {t1}
  NoTicker = NoTicker
  Cycles = {c1}
  Cooldown = 1
  Boost = 10
  MaxReentries = 1
  DailyCap = 100
  CityOf <- OneCity
  SettleDay <- SettleNextDay
  MaxPerCityDay = 2
  MaxDaysAhead = 2
  DayLength = 3
  LocalLag = 1
  Signals <- StrongOrWeak
  ExitPs <- WeakExit
  Modes <- LiveOrDry
  FaultyReads = {"reentry"}
  MaxTime = 5
  MaxOrders = 3
SPECIFICATION Spec
INVARIANTS TypeOK EntriesPerDay DailySpendWithinCap ReentryFollowsClose BoughtIsTracked ClosedOnce
PROPERTY KillSwitchStopsBuying
CHECK_DEADLOCK FALSE
