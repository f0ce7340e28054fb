\* Three markets of one city, a wrapper cycle in dry run and the morning cycle beside it.
CONSTANTS
  t1 = t1
  t2 = t2
  t3 = t3
  c1 = c1
  c2 = c2
  Tickers = {t1, t2, t3}
  NoTicker = NoTicker
  Cycles = {c1, c2}
  Cooldown = 1
  Boost = 10
  MaxReentries = 1
  DailyCap = 100
  CityOf <- OneCity
  SettleDay <- SettleToday
  MaxPerCityDay = 1
  MaxDaysAhead = 2
  DayLength = 3
  LocalLag = 1
  Signals <- OneSignal
  ExitPs <- NoExit
  Modes <- DryRunAndMorning
  FaultyReads = {}
  MaxTime = 1
  MaxOrders = 3
SPECIFICATION Spec
SYMMETRY Alike
INVARIANT CityExposureBounded
CHECK_DEADLOCK FALSE
