\* From the last purchases to the settlement, tools killed and reports corrected.
CONSTANTS
  t1 = t1
  t2 = t2
  NoTicker = NoTicker
  Tickers = {t1, t2}
  Order <- KeyOrder
  Threshold <- Thresholds
  Costs <- TwoFills
  MaxKills = 1
  Midnight = 1
  Deadline = 2
  Stable = 1
  MinOverlap = 1
  Highs = {70, 80}
  MaxReports = 2
  ProxyTime = 2
  MaxTime = 2
  Proxies <- AgreeingProxy
SPECIFICATION Spec
INVARIANTS TypeOK MismatchMeansCorrection BooksBalance
PROPERTIES SettlesOnce FirstPositionSettles
CHECK_DEADLOCK FALSE
