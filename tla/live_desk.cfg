\* Two markets, a lost or repeated message, two decisions, one manual order.
CONSTANTS
  m1 = m1
  m2 = m2
  s1 = s1
  s2 = s2
  Dollar = 4
  Markets = {m1, m2}
  Sids = {s1, s2}
  Changes <- Sellers
  MaxSize = 2
  MaxUpdates = 2
  MaxFaults = 1
  CityOf <- OneCityEach
  DayOf <- OneDay
  Preferred = "nyc"
  Zone <- NoOffset
  DayLength = 4
  Window = 1
  MaxAge = 1
  MaxAttempts = 2
  Timeout = 1
  MaxWait = 1
  MaxPlans = 1
  MaxTime = 5
  Beliefs = {3}
  MinEv = 1
  MaxDecisions = 2
SPECIFICATION Spec
CHECK_DEADLOCK FALSE
SYMMETRY SidsAlike
CONSTRAINT StreamFirst
INVARIANTS TypeOK BookIsTrue OrderFresh RowTellsTruth PriceWasOffered
PROPERTIES GapMeansLoss NewestDecisionDecides CheapestFill
