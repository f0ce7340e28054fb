\* A day's decisions, from the quote to the settled recommendation.
CONSTANTS
  a1 = a1
  a2 = a2
  a3 = a3
  b1 = b1
  Dollar = 20
  Cities <- BothCities
  Markets = {a1, a2, a3, b1}
  CityOf <- Cities2
  DayOf <- Tomorrow
  ThresholdOf <- Thresholds
  MaxPerCityDay = 2
  CapitalCap = 120
  Worlds <- AllWorlds
  Highs = {79, 82}
  OperatorOf <- Operators
SPECIFICATION Spec
INVARIANTS TypeOK TakersPay OneSetOfGates SelectionSound OutcomesAgree
PROPERTY MarksTellTruth
