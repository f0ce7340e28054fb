\* A strict city: decisions, settlements and corpus runs interleaved with updates.
CONSTANTS
  g1 = g1
  g2 = g2
  Batch = 60
  RowsPerMarket = 25
  Kinds <- SomeKinds
  MarketGroups = {g1, g2}
  Pnls <- WinOrLose
  Truths <- AllMatched
  Forecasts <- SomeForecasts
  Profile = "STRICT_PRODUCTION"
  MaxDecisions = 2
  MaxChanges = 1
  MaxKills = 1
SPECIFICATION Spec
INVARIANTS TypeOK MismatchBlocks GatesAgree BetterNeverDemotes NeverDemotedForEv
PROPERTIES Requalifies
