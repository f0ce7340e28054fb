--------------------------- MODULE MCTradingCycle ---------------------------
(***************************************************************************)
(* Instances of TradingCycle: markets of one city, one signal a side.  c1  *)
(* is a cycle of the wrapper, c2 the morning script's, which never trades. *)
(***************************************************************************)
EXTENDS TradingCycle, TLC

CONSTANTS t1, t2, t3, c1, c2

OneCity == [t \in Tickers |-> "nyc"]
SettleToday == [t \in Tickers |-> 0]
SettleNextDay == [t \in Tickers |-> 1]

LiveOrDry == [c \in Cycles |-> {"LIVE", "DRY_RUN"}]
LiveAndMorning == [c \in Cycles |-> IF c = c1 THEN {"LIVE"} ELSE {"DISABLED"}]
DryRunAndMorning == [c \in Cycles |-> IF c = c1 THEN {"DRY_RUN"} ELSE {"DISABLED"}]

OneSignal == {[side |-> "yes", price |-> 60, p |-> 80]}
\* The second does not rise by the boost above WeakExit; a cap of 100 has no room
\* for the first twice.
StrongOrWeak == OneSignal \union {[side |-> "yes", price |-> 40, p |-> 75]}
NoExit == {}
WeakExit == {70}

\* The markets differ in nothing, and no property checked with it tells them
\* apart.
Alike == Permutations(Tickers)
=============================================================================
