--------------------------- MODULE Microstructure ---------------------------
(***************************************************************************)
(* What one order of one contract would meet in a market's book            *)
(* (engines/microstructure.py).  A history is the sequence of the saved    *)
(* snapshots, newest first; trades is [yes, no: how many trades a taker of *)
(* that side made; size: their average].                                   *)
(*                                                                         *)
(* Units: shares are percents; money is in 10^-8 dollars; the tradability  *)
(* score is in units of 1 / ScoreUnit, in which its weighted sum is exact  *)
(* (shares of more than two comparisons are cut to a whole percent).       *)
(***************************************************************************)
EXTENDS OrderBook, Sequences

Cents(ticks) == ticks * (100 \div Dollar)
Cent == 1000000
ScoreUnit == 1200000

Share(part, whole, none) == IF whole = 0 THEN none ELSE (100 * part) \div whole

BestBid(book, side) ==
  IF Levels(book[side]) = {} THEN NoPrice ELSE Max(Levels(book[side]))

AskOf(book, side) == BestAsk(ImpliedAsks(book, side))

\* How many of the comparable neighbours in a sequence of quotes are equal.
Kept(quotes) ==
  LET Pairs == {i \in 1 .. Len(quotes) - 1 : NoPrice \notin {quotes[i], quotes[i + 1]}}
  IN  Share(Cardinality({i \in Pairs : quotes[i] = quotes[i + 1]}), Cardinality(Pairs), 50)

\* _durability_score: for "no" the code looks at the best yes bid.
Durability(history, side) ==
  Kept([i \in DOMAIN history |->
          IF side = "no" THEN BestBid(history[i], "yes") ELSE AskOf(history[i], "yes")])

\* _quote_stability_score
QuoteStability(history, side) ==
  Kept([i \in DOMAIN history |-> BestBid(history[i], side)])

\* _ghost_liquidity_ratio: how often more than half of the best offer went away.
Ghost(history, side) ==
  LET Offer(i) == LET asks == ImpliedAsks(history[i], side) IN asks[BestAsk(asks)]
      Pairs == {i \in 1 .. Len(history) - 1 :
                  NoPrice \notin {AskOf(history[i], side), AskOf(history[i + 1], side)}}
  IN  Share(Cardinality({i \in Pairs : 2 * Offer(i) < Offer(i + 1)}), Cardinality(Pairs), 20)

Count(trades) == trades["yes"] + trades["no"]

\* _recent_trade_imbalance
Imbalance(trades, side) == Share(trades[side], Count(trades), 50)

\* _maker_fill_probability: takers of the other side, and enough of them.
MakerFill(trades, side) ==
  Min({95, (Share(trades[Other(side)], Count(trades), 0) * Min({8, Count(trades)})) \div 8})

\* _maker_adverse_selection_penalty
MakerAdverse(trades, side) ==
  IF Count(trades) = 0 THEN 4 * Cent
  ELSE Cent + 30000 * Imbalance(trades, side) + Min({2 * Cent, 400000 * trades.size})

\* _time_to_close_bucket, _taker_adverse_selection_multiplier,
\* _tradability_time_multiplier: of the minutes to the market's close, in percent.
AdverseMultiplier(minutes) ==
  IF minutes <= 15 THEN 75 ELSE IF minutes <= 60 THEN 90
  ELSE IF minutes <= 240 THEN 100 ELSE 120
ScoreMultiplier(minutes) ==
  IF minutes <= 15 THEN 92 ELSE IF minutes <= 60 THEN 97 ELSE 100

\* _spread, in ticks
Spread(book, side) ==
  IF NoPrice \in {AskOf(book, side), BestBid(book, side)} THEN Dollar
  ELSE Max({0, AskOf(book, side) - BestBid(book, side)})

\* _spread_blowout_flag: three times the average of the earlier spreads.
SpreadBlowout(history, side) ==
  LET Earlier == {i \in 2 .. Len(history) : Spread(history[i], side) < Dollar}
      total == MapThenSumSet(LAMBDA i : Spread(history[i], side), Earlier)
  IN  total > 0 /\ Spread(history[1], side) * Cardinality(Earlier) >= 3 * total

WideSpread == 12
LowTradability == 60

\* tradability_score of assess_taker_side
Score(levels, durability, stability, ghost, spread, minutes) ==
  ( (IF levels <= 3 THEN 3600 ELSE 2160) + 24 * durability + 18 * stability
    + 18 * (100 - ghost) + 200 * Max({0, WideSpread - Cents(spread)}) )
  * ScoreMultiplier(minutes)

\* assess_taker_side when the side's offers do not hold a contract
Unavailable(trades, side) ==
  [price |-> NoPrice, slippage |-> 100 * Cent, levels |-> 0, durability |-> 0,
   stability |-> 0, ghost |-> 100, makerFill |-> MakerFill(trades, side),
   makerAdverse |-> MakerAdverse(trades, side), adverse |-> 3 * Cent, score |-> 0,
   makerViable |-> FALSE, blocks |-> {"insufficient_depth"}]

\* assess_taker_side
AssessTaker(history, trades, minutes, side) ==
  LET book == history[1]
      asks == ImpliedAsks(book, side)
      price == CostToBuy(asks, 1)
      levels == Cardinality({p \in Prices : Taken(asks, 1, p) > 0})
      durability == Durability(history, side)
      stability == QuoteStability(history, side)
      ghost == Ghost(history, side)
      spread == Spread(book, side)
      score == Score(levels, durability, stability, ghost, spread, minutes)
      makerFill == MakerFill(trades, side)
      makerAdverse == MakerAdverse(trades, side)
      blowout == SpreadBlowout(history, side)
  IN  IF price = NoPrice THEN Unavailable(trades, side)
      ELSE [price |-> price, slippage |-> Cents(price - BestAsk(asks)) * Cent,
            levels |-> levels, durability |-> durability, stability |-> stability,
            ghost |-> ghost, makerFill |-> makerFill, makerAdverse |-> makerAdverse,
            adverse |-> ((1500000 + 25000 * ghost + 15000 * Imbalance(trades, side))
                           * AdverseMultiplier(minutes)) \div 100,
            score |-> score,
            makerViable |-> /\ makerFill >= 18 /\ makerAdverse <= 5 * Cent
                            /\ durability >= 45 /\ stability >= 45 /\ ~ blowout,
            blocks |-> {b \in {"wide_spread", "spread_blowout", "low_tradability"} :
                          \/ b = "wide_spread" /\ Cents(spread) > WideSpread
                          \/ b = "spread_blowout" /\ blowout
                          \/ b = "low_tradability" /\ 100 * score < LowTradability * ScoreUnit}]
=============================================================================
