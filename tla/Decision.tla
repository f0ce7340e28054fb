------------------------------ MODULE Decision ------------------------------
(***************************************************************************)
(* One market's decision (engines/decision.py).  A quote is everything     *)
(* run_market_decision_cycle is given about a market: the saved books and  *)
(* trades, what the forecast engine makes of the weather, the city's stage *)
(* and the kill switch.  The forecast engine is not modelled: its results  *)
(* are fields of the quote.                                                *)
(*                                                                         *)
(* A holding is an open shadow position as the cycle read it; a signal is  *)
(* the newest saved decision of a held market, or NoDecision.              *)
(***************************************************************************)
EXTENDS EdgeEstimate

CONSTANTS
  Markets,
  CityOf,           \* [Markets -> Cities]
  DayOf,            \* the local day the market settles on
  ThresholdOf,      \* _market_threshold_from_ticker, NoThreshold if it has none
  MaxPerCityDay     \* _SAME_CITY_DATE_CAP, _MAX_DISTINCT_MARKETS_PER_CITY_PER_DAY

NoThreshold == 1000

ASSUME MarketAssumption ==
  /\ IsFiniteSet(Markets) /\ CityOf \in [Markets -> Cities] /\ DayOf \in [Markets -> Nat]
  /\ ThresholdOf \in [Markets -> Int] /\ MaxPerCityDay \in Nat

\* What the cycle is given: its books, newest first, and figures within their ranges.
IsQuote(q) ==
  /\ q.history \in Seq(Books) /\ q.history # <<>>
  /\ q.trades.yes \in Nat /\ q.trades.no \in Nat /\ q.trades.size \in Nat
  /\ q.p \in 0 .. 100 /\ q.multiplier \in Nat
  /\ q.spread \in Nat /\ q.straddle \in Nat /\ q.addon \in Nat
  /\ q.sky.shock \in 0 .. 100

Decisions == {"TAKER_ALLOWED", "MAKER_ONLY", "WATCH", "NO_TRADE", "REDUCE", "EXIT",
              "HALT_CITY", "HALT_GLOBAL"}
NoEdge == [side |-> "none"]
NoDecision == [decision |-> "none"]

(***************************************************************************)
(* What the cycle knows to be open                                         *)
(***************************************************************************)
SameCityDay(m, n) == CityOf[m] = CityOf[n] /\ DayOf[m] = DayOf[n]
HeldHere(open, m) == {h \in open : h.market = m}
HeldThatDay(open, m) == {h \in open : SameCityDay(h.market, m)}

\* The city's day is full of other markets: other_market_position.
OthersFull(open, m) ==
  HeldHere(open, m) = {} /\ Cardinality(HeldThatDay(open, m)) >= MaxPerCityDay

\* _candidate_portfolio_risk_units: a contract in a new city is added.
CandidateRisk(open, m, regime) ==
  LET regimes == [c \in Cities |-> IF c = CityOf[m] THEN regime ELSE ""]
      Holding(h) == [city |-> CityOf[h.market], market |-> h.market, qty |-> h.qty]
      held == {Holding(h) : h \in open}
      new == [city |-> CityOf[m], market |-> m, qty |-> 100]
  IN  RiskUnits(IF \E h \in held : h.city = CityOf[m] THEN held ELSE held \union {new}, regimes)

(***************************************************************************)
(* The candidates: an edge with its micro and the reasons against it       *)
(***************************************************************************)
MakerStages == {"SHADOW_QUALIFIED", "LIVE_PILOT"}

Candidates(q, micros, cut, units) ==
  LET PriceOf(side) == IF micros[side].price = NoPrice THEN 100 ELSE Cents(micros[side].price)
      Bid(side) == BestBid(q.history[1], side)
      Taker(side) == Estimate(side, "taker", q.p, PriceOf(side), micros[side], cut, q.multiplier)
      Maker(side) ==
        Estimate(side, "maker", q.p, Cents(Bid(side)), micros[side], cut, q.multiplier)
      Against(side) == Vetoes(q.stage, q.kill, q.lag, micros[side], Taker(side), units)
  IN  {[edge |-> Taker(side), against |-> Against(side)] : side \in Outcomes} \union
      {[edge |-> Maker(side),
        against |-> Against(side)
          \union (IF micros[side].makerViable THEN {} ELSE {"maker_not_viable"})
          \union (IF q.stage \in MakerStages THEN {}
                  ELSE {"maker_not_enabled_for_qualification"})] :
         side \in {s \in Outcomes : Bid(s) # NoPrice}}

Edges(candidates, style) == {c.edge : c \in {d \in candidates : d.edge.style = style}}
Positive(candidates, style) ==
  {c.edge : c \in {d \in candidates :
                     d.edge.style = style /\ d.edge.ev > 0 /\ d.against = {}}}

\* max(..., key=executable EV): of equals the first, and "yes" comes first.
BestEdge(edges) ==
  CHOOSE e \in edges : \A f \in edges : e.ev > f.ev \/ (e.ev = f.ev /\ (e = f \/ e.side = "yes"))

(***************************************************************************)
(* The decision                                                            *)
(***************************************************************************)
ExitEv == -3000000
ReduceEv == -1000000

Outcome(decision, edge) == [decision |-> decision, edge |-> edge]

\* A market that is held is managed, never entered.
Manage(held, candidates, blocked, halted) ==
  LET same == CHOOSE e \in Edges(candidates, "taker") : e.side = held.side
      reversal == {e \in Positive(candidates, "taker") : e.side # held.side}
  IN  IF halted \/ blocked THEN Outcome("EXIT", same)
      ELSE IF reversal # {} THEN Outcome("EXIT", BestEdge(reversal))
      ELSE IF same.ev <= ExitEv THEN Outcome("EXIT", same)
      ELSE IF same.ev <= ReduceEv THEN Outcome("REDUCE", same)
      ELSE Outcome("NO_TRADE", same)

AnyRawEdge(candidates) == \E c \in candidates : c.edge.raw > 0
WatchIf(condition) == Outcome(IF condition THEN "WATCH" ELSE "NO_TRADE", NoEdge)

Enter(candidates) ==
  LET takers == Positive(candidates, "taker")
      makers == Positive(candidates, "maker")
  IN  IF takers # {}
      THEN Outcome(IF BestEdge(takers).ev >= MinExecutableEv THEN "TAKER_ALLOWED" ELSE "WATCH",
                   BestEdge(takers))
      ELSE IF makers # {} THEN Outcome("MAKER_ONLY", BestEdge(makers))
      ELSE WatchIf(AnyRawEdge(candidates))

\* The branches of run_market_decision_cycle, in the code's order.
Choose(q, open, m, candidates) ==
  LET halted == HardHalt(q.stage, q.kill, q.lag)
      blocked == RegimeBlocks(q.sky)
  IN  CASE HeldHere(open, m) # {} ->
             Manage(CHOOSE h \in HeldHere(open, m) : TRUE, candidates, blocked, halted)
        [] HeldHere(open, m) = {} /\ halted ->
             Outcome(IF q.kill THEN "HALT_GLOBAL" ELSE "HALT_CITY", NoEdge)
        [] HeldHere(open, m) = {} /\ ~ halted /\ blocked -> Outcome("NO_TRADE", NoEdge)
        [] HeldHere(open, m) = {} /\ ~ halted /\ ~ blocked /\ OthersFull(open, m) ->
             WatchIf(Positive(candidates, "taker") # {} \/ AnyRawEdge(candidates))
        [] OTHER -> Enter(candidates)

(***************************************************************************)
(* _threshold_concentration_summary: the nearest bet in another city       *)
(***************************************************************************)
Distance(a, b) == IF a > b THEN a - b ELSE b - a
Near(distance, step) == Max({0, 100 - step * distance})

\* Twice the weighted similarity, so that an eighth of a degree is exact.
Similarity(m, edge, sky, h, signal) ==
  70 * Near(Distance(edge.p, signal.p), 4)
  + 60 * Near(Distance(Distance(sky.gap, 0), Distance(signal.gap, 0)), 25)
  + 15 * (IF NoThreshold \in {ThresholdOf[m], ThresholdOf[h.market]} THEN 100
          ELSE Max({0, 200 - 25 * Distance(ThresholdOf[m], ThresholdOf[h.market])}))
  + 40 * (IF ActiveRegime(sky) = signal.regime THEN 100 ELSE 45)

ConcentrationLimit == 56000000    \* 0.28

Concentrated(m, edge, sky, open, signals) ==
  \E h \in {o \in open : CityOf[o.market] # CityOf[m] /\ signals[o.market] # NoDecision} :
    LET signal == signals[h.market]
        regimes == [c \in Cities |-> IF c = CityOf[m] THEN ActiveRegime(sky) ELSE ""]
    IN  /\ signal.side # "none"
        /\ Similarity(m, edge, sky, h, signal) * (IF signal.side = edge.side THEN 100 ELSE 30)
             * AdjustedCorrelation(CityOf[m], CityOf[h.market], regimes) >= ConcentrationLimit

(***************************************************************************)
(* _build_confidence_summary, in units of 1 / ConfidenceUnit               *)
(***************************************************************************)
ConfidenceUnit == 14400000

\* penalty: observation_lag_penalty and confidence_downgrade.
Confidence(q, edge, micro) ==
  LET model == Clamp(100 - edge.cut.uncertainty - edge.cut.regime - edge.cut.portfolio, 0, 100)
      execution == micro.score
                   + 12000 * (micro.stability + micro.durability + (100 - micro.ghost))
      base == IF HardHalt(q.stage, q.kill, q.lag) THEN 0
              ELSE CASE q.stage = "SHADOW_ONLY" -> 45 [] q.stage = "SHADOW_QUALIFIED" -> 65
                     [] q.stage = "LIVE_PILOT" -> 85 [] OTHER -> 25
  IN  48000 * model + execution + 48000 * Clamp(base - q.penalty, 0, 100)

(***************************************************************************)
(* run_market_decision_cycle: the explanation that is saved                *)
(***************************************************************************)
Explanation(decision, edge, q, micros) ==
  IF edge = NoEdge
  THEN [decision |-> decision, side |-> "none", spread |-> q.spread]
  ELSE [decision |-> decision, side |-> edge.side, spread |-> q.spread,
        p |-> edge.p, price |-> edge.price, raw |-> edge.raw, fee |-> edge.fee, ev |-> edge.ev,
        score |-> micros[edge.side].score, ghost |-> micros[edge.side].ghost,
        levels |-> micros[edge.side].levels, gap |-> q.sky.gap, regime |-> ActiveRegime(q.sky),
        confidence |-> Confidence(q, edge, micros[edge.side])]

Decide(q, open, signals, m) ==
  LET micros == [side \in Outcomes |-> AssessTaker(q.history, q.trades, q.minutes, side)]
      units == CandidateRisk(open, m, ActiveRegime(q.sky))
      cut == Haircuts(q.addon, q.spread, q.straddle, q.sky, units)
      chosen == Choose(q, open, m, Candidates(q, micros, cut, units))
  IN  Explanation(
        IF /\ chosen.decision = "TAKER_ALLOWED"
           /\ Concentrated(m, chosen.edge, q.sky, open, signals)
        THEN "WATCH" ELSE chosen.decision, chosen.edge, q, micros)
=============================================================================
