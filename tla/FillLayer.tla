------------------------------ MODULE FillLayer ------------------------------
(***************************************************************************)
(* Four readings of one saved decision, each written apart with gates of   *)
(* its own: the fill layer that keeps the paper book (engines/shadow.py,   *)
(* engines/fill_simulation.py), the recommendation log                     *)
(* (analytics/recommendation_log.py), the reason the cycle notes for a     *)
(* decision that was not filled (tools/run_city_cycle.py) and the survey's *)
(* selection (analytics/volume_selection.py).                              *)
(***************************************************************************)
EXTENDS Decision, SequencesExt

CONSTANT CapitalCap               \* daily_capital_cap_usd, in cents
ASSUME CapitalAssumption == CapitalCap \in Nat

HasEdge(d) == d.side # "none"

(***************************************************************************)
(* The fill layer                                                          *)
(***************************************************************************)
\* _scenario_fill_ratio and build_fill_simulations of the base scenario for a taker,
\* in whole percents: what is filled of one contract.
BaseFill(d) ==
  Clamp(((d.score \div 12000) * (10000 - 45 * d.ghost)) \div 10000
          - 8 * Max({0, d.levels - 1}), 0, 100)

Disagreement(d) == Distance(d.p, d.price)

\* Gates 1 to 5 of apply_shadow_decision.
Gates(d) ==
  /\ d.decision = "TAKER_ALLOWED"
  /\ d.p \in 70 .. 97
  /\ d.spread <= 10
  /\ d.ev >= 500000
  /\ 100 * d.score >= 55 * ScoreUnit
  /\ Disagreement(d) <= 99

\* Gate 6 reads the paper book as it is now; it lets no market be entered twice.
CityGate(open, m) ==
  /\ HeldHere(open, m) = {}
  /\ Cardinality({h.market : h \in HeldThatDay(open, m)}) < MaxPerCityDay

(***************************************************************************)
(* The recommendation log                                                  *)
(***************************************************************************)
GateReasons(d) ==
  IF ~ HasEdge(d) THEN IF d.spread > 10 THEN {"model_consensus_too_weak"} ELSE {}
  ELSE {r \in {"below_favorite_floor", "near_certain_capped", "ev_below_floor",
               "model_consensus_too_weak", "tradability_below_floor",
               "high_market_disagreement"} :
          \/ r = "below_favorite_floor" /\ d.p < 70
          \/ r = "near_certain_capped" /\ d.p > 97
          \/ r = "ev_below_floor" /\ d.ev < 500000
          \/ r = "model_consensus_too_weak" /\ d.spread > 10
          \/ r = "tradability_below_floor" /\ 100 * d.score < 55 * ScoreUnit
          \/ r = "high_market_disagreement" /\ Disagreement(d) > 30}

\* _classify_recommendation
Classify(d) ==
  CASE d.decision = "TAKER_ALLOWED" /\ GateReasons(d) = {} -> "BET"
    [] d.decision = "TAKER_ALLOWED" /\ GateReasons(d) = {"high_market_disagreement"} -> "REVIEW"
    [] d.decision = "TAKER_ALLOWED"
         /\ GateReasons(d) \notin {{}, {"high_market_disagreement"}} -> "WATCH_RECOMMEND"
    [] d.decision = "WATCH" /\ HasEdge(d) -> IF d.raw > 2 THEN "WATCH_RECOMMEND" ELSE "SKIP"
    [] OTHER -> "SKIP"

\* record_recommendation keeps no row of these.
Recorded(d) == d.decision \notin {"HALT_CITY", "HALT_GLOBAL", "EXIT", "REDUCE"}

(***************************************************************************)
(* The reason noted in the cycle                                           *)
(***************************************************************************)
\* For a decision with an edge; its limits on the spread and on the disagreement are
\* not the fill layer's.
Blocker(d) ==
  IF d.p \notin 70 .. 97 THEN "outside_favorite_range"
  ELSE IF d.ev < 500000 THEN "ev_below_floor"
  ELSE IF Disagreement(d) > 30 THEN "high_market_disagreement"
  ELSE IF d.spread > 8 THEN "model_consensus_too_weak" ELSE "fill_layer_blocked"

(***************************************************************************)
(* The survey                                                              *)
(***************************************************************************)
\* Mutant: one filter's comparison is turned around.
AcceptsNearCertain(d) ==
  /\ d.decision = "TAKER_ALLOWED" /\ HasEdge(d) /\ d.p >= 70
  /\ d.ev >= 500000 /\ d.spread <= 10 /\ 100 * d.score >= 55 * ScoreUnit

\* min_overall_confidence, which only the survey asks for
Confident(d) == 100 * d.confidence >= 35 * ConfidenceUnit

\* _candidate_from_payload
Accepts(d) ==
  /\ d.decision = "TAKER_ALLOWED" /\ HasEdge(d)
  /\ d.p >= 70 /\ d.p <= 97
  /\ d.ev >= 500000
  /\ d.spread <= 10
  /\ 100 * d.score >= 55 * ScoreUnit
  /\ Confident(d)
  /\ Disagreement(d) <= 99

\* _eligible_market_today
Eligible(m, today) == DayOf[m] \in today .. today + 2

\* The newest decision of each market that is not held, accepted.
Accepted(latest, open, today) ==
  {m \in Markets : /\ HeldHere(open, m) = {} /\ Eligible(m, today)
                   /\ latest[m] # NoDecision /\ Accepts(latest[m])}

\* Mutant: a candidate is taken while the cap is not used up.
FitsUnderCap(cost, price) == cost <= CapitalCap
Fits(cost, price) == cost + price <= CapitalCap

\* What a candidate that fits does to the cost and the markets so far.
Take(a, m, price) ==
  IF Fits(a.cost, price) THEN [cost |-> a.cost + price, markets |-> a.markets \union {m}] ELSE a

\* The orders the sort by EV may leave them in: equals stay as the query gave them.
Rankings(ms, latest) ==
  {r \in SetToSeqs(ms) : \A i, j \in DOMAIN r : i < j => latest[r[i]].ev >= latest[r[j]].ev}

\* build_volume_grinder_selection: in that order, the markets the day's capital still
\* pays for; one that does not fit is passed over.
Selection(ranked, latest) ==
  LET after[n \in 0 .. Len(ranked)] ==
        IF n = 0 THEN [cost |-> 0, markets |-> {}]
        ELSE Take(after[n - 1], ranked[n], latest[ranked[n]].price)
  IN  after[Len(ranked)]
=============================================================================
