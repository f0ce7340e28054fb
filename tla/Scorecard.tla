------------------------------ MODULE Scorecard ------------------------------
(***************************************************************************)
(* The reports of update_qualification and of the live gates, computed     *)
(* from the rows of the store: analytics/shadow.py, drift.py,              *)
(* qualification.py, nowcast_validation.py, sensitivity.py and the summary *)
(* of settlement/corpus.py.                                                *)
(*                                                                         *)
(* A decision is a record of the fields the reports read; decisions are a  *)
(* bag in which each stands for Batch alike.  Prices and EVs are           *)
(* thousandths of a dollar, ratios per cent, errors tenths of a degree,    *)
(* scores per cent rounded down.  The code takes a measured zero for a     *)
(* missing value in several places ("x or default"): OrElse, MeanOr.       *)
(***************************************************************************)
EXTENDS Qualification, Sums, Bags, FiniteSetsExt

CONSTANTS Batch,        \* decisions, positions alike
          RowsPerMarket \* validation rows alike

ASSUME BatchAssumption == Batch \in Nat \ {0} /\ RowsPerMarket \in Nat \ {0}

Clamp(x) == Max({0, Min({100, x})})
CeilDiv(a, b) == -((-a) \div b)
OrElse(x, default) == IF x \in {0, Unknown} THEN default ELSE x

\* The mean of n values of that total: zero is missing only if it is exactly zero.
MeanOr(total, n, default) == IF total = 0 THEN default ELSE total \div n

Size(D) == SumOver(D)
Sum2(D, f(_)) == SumOver([d \in DOMAIN D |-> D[d] * f(d)])
Part(D, p(_)) == [d \in {x \in DOMAIN D : p(x)} |-> D[d]]
Takers(D) == Part(D, LAMBDA d : d.taker)
Selected(D) == Part(D, LAMBDA d : d.ev # Unknown)

\* sample_factor times the blended score: enough samples leave the score as it is.
Score(count, full, blended) == (Min({count, full}) * blended) \div full

(***************************************************************************)
(* build_shadow_report and build_drift_report.                             *)
(***************************************************************************)
\* mean - 0.841621 * pstdev / sqrt(n), rounded up, and cut to 0 .. 21: nothing tells
\* the values beyond apart; 0.841621^2 is 17/24.
Moments(D) == [n |-> Size(D), s |-> Sum2(D, LAMBDA d : d.ev),
               q |-> Sum2(D, LAMBDA d : d.ev * d.ev)]

EvAbove(t, m) ==
  LET g == m.s - t * m.n
  IN  g > 0 /\ 24 * Batch * m.n * g * g > 17 * (m.q * m.n - m.s * m.s)

Lower80(D) ==
  IF Size(D) = 0 THEN Unknown
  ELSE Min(UNION {{t \in 0 .. 21 : t < 21 => ~ EvAbove(t, m)} : m \in {Moments(D)}})

AvgLag(D) ==
  IF Size(D) = 0 THEN Unknown ELSE CeilDiv(Sum2(D, LAMBDA d : d.lag), Size(D))

\* The element int(0.95 n) of the n sorted lags.
P95Lag(D) ==
  IF Size(D) = 0 THEN Unknown
  ELSE Min({d.lag : d \in {x \in DOMAIN D :
             Batch * Size(Part(D, LAMBDA y : y.lag <= x.lag)) > (95 * Batch * Size(D)) \div 100}})

(***************************************************************************)
(* The scores that decide something.                                       *)
(***************************************************************************)
Composite(d) ==
  45 * d.tradability + 25 * d.quote + 20 * Clamp(100 - d.ghost)
    + 10 * Min({100, 50 * d.candidates})

DepthScore(D) ==
  IF Size(D) = 0 THEN 0
  ELSE Score(Batch * Size(D), 24, Sum2(D, Composite) \div (100 * Size(D)))

\* A mean slippage of zero counts as five cents.
SlippageScore(D) ==
  LET S == Selected(D)
      slip == MeanOr(Sum2(S, LAMBDA d : d.slip), Size(S), 50)
      adverse == MeanOr(Sum2(S, LAMBDA d : d.adverse), Size(S), 60)
  IN  IF Size(S) = 0 THEN 0
      ELSE Score(Batch * Size(S), 20,
             (65 * Clamp(100 - (100 * slip) \div 30) + 35 * Clamp(100 - 2 * adverse)) \div 100)

PnlOf(closed) == Total(closed)

\* closed: what each block of closed positions made, per position.
EvScore(fills, lower80, closed, predicted) ==
  LET low == OrElse(lower80, 0)
      n == Len(closed)
      realized == IF n = 0 THEN low ELSE MeanOr(PnlOf(closed), n, low)
      residual == IF n = 0 THEN 50
                  ELSE Clamp((5 * (PnlOf(closed) - predicted)) \div n + 50)
  IN  Score(Batch * fills, 20,
        (60 * Clamp(5 * low) + 25 * Clamp(5 * realized) + 15 * residual) \div 100)

\* _drawdown_score over the history of closed positions, in their order: the deepest
\* fall of the running total from an earlier value, its zero at the start included.
MaxDrawdown(closed) ==
  LET After(n) == Total(SubSeq(closed, 1, n))
      Times == 0 .. Len(closed)
  IN  Max({After(p[1]) - After(p[2]) : p \in {m \in Times \X Times : m[1] <= m[2]}})

DrawdownScore(closed) ==
  Score(Batch * Len(closed), 10, Clamp(100 - (Batch * MaxDrawdown(closed)) \div 10))

\* _calibration_score: cal = [samples, runs, mae, biases].
CalScore(cal) ==
  LET total == SumOver([b \in cal.biases |-> b])
      bias == IF cal.biases = {} THEN 50 ELSE MeanOr(total, Cardinality(cal.biases), 50)
      mae == OrElse(cal.mae, 80)
  IN  Score(cal.samples, 24,
        (60 * Clamp(100 - (100 * mae) \div 60) + 25 * Clamp(100 - (100 * bias) \div 40)
           + 15 * Min({100, 50 * Cardinality(cal.biases)})) \div 100)

CalSufficient(cal) == cal.samples >= 24 /\ cal.runs >= 4

\* The outcome of build_nowcast_validation_report, as _nowcast_material_failure and
\* _nowcast_near_baseline tell it apart: now = [samples, model, carry, linear, buckets].
BestBaseline(now) == Min({now.carry, now.linear})

Nowcast(now) ==
  IF now.samples < 24 THEN "insufficient"
  ELSE IF 100 * now.model > 110 * BestBaseline(now) THEN "redesign"
  ELSE IF now.model < BestBaseline(now) THEN "beats"
  ELSE IF BestBaseline(now) > 0 /\ 100 * now.model <= 103 * BestBaseline(now) THEN "near"
  ELSE "fails"

NowScore(now) ==
  IF Nowcast(now) = "redesign" THEN 0
  ELSE LET performance == IF now.samples = 0 \/ now.model = 0 THEN 0
                          ELSE Clamp((100 * BestBaseline(now)) \div now.model)
       IN  Score(now.samples, 24, (80 * performance + (2000 * now.buckets) \div 3) \div 100)

(***************************************************************************)
(* build_sensitivity_matrix: a parameter blocks while the sample is small  *)
(* and the mean EV moves by 5% or more at the least of its values.  For    *)
(* the EV floor the least value is the loosest one.                        *)
(***************************************************************************)
Moves(D, base(_), least(_)) ==
  LET B == Part(D, base)
      L == Part(D, least)
      b == Sum2(B, LAMBDA d : d.ev)
      l == Sum2(L, LAMBDA d : d.ev)
  IN  \/ Size(B) = 0 \/ Size(L) = 0 \/ b = 0
      \/ 20 * Max({l * Size(B) - b * Size(L), b * Size(L) - l * Size(B)})
           >= Max({b, -b}) * Size(L)

Parameters == {"min_ev", "max_friction", "lag"}

Sensitive(S, parameter) ==
  CASE parameter = "min_ev" ->
         Moves(S, LAMBDA d : OrElse(d.ev, -999000) >= 15, LAMBDA d : OrElse(d.ev, -999000) >= 5)
    [] parameter = "max_friction" ->
         Moves(S, LAMBDA d : OrElse(d.friction, 99900) <= 60,
                  LAMBDA d : OrElse(d.friction, 99900) <= 40)
    [] parameter = "lag" ->
         Moves(S, LAMBDA d : OrElse(d.lag, 999) <= 20, LAMBDA d : OrElse(d.lag, 999) <= 10)

Blocking(D) == {p \in Parameters : Batch * Size(D) < 120 /\ Sensitive(Selected(D), p)}

(***************************************************************************)
(* summarize_validation_entries over the rows, and the whole of the        *)
(* evidence in two parts.  A row is "none", "matched", "mismatch" or "unresolved".      *)
(***************************************************************************)
RowsThat(rows, verdicts) ==
  RowsPerMarket * Cardinality({mk \in DOMAIN rows : rows[mk] \in verdicts})

\* What the reports say of the decisions; with everything else: fills are batches of
\* paper fills, forecast the reports on calibration, nowcast and provider errors.
DecisionFigures(D) ==
  [decisions |-> Batch * Size(D), takers |-> Batch * Size(Takers(D)),
   lower80 |-> Lower80(Takers(D)), avgLag |-> AvgLag(D), p95Lag |-> P95Lag(D),
   depthScore |-> DepthScore(D), slipScore |-> SlippageScore(D), blocking |-> Blocking(D)]

EvidenceOf(figures, fills, closed, predicted, rows, forecast) ==
  [decisions    |-> figures.decisions, takers |-> figures.takers,
   lower80      |-> figures.lower80, avgLag |-> figures.avgLag, p95Lag |-> figures.p95Lag,
   depthScore   |-> figures.depthScore, slipScore |-> figures.slipScore,
   blocking     |-> figures.blocking,
   validated    |-> RowsThat(rows, {"matched", "mismatch", "unresolved"}),
   resolved     |-> RowsThat(rows, {"matched", "mismatch"}),
   matched      |-> RowsThat(rows, {"matched"}),
   revised      |-> RowsThat(rows, {"matched", "mismatch"}),
   unresolved   |-> RowsThat(rows, {"unresolved"}),
   critical     |-> RowsThat(rows, {"mismatch"}),
   errorSamples |-> forecast.errorSamples, bestMae |-> forecast.bestMae,
   fills        |-> Batch * fills, settled |-> Batch * Len(closed),
   pnl          |-> Batch * PnlOf(closed),
   winRate      |-> IF closed = <<>> THEN 0
                    ELSE CeilDiv(100 * Cardinality({i \in DOMAIN closed : closed[i] > 0}), Len(closed)),
   calSamples   |-> forecast.cal.samples, calRuns |-> forecast.cal.runs,
   calMae       |-> forecast.cal.mae, calSufficient |-> CalSufficient(forecast.cal),
   calScore     |-> CalScore(forecast.cal),
   nowcast      |-> Nowcast(forecast.now), nowScore |-> NowScore(forecast.now),
   evScore      |-> EvScore(fills, figures.lower80, closed, predicted),
   drawScore    |-> DrawdownScore(closed)]
=============================================================================
