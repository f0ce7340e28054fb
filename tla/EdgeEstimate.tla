---------------------------- MODULE EdgeEstimate ----------------------------
(***************************************************************************)
(* What a contract is worth to the desk: the regime's and the portfolio's  *)
(* haircuts (engines/regime.py, portfolio/correlation.py), the executable  *)
(* EV of one contract (engines/ev.py) and the vetoes on it                 *)
(* (engines/risk.py).                                                      *)
(*                                                                         *)
(* Units: probabilities, haircuts, correlations and quantities in percent; *)
(* prices in cents; temperatures in degrees; EV and friction in 10^-8      *)
(* dollars, in which the products below are exact.                         *)
(***************************************************************************)
EXTENDS Microstructure, RegionPriors

CONSTANT Cities

ASSUME CitiesAssumption == IsFiniteSet(Cities)

Clamp(value, low, high) == Max({low, Min({high, value})})

(***************************************************************************)
(* The regime of a city's day.  A sky is [shock, clouds, marine: how many  *)
(* tenths of a degree they take; gap, reach, minutes: to the threshold and *)
(* to the end of the effective window; crossed].                           *)
(***************************************************************************)
Convective(sky) == sky.shock >= 50
Clouded(sky) == ~ Convective(sky) /\ sky.clouds >= 15
Marine(sky) == ~ Convective(sky) /\ ~ Clouded(sky) /\ sky.marine >= 20
Late(sky) ==
  /\ ~ Convective(sky) /\ ~ Clouded(sky) /\ ~ Marine(sky)
  /\ ~ sky.crossed /\ sky.minutes < 90

\* build_regime_assessment
ActiveRegime(sky) ==
  CASE Convective(sky) -> "CONVECTIVE_SHOCK"
    [] Clouded(sky) -> "CLOUD_SUPPRESSION_RISK"
    [] Marine(sky) -> "MARINE_INTRUSION"
    [] Late(sky) -> "LATE_DAY_DECAY"
    [] OTHER -> "CLEAR_STABLE_HEATING"

\* A convective haircut grows from 20 at a shock of 50 to 55 at 100.
RegimeHaircut(sky) ==
  CASE Convective(sky) -> 20 + (7 * Min({50, sky.shock - 50})) \div 10
    [] Clouded(sky) -> 20
    [] Marine(sky) -> 30
    [] Late(sky) -> IF sky.minutes < 60 THEN 40 ELSE 20
    [] OTHER -> 0

RegimeBlocks(sky) ==
  \/ Convective(sky) /\ sky.gap <= 3 /\ sky.minutes < 180
  \/ Late(sky) /\ (sky.minutes < 60 \/ (sky.reach <= 50 /\ sky.gap >= 3))

(***************************************************************************)
(* The portfolio.  A holding is [city, qty, ...].                          *)
(***************************************************************************)
Ridges == {"CLEAR_STABLE_HEATING"}
Shocks == {"CONVECTIVE_SHOCK", "CLOUD_SUPPRESSION_RISK", "MARINE_INTRUSION"}

\* _regime_correlation_multiplier; "" is a regime the caller does not know.
RegimeMultiplier(left, right) ==
  CASE left = "" \/ right = "" -> 100
    [] left \in Ridges /\ right \in Ridges -> 140
    [] OTHER -> IF {left, right} \intersect Shocks # {} THEN 85 ELSE 100

\* build_regime_adjusted_correlation_matrix
AdjustedCorrelation(a, b, regimes) ==
  IF a = b THEN 100
  ELSE Min({90, (PairwiseCorrelation(a, b) * RegimeMultiplier(regimes[a], regimes[b])) \div 100})

\* portfolio_risk_units, in hundredths: the root of the sum over all pairs.
RiskUnits(holdings, regimes) ==
  LET total == SumOver([pair \in holdings \X holdings |->
                 pair[1].qty * pair[2].qty
                   * AdjustedCorrelation(pair[1].city, pair[2].city, regimes)])
  IN  CHOOSE n \in 0 .. 100 * Cardinality(holdings) :
        100 * n * n <= total /\ total < 100 * (n + 1) * (n + 1)

PortfolioRiskLimit == 5000

\* _portfolio_haircut, cut to a whole percent
PortfolioHaircut(units) == Clamp((units - 50) \div 10, 0, 15)

\* _provider_disagreement_haircut, of hundredths of a degree
DisagreementHaircut(spread, straddle) ==
  LET effective == IF straddle > 0 THEN 100 * straddle ELSE 35 * spread
  IN  IF effective < 100 THEN 0 ELSE IF effective < 200 THEN 5
      ELSE IF effective <= 400 THEN 15 ELSE 25

(***************************************************************************)
(* One contract.                                                           *)
(***************************************************************************)
\* _fee_cost with the allowance of half of it for an early exit
FeeCost(price, multiplier) == 1050 * multiplier * price * (100 - price)

\* Mutant: the probability of yes is not turned for a contract on no.
BeliefInYes(side, p) == p

Belief(side, p) == IF side = "yes" THEN p ELSE 100 - p

\* The share of a raw edge the haircuts leave; a product of three percents.
Adjusted(raw, uncertainty, regime, portfolio) ==
  raw * (100 - uncertainty) * (100 - regime) * (100 - portfolio)

\* compute_edge_estimate; cut is [uncertainty, regime, portfolio].
Estimate(side, style, p, price, micro, cut, multiplier) ==
  LET raw == Belief(side, p) - price
      fee == FeeCost(price, multiplier)
      friction == fee + (IF style = "taker" THEN micro.slippage + micro.adverse
                                            ELSE micro.makerAdverse)
  IN  [side |-> side, style |-> style, p |-> Belief(side, p), price |-> price,
       raw |-> raw, fee |-> fee, cut |-> cut, friction |-> friction,
       ev |-> Adjusted(raw, cut.uncertainty, cut.regime, cut.portfolio) - friction]

\* The haircuts of compute_edge_estimate.
Haircuts(addon, spread, straddle, sky, units) ==
  [uncertainty |-> Min({65, 20 + addon + DisagreementHaircut(spread, straddle)}),
   regime |-> RegimeHaircut(sky), portfolio |-> PortfolioHaircut(units)]

\* kelly_contract_size: a contract, and one more for every two cents of EV.
KellySize(ev) ==
  IF ev <= 0 THEN 0 ELSE Clamp(1 + ev \div (2 * Cent), 1, 3)

(***************************************************************************)
(* build_risk_decision                                                     *)
(***************************************************************************)
MinRawEdge == 3
MinExecutableEv == 1500000
MaxFrictionShare == 600000   \* 0.60 of a cent of raw edge

\* friction_to_edge_ratio above 0.60; an edge of nothing is all friction.
FrictionOverload(e) == e.raw <= 0 \/ e.friction > e.raw * MaxFrictionShare

\* kill: the switch; lag: minutes by which observations are overdue.
HardHalt(stage, kill, lag) == kill \/ stage = "DISABLED" \/ lag > 20

Vetoes(stage, kill, lag, micro, e, units) ==
  micro.blocks \union
  {v \in {"manual_kill_switch", "city_disabled", "qualification_block", "observation_lag_halt",
          "raw_edge_below_floor", "insufficient_executable_ev", "friction_overload",
          "portfolio_risk_limit"} :
     \/ v = "manual_kill_switch" /\ kill
     \/ v = "city_disabled" /\ stage = "DISABLED"
     \/ v = "qualification_block"
          /\ stage \notin {"SHADOW_ONLY", "SHADOW_QUALIFIED", "LIVE_PILOT"}
     \/ v = "observation_lag_halt" /\ lag > 20
     \/ v = "raw_edge_below_floor" /\ e.raw < MinRawEdge
     \/ v = "insufficient_executable_ev" /\ e.ev < MinExecutableEv
     \/ v = "friction_overload" /\ FrictionOverload(e)
     \/ v = "portfolio_risk_limit" /\ units > PortfolioRiskLimit}
=============================================================================
