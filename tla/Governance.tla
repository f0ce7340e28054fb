----------------------------- MODULE Governance -----------------------------
(***************************************************************************)
(* How a city is promoted and demoted: the half-hourly cycle that reads    *)
(* its qualification and later saves a decision, and the tools that        *)
(* rewrite the validation rows, settle paper positions and then judge the  *)
(* city on what the store holds (tools/update_qualification.py,            *)
(* governance/qualification.py).  tools/refresh_empirical_blockers.py runs *)
(* them one after the other, whenever the operator starts it.              *)
(*                                                                         *)
(* Batch decisions with their paper fills and positions are one, and so    *)
(* are RowsPerMarket validation rows.                                      *)
(***************************************************************************)
EXTENDS Scorecard

CONSTANTS
  Kinds,            \* what a market may look like to the cycle
  MarketGroups,     \* groups of settled markets
  Pnls,             \* what a position may make, in thousandths of a dollar
  Truths,           \* how the groups may validate at first
  Forecasts,        \* the reports on calibration, nowcast and provider errors
  Profile,          \* select_live_gate_profile of the city
  MaxDecisions,     \* bound: batches of decisions
  MaxChanges,       \* bound: changes of the exchange's results and of the reports
  MaxKills          \* bound: corpus validations killed

Looks == [ev : Int, friction : Int, lag : Int, tradability : Int, quote : Int, ghost : Int,
          candidates : Int, slip : Int, adverse : Int]

Reports == [errorSamples : Nat, bestMae : Int,
            cal : [samples : Nat, runs : Nat, mae : Int, biases : SUBSET Int],
            now : [samples : Nat, model : Nat, carry : Nat, linear : Nat, buckets : Nat]]

ASSUME GovernanceAssumption ==
  /\ Profile \in Profiles /\ Pnls \subseteq Int /\ IsFiniteSet(MarketGroups)
  /\ Kinds \subseteq Looks
  /\ Forecasts \subseteq Reports /\ \A f \in Forecasts : IsFiniteSet(f.cal.biases)
  /\ Truths \subseteq [MarketGroups -> {"none", "matched", "mismatch", "unresolved"}]
  /\ MaxDecisions \in Nat /\ MaxChanges \in Nat /\ MaxKills \in Nat

VARIABLES
  decisions,        \* decisions: a bag
  fills,            \* shadow_fills: the predicted EV of each batch, in order
  closed,           \* what the settled positions made, in order of settlement
  rows,             \* settlement_validations
  qual,             \* qualification_states
  cycle,            \* what the running cycle read: may the city trade?
  tool,             \* the running tool of a refresh
  truth,            \* external: how each group of markets would validate now
  forecast,         \* external: the reports on forecasts
  changes, kills,
  judged            \* history: the truth the rows of the last update stand for

store == <<decisions, fills, closed, rows, qual>>
world == <<truth, forecast, changes>>
vars == <<store, cycle, tool, world, kills, judged>>

Verdicts == {"matched", "mismatch", "unresolved"}
NoJudgement == [truth |-> [g \in MarketGroups |-> "none"], cut |-> FALSE]

PredictedOf(n) == Total(SubSeq(fills, 1, n))

\* What update_qualification is about to judge the city on.
Judging == tool.phase = "judge"
EvidenceOn(made) ==
  EvidenceOf(tool.figures, Len(fills), made, PredictedOf(Len(made)), rows, forecast)
Evidence == EvidenceOn(closed)

\* ensure_default_qualification
Ensured == IF qual = "none" THEN "SHADOW_ONLY" ELSE qual

Init ==
  /\ decisions = EmptyBag /\ fills = <<>> /\ closed = <<>>
  /\ rows = [g \in MarketGroups |-> "none"] /\ qual = "none"
  /\ cycle = "idle" /\ tool = [phase |-> "none", cut |-> FALSE, truth |-> NoJudgement.truth]
  /\ truth \in Truths /\ forecast \in Forecasts
  /\ changes = 0 /\ kills = 0 /\ judged = NoJudgement

(***************************************************************************)
(* The cycle.                                                              *)
(***************************************************************************)
\* build_risk_decision of the selected taker side, without the floor on the EV (mutant).
TakerAllowedAnyEv(k, mayTrade) ==
  mayTrade /\ k.lag <= 20 /\ k.friction <= 60

\* build_risk_decision of the selected taker side: nothing vetoes it.
TakerAllowed(k, mayTrade) ==
  mayTrade /\ k.lag <= 20 /\ k.friction <= 60 /\ k.ev >= 15

ReadQualification ==
  /\ cycle = "idle" /\ Size(decisions) < MaxDecisions
  /\ qual' = Ensured /\ cycle' = (IF MayTrade(Ensured) THEN "trade" ELSE "watch")
  /\ UNCHANGED <<decisions, fills, closed, rows, tool, world, kills, judged>>

\* The decision is saved; a taker decision is filled on paper unless a gate of
\* apply_shadow_decision refuses it.
SaveDecision(k) ==
  LET taker == TakerAllowed(k, cycle = "trade")
      d == [taker |-> taker, ev |-> k.ev, friction |-> k.friction, lag |-> k.lag,
            tradability |-> k.tradability, quote |-> k.quote, ghost |-> k.ghost,
            candidates |-> IF taker THEN k.candidates ELSE 0,
            slip |-> k.slip, adverse |-> k.adverse]
  IN /\ cycle # "idle" /\ cycle' = "idle"
     /\ decisions' = decisions (+) SetToBag({d})
     /\ fills' \in {fills} \union (IF taker THEN {Append(fills, k.ev)} ELSE {})
     /\ UNCHANGED <<closed, rows, qual, tool, world, kills, judged>>

(***************************************************************************)
(* A run of refresh_empirical_blockers, one tool after the other.          *)
(***************************************************************************)
\* validate_settlement_corpus deletes the rows of the city and saves them one by one.
ClearRows ==
  /\ tool.phase = "none"
  /\ rows' = [g \in MarketGroups |-> "none"]
  /\ tool' = [phase |-> "corpus", cut |-> FALSE, truth |-> truth]
  /\ UNCHANGED <<decisions, fills, closed, qual, cycle, world, kills, judged>>

SaveRows(g) ==
  /\ tool.phase = "corpus" /\ rows[g] # tool.truth[g]
  /\ rows' = [rows EXCEPT ![g] = tool.truth[g]]
  /\ UNCHANGED <<decisions, fills, closed, qual, cycle, tool, world, kills, judged>>

EndCorpus ==
  /\ tool.phase = "corpus" /\ rows = tool.truth
  /\ tool' = [tool EXCEPT !.phase = "reconcile"]
  /\ UNCHANGED <<store, cycle, world, kills, judged>>

KillCorpus ==
  /\ tool.phase = "corpus" /\ kills < MaxKills
  /\ tool' = [tool EXCEPT !.phase = "reconcile", !.cut = TRUE]
  /\ kills' = kills + 1
  /\ UNCHANGED <<store, cycle, world, judged>>

\* Mutant: a batch may be settled again.
ReconcileAgain ==
  /\ tool.phase = "reconcile" /\ tool' = [tool EXCEPT !.phase = "update"]
  /\ closed' \in {closed} \union
       (IF fills # <<>> THEN {Append(closed, p) : p \in Pnls} ELSE {})
  /\ UNCHANGED <<decisions, fills, rows, qual, cycle, world, kills, judged>>

\* reconcile_shadow_positions: the next open batch is settled, or none is.
Reconcile ==
  /\ tool.phase = "reconcile" /\ tool' = [tool EXCEPT !.phase = "update"]
  /\ closed' \in {closed} \union
       (IF Len(closed) < Len(fills) THEN {Append(closed, p) : p \in Pnls} ELSE {})
  /\ UNCHANGED <<decisions, fills, rows, qual, cycle, world, kills, judged>>

\* update_qualification reads the decisions first ...
ReadDecisions ==
  /\ tool.phase = "update" /\ qual' = Ensured
  /\ UNCHANGED <<decisions, fills, closed, rows, cycle, world, kills, judged>>
  /\ tool' = [phase |-> "judge", cut |-> tool.cut, truth |-> tool.truth,
              figures |-> DecisionFigures(decisions)]

\* Mutant: a demoted city stays demoted.
NextStateSticky(current, next) ==
  IF current = "OBSERVE_ONLY" THEN current ELSE next

\* ... then the rest; apply_qualification_update: the current state plays no part.
NextState(current, next) == next

Judge ==
  /\ tool.phase = "judge"
  /\ judged' = [truth |-> tool.truth, cut |-> tool.cut]
  /\ tool' = [phase |-> "none", cut |-> FALSE, truth |-> NoJudgement.truth]
  /\ UNCHANGED <<decisions, fills, closed, rows, cycle, world, kills>>
  /\ \E e \in {Evidence} : qual' = NextState(qual, Recommend(e, Profile))

(***************************************************************************)
(* Outside: markets settle, reports are corrected, forecasts get better or *)
(* worse.                                                                  *)
(***************************************************************************)
WorldChanges ==
  /\ changes < MaxChanges /\ changes' = changes + 1
  /\ \/ /\ \E g \in MarketGroups : \E v \in Verdicts : truth' = [truth EXCEPT ![g] = v]
        /\ UNCHANGED forecast
     \/ forecast' \in Forecasts /\ UNCHANGED truth
  /\ UNCHANGED <<store, cycle, tool, kills, judged>>

RunGoesOn ==
  \/ (\E g \in MarketGroups : SaveRows(g)) \/ EndCorpus
  \/ Reconcile \/ ReadDecisions \/ Judge

Next == \/ ReadQualification \/ (\E k \in Kinds : SaveDecision(k))
        \/ ClearRows \/ RunGoesOn \/ KillCorpus \/ WorldChanges

\* A run that was started ends, each of its tools ending or being killed; nothing
\* makes the operator start another.
Spec == Init /\ [][Next]_vars /\ WF_vars(RunGoesOn)

(***************************************************************************)
(*                               PROPERTIES                                *)
(***************************************************************************)
\* The types of the variables, and the store's rows hang together.
TypeOK ==
  /\ Size(decisions) \in 0 .. MaxDecisions /\ fills \in Seq(Int) /\ closed \in Seq(Pnls)
  /\ rows \in [MarketGroups -> Verdicts \union {"none"}]
  /\ qual \in States \union {"none"} /\ cycle \in {"idle", "trade", "watch"}
  /\ tool.phase \in {"none", "corpus", "reconcile", "update", "judge"}
  /\ Len(closed) <= Len(fills) /\ Len(fills) <= Size(Takers(decisions))

\* While some market settled against its report, judged on a corpus that was written
\* to the end, the city is not promoted: not under any other evidence, however good.
MismatchBlocks ==
  ~ judged.cut /\ (\E g \in MarketGroups : judged.truth[g] = "mismatch")
    => qual \notin Promoted

\* A city whose live gates all pass is never recommended for observation only: the
\* two rule sets, written apart and with thresholds of their own, do not contradict.
GatesAgree ==
  Judging => \A e \in {Evidence} : \A p \in Profiles :
    AllPassed(e, p) => Recommend(e, p) # "OBSERVE_ONLY"

\* Had a settled position made more, the city would be judged no lower, whatever that
\* does to the profit, the wins, the paper EV score and the drawdown, each with limits of
\* its own.  Excepted is a record that made exactly nothing, which counts as one not
\* measured: there the EV score takes the predicted EV (analytics/qualification.py:205),
\* and a cent of profit can cost LIVE_PILOT.
BetterNeverDemotes ==
  Judging /\ PnlOf(closed) # 0 => \A e \in {Evidence} :
    \A i \in DOMAIN closed, x \in Pnls, p \in Profiles : x >= closed[i] =>
      Rank(Recommend(e, p)) <= Rank(Recommend(EvidenceOn([closed EXCEPT ![i] = x]), p))

\* The demotion for a negative paper EV can never happen: the EV it looks at is the
\* predicted one of the taker decisions, which passed the floor when they were made.
NeverDemotedForEv == Judging => ~ ShadowEvNegative(Evidence)

\* A demotion is not for ever: if the operator keeps running the tool, while markets
\* validate, lags are small and the forecasts are good, the city is allowed to trade
\* again, whatever the record of its past says.
Clean ==
  /\ \A g \in MarketGroups : truth[g] = "matched"
  /\ forecast.bestMae <= 50 /\ \A d \in DOMAIN decisions : d.lag <= 12

Requalifies == []<><<ClearRows>>_vars /\ <>[]Clean => <>[]MayTrade(qual)
=============================================================================
