---------------------------- MODULE Qualification ----------------------------
(***************************************************************************)
(* The two rule sets that judge a city on one body of evidence: the ladder *)
(* of qualification states (governance/qualification.py) and the live      *)
(* gates (analytics/live_gating.py).  Neither remembers anything.          *)
(*                                                                         *)
(* Evidence is a record.  Counts are numbers; scores are per cent; lags    *)
(* are minutes; EVs are thousandths of a dollar; errors are tenths of a    *)
(* degree; Unknown stands for None.                                        *)
(***************************************************************************)
EXTENDS Integers, FiniteSets

Unknown == -1000000

States == {"OBSERVE_ONLY", "SHADOW_ONLY", "SHADOW_QUALIFIED", "LIVE_PILOT"}
Promoted == {"SHADOW_QUALIFIED", "LIVE_PILOT"}
Profiles == {"STRICT_PRODUCTION", "NYC_MVP_LIVE"}
Nowcasts == {"absent", "insufficient", "redesign", "beats", "near", "fails"}

Counts == {"validated", "resolved", "matched", "revised", "unresolved", "critical",
           "errorSamples", "decisions", "takers", "fills", "settled", "calSamples",
           "calRuns", "calScore", "nowScore", "depthScore", "slipScore", "evScore",
           "drawScore", "winRate"}
Measures == {"bestMae", "avgLag", "p95Lag", "lower80", "pnl", "calMae"}

EvidenceTyped(e) ==
  /\ Counts \union Measures \union {"nowcast", "calSufficient", "blocking"} = DOMAIN e
  /\ \A f \in Counts \union Measures : e[f] \in Int
  /\ e.nowcast \in Nowcasts /\ e.calSufficient \in BOOLEAN
  /\ e.blocking \subseteq {"min_ev", "max_friction", "lag"}

\* _settlement_signal_is_weak: the best provider's daily error is above 5 F.
SettlementWeak(e) ==
  e.errorSamples >= 10 /\ e.bestMae # Unknown /\ e.bestMae > 50

\* _nowcast_material_failure
NowcastFails(e) == e.nowcast \in {"redesign", "fails"}

\* Mutant: the limit itself is too much.
LagUnstableAtLimit(e) ==
  e.avgLag # Unknown /\ e.p95Lag # Unknown /\ (e.avgLag >= 12 \/ e.p95Lag >= 20)

LagUnstable(e) ==
  e.avgLag # Unknown /\ e.p95Lag # Unknown /\ (e.avgLag > 12 \/ e.p95Lag > 20)

LagStable(e) ==
  e.avgLag # Unknown /\ e.p95Lag # Unknown /\ e.avgLag <= 12 /\ e.p95Lag <= 20

\* eligible_for_shadow_only
SettlementReady(e) == e.resolved >= 50 /\ e.critical = 0 /\ e.unresolved = 0

(***************************************************************************)
(* The NYC profile.                                                        *)
(***************************************************************************)
NycCorpusComplete(e) ==
  e.resolved >= 50 /\ e.matched = e.resolved /\ e.revised = e.resolved /\ e.unresolved = 0

NycCalibrated(e) ==
  e.calSamples >= 10 /\ e.calRuns >= 2 /\ e.calMae # Unknown /\ e.calMae <= 15

NycPilotReady(e) ==
  /\ e.decisions >= 75 /\ e.takers >= 15 /\ e.lower80 # Unknown /\ e.lower80 > 20
  /\ e.settled >= 25 /\ e.pnl > 0 /\ e.winRate > 55
  /\ e.nowScore >= 80 /\ e.calScore >= 30 /\ e.depthScore >= 25

RecommendNyc(e) ==
  IF \/ e.critical > 0
     \/ LagUnstable(e)
     \/ NowcastFails(e) /\ SettlementWeak(e)
     \/ ~ NycCorpusComplete(e)
  THEN "OBSERVE_ONLY"
  ELSE IF NycCalibrated(e) /\ NycPilotReady(e) THEN "LIVE_PILOT" ELSE "SHADOW_ONLY"

(***************************************************************************)
(* The strict profile: the order of the early returns matters, because a   *)
(* thin record keeps a city in the shadow before its faults are looked at. *)
(***************************************************************************)
FewErrors(e) == e.errorSamples < 10

ForecastWeak(e) ==
  (e.validated < 50 \/ ~ SettlementReady(e)) /\ SettlementWeak(e)

RecordPending(e) ==
  (e.validated < 50 \/ ~ SettlementReady(e)) /\ FewErrors(e)

\* Mutant: the drawdown score is read as a drawdown.
LivePilotReadyDrawdown(e) ==
  /\ e.fills >= 100 /\ e.settled >= 20 /\ e.lower80 # Unknown /\ e.lower80 > 0
  /\ e.calScore >= 70 /\ e.nowScore >= 70 /\ e.depthScore >= 60
  /\ e.slipScore >= 60 /\ e.evScore >= 70 /\ e.drawScore < 55

LivePilotReady(e) ==
  /\ e.fills >= 100 /\ e.settled >= 20 /\ e.lower80 # Unknown /\ e.lower80 > 0
  /\ e.calScore >= 70 /\ e.nowScore >= 70 /\ e.depthScore >= 60
  /\ e.slipScore >= 60 /\ e.evScore >= 70 /\ e.drawScore >= 55

ShadowQualifiedReady(e) ==
  /\ e.fills >= 20 /\ e.takers >= 20 /\ e.lower80 # Unknown /\ e.lower80 > 0
  /\ e.calScore >= 45 /\ e.depthScore >= 40 /\ e.slipScore >= 35 /\ e.evScore >= 45
  /\ e.nowcast \in {"absent", "insufficient", "beats"}

ShadowEvNegative(e) == e.fills >= 20 /\ e.lower80 # Unknown /\ e.lower80 <= 0

\* What is left when nothing demotes the city.
Climb(e) ==
  IF LivePilotReady(e) THEN "LIVE_PILOT"
  ELSE IF ShadowQualifiedReady(e) THEN "SHADOW_QUALIFIED" ELSE "SHADOW_ONLY"

\* Mutant: a mismatch is left to settlement_ready.
RecommendStrictMismatchBlind(e) ==
  IF ForecastWeak(e) THEN "OBSERVE_ONLY"
  ELSE IF RecordPending(e) THEN "SHADOW_ONLY"
  ELSE IF LagUnstable(e) THEN "OBSERVE_ONLY"
  ELSE Climb(e)

RecommendStrict(e) ==
  IF ForecastWeak(e) THEN "OBSERVE_ONLY"
  ELSE IF RecordPending(e) THEN "SHADOW_ONLY"
  ELSE IF e.critical > 0 \/ LagUnstable(e) THEN "OBSERVE_ONLY"
  ELSE IF \/ e.calSufficient /\ e.calScore < 55
          \/ NowcastFails(e) /\ SettlementWeak(e)
       THEN "SHADOW_ONLY"
  ELSE IF ShadowEvNegative(e) THEN "OBSERVE_ONLY"
  ELSE Climb(e)

Recommend(e, profile) ==
  IF profile = "NYC_MVP_LIVE" THEN RecommendNyc(e) ELSE RecommendStrict(e)

(***************************************************************************)
(* build_live_gate_report: the gates a manual live plan has to pass.  All  *)
(* decisions have the one schema version the code writes.                  *)
(***************************************************************************)
StrictGates(e) ==
  /\ e.fills >= 100
  /\ e.lower80 # Unknown /\ e.lower80 > 0
  /\ e.settled >= 20 /\ e.pnl > 0
  /\ LagStable(e)
  /\ SettlementReady(e)
  /\ e.nowcast = "beats" /\ e.calSufficient
  /\ e.blocking = {}

NycGates(e) ==
  /\ e.decisions >= 75 /\ e.takers >= 20
  /\ e.lower80 # Unknown /\ e.lower80 > 20
  /\ e.settled >= 75 /\ e.pnl > 0 /\ e.winRate > 58
  /\ LagStable(e)
  /\ NycCorpusComplete(e) /\ e.critical = 0
  /\ e.nowcast = "beats" /\ NycCalibrated(e)
  /\ e.blocking \subseteq {"lag"}

AllPassed(e, profile) ==
  IF profile = "NYC_MVP_LIVE" THEN NycGates(e) ELSE StrictGates(e)

Rank(state) ==
  CASE state = "OBSERVE_ONLY" -> 0 [] state = "SHADOW_ONLY" -> 1
    [] state = "SHADOW_QUALIFIED" -> 2 [] state = "LIVE_PILOT" -> 3

\* build_risk_decision's qualification_ok, and maker_enabled of the decision cycle.
MayTrade(state) == state \in {"SHADOW_ONLY", "SHADOW_QUALIFIED", "LIVE_PILOT"}
MakerEnabled(state) == state \in Promoted
=============================================================================
