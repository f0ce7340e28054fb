------------------------- MODULE Governance_proofs --------------------------
(***************************************************************************)
(* What holds of the two qualification rule sets for every body of         *)
(* evidence, and that a city one of whose markets settled against its      *)
(* report is not promoted by an update that saw the whole corpus.          *)
(***************************************************************************)
EXTENDS Governance, Sums_proofs

-----------------------------------------------------------------------------
(* The two rule sets *)

\* The rows an evidence counts are among the rows it validated.
Consistent(e) == EvidenceTyped(e) /\ e.resolved <= e.validated

\* A critical mismatch keeps a city from promotion under both profiles, whatever else
\* the evidence says: recommend_qualification_update.
THEOREM MismatchNotPromoted ==
  ASSUME NEW e, NEW p, e.critical > 0
  PROVE  Recommend(e, p) \notin Promoted
<1>1. CASE p = "NYC_MVP_LIVE"
  BY <1>1 DEF Recommend, RecommendNyc, Promoted
<1>2. CASE p # "NYC_MVP_LIVE"
  BY <1>2 DEF Recommend, RecommendStrict, Promoted
<1> QED BY <1>1, <1>2

\* A city that passes every live gate of its profile is not one to be observed only.
THEOREM GatesNeverContradict ==
  ASSUME NEW e, Consistent(e), NEW p \in Profiles, AllPassed(e, p)
  PROVE  Recommend(e, p) # "OBSERVE_ONLY"
<1>1. /\ e.validated \in Int /\ e.resolved \in Int /\ e.critical \in Int
      /\ e.unresolved \in Int /\ e.lower80 \in Int /\ e.avgLag \in Int /\ e.p95Lag \in Int
      /\ e.resolved <= e.validated
  BY DEF Consistent, EvidenceTyped, Counts, Measures
<1>2. CASE p = "NYC_MVP_LIVE"
  BY <1>1, <1>2 DEF AllPassed, NycGates, Recommend, RecommendNyc, LagStable, LagUnstable,
                    NowcastFails, NycCorpusComplete
<1>3. CASE p # "NYC_MVP_LIVE"
  <2>1. StrictGates(e)
    BY <1>3 DEF AllPassed
  <2>2. /\ ~ ForecastWeak(e) /\ e.critical = 0 /\ ~ LagUnstable(e)
        /\ ~ NowcastFails(e) /\ ~ ShadowEvNegative(e)
    BY <1>1, <2>1 DEF StrictGates, SettlementReady, ForecastWeak, LagStable, LagUnstable,
                      NowcastFails, ShadowEvNegative
  <2>3. Climb(e) # "OBSERVE_ONLY"
    BY DEF Climb
  <2>4. ~ (e.critical > 0)
    BY <1>1, <2>2
  <2> QED BY <1>3, <2>2, <2>3, <2>4 DEF Recommend, RecommendStrict
<1> QED BY <1>2, <1>3

\* What the settled positions say of a city; every other figure stays.
Results == {"pnl", "winRate", "evScore", "drawScore"}

BetterResults(e, b) ==
  /\ Consistent(e) /\ Consistent(b)
  /\ \A c \in DOMAIN e \ Results : b[c] = e[c]
  /\ \A c \in Results : b[c] >= e[c]

\* The conditions that demote are the same, and those that promote still hold.
NotWorse(e, b) ==
  /\ b.critical = e.critical
  /\ LagUnstable(b) <=> LagUnstable(e)
  /\ NowcastFails(b) <=> NowcastFails(e)
  /\ SettlementWeak(b) <=> SettlementWeak(e)
  /\ NycCorpusComplete(b) <=> NycCorpusComplete(e)
  /\ NycCalibrated(b) <=> NycCalibrated(e)
  /\ ForecastWeak(b) <=> ForecastWeak(e)
  /\ RecordPending(b) <=> RecordPending(e)
  /\ b.calSufficient = e.calSufficient /\ b.calScore = e.calScore
  /\ ShadowEvNegative(b) <=> ShadowEvNegative(e)
  /\ NycPilotReady(e) => NycPilotReady(b)
  /\ LivePilotReady(e) => LivePilotReady(b)
  /\ ShadowQualifiedReady(e) => ShadowQualifiedReady(b)

LEMMA BetterConditions ==
  ASSUME NEW e, NEW b, BetterResults(e, b)
  PROVE  NotWorse(e, b)
<1>1. \A c \in Counts \union Measures : e[c] \in Int /\ b[c] \in Int
  BY DEF BetterResults, Consistent, EvidenceTyped
<1> DEFINE others == {"critical", "avgLag", "p95Lag", "nowcast", "errorSamples", "bestMae",
                      "resolved", "matched", "revised", "unresolved", "validated",
                      "calSamples", "calRuns", "calMae", "calSufficient", "fills",
                      "decisions", "takers", "settled", "lower80", "calScore", "nowScore",
                      "depthScore", "slipScore"}
<1>2. \A c \in others : b[c] = e[c]
  <2>1. others \subseteq DOMAIN e \ Results
    BY DEF BetterResults, Consistent, EvidenceTyped, Counts, Measures, Results
  <2> QED BY <2>1 DEF BetterResults
<1>3. \A c \in Results : b[c] \in Int /\ e[c] \in Int /\ b[c] >= e[c]
  BY <1>1 DEF BetterResults, Results, Counts, Measures
<1>4. /\ b.critical = e.critical
      /\ LagUnstable(b) <=> LagUnstable(e)
      /\ NowcastFails(b) <=> NowcastFails(e)
      /\ SettlementWeak(b) <=> SettlementWeak(e)
      /\ NycCorpusComplete(b) <=> NycCorpusComplete(e)
      /\ NycCalibrated(b) <=> NycCalibrated(e)
      /\ b.calSufficient = e.calSufficient /\ b.calScore = e.calScore
      /\ ShadowEvNegative(b) <=> ShadowEvNegative(e)
  BY <1>2 DEF LagUnstable, NowcastFails, SettlementWeak, NycCorpusComplete, NycCalibrated,
              ShadowEvNegative
<1>5. (ForecastWeak(b) <=> ForecastWeak(e)) /\ (RecordPending(b) <=> RecordPending(e))
  BY <1>2, <1>4 DEF ForecastWeak, RecordPending, SettlementReady, FewErrors
<1>6. NycPilotReady(e) => NycPilotReady(b)
  BY <1>2, <1>3 DEF Results, NycPilotReady
<1>7. LivePilotReady(e) => LivePilotReady(b)
  BY <1>2, <1>3 DEF Results, LivePilotReady
<1>8. ShadowQualifiedReady(e) => ShadowQualifiedReady(b)
  BY <1>2, <1>3 DEF Results, ShadowQualifiedReady
<1> QED BY <1>4, <1>5, <1>6, <1>7, <1>8 DEF NotWorse

\* Better results of the settled positions, with profit, wins, EV score and drawdown all
\* no lower, do not lower the recommended state under either profile.
LEMMA BetterNotDemoted ==
  ASSUME NEW e, NEW b, BetterResults(e, b), NEW p \in Profiles
  PROVE  Rank(Recommend(e, p)) <= Rank(Recommend(b, p))
<1>0. NotWorse(e, b)
  BY BetterConditions
<1>1. /\ Rank("OBSERVE_ONLY") = 0 /\ Rank("SHADOW_ONLY") = 1
      /\ Rank("SHADOW_QUALIFIED") = 2 /\ Rank("LIVE_PILOT") = 3
  BY DEF Rank
<1>2. CASE p = "NYC_MVP_LIVE"
  <2>1. RecommendNyc(b) = RecommendNyc(e) \/ RecommendNyc(b) = "LIVE_PILOT"
    BY <1>0 DEF NotWorse, RecommendNyc
  <2>2. RecommendNyc(e) \in States
    BY DEF RecommendNyc, States
  <2> QED BY <1>1, <1>2, <2>1, <2>2 DEF Recommend, States
<1>3. CASE p # "NYC_MVP_LIVE"
  <2>1. Climb(e) \in States /\ Climb(b) \in States
    BY DEF Climb, States
  <2>2. Rank(Climb(e)) <= Rank(Climb(b))
    BY <1>0, <1>1, <2>1 DEF NotWorse, Climb, States
  <2>3. \/ RecommendStrict(b) = RecommendStrict(e)
        \/ RecommendStrict(e) = Climb(e) /\ RecommendStrict(b) = Climb(b)
    BY <1>0 DEF NotWorse, RecommendStrict
  <2>4. RecommendStrict(e) \in States
    BY <2>1 DEF RecommendStrict, States
  <2> QED BY <1>1, <1>3, <2>2, <2>3, <2>4 DEF Recommend, States
<1> QED BY <1>2, <1>3

-----------------------------------------------------------------------------
(* The figures are numbers *)

LEMMA Cuts ==
  ASSUME NEW x \in Int
  PROVE  /\ Clamp(x) \in Int
         /\ \A d \in Int : OrElse(x, d) \in Int
         /\ \A n \in Nat \ {0}, d \in Int : MeanOr(x, n, d) \in Int
<1>1. Min({100, x}) \in Int /\ Min({100, x}) <= 100
  <2>1. Min({100, x}) = IF 100 <= x THEN 100 ELSE x
    <3>1. 100 \in Int
      OBVIOUS
    <3> QED BY <3>1, MinOfTwo
  <2> QED BY <2>1
<1>2. PICK m \in Int : m = Min({100, x}) /\ m <= 100
  BY <1>1
<1>3. Max({0, m}) = IF 0 >= m THEN 0 ELSE m
  <2>1. 0 \in Int
    OBVIOUS
  <2> QED BY <2>1, MinOfTwo
<1>4. \A n \in Nat \ {0}, d \in Int : MeanOr(x, n, d) \in Int
  BY Divides DEF MeanOr
<1> QED BY <1>2, <1>3, <1>4 DEF Clamp, OrElse

LEMMA CeilIsInt == ASSUME NEW a \in Int, NEW n \in Nat \ {0} PROVE CeilDiv(a, n) \in Int
<1>1. (-a) \in Int
  OBVIOUS
<1>2. (-a) \div n \in Int
  BY <1>1, Divides
<1> QED BY <1>2 DEF CeilDiv

LEMMA ScoreIsInt ==
  ASSUME NEW count \in Int, NEW full \in Nat \ {0}, NEW blended \in Int
  PROVE  Score(count, full, blended) \in Int
<1>1. Min({count, full}) \in Int
  BY MinOfTwo
<1>2. \A x, y \in Int : x * y \in Int
  OBVIOUS
<1>3. Min({count, full}) * blended \in Int
  BY <1>1, <1>2
<1> QED BY <1>3, Divides DEF Score

-----------------------------------------------------------------------------
(* The bag of decisions *)

Records == [taker : BOOLEAN, ev : Int, friction : Int, lag : Int, tradability : Int,
            quote : Int, ghost : Int, candidates : Int, slip : Int, adverse : Int]

BagOf(D, T) == D \in [T -> Nat \ {0}] /\ IsFiniteSet(T) /\ T \subseteq Records
IsBag(D) == BagOf(D, DOMAIN D)

\* A taker decision passed the floor on the EV when it was made.
AboveFloor(D) == \A d \in DOMAIN D : d.taker => d.ev >= 15

LEMMA SizeIs ==
  ASSUME NEW D, IsBag(D)
  PROVE  Size(D) \in Nat /\ (Size(D) = 0 => DOMAIN D = {})
<1>1. /\ D \in [DOMAIN D -> Nat] /\ IsFiniteSet(DOMAIN D)
      /\ \A d \in DOMAIN D : D[d] >= 1 /\ D[d] \in Nat
  BY DEF IsBag, BagOf
<1>2. Size(D) \in Nat
  BY <1>1, SumNat DEF Size
<1>3. ASSUME NEW d \in DOMAIN D PROVE Size(D) # 0
  <2>1. PICK k \in Nat : k = D[d] /\ k >= 1
    BY <1>1
  <2>2. PICK n \in Nat : n = Size(D) /\ k <= n
    BY <1>1, <1>2, <2>1, SumCovers DEF Size
  <2> QED BY <2>1, <2>2
<1> QED BY <1>2, <1>3

LEMMA PartIsBag ==
  ASSUME NEW D, IsBag(D), NEW T \in SUBSET DOMAIN D, NEW P, P = [d \in T |-> D[d]]
  PROVE  IsBag(P) /\ DOMAIN P = T
  BY FS_Subset DEF IsBag, BagOf

LEMMA CompositeIsInt == ASSUME NEW d \in Records PROVE Composite(d) \in Int
<1>1. PICK a \in Int, b \in Int, c \in Int, e \in Int :
        a = d.tradability /\ b = d.quote /\ c = 100 - d.ghost /\ e = 50 * d.candidates
  BY DEF Records
<1>2. \A x \in Int : Clamp(x) \in Int
  BY Cuts
<1>3. Min({100, e}) \in Int
  <2>1. 100 \in Int
    OBVIOUS
  <2> QED BY <2>1, MinOfTwo
<1>4. \A x, y \in Int : 45 * a + 25 * b + 20 * x + 10 * y \in Int
  OBVIOUS
<1> QED BY <1>1, <1>2, <1>3, <1>4 DEF Composite

\* Sums of the decisions' figures.
LEMMA FieldSums ==
  ASSUME NEW D, IsBag(D)
  PROVE  /\ Sum2(D, LAMBDA d : d.ev) \in Int /\ Sum2(D, LAMBDA d : d.lag) \in Int
         /\ Sum2(D, LAMBDA d : d.slip) \in Int /\ Sum2(D, LAMBDA d : d.adverse) \in Int
         /\ Sum2(D, LAMBDA d : d.ev * d.ev) \in Int /\ Sum2(D, Composite) \in Int
<1>0. /\ IsFiniteSet(DOMAIN D)
      /\ \A d \in DOMAIN D : /\ D[d] * d.ev \in Int /\ D[d] * d.lag \in Int
                             /\ D[d] * d.slip \in Int /\ D[d] * d.adverse \in Int
                             /\ D[d] * (d.ev * d.ev) \in Int /\ D[d] * Composite(d) \in Int
  <2>1. \A d \in DOMAIN D : d \in Records /\ D[d] \in Int
    BY DEF IsBag, BagOf
  <2>2. \A d \in Records : d.ev \in Int /\ d.lag \in Int /\ d.slip \in Int /\ d.adverse \in Int
    BY DEF Records
  <2>3. \A x, y \in Int : x * y \in Int
    OBVIOUS
  <2> QED BY <2>1, <2>2, <2>3, CompositeIsInt DEF IsBag, BagOf
<1>1. Sum2(D, LAMBDA d : d.ev) \in Int
  <2>1. PICK g : g = [d \in DOMAIN D |-> D[d] * d.ev]
    OBVIOUS
  <2> QED BY <1>0, <2>1, SumType DEF Sum2
<1>2. Sum2(D, LAMBDA d : d.lag) \in Int
  <2>1. PICK g : g = [d \in DOMAIN D |-> D[d] * d.lag]
    OBVIOUS
  <2> QED BY <1>0, <2>1, SumType DEF Sum2
<1>3. Sum2(D, LAMBDA d : d.slip) \in Int
  <2>1. PICK g : g = [d \in DOMAIN D |-> D[d] * d.slip]
    OBVIOUS
  <2> QED BY <1>0, <2>1, SumType DEF Sum2
<1>4. Sum2(D, LAMBDA d : d.adverse) \in Int
  <2>1. PICK g : g = [d \in DOMAIN D |-> D[d] * d.adverse]
    OBVIOUS
  <2> QED BY <1>0, <2>1, SumType DEF Sum2
<1>5. Sum2(D, LAMBDA d : d.ev * d.ev) \in Int
  <2>1. PICK g : g = [d \in DOMAIN D |-> D[d] * (d.ev * d.ev)]
    OBVIOUS
  <2> QED BY <1>0, <2>1, SumType DEF Sum2
<1>6. Sum2(D, Composite) \in Int
  <2>1. PICK g : g = [d \in DOMAIN D |-> D[d] * Composite(d)]
    OBVIOUS
  <2> QED BY <1>0, <2>1, SumType DEF Sum2
<1> QED BY <1>1, <1>2, <1>3, <1>4, <1>5, <1>6

LEMMA TakersAreBag ==
  ASSUME NEW D, IsBag(D)
  PROVE  /\ IsBag(Takers(D)) /\ DOMAIN Takers(D) = {d \in DOMAIN D : d.taker}
         /\ \A d \in DOMAIN Takers(D) : Takers(D)[d] = D[d]
         /\ IsBag(Selected(D))
<1>1. Takers(D) = [d \in {x \in DOMAIN D : x.taker} |-> D[d]]
  BY DEF Takers, Part
<1>2. Selected(D) = [d \in {x \in DOMAIN D : x.ev # Unknown} |-> D[d]]
  BY DEF Selected, Part
<1>3. IsBag(Takers(D)) /\ DOMAIN Takers(D) = {d \in DOMAIN D : d.taker}
  <2>1. PICK T \in SUBSET DOMAIN D : T = {x \in DOMAIN D : x.taker}
    OBVIOUS
  <2>2. PICK P : P = Takers(D) /\ P = [d \in T |-> D[d]]
    BY <1>1, <2>1
  <2> QED BY <2>1, <2>2, PartIsBag
<1>4. IsBag(Selected(D))
  <2>1. PICK T \in SUBSET DOMAIN D : T = {x \in DOMAIN D : x.ev # Unknown}
    OBVIOUS
  <2>2. PICK P : P = Selected(D) /\ P = [d \in T |-> D[d]]
    BY <1>2, <2>1
  <2> QED BY <2>1, <2>2, PartIsBag
<1>5. \A d \in DOMAIN Takers(D) : Takers(D)[d] = D[d]
  BY <1>1
<1> QED BY <1>3, <1>4, <1>5

\* The lower bound of the EV is one of the 22 values that are told apart.
LEMMA LowerIsInt ==
  ASSUME NEW D, IsBag(D)
  PROVE  /\ Lower80(D) \in Int
         /\ Size(D) # 0 => /\ Lower80(D) \in 0 .. 21
                           /\ EvAbove(0, Moments(D)) => Lower80(D) # 0
<1>1. CASE Size(D) = 0
  BY <1>1 DEF Lower80, Unknown
<1>2. CASE Size(D) # 0
  <2>1. PICK m : m = Moments(D)
    OBVIOUS
  <2>2. PICK T : T = {t \in 0 .. 21 : t < 21 => ~ EvAbove(t, m)}
    OBVIOUS
  <2>3. UNION {{t \in 0 .. 21 : t < 21 => ~ EvAbove(t, x)} : x \in {Moments(D)}} = T
    BY <2>1, <2>2
  <2>4. Lower80(D) = Min(T)
    BY <1>2, <2>3 DEF Lower80
  <2>5. T \in SUBSET Int /\ 21 \in T /\ T \subseteq 0 .. 21 /\ IsFiniteSet(T)
    <3>1. IsFiniteSet(0 .. 21)
      <4>1. 0 \in Int /\ 21 \in Int
        OBVIOUS
      <4> QED BY <4>1, FS_Interval
    <3>2. 21 \in 0 .. 21 /\ ~ (21 < 21)
      OBVIOUS
    <3>3. T \in SUBSET (0 .. 21) /\ 21 \in T
      BY <2>2, <3>2
    <3>4. IsFiniteSet(T)
      BY <3>1, <3>3, FS_Subset
    <3> QED BY <3>3, <3>4
  <2>6. Min(T) \in T
    <3>1. PICK f : f = [t \in T |-> t]
      OBVIOUS
    <3>2. f \in [T -> Int] /\ T = {f[t] : t \in T} /\ T # {}
      BY <2>5, <3>1
    <3> QED BY <2>5, <3>2, Extremes
  <2>7. EvAbove(0, m) => 0 \notin T
    BY <2>2
  <2> QED BY <1>2, <2>1, <2>4, <2>5, <2>6, <2>7
<1> QED BY <1>1, <1>2

LEMMA Products ==
  ASSUME NEW x \in Nat \ {0}, NEW y \in Nat \ {0}
  PROVE  x * y \in Nat \ {0} /\ y <= x * y
<1>1. x * y = y + (x - 1) * y
  OBVIOUS
<1>2. \A a, b \in Nat : a * b \in Nat
  OBVIOUS
<1>3. x - 1 \in Nat /\ y >= 1 /\ y \in Nat
  OBVIOUS
<1>4. PICK c \in Nat : c = (x - 1) * y
  BY <1>2, <1>3
<1> QED BY <1>1, <1>3, <1>4

\* k times the square of a number is at most the square of k times the number.
LEMMA Squares ==
  ASSUME NEW k \in Nat \ {0}, NEW v \in Nat \ {0}
  PROVE  k * v \in Nat \ {0} /\ k * (v * v) \in Nat /\ k * (v * v) <= (k * v) * (k * v)
<1>1. k * v \in Nat \ {0}
  BY Products
<1>2. PICK w \in Nat \ {0} : w = k * (v * v)
  <2>1. PICK z \in Nat \ {0} : z = v * v
    BY Products
  <2>2. k * z \in Nat \ {0}
    BY <2>1, Products
  <2> QED BY <2>1, <2>2
<1>3. w <= k * w
  BY Products
<1>4. (k * v) * (k * v) = k * (k * (v * v))
  OBVIOUS
<1> QED BY <1>1, <1>2, <1>3, <1>4

\* The inequality of EvAbove at 0, once the sum of the squares is within the square of
\* the sum.
LEMMA SpreadIsSmall ==
  ASSUME NEW n \in Nat \ {0}, NEW B \in Nat \ {0}, NEW t \in Nat \ {0}, NEW q \in Int,
         q <= t * t
  PROVE  24 * B * n * t * t > 17 * (q * n - t * t)
<1>1. PICK z \in Nat \ {0} : z = t * t
  BY Products
<1>2. PICK y \in Nat \ {0} : y = n * z
  BY Products
<1>3. PICK b \in Nat \ {0} : b = B * y /\ y <= b
  BY Products
<1>4. 24 * B * n * t * t = 24 * b
  <2>1. 24 * B * n * t * t = 24 * (B * (n * (t * t)))
    OBVIOUS
  <2> QED BY <1>1, <1>2, <1>3, <2>1
<1>5. PICK p \in Int : p = q * n /\ p <= y
  <2>1. \A c, d \in Int : c * d \in Int
    OBVIOUS
  <2>2. PICK r \in Nat : r = z - q
    BY <1>1
  <2>3. \A c, d \in Nat : c * d \in Nat
    OBVIOUS
  <2>4. r * n \in Nat /\ q * n \in Int
    BY <2>1, <2>2, <2>3
  <2>5. r * n = n * z - q * n
    BY <1>1, <2>2
  <2> QED BY <1>2, <2>4, <2>5
<1>6. 24 * b > 17 * (p - z)
  BY <1>1, <1>2, <1>3, <1>5
<1> QED BY <1>1, <1>4, <1>5, <1>6

\* Takers passed a floor above zero, so the bound of their mean EV is above zero too:
\* their spread is never so wide, because the square of a sum of positive EVs is at least
\* the sum of their squares.
LEMMA FloorLifts ==
  ASSUME NEW D, IsBag(D), Size(D) # 0, \A d \in DOMAIN D : d.ev >= 15
  PROVE  EvAbove(0, Moments(D))
<1>1. PICK f : f = [d \in DOMAIN D |-> D[d] * d.ev]
  OBVIOUS
<1>2. PICK e : e = [d \in DOMAIN D |-> D[d] * (d.ev * d.ev)]
  OBVIOUS
<1>3. \A d \in DOMAIN D : D[d] \in Nat \ {0} /\ d.ev \in Nat \ {0}
  <2>1. \A d \in DOMAIN D : d \in Records /\ D[d] \in Nat \ {0}
    BY DEF IsBag, BagOf
  <2>2. \A d \in Records : d.ev \in Int
    BY DEF Records
  <2>3. \A d \in DOMAIN D : d.ev \in Int /\ d.ev >= 15
    BY <2>1, <2>2
  <2> QED BY <2>1, <2>3
<1>4. \A d \in DOMAIN D : f[d] \in Nat \ {0} /\ e[d] \in Int /\ e[d] <= f[d] * f[d]
  <2> TAKE d \in DOMAIN D
  <2>1. PICK k \in Nat \ {0}, v \in Nat \ {0} : k = D[d] /\ v = d.ev
    BY <1>3
  <2>2. f[d] = k * v /\ e[d] = k * (v * v)
    BY <1>1, <1>2, <2>1
  <2> QED BY <2>2, Squares
<1>5. /\ IsFiniteSet(DOMAIN D) /\ e \in [DOMAIN D -> Int]
      /\ f \in [DOMAIN D -> Nat] /\ \A d \in DOMAIN D : f[d] >= 1
  BY <1>1, <1>2, <1>4 DEF IsBag, BagOf
<1>6. PICK t \in Nat \ {0}, q \in Int : t = SumOver(f) /\ q = SumOver(e) /\ q <= t * t
  <2>1. SumOver(e) <= SumOver(f) * SumOver(f)
    BY <1>4, <1>5, SumOfSquares
  <2>2. SumOver(e) \in Int
    BY <1>5, SumType
  <2>3. PICK d \in DOMAIN D : TRUE
    <3>1. DOMAIN D = {} => SumOver(D) = 0
      BY SumEmpty
    <3> QED BY <3>1 DEF Size
  <2>4. SumOver(f) \in Nat /\ f[d] <= SumOver(f) /\ f[d] >= 1 /\ f[d] \in Nat
    BY <1>5, SumCovers
  <2>5. SumOver(f) \in Nat \ {0}
    BY <2>4
  <2> QED BY <2>1, <2>2, <2>5
<1>7. PICK n \in Nat \ {0} : n = Size(D)
  BY SizeIs
<1>8. 24 * Batch * n * t * t > 17 * (q * n - t * t)
  BY <1>6, BatchAssumption, SpreadIsSmall
<1>9. Moments(D) = [n |-> n, s |-> t, q |-> q]
  BY <1>1, <1>2, <1>6, <1>7 DEF Moments, Sum2
<1>10. PICK m : m = Moments(D) /\ m.n = n /\ m.s = t /\ m.q = q
  BY <1>9
<1>11. t - 0 * n = t /\ t > 0
  OBVIOUS
<1>12. EvAbove(0, m)
  BY <1>8, <1>10, <1>11 DEF EvAbove
<1> QED BY <1>10, <1>12

LEMMA LagsAreInt ==
  ASSUME NEW D, IsBag(D)
  PROVE  AvgLag(D) \in Int /\ P95Lag(D) \in Int
<1>1. CASE Size(D) = 0
  BY <1>1 DEF AvgLag, P95Lag, Unknown
<1>2. CASE Size(D) # 0
  <2>1. PICK n \in Nat \ {0} : n = Size(D)
    BY <1>2, SizeIs
  <2>2. AvgLag(D) \in Int
    <3>1. PICK l \in Int : l = Sum2(D, LAMBDA d : d.lag)
      BY FieldSums
    <3>2. CeilDiv(l, n) \in Int
      BY CeilIsInt
    <3> QED BY <1>2, <2>1, <3>1, <3>2 DEF AvgLag
  <2>3. P95Lag(D) \in Int
    <3> DEFINE Within(x) == Size(Part(D, LAMBDA y : y.lag <= x.lag))
               Late(x) == Batch * Within(x) > (95 * Batch * n) \div 100
    <3>1. PICK T : T = {x \in DOMAIN D : Late(x)}
      OBVIOUS
    <3>2. PICK f : f = [d \in DOMAIN D |-> d.lag]
      OBVIOUS
    <3>3. f \in [DOMAIN D -> Int] /\ IsFiniteSet(DOMAIN D) /\ DOMAIN D # {}
      <4>1. \A d \in DOMAIN D : d \in Records
        BY DEF IsBag, BagOf
      <4>2. \A d \in Records : d.lag \in Int
        BY DEF Records
      <4>3. DOMAIN D = {} => SumOver(D) = 0
        BY SumEmpty
      <4> QED BY <1>2, <3>2, <4>1, <4>2, <4>3 DEF IsBag, BagOf, Size
    \* The decision of the greatest lag has all others within it.
    <3>4. PICK z \in DOMAIN D : \A d \in DOMAIN D : d.lag <= z.lag
      <4>1. PICK V : V = {f[x] : x \in DOMAIN D}
        OBVIOUS
      <4>2. Max(V) \in V /\ \A y \in V : Max(V) >= y
        BY <3>3, <4>1, Extremes
      <4>3. PICK z \in DOMAIN D : Max(V) = f[z]
        BY <4>1, <4>2
      <4>4. \A d \in DOMAIN D : f[z] >= f[d]
        BY <4>1, <4>2, <4>3
      <4>5. \A d \in DOMAIN D : f[d] = d.lag /\ f[d] \in Int
        BY <3>2, <3>3
      <4> QED BY <4>4, <4>5
    <3>5. Late(z)
      <4>1. Part(D, LAMBDA y : y.lag <= z.lag) = D
        <5>1. Part(D, LAMBDA y : y.lag <= z.lag) = [d \in {x \in DOMAIN D : x.lag <= z.lag} |-> D[d]]
          BY DEF Part
        <5>2. {x \in DOMAIN D : x.lag <= z.lag} = DOMAIN D
          BY <3>4
        <5>3. D = [d \in DOMAIN D |-> D[d]]
          BY DEF IsBag, BagOf
        <5> QED BY <5>1, <5>2, <5>3
      <4>2. Within(z) = n
        BY <2>1, <4>1
      <4>3. PICK c \in Nat \ {0} : c = Batch * n
        BY BatchAssumption, Products
      <4>4. 95 * Batch * n = 95 * c
        <5>1. 95 * Batch * n = 95 * (Batch * n)
          BY BatchAssumption
        <5> QED BY <4>3, <5>1
      <4>5. c > (95 * c) \div 100
        OBVIOUS
      <4> HIDE DEF Within
      <4> QED BY <4>2, <4>3, <4>4, <4>5
    <3> HIDE DEF Late
    <3>6. T \in SUBSET DOMAIN D /\ T # {}
      BY <3>1, <3>4, <3>5
    <3>7. PICK g : g = [d \in T |-> d.lag]
      OBVIOUS
    <3>8. g \in [T -> Int] /\ IsFiniteSet(T)
      <4>1. \A d \in T : d.lag = f[d] /\ f[d] \in Int
        BY <3>2, <3>3, <3>6
      <4>2. IsFiniteSet(T)
        BY <3>3, <3>6, FS_Subset
      <4> QED BY <3>7, <4>1, <4>2
    <3>9. PICK V : V = {g[d] : d \in T}
      OBVIOUS
    <3>10. Min(V) \in V
      BY <3>6, <3>8, <3>9, Extremes
    <3>11. V = {d.lag : d \in T}
      BY <3>7, <3>9
    <3>12. P95Lag(D) = Min(V)
      BY <1>2, <2>1, <3>1, <3>11 DEF P95Lag, Late, Within
    <3> QED BY <3>8, <3>9, <3>10, <3>12
  <2> QED BY <2>2, <2>3
<1> QED BY <1>1, <1>2

LEMMA MarketScores ==
  ASSUME NEW D, IsBag(D)
  PROVE  DepthScore(D) \in Int /\ SlippageScore(D) \in Int
<1>0. \A a, b \in Int : a * b \in Int
  OBVIOUS
<1>1. DepthScore(D) \in Int
  <2>1. CASE Size(D) = 0
    BY <2>1 DEF DepthScore
  <2>2. CASE Size(D) # 0
    <3>1. PICK n \in Nat \ {0} : n = Size(D)
      BY <2>2, SizeIs
    <3>2. PICK c \in Int : c = Sum2(D, Composite)
      BY FieldSums
    <3>3. 100 * n \in Nat \ {0}
      OBVIOUS
    <3>4. PICK w \in Int : w = c \div (100 * n)
      BY <3>3, Divides
    <3>5. PICK b \in Int : b = Batch * n
      BY <1>0, BatchAssumption
    <3>6. Score(b, 24, w) \in Int
      <4>1. 24 \in Nat \ {0}
        OBVIOUS
      <4> QED BY <4>1, ScoreIsInt
    <3> QED BY <2>2, <3>1, <3>2, <3>4, <3>5, <3>6 DEF DepthScore
  <2> QED BY <2>1, <2>2
<1>2. SlippageScore(D) \in Int
  <2>1. PICK S : S = Selected(D)
    OBVIOUS
  <2>2. IsBag(S)
    BY <2>1, TakersAreBag
  <2>3. CASE Size(S) = 0
    BY <2>1, <2>3 DEF SlippageScore
  <2>4. CASE Size(S) # 0
    <3>1. PICK n \in Nat \ {0} : n = Size(S)
      BY <2>2, <2>4, SizeIs
    <3>2. PICK x \in Int, y \in Int : x = Sum2(S, LAMBDA d : d.slip) /\ y = Sum2(S, LAMBDA d : d.adverse)
      BY <2>2, FieldSums
    <3>3. PICK slip \in Int, adverse \in Int :
            slip = MeanOr(x, n, 50) /\ adverse = MeanOr(y, n, 60)
      <4>1. 50 \in Int /\ 60 \in Int
        OBVIOUS
      <4> QED BY <4>1, Cuts
    <3>4. PICK v \in Int, w \in Int :
            v = Clamp(100 - (100 * slip) \div 30) /\ w = Clamp(100 - 2 * adverse)
      <4>1. 100 - (100 * slip) \div 30 \in Int /\ 100 - 2 * adverse \in Int
        <5>1. 100 * slip \in Int /\ 30 \in Nat \ {0}
          OBVIOUS
        <5>2. (100 * slip) \div 30 \in Int
          BY <5>1, Divides
        <5> QED BY <5>2
      <4> QED BY <4>1, Cuts
    <3>5. PICK z \in Int : z = (65 * v + 35 * w) \div 100
      <4>1. 65 * v + 35 * w \in Int /\ 100 \in Nat \ {0}
        OBVIOUS
      <4> QED BY <4>1, Divides
    <3>6. PICK b \in Int : b = Batch * n
      BY <1>0, BatchAssumption
    <3>7. Score(b, 20, z) \in Int
      <4>1. 20 \in Nat \ {0}
        OBVIOUS
      <4> QED BY <4>1, ScoreIsInt
    <3> QED BY <2>1, <2>4, <3>1, <3>2, <3>3, <3>4, <3>5, <3>6, <3>7 DEF SlippageScore
  <2> QED BY <2>3, <2>4
<1> QED BY <1>1, <1>2

\* What the reports say of a bag of decisions.
LEMMA FiguresAreInt ==
  ASSUME NEW D, IsBag(D), NEW F, F = DecisionFigures(D)
  PROVE  /\ F.decisions \in Int /\ F.takers \in Int /\ F.lower80 \in Int /\ F.avgLag \in Int
         /\ F.p95Lag \in Int /\ F.depthScore \in Int /\ F.slipScore \in Int
         /\ F.blocking \subseteq {"min_ev", "max_friction", "lag"}
         /\ F.lower80 = Lower80(Takers(D))
<1>0. \A a, b \in Int : a * b \in Int
  OBVIOUS
<1>1. Batch * Size(D) \in Int /\ Batch * Size(Takers(D)) \in Int
  <2>1. Size(D) \in Int /\ Size(Takers(D)) \in Int /\ Batch \in Int
    <3>1. IsBag(Takers(D))
      BY TakersAreBag
    <3> QED BY <3>1, SizeIs, BatchAssumption
  <2> QED BY <1>0, <2>1
<1>2. Lower80(Takers(D)) \in Int
  BY TakersAreBag, LowerIsInt
<1>3. AvgLag(D) \in Int /\ P95Lag(D) \in Int /\ DepthScore(D) \in Int /\ SlippageScore(D) \in Int
  BY LagsAreInt, MarketScores
<1>4. Blocking(D) \subseteq {"min_ev", "max_friction", "lag"}
  BY DEF Blocking, Parameters
<1> QED BY <1>1, <1>2, <1>3, <1>4 DEF DecisionFigures

-----------------------------------------------------------------------------
(* The evidence *)

LEMMA TotalsOfParts ==
  ASSUME NEW amounts \in Seq(Int), NEW n \in 0 .. Len(amounts)
  PROVE  Total(SubSeq(amounts, 1, n)) \in Int
<1>1. SubSeq(amounts, 1, n) \in Seq(Int)
  OBVIOUS
<1>2. PICK a \in Seq(Int) : a = SubSeq(amounts, 1, n)
  BY <1>1
<1> QED BY <1>2, TotalType

LEMMA DrawdownIsInt ==
  ASSUME NEW made \in Seq(Int)
  PROVE  MaxDrawdown(made) \in Int
<1>1. PICK N \in Nat : N = Len(made)
  OBVIOUS
<1>2. PICK after : after = [n \in 0 .. N |-> Total(SubSeq(made, 1, n))]
  OBVIOUS
<1>3. after \in [0 .. N -> Int]
  BY <1>1, <1>2, TotalsOfParts
<1>4. PICK S : S = {m \in (0 .. N) \X (0 .. N) : m[1] <= m[2]}
  OBVIOUS
<1>5. IsFiniteSet(S) /\ S # {}
  <2>1. IsFiniteSet(0 .. N)
    <3>1. 0 \in Int /\ N \in Int
      OBVIOUS
    <3> QED BY <3>1, FS_Interval
  <2>2. IsFiniteSet((0 .. N) \X (0 .. N))
    BY <2>1, FS_Product
  <2>3. S \in SUBSET ((0 .. N) \X (0 .. N)) /\ <<0, 0>> \in S
    BY <1>4
  <2> QED BY <2>2, <2>3, FS_Subset
<1>6. PICK f : f = [p \in S |-> after[p[1]] - after[p[2]]]
  OBVIOUS
<1>7. f \in [S -> Int]
  BY <1>3, <1>4, <1>6
<1>8. PICK T : T = {f[p] : p \in S}
  OBVIOUS
<1>9. Max(T) \in T
  BY <1>5, <1>7, <1>8, Extremes
<1>10. MaxDrawdown(made) = Max(T)
  <2>1. {Total(SubSeq(made, 1, p[1])) - Total(SubSeq(made, 1, p[2])) : p \in S} = T
    <3>1. \A p \in S : f[p] = Total(SubSeq(made, 1, p[1])) - Total(SubSeq(made, 1, p[2]))
      BY <1>2, <1>4, <1>6
    <3> QED BY <1>8, <3>1
  <2> QED BY <1>1, <1>4, <2>1 DEF MaxDrawdown
<1> QED BY <1>7, <1>8, <1>9, <1>10

LEMMA PositionScores ==
  ASSUME NEW made \in Seq(Int), NEW n \in Int, NEW low \in Int, NEW predicted \in Int
  PROVE  /\ DrawdownScore(made) \in Int
         /\ EvScore(n, low, made, predicted) \in Int
         /\ Batch * PnlOf(made) \in Int
<1>0. \A a, b \in Int : a * b \in Int
  OBVIOUS
<1>1. PICK N \in Nat : N = Len(made)
  OBVIOUS
<1>2. PICK p \in Int : p = PnlOf(made)
  BY TotalType DEF PnlOf
<1>3. DrawdownScore(made) \in Int
  <2>1. PICK w \in Int : w = Batch * MaxDrawdown(made)
    BY <1>0, DrawdownIsInt, BatchAssumption
  <2>2. PICK v \in Int : v = Clamp(100 - w \div 10)
    <3>1. w \div 10 \in Int
      <4>1. 10 \in Nat \ {0}
        OBVIOUS
      <4> QED BY <4>1, Divides
    <3>2. 100 - w \div 10 \in Int
      BY <3>1
    <3> QED BY <3>2, Cuts
  <2>3. PICK b \in Int : b = Batch * N
    BY <1>0, BatchAssumption
  <2>4. Score(b, 10, v) \in Int
    <3>1. 10 \in Nat \ {0}
      OBVIOUS
    <3> QED BY <3>1, ScoreIsInt
  <2> QED BY <1>1, <2>1, <2>2, <2>3, <2>4 DEF DrawdownScore
<1>4. EvScore(n, low, made, predicted) \in Int
  <2>1. PICK l \in Int : l = OrElse(low, 0)
    <3>1. 0 \in Int
      OBVIOUS
    <3> QED BY <3>1, Cuts
  <2>2. PICK realized \in Int : realized = IF N = 0 THEN l ELSE MeanOr(p, N, l)
    <3>1. N # 0 => MeanOr(p, N, l) \in Int
      BY Cuts
    <3> QED BY <3>1
  <2>3. PICK residual \in Int :
          residual = IF N = 0 THEN 50 ELSE Clamp((5 * (p - predicted)) \div N + 50)
    <3>1. N # 0 => Clamp((5 * (p - predicted)) \div N + 50) \in Int
      <4> SUFFICES ASSUME N # 0 PROVE Clamp((5 * (p - predicted)) \div N + 50) \in Int
        OBVIOUS
      <4>1. PICK y \in Int : y = 5 * (p - predicted)
        OBVIOUS
      <4>2. PICK x \in Int : x = y \div N
        BY Divides
      <4>3. x + 50 \in Int
        OBVIOUS
      <4> QED BY <4>1, <4>2, <4>3, Cuts
    <3> QED BY <3>1
  <2>4. PICK a \in Int, c \in Int : a = Clamp(5 * l) /\ c = Clamp(5 * realized)
    <3>1. 5 * l \in Int /\ 5 * realized \in Int
      OBVIOUS
    <3> QED BY <3>1, Cuts
  <2>5. PICK z \in Int : z = (60 * a + 25 * c + 15 * residual) \div 100
    <3>1. 60 * a + 25 * c + 15 * residual \in Int /\ 100 \in Nat \ {0}
      OBVIOUS
    <3> QED BY <3>1, Divides
  <2>6. PICK b \in Int : b = Batch * n
    BY <1>0, BatchAssumption
  <2>7. Score(b, 20, z) \in Int
    <3>1. 20 \in Nat \ {0}
      OBVIOUS
    <3> QED BY <3>1, ScoreIsInt
  <2> QED BY <1>1, <1>2, <2>1, <2>2, <2>3, <2>4, <2>5, <2>6, <2>7 DEF EvScore
<1> QED BY <1>0, <1>2, <1>3, <1>4, BatchAssumption

LEMMA ForecastScores ==
  ASSUME NEW f \in Forecasts
  PROVE  /\ f.errorSamples \in Int /\ f.bestMae \in Int
         /\ f.cal.samples \in Int /\ f.cal.runs \in Int /\ f.cal.mae \in Int
         /\ CalScore(f.cal) \in Int /\ NowScore(f.now) \in Int
         /\ Nowcast(f.now) \in Nowcasts /\ CalSufficient(f.cal) \in BOOLEAN
<1>1. f \in Reports /\ IsFiniteSet(f.cal.biases)
  BY GovernanceAssumption
<1>2. PICK cal \in [samples : Nat, runs : Nat, mae : Int, biases : SUBSET Int] : cal = f.cal
  BY <1>1 DEF Reports
<1>3. PICK now \in [samples : Nat, model : Nat, carry : Nat, linear : Nat, buckets : Nat] : now = f.now
  BY <1>1 DEF Reports
<1>4. CalScore(cal) \in Int
  <2>1. PICK k \in Nat : k = Cardinality(cal.biases) /\ (k = 0 => cal.biases = {})
    BY <1>1, <1>2, FS_CardinalityType, FS_EmptySet
  <2>2. PICK t \in Int : t = SumOver([b \in cal.biases |-> b])
    <3>1. PICK g : g = [b \in cal.biases |-> b]
      OBVIOUS
    <3>2. DOMAIN g = cal.biases /\ \A b \in cal.biases : g[b] \in Int
      BY <3>1
    <3>3. SumOver(g) \in Int
      BY <1>1, <1>2, <3>2, SumType
    <3> QED BY <3>1, <3>3
  <2>3. PICK bias \in Int : bias = IF cal.biases = {} THEN 50 ELSE MeanOr(t, k, 50)
    <3>1. cal.biases # {} => MeanOr(t, k, 50) \in Int
      <4> SUFFICES ASSUME cal.biases # {} PROVE MeanOr(t, k, 50) \in Int
        OBVIOUS
      <4>1. k \in Nat \ {0}
        BY <2>1
      <4>2. 50 \in Int
        OBVIOUS
      <4> QED BY <4>1, <4>2, Cuts
    <3> QED BY <3>1
  <2>4. PICK mae \in Int : mae = OrElse(cal.mae, 80)
    <3>1. 80 \in Int /\ cal.mae \in Int
      OBVIOUS
    <3> QED BY <3>1, Cuts
  <2>5. PICK v \in Int, w \in Int :
          v = Clamp(100 - (100 * mae) \div 60) /\ w = Clamp(100 - (100 * bias) \div 40)
    <3>1. 100 * mae \in Int /\ 100 * bias \in Int /\ 60 \in Nat \ {0} /\ 40 \in Nat \ {0}
      OBVIOUS
    <3>2. (100 * mae) \div 60 \in Int /\ (100 * bias) \div 40 \in Int
      BY <3>1, Divides
    <3>3. 100 - (100 * mae) \div 60 \in Int /\ 100 - (100 * bias) \div 40 \in Int
      BY <3>2
    <3> QED BY <3>3, Cuts
  <2>6. PICK m \in Int : m = Min({100, 50 * k})
    <3>1. 100 \in Int /\ 50 * k \in Int
      OBVIOUS
    <3> QED BY <3>1, MinOfTwo
  <2>7. PICK z \in Int : z = (60 * v + 25 * w + 15 * m) \div 100
    <3>1. 60 * v + 25 * w + 15 * m \in Int /\ 100 \in Nat \ {0}
      OBVIOUS
    <3> QED BY <3>1, Divides
  <2>8. Score(cal.samples, 24, z) \in Int
    <3>1. cal.samples \in Int /\ 24 \in Nat \ {0}
      OBVIOUS
    <3> QED BY <3>1, ScoreIsInt
  <2> QED BY <2>1, <2>2, <2>3, <2>4, <2>5, <2>6, <2>7, <2>8 DEF CalScore
<1>5. NowScore(now) \in Int
  <2>1. PICK b \in Int : b = BestBaseline(now)
    <3>1. now.carry \in Int /\ now.linear \in Int
      OBVIOUS
    <3> QED BY <3>1, MinOfTwo DEF BestBaseline
  <2>2. PICK performance \in Int :
          performance = IF now.samples = 0 \/ now.model = 0 THEN 0
                        ELSE Clamp((100 * b) \div now.model)
    <3>1. now.model # 0 => Clamp((100 * b) \div now.model) \in Int
      <4> SUFFICES ASSUME now.model # 0 PROVE Clamp((100 * b) \div now.model) \in Int
        OBVIOUS
      <4>1. 100 * b \in Int /\ now.model \in Nat \ {0}
        OBVIOUS
      <4>2. (100 * b) \div now.model \in Int
        BY <4>1, Divides
      <4> QED BY <4>2, Cuts
    <3> QED BY <3>1
  <2>3. PICK u \in Int : u = (2000 * now.buckets) \div 3
    <3>1. 2000 * now.buckets \in Int /\ 3 \in Nat \ {0}
      OBVIOUS
    <3> QED BY <3>1, Divides
  <2>4. PICK z \in Int : z = (80 * performance + u) \div 100
    <3>1. 80 * performance + u \in Int /\ 100 \in Nat \ {0}
      OBVIOUS
    <3> QED BY <3>1, Divides
  <2>5. Score(now.samples, 24, z) \in Int
    <3>1. now.samples \in Int /\ 24 \in Nat \ {0}
      OBVIOUS
    <3> QED BY <3>1, ScoreIsInt
  <2> QED BY <2>1, <2>2, <2>3, <2>4, <2>5 DEF NowScore
<1>6. Nowcast(now) \in Nowcasts /\ CalSufficient(cal) \in BOOLEAN
  BY DEF Nowcast, Nowcasts, CalSufficient
<1>7. f.errorSamples \in Int /\ f.bestMae \in Int /\ cal.samples \in Int /\ cal.runs \in Int /\ cal.mae \in Int
  BY <1>1 DEF Reports
<1> QED BY <1>2, <1>3, <1>4, <1>5, <1>6, <1>7

\* The validated rows and those of them that are resolved.
LEMMA RowCounts ==
  ASSUME NEW r \in [MarketGroups -> Verdicts \union {"none"}]
  PROVE  /\ \A V : RowsThat(r, V) \in Int
         /\ RowsThat(r, {"matched", "mismatch"}) <= RowsThat(r, {"matched", "mismatch", "unresolved"})
<1> DEFINE S(V) == {mk \in DOMAIN r : r[mk] \in V}
<1>1. \A V : IsFiniteSet(S(V)) /\ Cardinality(S(V)) \in Nat
  <2> SUFFICES ASSUME NEW V PROVE IsFiniteSet(S(V)) /\ Cardinality(S(V)) \in Nat
    OBVIOUS
  <2>1. S(V) \in SUBSET MarketGroups /\ IsFiniteSet(MarketGroups)
    BY GovernanceAssumption
  <2> HIDE DEF S
  <2>2. IsFiniteSet(S(V))
    BY <2>1, FS_Subset
  <2> QED BY <2>2, FS_CardinalityType
<1>2. \A a, b \in Nat : a * b \in Nat
  OBVIOUS
<1>3. RowsPerMarket \in Nat
  BY BatchAssumption
<1>4. S({"matched", "mismatch"}) \in SUBSET S({"matched", "mismatch", "unresolved"})
  OBVIOUS
<1>5. \A V : RowsThat(r, V) = RowsPerMarket * Cardinality(S(V))
  BY DEF RowsThat
<1> HIDE DEF S
<1>6. PICK a \in Nat, b \in Nat : /\ a = Cardinality(S({"matched", "mismatch"}))
                                  /\ b = Cardinality(S({"matched", "mismatch", "unresolved"}))
                                  /\ a <= b
  BY <1>1, <1>4, FS_Subset
<1>7. RowsPerMarket * a <= RowsPerMarket * b
  <2>1. PICK c \in Nat : c = b - a
    BY <1>6
  <2>2. RowsPerMarket * c \in Nat /\ RowsPerMarket * a \in Nat
    BY <1>2, <1>3
  <2>3. b = a + c
    BY <2>1
  <2>4. RowsPerMarket * (a + c) = RowsPerMarket * a + RowsPerMarket * c
    BY <1>3
  <2> QED BY <2>2, <2>3, <2>4
<1>8. \A V : RowsPerMarket * Cardinality(S(V)) \in Int
  BY <1>1, <1>2, <1>3
<1> QED BY <1>5, <1>6, <1>7, <1>8

LEMMA WinRateIsInt ==
  ASSUME NEW made \in Seq(Int)
  PROVE  (IF made = <<>> THEN 0
          ELSE CeilDiv(100 * Cardinality({i \in DOMAIN made : made[i] > 0}), Len(made))) \in Int
<1>1. CASE made = <<>>
  BY <1>1
<1>2. CASE made # <<>>
  <2>1. PICK n \in Nat \ {0} : n = Len(made) /\ DOMAIN made = 1 .. n
    BY <1>2
  <2>2. PICK S : S = {i \in DOMAIN made : made[i] > 0}
    OBVIOUS
  <2>3. S \in SUBSET (1 .. n) /\ IsFiniteSet(1 .. n)
    <3>1. 1 \in Int /\ n \in Int
      OBVIOUS
    <3> QED BY <2>1, <2>2, <3>1, FS_Interval
  <2>4. PICK k \in Nat : k = Cardinality(S)
    BY <2>3, FS_Subset, FS_CardinalityType
  <2>5. 100 * k \in Int
    OBVIOUS
  <2>6. CeilDiv(100 * k, n) \in Int
    BY <2>5, CeilIsInt
  <2> QED BY <1>2, <2>1, <2>2, <2>4, <2>6
<1> QED BY <1>1, <1>2

\* The evidence of an update is of the kind the theorems on the rule sets ask for.
LEMMA EvidenceIsTyped ==
  ASSUME NEW D, IsBag(D), NEW made \in Seq(Int), NEW n \in Int, NEW predicted \in Int,
         NEW r \in [MarketGroups -> Verdicts \union {"none"}], NEW f \in Forecasts,
         NEW e, e = EvidenceOf(DecisionFigures(D), n, made, predicted, r, f)
  PROVE  Consistent(e) /\ e.lower80 = Lower80(Takers(D)) /\ e.fills = Batch * n
<1>1. PICK F : F = DecisionFigures(D)
  OBVIOUS
<1>2. /\ F.decisions \in Int /\ F.takers \in Int /\ F.lower80 \in Int /\ F.avgLag \in Int
      /\ F.p95Lag \in Int /\ F.depthScore \in Int /\ F.slipScore \in Int
      /\ F.blocking \subseteq {"min_ev", "max_friction", "lag"}
      /\ F.lower80 = Lower80(Takers(D))
  BY <1>1, FiguresAreInt
<1>3. /\ f.errorSamples \in Int /\ f.bestMae \in Int
      /\ f.cal.samples \in Int /\ f.cal.runs \in Int /\ f.cal.mae \in Int
      /\ CalScore(f.cal) \in Int /\ NowScore(f.now) \in Int
      /\ Nowcast(f.now) \in Nowcasts /\ CalSufficient(f.cal) \in BOOLEAN
  BY ForecastScores
<1>4. \A a, b \in Int : a * b \in Int
  OBVIOUS
<1>5. PICK settled \in Int, fills0 \in Int : settled = Batch * Len(made) /\ fills0 = Batch * n
  BY <1>4, BatchAssumption
<1>6. PICK pnl \in Int, draw \in Int : pnl = Batch * PnlOf(made) /\ draw = DrawdownScore(made)
  BY PositionScores
<1>7. PICK ev \in Int : ev = EvScore(n, F.lower80, made, predicted)
  BY <1>2, PositionScores
<1>8. PICK wins \in Int : wins = IF made = <<>> THEN 0
          ELSE CeilDiv(100 * Cardinality({i \in DOMAIN made : made[i] > 0}), Len(made))
  BY WinRateIsInt
<1>9. PICK v1 \in Int, v2 \in Int, v3 \in Int, v4 \in Int, v5 \in Int :
        /\ v1 = RowsThat(r, {"matched", "mismatch", "unresolved"})
        /\ v2 = RowsThat(r, {"matched", "mismatch"}) /\ v3 = RowsThat(r, {"matched"})
        /\ v4 = RowsThat(r, {"unresolved"}) /\ v5 = RowsThat(r, {"mismatch"})
        /\ v2 <= v1
  BY RowCounts
<1>10. PICK cals \in Int, nows \in Int, outcome \in Nowcasts, enough \in BOOLEAN :
         /\ cals = CalScore(f.cal) /\ nows = NowScore(f.now)
         /\ outcome = Nowcast(f.now) /\ enough = CalSufficient(f.cal)
  BY <1>3
<1>11. e = [decisions |-> F.decisions, takers |-> F.takers, lower80 |-> F.lower80,
            avgLag |-> F.avgLag, p95Lag |-> F.p95Lag, depthScore |-> F.depthScore,
            slipScore |-> F.slipScore, blocking |-> F.blocking,
            validated |-> v1, resolved |-> v2, matched |-> v3, revised |-> v2,
            unresolved |-> v4, critical |-> v5,
            errorSamples |-> f.errorSamples, bestMae |-> f.bestMae,
            fills |-> fills0, settled |-> settled, pnl |-> pnl, winRate |-> wins,
            calSamples |-> f.cal.samples, calRuns |-> f.cal.runs, calMae |-> f.cal.mae,
            calSufficient |-> enough, calScore |-> cals, nowcast |-> outcome,
            nowScore |-> nows, evScore |-> ev, drawScore |-> draw]
  BY <1>1, <1>5, <1>6, <1>7, <1>8, <1>9, <1>10 DEF EvidenceOf
<1>12. Counts \union Measures \union {"nowcast", "calSufficient", "blocking"} = DOMAIN e
  BY <1>11 DEF Counts, Measures
<1>13. \A c \in Counts \union Measures : e[c] \in Int
  <2>1. /\ e.decisions \in Int /\ e.takers \in Int /\ e.lower80 \in Int /\ e.avgLag \in Int
        /\ e.p95Lag \in Int /\ e.depthScore \in Int /\ e.slipScore \in Int
    BY <1>2, <1>11
  <2>2. /\ e.validated \in Int /\ e.resolved \in Int /\ e.matched \in Int /\ e.revised \in Int
        /\ e.unresolved \in Int /\ e.critical \in Int
    BY <1>11
  <2>3. /\ e.errorSamples \in Int /\ e.bestMae \in Int /\ e.calSamples \in Int
        /\ e.calRuns \in Int /\ e.calMae \in Int
    BY <1>3, <1>11
  <2>4. /\ e.fills \in Int /\ e.settled \in Int /\ e.pnl \in Int /\ e.winRate \in Int
        /\ e.calScore \in Int /\ e.nowScore \in Int /\ e.evScore \in Int /\ e.drawScore \in Int
    BY <1>11
  <2> QED BY <2>1, <2>2, <2>3, <2>4 DEF Counts, Measures
<1>14. e.nowcast \in Nowcasts /\ e.calSufficient \in BOOLEAN
       /\ e.blocking \subseteq {"min_ev", "max_friction", "lag"}
  <2>1. e.nowcast = outcome /\ e.calSufficient = enough /\ e.blocking = F.blocking
    BY <1>11
  <2> QED BY <1>2, <2>1
<1>15. e.resolved <= e.validated /\ e.lower80 = Lower80(Takers(D)) /\ e.fills = Batch * n
  BY <1>2, <1>5, <1>9, <1>11
<1> QED BY <1>12, <1>13, <1>14, <1>15 DEF Consistent, EvidenceTyped

\* e is the evidence of these parts, each of its type.
MadeOf(e, D, made, n, predicted, r, f) ==
  /\ IsBag(D) /\ made \in Seq(Int) /\ n \in Int /\ predicted \in Int
  /\ r \in [MarketGroups -> Verdicts \union {"none"}] /\ f \in Forecasts
  /\ e = EvidenceOf(DecisionFigures(D), n, made, predicted, r, f)

LEMMA MadeIsTyped ==
  ASSUME NEW e, NEW D, NEW made, NEW n, NEW predicted, NEW r, NEW f,
         MadeOf(e, D, made, n, predicted, r, f)
  PROVE  Consistent(e) /\ e.lower80 = Lower80(Takers(D))
<1>1. /\ IsBag(D) /\ made \in Seq(Int) /\ n \in Int /\ predicted \in Int
      /\ r \in [MarketGroups -> Verdicts \union {"none"}] /\ f \in Forecasts
      /\ e = EvidenceOf(DecisionFigures(D), n, made, predicted, r, f)
  BY DEF MadeOf
<1> QED BY ONLY <1>1, EvidenceIsTyped

-----------------------------------------------------------------------------
(* A settled position that made more *)

LEMMA ProductsCompare ==
  ASSUME NEW c \in Nat, NEW x \in Int, NEW y \in Int, x <= y
  PROVE  c * x <= c * y /\ c * x \in Int /\ c * y \in Int
<1>1. PICK d \in Nat : d = y - x
  OBVIOUS
<1>2. \A a, b \in Nat : a * b \in Nat
  OBVIOUS
<1>3. \A a, b \in Int : a * b \in Int
  OBVIOUS
<1>4. c * y = c * x + c * d
  <2>1. y = x + d
    BY <1>1
  <2>2. c * (x + d) = c * x + c * d
    OBVIOUS
  <2> QED BY <2>1, <2>2
<1>5. c * d \in Nat /\ c * x \in Int /\ c * y \in Int
  BY <1>2, <1>3
<1> QED BY <1>4, <1>5

LEMMA QuotientsCompare ==
  ASSUME NEW n \in Nat \ {0}, NEW x \in Int, NEW y \in Int, x <= y
  PROVE  x \div n <= y \div n /\ x \div n \in Int /\ y \div n \in Int
<1>1. PICK p \in Int, q \in Int : p = x \div n /\ q = y \div n
  BY Divides
<1>2. n * p <= x /\ y < n * q + n
  <2>1. \A z \in Int : n * (z \div n) <= z /\ z < n * (z \div n) + n
    OBVIOUS
  <2> QED BY <1>1, <2>1
<1>3. ASSUME q + 1 <= p PROVE FALSE
  <2>1. n * (q + 1) <= n * p /\ n * (q + 1) \in Int /\ n * p \in Int
    BY <1>3, ProductsCompare
  <2>2. n * (q + 1) = n * q + n /\ n * q \in Int
    OBVIOUS
  <2> QED BY <1>2, <2>1, <2>2
<1> QED BY <1>1, <1>3

LEMMA CutsCompare ==
  ASSUME NEW x \in Int, NEW y \in Int, x <= y
  PROVE  /\ Clamp(x) <= Clamp(y) /\ Clamp(x) \in Int /\ Clamp(y) \in Int
         /\ Clamp(x) >= 0 /\ (x <= 0 => Clamp(x) = 0)
<1>1. \A z \in Int : Clamp(z) = IF z <= 0 THEN 0 ELSE IF z <= 100 THEN z ELSE 100
  <2> TAKE z \in Int
  <2>1. PICK m \in Int : m = Min({100, z}) /\ m = IF 100 <= z THEN 100 ELSE z
    <3>1. 100 \in Int
      OBVIOUS
    <3> QED BY <3>1, MinOfTwo
  <2>2. Max({0, m}) = IF 0 >= m THEN 0 ELSE m
    <3>1. 0 \in Int
      OBVIOUS
    <3> QED BY <3>1, MinOfTwo
  <2> QED BY <2>1, <2>2 DEF Clamp
<1> QED BY <1>1

LEMMA ScoresCompare ==
  ASSUME NEW count \in Nat, NEW full \in Nat \ {0}, NEW x \in Int, NEW y \in Int, x <= y
  PROVE  Score(count, full, x) <= Score(count, full, y)
<1>1. PICK c \in Nat : c = Min({count, full})
  BY MinOfTwo
<1>2. c * x <= c * y /\ c * x \in Int /\ c * y \in Int
  BY ProductsCompare
<1> QED BY <1>1, <1>2, QuotientsCompare DEF Score

\* One amount raised.
Raised(a, b, k) ==
  /\ a \in Seq(Int) /\ b \in Seq(Int) /\ Len(b) = Len(a)
  /\ k \in DOMAIN a /\ \A n \in DOMAIN a \ {k} : a[n] = b[n]
  /\ b[k] >= a[k]

LEMMA RaisedIs ==
  ASSUME NEW a, NEW b, NEW k, Raised(a, b, k)
  PROVE  \E N \in Nat \ {0} :
           /\ N = Len(a) /\ N = Len(b) /\ DOMAIN a = 1 .. N /\ DOMAIN b = 1 .. N
           /\ k \in 1 .. N
           /\ \A n \in 1 .. N : /\ a[n] \in Int /\ b[n] \in Int /\ a[n] <= b[n]
                                /\ (n # k => a[n] = b[n])
<1>1. a \in Seq(Int) /\ b \in Seq(Int) /\ Len(b) = Len(a) /\ k \in DOMAIN a
  BY DEF Raised
<1>2. PICK N \in Nat : N = Len(a) /\ N = Len(b) /\ DOMAIN a = 1 .. N /\ DOMAIN b = 1 .. N
  BY <1>1
<1>3. N # 0 /\ k \in 1 .. N
  BY <1>1, <1>2
<1>4. \A n \in 1 .. N : a[n] \in Int /\ b[n] \in Int
  BY <1>1, <1>2
<1>5. \A n \in 1 .. N : n # k => a[n] = b[n]
  BY <1>2 DEF Raised
<1>6. a[k] <= b[k]
  BY <1>3, <1>4 DEF Raised
<1>7. \A n \in 1 .. N : a[n] <= b[n]
  <2> SUFFICES ASSUME NEW n \in 1 .. N PROVE a[n] <= b[n]
    OBVIOUS
  <2>1. CASE n = k
    BY <1>6, <2>1
  <2>2. CASE n # k
    <3>1. PICK x \in Int : x = a[n] /\ x = b[n]
      BY <1>4, <1>5, <2>2
    <3> QED BY <3>1
  <2> QED BY <2>1, <2>2
<1> WITNESS N \in Nat \ {0}
<1> QED BY <1>2, <1>3, <1>4, <1>5, <1>7

LEMMA TotalsRaised ==
  ASSUME NEW a, NEW b, NEW k, Raised(a, b, k), NEW n \in 0 .. Len(a)
  PROVE  Total(SubSeq(b, 1, n)) =
           Total(SubSeq(a, 1, n)) + (IF n < k THEN 0 ELSE b[k] - a[k])
<1>1. PICK N \in Nat \ {0} :
        /\ N = Len(a) /\ N = Len(b) /\ DOMAIN a = 1 .. N /\ DOMAIN b = 1 .. N /\ k \in 1 .. N
        /\ \A i \in 1 .. N : a[i] \in Int /\ b[i] \in Int /\ (i # k => a[i] = b[i])
  BY RaisedIs
<1>2. PICK c \in Seq(Int), d \in Seq(Int) : c = SubSeq(a, 1, n) /\ d = SubSeq(b, 1, n)
  <2>1. a \in Seq(Int) /\ b \in Seq(Int) /\ Len(b) = Len(a)
    BY DEF Raised
  <2>2. \A t \in Seq(Int) : n \in 0 .. Len(t) => SubSeq(t, 1, n) \in Seq(Int)
    OBVIOUS
  <2> QED BY <2>1, <2>2
<1>3. /\ Len(c) = n /\ Len(d) = n /\ DOMAIN c = 1 .. n /\ DOMAIN d = 1 .. n
      /\ \A i \in 1 .. n : c[i] = a[i] /\ d[i] = b[i]
  BY <1>1, <1>2 DEF Raised
<1>4. k \in 1 .. N /\ a[k] \in Int /\ b[k] \in Int
  BY <1>1
<1>5. CASE n < k
  <2>1. ASSUME NEW i \in 1 .. n PROVE c[i] = d[i]
    <3>1. i \in 1 .. N /\ i # k
      BY <1>1, <1>4, <1>5
    <3> QED BY <1>1, <1>3, <3>1
  <2>2. c = d
    BY <1>2, <1>3, <2>1
  <2>3. PICK t \in Int : t = Total(c)
    BY TotalType
  <2>4. Total(SubSeq(b, 1, n)) = t /\ Total(SubSeq(a, 1, n)) = t
    BY <1>2, <2>2, <2>3
  <2> QED BY <1>5, <2>4
<1>6. CASE ~ (n < k)
  <2>1. k \in DOMAIN c /\ c[k] = a[k] /\ d[k] = b[k]
    BY <1>1, <1>3, <1>4, <1>6
  <2>2. \A i \in DOMAIN c \ {k} : c[i] = d[i]
    BY <1>1, <1>3 DEF Raised
  <2>3. Total(d) = Total(c) + (d[k] - c[k])
    BY <1>3, <2>1, <2>2, TotalUpdate
  <2> QED BY <1>2, <1>6, <2>1, <2>3
<1> QED BY <1>5, <1>6

LEMMA PnlRises ==
  ASSUME NEW a, NEW b, NEW k, Raised(a, b, k)
  PROVE  PnlOf(a) <= PnlOf(b) /\ PnlOf(a) \in Int /\ PnlOf(b) \in Int
<1>1. Total(b) = Total(a) + (b[k] - a[k]) /\ Total(a) \in Int
  BY TotalUpdate, TotalType DEF Raised
<1>2. b[k] - a[k] \in Nat
  BY DEF Raised
<1> QED BY <1>1, <1>2 DEF PnlOf

LEMMA DrawdownFalls ==
  ASSUME NEW a, NEW b, NEW k, Raised(a, b, k)
  PROVE  MaxDrawdown(b) <= MaxDrawdown(a) /\ MaxDrawdown(b) \in Int /\ MaxDrawdown(a) \in Int
<1>1. PICK N \in Nat, d \in Nat : N = Len(a) /\ N = Len(b) /\ k \in 1 .. N /\ d = b[k] - a[k]
  <2>1. PICK N \in Nat \ {0} : /\ N = Len(a) /\ N = Len(b) /\ k \in 1 .. N
          /\ \A n \in 1 .. N : a[n] \in Int /\ b[n] \in Int /\ a[n] <= b[n]
    BY RaisedIs
  <2>2. PICK d \in Nat : d = b[k] - a[k]
    BY <2>1
  <2> QED BY <2>1, <2>2
<1>2. PICK u, v : /\ u = [n \in 0 .. N |-> Total(SubSeq(a, 1, n))]
                  /\ v = [n \in 0 .. N |-> Total(SubSeq(b, 1, n))]
  OBVIOUS
<1>3. \A n \in 0 .. N : /\ u[n] \in Int /\ v[n] \in Int
                        /\ v[n] = u[n] + (IF n < k THEN 0 ELSE d)
  <2> TAKE n \in 0 .. N
  <2>1. u[n] = Total(SubSeq(a, 1, n)) /\ v[n] = Total(SubSeq(b, 1, n))
    BY <1>2
  <2>2. u[n] \in Int /\ v[n] \in Int
    BY <1>1, <2>1, TotalsOfParts DEF Raised
  <2>3. Total(SubSeq(b, 1, n)) =
          Total(SubSeq(a, 1, n)) + (IF n < k THEN 0 ELSE b[k] - a[k])
    BY <1>1, TotalsRaised
  <2> QED BY <1>1, <2>1, <2>2, <2>3
<1>4. PICK S : S = {m \in (0 .. N) \X (0 .. N) : m[1] <= m[2]}
  OBVIOUS
<1>5. IsFiniteSet(S) /\ S # {} /\ S \subseteq (0 .. N) \X (0 .. N)
  <2>1. IsFiniteSet(0 .. N)
    <3>1. 0 \in Int /\ N \in Int
      OBVIOUS
    <3> QED BY <3>1, FS_Interval
  <2>2. IsFiniteSet((0 .. N) \X (0 .. N))
    BY <2>1, FS_Product
  <2>3. S \in SUBSET ((0 .. N) \X (0 .. N)) /\ <<0, 0>> \in S
    BY <1>4
  <2> QED BY <2>2, <2>3, FS_Subset
<1>6. PICK f, g : f = [p \in S |-> u[p[1]] - u[p[2]]] /\ g = [p \in S |-> v[p[1]] - v[p[2]]]
  OBVIOUS
<1>7. f \in [S -> Int] /\ g \in [S -> Int]
  BY <1>3, <1>5, <1>6
<1>8. PICK T, R : T = {f[p] : p \in S} /\ R = {g[p] : p \in S}
  OBVIOUS
<1>9. Max(T) \in T /\ (\A y \in T : Max(T) >= y) /\ Max(R) \in R
  BY <1>5, <1>7, <1>8, Extremes
<1>10. MaxDrawdown(a) = Max(T) /\ MaxDrawdown(b) = Max(R)
  <2>1. {Total(SubSeq(a, 1, p[1])) - Total(SubSeq(a, 1, p[2])) : p \in S} = T
    <3>1. \A p \in S : f[p] = Total(SubSeq(a, 1, p[1])) - Total(SubSeq(a, 1, p[2]))
      BY <1>2, <1>5, <1>6
    <3> QED BY <1>8, <3>1
  <2>2. {Total(SubSeq(b, 1, p[1])) - Total(SubSeq(b, 1, p[2])) : p \in S} = R
    <3>1. \A p \in S : g[p] = Total(SubSeq(b, 1, p[1])) - Total(SubSeq(b, 1, p[2]))
      BY <1>2, <1>5, <1>6
    <3> QED BY <1>8, <3>1
  <2> QED BY <1>1, <1>4, <2>1, <2>2 DEF MaxDrawdown
<1>11. PICK p \in S : Max(R) = g[p]
  BY <1>8, <1>9
<1>12. g[p] <= f[p]
  <2>1. p[1] \in 0 .. N /\ p[2] \in 0 .. N /\ p[1] <= p[2]
    BY <1>4
  <2>2. PICK m \in 0 .. N, n \in 0 .. N : m = p[1] /\ n = p[2] /\ m <= n
    BY <2>1
  <2>3. /\ u[m] \in Int /\ u[n] \in Int /\ v[m] \in Int /\ v[n] \in Int
        /\ v[m] = u[m] + (IF m < k THEN 0 ELSE d) /\ v[n] = u[n] + (IF n < k THEN 0 ELSE d)
    BY <1>3
  <2>4. v[m] - v[n] <= u[m] - u[n]
    <3>1. PICK x \in Int, y \in Int : x = u[m] /\ y = u[n]
      BY <2>3
    <3>2. v[m] = x + (IF m < k THEN 0 ELSE d) /\ v[n] = y + (IF n < k THEN 0 ELSE d)
      BY <2>3, <3>1
    <3>3. k \in Int /\ m \in Int /\ n \in Int /\ m <= n /\ d \in Nat
      BY <1>1, <2>2
    <3>4. (x + (IF m < k THEN 0 ELSE d)) - (y + (IF n < k THEN 0 ELSE d)) <= x - y
      BY <3>3
    <3> QED BY <3>1, <3>2, <3>4
  <2> QED BY <1>6, <2>2, <2>4
<1>13. f[p] \in T /\ Max(T) \in Int /\ g[p] \in Int /\ f[p] \in Int
  BY <1>7, <1>8, <1>9
<1> QED BY <1>9, <1>10, <1>11, <1>12, <1>13

LEMMA DrawdownScoreRises ==
  ASSUME NEW a, NEW b, NEW k, Raised(a, b, k)
  PROVE  DrawdownScore(a) <= DrawdownScore(b)
<1>1. PICK N \in Nat : N = Len(a) /\ N = Len(b)
  BY DEF Raised
<1>2. PICK x \in Int, y \in Int : x = Batch * MaxDrawdown(a) /\ y = Batch * MaxDrawdown(b) /\ y <= x
  BY DrawdownFalls, ProductsCompare, BatchAssumption
<1>3. PICK s \in Int, t \in Int : s = x \div 10 /\ t = y \div 10 /\ t <= s
  <2>1. 10 \in Nat \ {0}
    OBVIOUS
  <2> QED BY <1>2, <2>1, QuotientsCompare
<1>4. PICK v \in Int, w \in Int : v = Clamp(100 - s) /\ w = Clamp(100 - t) /\ v <= w
  <2>1. 100 - s \in Int /\ 100 - t \in Int /\ 100 - s <= 100 - t
    BY <1>3
  <2> QED BY <2>1, CutsCompare
<1>5. Batch * N \in Nat /\ 10 \in Nat \ {0}
  BY BatchAssumption, Products
<1>6. Score(Batch * N, 10, v) <= Score(Batch * N, 10, w)
  BY <1>4, <1>5, ScoresCompare
<1> QED BY <1>1, <1>2, <1>3, <1>4, <1>6 DEF DrawdownScore

\* The EV score rises too, but for a record that made exactly nothing.
LEMMA EvScoreRises ==
  ASSUME NEW a, NEW b, NEW k, Raised(a, b, k), PnlOf(a) # 0,
         NEW fs \in Nat, NEW lower \in Int, NEW predicted \in Int
  PROVE  EvScore(fs, lower, a, predicted) <= EvScore(fs, lower, b, predicted)
<1>1. PICK N \in Nat \ {0} : N = Len(a) /\ N = Len(b)
  BY DEF Raised
<1>2. PICK p \in Int, q \in Int : p = PnlOf(a) /\ q = PnlOf(b) /\ p <= q /\ p # 0
  BY PnlRises
<1>3. PICK l \in Int : l = OrElse(lower, 0)
  <2>1. 0 \in Int
    OBVIOUS
  <2> QED BY <2>1, Cuts
<1>4. PICK x \in Int, y \in Int : x = MeanOr(p, N, l) /\ y = MeanOr(q, N, l)
  BY Cuts
<1>5. p \div N <= q \div N /\ p \div N \in Int /\ q \div N \in Int /\ (p < 0 => p \div N < 0)
  <2>1. p \div N <= q \div N /\ p \div N \in Int /\ q \div N \in Int
    BY <1>2, QuotientsCompare
  <2>2. p < 0 => p \div N <= (-1) \div N
    <3>1. -1 \in Int /\ (p < 0 => p <= -1)
      OBVIOUS
    <3> QED BY <3>1, QuotientsCompare
  <2>3. (-1) \div N = -1
    OBVIOUS
  <2> QED BY <2>1, <2>2, <2>3
<1>6. x = p \div N /\ (q # 0 => y = q \div N)
  BY <1>2, <1>4 DEF MeanOr
<1>7. PICK r \in Int, s \in Int : r = Clamp(5 * x) /\ s = Clamp(5 * y) /\ r <= s
  <2>1. 5 * x \in Int /\ 5 * y \in Int /\ 5 \in Nat
    OBVIOUS
  <2>2. CASE x <= y
    <3>1. 5 * x <= 5 * y
      BY <2>1, <2>2
    <3> QED BY <2>1, <3>1, CutsCompare
  <2>3. CASE ~ (x <= y)
    <3>1. x < 0
      BY <1>2, <1>5, <1>6, <2>3
    <3>2. 5 * x <= 0 /\ 5 * x <= 5 * x /\ 5 * y <= 5 * y
      BY <2>1, <3>1
    <3>3. Clamp(5 * x) = 0 /\ Clamp(5 * y) >= 0 /\ Clamp(5 * y) \in Int
      BY <2>1, <3>2, CutsCompare
    <3> QED BY <3>3
  <2> QED BY <2>2, <2>3
<1>8. PICK v \in Int, w \in Int :
        /\ v = Clamp((5 * (p - predicted)) \div N + 50)
        /\ w = Clamp((5 * (q - predicted)) \div N + 50) /\ v <= w
  <2>1. PICK d \in Int, e \in Int : d = 5 * (p - predicted) /\ e = 5 * (q - predicted) /\ d <= e
    BY <1>2
  <2>2. PICK f \in Int, g \in Int : f = d \div N /\ g = e \div N /\ f <= g
    BY <2>1, QuotientsCompare
  <2>3. f + 50 \in Int /\ g + 50 \in Int /\ f + 50 <= g + 50
    BY <2>2
  <2> QED BY <2>1, <2>2, <2>3, CutsCompare
<1>9. PICK c \in Int : c = Clamp(5 * l)
  <2>1. 5 * l \in Int
    OBVIOUS
  <2> QED BY <2>1, Cuts
<1>10. PICK g \in Int, h \in Int : /\ g = (60 * c + 25 * r + 15 * v) \div 100
                                   /\ h = (60 * c + 25 * s + 15 * w) \div 100 /\ g <= h
  <2>1. /\ 60 * c + 25 * r + 15 * v \in Int /\ 60 * c + 25 * s + 15 * w \in Int
        /\ 60 * c + 25 * r + 15 * v <= 60 * c + 25 * s + 15 * w /\ 100 \in Nat \ {0}
    BY <1>7, <1>8
  <2> QED BY <2>1, QuotientsCompare
<1>11. Batch * fs \in Nat /\ 20 \in Nat \ {0}
  BY BatchAssumption
<1>12. Score(Batch * fs, 20, g) <= Score(Batch * fs, 20, h)
  BY <1>10, <1>11, ScoresCompare
<1> QED BY <1>1, <1>2, <1>3, <1>4, <1>7, <1>8, <1>9, <1>10, <1>12 DEF EvScore

WinRate(made) ==
  IF made = <<>> THEN 0
  ELSE CeilDiv(100 * Cardinality({i \in DOMAIN made : made[i] > 0}), Len(made))

LEMMA WinRateRises ==
  ASSUME NEW a, NEW b, NEW k, Raised(a, b, k)
  PROVE  WinRate(a) <= WinRate(b)
<1>1. PICK n \in Nat \ {0} : /\ n = Len(a) /\ n = Len(b) /\ DOMAIN a = 1 .. n /\ DOMAIN b = 1 .. n
                             /\ a # <<>> /\ b # <<>>
  BY DEF Raised
<1>2. PICK S, T : S = {i \in DOMAIN a : a[i] > 0} /\ T = {i \in DOMAIN b : b[i] > 0}
  OBVIOUS
<1>3. S \in SUBSET T /\ T \in SUBSET (1 .. n)
  <2>1. \A i \in 1 .. n : a[i] \in Int /\ b[i] \in Int /\ a[i] <= b[i]
    BY <1>1, RaisedIs
  <2> QED BY <1>1, <1>2, <2>1
<1>4. IsFiniteSet(T)
  <2>1. 1 \in Int /\ n \in Int
    OBVIOUS
  <2>2. IsFiniteSet(1 .. n)
    BY <2>1, FS_Interval
  <2> QED BY <1>3, <2>2, FS_Subset
<1>5. PICK i \in Nat, j \in Nat : i = Cardinality(S) /\ j = Cardinality(T) /\ i <= j
  BY <1>3, <1>4, FS_Subset, FS_CardinalityType
<1>6. -(100 * j) \in Int /\ -(100 * i) \in Int /\ -(100 * j) <= -(100 * i)
  BY <1>5
<1>7. /\ (-(100 * j)) \div n <= (-(100 * i)) \div n
      /\ (-(100 * j)) \div n \in Int /\ (-(100 * i)) \div n \in Int
  BY <1>6, QuotientsCompare
<1>8. CeilDiv(100 * i, n) <= CeilDiv(100 * j, n)
  BY <1>7 DEF CeilDiv
<1> QED BY <1>1, <1>2, <1>5, <1>8 DEF WinRate

\* All that the evidence says of a raised result is no worse.
LEMMA EvidenceRises ==
  ASSUME NEW D, IsBag(D), NEW a, NEW b, NEW k, Raised(a, b, k), PnlOf(a) # 0,
         NEW n \in Nat, NEW predicted \in Int,
         NEW r \in [MarketGroups -> Verdicts \union {"none"}], NEW f \in Forecasts,
         NEW e, e = EvidenceOf(DecisionFigures(D), n, a, predicted, r, f),
         NEW h, h = EvidenceOf(DecisionFigures(D), n, b, predicted, r, f)
  PROVE  BetterResults(e, h)
<1>1. PICK F : F = DecisionFigures(D)
  OBVIOUS
<1>2. F.lower80 \in Int
  BY <1>1, FiguresAreInt
<1>3. a \in Seq(Int) /\ b \in Seq(Int) /\ Len(a) = Len(b) /\ n \in Int
  BY DEF Raised
<1>4. Consistent(e) /\ Consistent(h)
  BY <1>3, EvidenceIsTyped
<1>5. /\ e.winRate = WinRate(a) /\ h.winRate = WinRate(b)
      /\ e.drawScore = DrawdownScore(a) /\ h.drawScore = DrawdownScore(b)
      /\ e.evScore = EvScore(n, F.lower80, a, predicted)
      /\ h.evScore = EvScore(n, F.lower80, b, predicted)
      /\ e.pnl = Batch * PnlOf(a) /\ h.pnl = Batch * PnlOf(b)
  BY <1>1 DEF EvidenceOf, WinRate
<1>6. e.pnl <= h.pnl
  BY <1>5, PnlRises, ProductsCompare, BatchAssumption
<1>7. e.winRate <= h.winRate /\ e.drawScore <= h.drawScore /\ e.evScore <= h.evScore
  BY <1>2, <1>5, WinRateRises, DrawdownScoreRises, EvScoreRises
<1>8. \A c \in Results : e[c] \in Int /\ h[c] \in Int
  BY <1>4 DEF Consistent, EvidenceTyped, Counts, Measures, Results
<1>9. \A c \in Results : h[c] >= e[c]
  BY <1>6, <1>7, <1>8 DEF Results
<1>10. \A c \in DOMAIN e \ Results : h[c] = e[c]
  <2>1. DOMAIN e = Counts \union Measures \union {"nowcast", "calSufficient", "blocking"}
    BY <1>4 DEF Consistent, EvidenceTyped
  <2>2. \A c \in (Counts \union Measures \union {"nowcast", "calSufficient", "blocking"}) \ Results :
          h[c] = e[c]
    <3>1. Len(b) = Len(a)
      BY <1>3
    <3> QED BY <3>1 DEF EvidenceOf, Counts, Measures, Results
  <2> QED BY <2>1, <2>2
<1> QED BY <1>4, <1>9, <1>10 DEF BetterResults

-----------------------------------------------------------------------------
(* The store *)

\* One more decision.
LEMMA OneMoreDecision ==
  ASSUME NEW D, IsBag(D), NEW d \in Records, NEW E, E = D (+) SetToBag({d})
  PROVE  /\ IsBag(E) /\ DOMAIN E = DOMAIN D \union {d}
         /\ Size(E) = Size(D) + 1
         /\ Size(Takers(E)) = Size(Takers(D)) + (IF d.taker THEN 1 ELSE 0)
<1>0. D \in [DOMAIN D -> Nat \ {0}] /\ IsFiniteSet(DOMAIN D) /\ DOMAIN D \subseteq Records
  BY DEF IsBag, BagOf
<1>1. E = [x \in DOMAIN D \union {d} |->
             (IF x \in DOMAIN D THEN D[x] ELSE 0) + (IF x \in {d} THEN 1 ELSE 0)]
  <2>1. SetToBag({d}) = [x \in {d} |-> 1]
    BY DEF SetToBag
  <2>2. PICK B : B = SetToBag({d}) /\ DOMAIN B = {d} /\ B[d] = 1
    BY <2>1
  <2>3. E = [x \in DOMAIN D \union DOMAIN B |->
               (IF x \in DOMAIN D THEN D[x] ELSE 0) + (IF x \in DOMAIN B THEN B[x] ELSE 0)]
    BY <2>2 DEF (+)
  <2> QED BY <2>2, <2>3
<1>2. /\ DOMAIN E = DOMAIN D \union {d}
      /\ E[d] = (IF d \in DOMAIN D THEN D[d] ELSE 0) + 1
      /\ \A x \in DOMAIN D \ {d} : E[x] = D[x]
      /\ E \in [DOMAIN D \union {d} -> Nat \ {0}]
  <2>1. DOMAIN E = DOMAIN D \union {d}
    BY <1>1
  <2>2. E[d] = (IF d \in DOMAIN D THEN D[d] ELSE 0) + 1
    BY <1>1
  <2>3. \A x \in DOMAIN D \ {d} : E[x] = D[x]
    BY <1>0, <1>1
  <2>4. \A x \in DOMAIN D \union {d} : E[x] \in Nat \ {0}
    <3>1. \A x \in DOMAIN D : D[x] \in Nat \ {0}
      BY <1>0
    <3>2. E[d] \in Nat \ {0}
      BY <2>2, <3>1
    <3>3. \A x \in DOMAIN D \ {d} : E[x] \in Nat \ {0}
      BY <2>3, <3>1
    <3> QED BY <3>2, <3>3
  <2>5. E \in [DOMAIN D \union {d} -> Nat \ {0}]
    BY <1>1, <2>4
  <2> QED BY <2>1, <2>2, <2>3, <2>5
<1>3. IsBag(E)
  <2>1. IsFiniteSet(DOMAIN D \union {d})
    BY <1>0, FS_AddElement
  <2>2. DOMAIN E \subseteq Records
    BY <1>0, <1>2
  <2> QED BY <1>2, <2>1, <2>2 DEF IsBag, BagOf
<1>4. Size(E) = Size(D) + 1
  <2>1. D \in [DOMAIN D -> Int] /\ E \in [DOMAIN D \union {d} -> Int]
    BY <1>0, <1>2
  <2> QED BY <1>0, <1>2, <2>1, SumOneMore DEF Size
<1>5. Size(Takers(E)) = Size(Takers(D)) + (IF d.taker THEN 1 ELSE 0)
  <2>1. PICK P : P = Takers(D)
    OBVIOUS
  <2>2. PICK Q : Q = Takers(E)
    OBVIOUS
  <2>3. /\ IsBag(P) /\ DOMAIN P = {x \in DOMAIN D : x.taker}
        /\ \A x \in DOMAIN P : P[x] = D[x]
    BY <2>1, TakersAreBag
  <2>4. /\ IsBag(Q) /\ DOMAIN Q = {x \in DOMAIN E : x.taker}
        /\ \A x \in DOMAIN Q : Q[x] = E[x]
    BY <1>3, <2>2, TakersAreBag
  <2>5. P \in [DOMAIN P -> Int] /\ Q \in [DOMAIN Q -> Int] /\ IsFiniteSet(DOMAIN P)
    <3>1. P \in [DOMAIN P -> Nat \ {0}] /\ IsFiniteSet(DOMAIN P)
      BY <2>3 DEF IsBag, BagOf
    <3>2. Q \in [DOMAIN Q -> Nat \ {0}]
      BY <2>4 DEF IsBag, BagOf
    <3>3. \A S : [S -> Nat \ {0}] \subseteq [S -> Int]
      OBVIOUS
    <3> QED BY <3>1, <3>2, <3>3
  <2>6. SumOver(P) \in Int
    BY <2>5, SumType
  <2>7. CASE d.taker
    <3>1. DOMAIN Q = DOMAIN P \union {d}
      BY <1>2, <2>3, <2>4, <2>7
    <3>2. Q[d] = (IF d \in DOMAIN P THEN P[d] ELSE 0) + 1
      BY <1>2, <2>3, <2>4, <2>7
    <3>3. \A x \in DOMAIN P \ {d} : Q[x] = P[x]
      BY <1>2, <2>3, <2>4
    <3>4. SumOver(Q) = SumOver(P) + 1
      BY <2>5, <3>1, <3>2, <3>3, SumOneMore
    <3> QED BY <2>1, <2>2, <2>7, <3>4 DEF Size
  <2>8. CASE ~ d.taker
    <3>1. DOMAIN Q = DOMAIN P
      BY <1>2, <2>3, <2>4, <2>8
    <3>2. \A x \in DOMAIN P : Q[x] = P[x]
      BY <1>2, <2>3, <2>4, <2>8
    <3>3. Q = P
      BY <2>5, <3>1, <3>2
    <3> QED BY <2>1, <2>2, <2>6, <2>8, <3>3 DEF Size
  <2> QED BY <2>7, <2>8
<1> QED BY <1>2, <1>3, <1>4, <1>5

-----------------------------------------------------------------------------
(* Runs of the refresh tool *)

Phases == {"none", "corpus", "reconcile", "update", "judge"}

ToolOK ==
  \/ tool \in [phase : Phases \ {"judge"}, cut : BOOLEAN,
               truth : [MarketGroups -> Verdicts \union {"none"}]]
  \/ /\ tool = [phase |-> "judge", cut |-> tool.cut, truth |-> tool.truth,
                figures |-> tool.figures]
     /\ tool.cut \in BOOLEAN /\ tool.truth \in [MarketGroups -> Verdicts \union {"none"}]

\* The strengthening: a corpus that was not cut has all its rows, and keeps them until
\* the city is judged on them.
IInv ==
  /\ ToolOK
  /\ truth \in [MarketGroups -> Verdicts \union {"none"}]
  /\ rows \in [MarketGroups -> Verdicts \union {"none"}]
  /\ tool.phase \in {"reconcile", "update", "judge"} /\ ~ tool.cut => rows = tool.truth
  /\ MismatchBlocks

\* One row with a mismatch makes the count of critical mismatches positive.
LEMMA MismatchCounts ==
  ASSUME ToolOK, tool.phase = "judge", rows \in [MarketGroups -> Verdicts \union {"none"}],
         NEW g \in MarketGroups, rows[g] = "mismatch"
  PROVE  Evidence.critical > 0
<1> DEFINE bad == {mk \in DOMAIN rows : rows[mk] \in {"mismatch"}}
<1>1. IsFiniteSet(bad) /\ bad # {}
  <2>1. bad \subseteq MarketGroups /\ g \in bad
    OBVIOUS
  <2> QED BY <2>1, GovernanceAssumption, FS_Subset
<1>2. Cardinality(bad) \in Nat \ {0}
  BY <1>1, FS_CardinalityType, FS_EmptySet
<1>3. RowsPerMarket * Cardinality(bad) > 0
  <2> HIDE DEF bad
  <2>1. RowsPerMarket \in Nat \ {0}
    BY BatchAssumption
  <2> QED BY <1>2, <2>1
<1>4. Evidence.critical = RowsThat(rows, {"mismatch"})
  BY DEF Evidence, EvidenceOn, EvidenceOf
<1> QED BY <1>3, <1>4 DEF RowsThat

THEOREM InitIInv == Init => IInv
<1> SUFFICES ASSUME Init PROVE IInv
  OBVIOUS
<1>1. rows \in [MarketGroups -> Verdicts \union {"none"}] /\ ToolOK
  BY DEF Init, ToolOK, Phases, NoJudgement
<1>2. truth \in [MarketGroups -> Verdicts \union {"none"}]
  BY GovernanceAssumption DEF Init, Verdicts
<1>3. MismatchBlocks
  BY DEF Init, MismatchBlocks, NoJudgement
<1> QED BY <1>1, <1>2, <1>3 DEF Init, IInv

\* ensure_default_qualification never promotes.
LEMMA EnsuredNotPromoted == qual \notin Promoted => Ensured \notin Promoted
  BY DEF Ensured, Promoted

\* A step that leaves the rows, the tool and the judgement alone and promotes nobody.
LEMMA Undisturbed ==
  ASSUME IInv, UNCHANGED <<rows, tool, judged>>,
         truth' \in [MarketGroups -> Verdicts \union {"none"}], qual' \in {qual, Ensured}
  PROVE  IInv'
  BY EnsuredNotPromoted DEF IInv, ToolOK, MismatchBlocks

\* The update: what it was judged on has a row for every group, so a mismatch in what
\* the rows stand for is counted.
LEMMA JudgeStep == ASSUME IInv, Judge PROVE IInv'
<1>1. ToolOK'
  BY DEF Judge, ToolOK, Phases, NoJudgement
<1>2. MismatchBlocks'
  <2> SUFFICES ASSUME ~ tool.cut, NEW g \in MarketGroups, tool.truth[g] = "mismatch"
               PROVE  qual' \notin Promoted
    BY DEF Judge, MismatchBlocks
  <2>1. rows[g] = "mismatch"
    BY DEF IInv, Judge
  <2>2. Evidence.critical > 0
    BY <2>1, MismatchCounts DEF IInv, Judge
  <2>3. Recommend(Evidence, Profile) \notin Promoted
    BY <2>2, MismatchNotPromoted
  <2> QED BY <2>3 DEF Judge, NextState
<1> QED BY <1>1, <1>2 DEF IInv, Judge, world

THEOREM NextIInv == IInv /\ [Next]_vars => IInv'
<1> SUFFICES ASSUME IInv, [Next]_vars PROVE IInv'
  OBVIOUS
<1>1. CASE ReadQualification
  BY <1>1, Undisturbed DEF ReadQualification, world, IInv
<1>2. ASSUME NEW k \in Kinds, SaveDecision(k) PROVE IInv'
  BY <1>2, Undisturbed DEF SaveDecision, world, IInv
<1>3. CASE ClearRows
  BY <1>3 DEF ClearRows, IInv, ToolOK, Phases, MismatchBlocks, world
<1>4. ASSUME NEW g \in MarketGroups, SaveRows(g) PROVE IInv'
  BY <1>4 DEF SaveRows, IInv, ToolOK, Phases, MismatchBlocks, world
<1>5. CASE EndCorpus
  BY <1>5 DEF EndCorpus, IInv, ToolOK, Phases, MismatchBlocks, world, store
<1>6. CASE KillCorpus
  <2>1. tool \in [phase : Phases \ {"judge"}, cut : BOOLEAN,
                 truth : [MarketGroups -> Verdicts \union {"none"}]]
    BY <1>6 DEF KillCorpus, IInv, ToolOK
  <2>2. ToolOK' /\ tool'.cut
    BY <1>6, <2>1 DEF KillCorpus, ToolOK, Phases
  <2> QED BY <1>6, <2>2 DEF KillCorpus, IInv, MismatchBlocks, world, store
<1>7. CASE Reconcile
  BY <1>7 DEF Reconcile, IInv, ToolOK, Phases, MismatchBlocks, world
<1>8. CASE ReadDecisions
  BY <1>8, EnsuredNotPromoted DEF ReadDecisions, IInv, ToolOK, Phases, MismatchBlocks, world
<1>9. CASE Judge
  BY <1>9, JudgeStep
<1>10. CASE WorldChanges
  <2>1. truth' \in [MarketGroups -> Verdicts \union {"none"}]
    BY <1>10 DEF WorldChanges, IInv
  <2> QED BY <1>10, <2>1, Undisturbed DEF WorldChanges, store
<1>11. CASE UNCHANGED vars
  BY <1>11, Undisturbed DEF vars, store, world, IInv
<1> QED BY <1>1, <1>2, <1>3, <1>4, <1>5, <1>6, <1>7, <1>8, <1>9, <1>10, <1>11
        DEF Next, RunGoesOn

\* MismatchBlocks holds of the specification for every profile, every set of market
\* groups and every bound: update_qualification after a corpus that was not cut.
THEOREM MismatchBlocksAlways == Spec => []MismatchBlocks
<1>1. IInv => MismatchBlocks
  BY DEF IInv
<1> QED BY InitIInv, NextIInv, <1>1, PTL DEF Spec

-----------------------------------------------------------------------------
(* The store's rows *)

\* What the tool reads of the decisions is the report on a bag of them, takers above the
\* floor; and no settlement without a fill, no fill without a taker decision.
GInv ==
  /\ IsBag(decisions) /\ AboveFloor(decisions)
  /\ Size(decisions) <= MaxDecisions /\ (cycle # "idle" => Size(decisions) < MaxDecisions)
  /\ fills \in Seq(Int) /\ closed \in Seq(Pnls)
  /\ Len(closed) <= Len(fills) /\ Len(fills) <= Size(Takers(decisions))
  /\ qual \in States \union {"none"} /\ cycle \in {"idle", "trade", "watch"}
  /\ forecast \in Forecasts
  /\ tool.phase = "judge" =>
       \E D : IsBag(D) /\ AboveFloor(D) /\ tool.figures = DecisionFigures(D)

LEMMA InitGInv == Init => GInv
<1> SUFFICES ASSUME Init PROVE GInv
  OBVIOUS
<1>1. decisions = [x \in {} |-> 1] /\ DOMAIN decisions = {}
  BY DEF Init, EmptyBag, SetToBag
<1>2. IsBag(decisions) /\ AboveFloor(decisions)
  BY <1>1, FS_EmptySet DEF IsBag, BagOf, AboveFloor
<1>3. Size(decisions) = 0
  BY <1>1, SumEmpty DEF Size
<1>4. Size(Takers(decisions)) \in Nat
  BY <1>2, TakersAreBag, SizeIs
<1>5. fills = <<>> /\ closed = <<>> /\ cycle = "idle" /\ qual = "none" /\ forecast \in Forecasts
      /\ tool.phase = "none"
  BY DEF Init
<1> QED BY <1>2, <1>3, <1>4, <1>5, GovernanceAssumption DEF GInv

\* Steps that leave the store's bag and sequences alone.
LEMMA StoreKept ==
  ASSUME GInv, decisions' = decisions, fills' = fills, closed' = closed, cycle' = cycle,
         qual' \in States \union {"none"}, forecast' \in Forecasts,
         tool'.phase = "judge" =>
           \E D : IsBag(D) /\ AboveFloor(D) /\ tool'.figures = DecisionFigures(D)
  PROVE  GInv'
  BY DEF GInv

LEMMA EnsuredIsState == qual \in States \union {"none"} => Ensured \in States
  BY DEF Ensured, States

LEMMA SaveDecisionGInv ==
  ASSUME GInv, NEW k \in Kinds, SaveDecision(k)
  PROVE  GInv'
<1>1. PICK taker \in BOOLEAN : taker = TakerAllowed(k, cycle = "trade")
  BY DEF TakerAllowed
<1>2. PICK d : d = [taker |-> taker, ev |-> k.ev, friction |-> k.friction, lag |-> k.lag,
        tradability |-> k.tradability, quote |-> k.quote, ghost |-> k.ghost,
        candidates |-> IF taker THEN k.candidates ELSE 0,
        slip |-> k.slip, adverse |-> k.adverse]
  OBVIOUS
<1>3. /\ cycle # "idle" /\ cycle' = "idle"
      /\ decisions' = decisions (+) SetToBag({d})
      /\ fills' \in {fills} \union (IF taker THEN {Append(fills, k.ev)} ELSE {})
      /\ closed' = closed /\ qual' = qual /\ tool' = tool /\ forecast' = forecast
  BY <1>1, <1>2 DEF SaveDecision, world
<1>4. k \in Looks
  BY GovernanceAssumption
<1>5. d \in Records /\ d.taker = taker /\ k.ev \in Int /\ (taker => d.ev >= 15)
  <2>1. /\ k.ev \in Int /\ k.friction \in Int /\ k.lag \in Int /\ k.tradability \in Int
        /\ k.quote \in Int /\ k.ghost \in Int /\ k.candidates \in Int /\ k.slip \in Int
        /\ k.adverse \in Int
    BY <1>4 DEF Looks
  <2>2. d \in Records
    BY <1>2, <2>1 DEF Records
  <2>3. taker => k.ev >= 15
    BY <1>1 DEF TakerAllowed
  <2> QED BY <1>2, <2>1, <2>2, <2>3
<1>6. /\ IsBag(decisions') /\ DOMAIN decisions' = DOMAIN decisions \union {d}
      /\ Size(decisions') = Size(decisions) + 1
      /\ Size(Takers(decisions')) = Size(Takers(decisions)) + (IF d.taker THEN 1 ELSE 0)
  BY <1>3, <1>5, OneMoreDecision DEF GInv
<1>7. AboveFloor(decisions')
  BY <1>5, <1>6 DEF GInv, AboveFloor
<1>8. Size(decisions) \in Nat /\ Size(Takers(decisions)) \in Nat
  BY SizeIs, TakersAreBag DEF GInv
<1>9. Size(decisions') <= MaxDecisions
  BY <1>3, <1>6, <1>8, GovernanceAssumption DEF GInv
<1>10. /\ fills' \in Seq(Int) /\ Len(closed) <= Len(fills')
       /\ Len(fills') <= Size(Takers(decisions'))
  <2>1. fills \in Seq(Int) /\ closed \in Seq(Pnls) /\ Len(closed) <= Len(fills)
        /\ Len(fills) <= Size(Takers(decisions))
    BY DEF GInv
  <2>2. PICK m \in Nat, n \in Nat, c \in Nat :
          m = Len(fills) /\ n = Size(Takers(decisions)) /\ c = Len(closed) /\ c <= m /\ m <= n
    BY <1>8, <2>1
  <2>3. CASE taker /\ fills' = Append(fills, k.ev)
    <3>1. fills' \in Seq(Int) /\ Len(fills') = m + 1
      BY <1>5, <2>1, <2>2, <2>3
    <3>2. Size(Takers(decisions')) = n + 1
      BY <1>5, <1>6, <2>2, <2>3
    <3> QED BY <2>2, <3>1, <3>2
  <2>4. CASE fills' = fills
    <3>1. Size(Takers(decisions')) = n \/ Size(Takers(decisions')) = n + 1
      BY <1>6, <2>2
    <3> QED BY <2>1, <2>2, <2>4, <3>1
  <2> QED BY <1>3, <2>3, <2>4
<1> QED BY <1>3, <1>6, <1>7, <1>9, <1>10 DEF GInv

LEMMA ReconcileGInv ==
  ASSUME GInv, Reconcile
  PROVE  GInv'
<1>1. /\ decisions' = decisions /\ fills' = fills /\ qual' = qual /\ cycle' = cycle
      /\ forecast' = forecast /\ tool' = [tool EXCEPT !.phase = "update"]
      /\ closed' \in {closed} \union
           (IF Len(closed) < Len(fills) THEN {Append(closed, p) : p \in Pnls} ELSE {})
  BY DEF Reconcile, world
<1>2. closed \in Seq(Pnls) /\ fills \in Seq(Int) /\ Len(closed) <= Len(fills)
  BY DEF GInv
<1>3. closed' \in Seq(Pnls) /\ Len(closed') <= Len(fills)
  <2>1. CASE closed' = closed
    BY <1>2, <2>1
  <2>2. CASE Len(closed) < Len(fills) /\ \E p \in Pnls : closed' = Append(closed, p)
    BY <1>2, <2>2
  <2> QED BY <1>1, <2>1, <2>2
<1>4. tool'.phase # "judge"
  BY <1>1 DEF Reconcile
<1> QED BY <1>1, <1>3, <1>4 DEF GInv

LEMMA RecommendIsState == \A e, p : Recommend(e, p) \in States
  BY DEF Recommend, RecommendNyc, RecommendStrict, Climb, States

LEMMA NextGInv == ToolOK /\ GInv /\ [Next]_vars => GInv'
<1> SUFFICES ASSUME ToolOK, GInv, [Next]_vars PROVE GInv'
  OBVIOUS
<1>0. /\ qual \in States \union {"none"} /\ forecast \in Forecasts /\ Ensured \in States
      /\ tool.phase = "judge" =>
           \E D : IsBag(D) /\ AboveFloor(D) /\ tool.figures = DecisionFigures(D)
  BY EnsuredIsState DEF GInv
<1>1. CASE ReadQualification
  <2>1. /\ decisions' = decisions /\ fills' = fills /\ closed' = closed /\ forecast' = forecast
        /\ tool' = tool /\ qual' \in States /\ cycle' \in {"trade", "watch"}
        /\ Size(decisions) < MaxDecisions
    BY <1>0, <1>1 DEF ReadQualification, world
  <2> QED BY <1>0, <2>1 DEF GInv
<1>2. ASSUME NEW k \in Kinds, SaveDecision(k) PROVE GInv'
  BY <1>2, SaveDecisionGInv
<1>3. CASE ClearRows
  BY <1>0, <1>3, StoreKept DEF ClearRows, world
<1>4. ASSUME NEW g \in MarketGroups, SaveRows(g) PROVE GInv'
  BY <1>0, <1>4, StoreKept DEF SaveRows, world
<1>5. CASE EndCorpus
  <2>1. tool'.phase # "judge"
    BY <1>5 DEF EndCorpus, ToolOK, Phases
  <2> QED BY <1>0, <1>5, <2>1, StoreKept DEF EndCorpus, store, world
<1>6. CASE KillCorpus
  <2>1. tool'.phase # "judge"
    BY <1>6 DEF KillCorpus, ToolOK, Phases
  <2> QED BY <1>0, <1>6, <2>1, StoreKept DEF KillCorpus, store, world
<1>7. CASE Reconcile
  BY <1>7, ReconcileGInv
<1>8. CASE ReadDecisions
  <2>1. tool'.figures = DecisionFigures(decisions) /\ IsBag(decisions) /\ AboveFloor(decisions)
    BY <1>8 DEF ReadDecisions, GInv
  <2>2. qual' \in States
    BY <1>0, <1>8 DEF ReadDecisions
  <2> QED BY <1>0, <1>8, <2>1, <2>2, StoreKept DEF ReadDecisions, world
<1>9. CASE Judge
  <2>1. qual' \in States /\ tool'.phase # "judge"
    BY <1>9, RecommendIsState DEF Judge, NextState
  <2> QED BY <1>0, <1>9, <2>1, StoreKept DEF Judge, world
<1>10. CASE WorldChanges
  <2>1. forecast' \in Forecasts
    BY <1>0, <1>10 DEF WorldChanges
  <2> QED BY <1>0, <1>10, <2>1, StoreKept DEF WorldChanges, store
<1>11. CASE UNCHANGED vars
  BY <1>0, <1>11, StoreKept DEF vars, store, world
<1> QED BY <1>1, <1>2, <1>3, <1>4, <1>5, <1>6, <1>7, <1>8, <1>9, <1>10, <1>11
        DEF Next, RunGoesOn

LEMMA StoreInv == Spec => [](IInv /\ GInv)
<1>1. Init => IInv /\ GInv
  BY InitIInv, InitGInv
<1>2. IInv /\ GInv /\ [Next]_vars => IInv' /\ GInv'
  <2>1. IInv => ToolOK
    BY DEF IInv
  <2> QED BY <2>1, NextIInv, NextGInv
<1> QED BY <1>1, <1>2, PTL DEF Spec

LEMMA ClosedAreInt == GInv => closed \in Seq(Int)
<1> SUFFICES ASSUME GInv PROVE closed \in Seq(Int)
  OBVIOUS
<1>1. PICK c, m : c = closed /\ m = Len(c) /\ m \in Nat /\ c \in [1 .. m -> Pnls]
  BY DEF GInv
<1>2. c \in [1 .. m -> Int]
  BY <1>1, GovernanceAssumption
<1>3. \A i \in Nat : \A t \in [1 .. i -> Int] : t \in Seq(Int)
  OBVIOUS
<1> QED BY <1>1, <1>2, <1>3

\* What the update judges on: numbers throughout, and the bound of the takers' EV is
\* unknown or above zero.
LEMMA EvidenceHolds ==
  ASSUME IInv, GInv, Judging
  PROVE  Consistent(Evidence) /\ ~ ShadowEvNegative(Evidence)
<1>1. PICK D : IsBag(D) /\ AboveFloor(D) /\ tool.figures = DecisionFigures(D)
  BY DEF GInv, Judging
<1>2. PICK made \in Seq(Int), n \in Int : made = closed /\ n = Len(fills)
  <2>1. fills \in Seq(Int)
    BY DEF GInv
  <2>2. Len(fills) \in Int
    BY <2>1
  <2> QED BY <2>2, ClosedAreInt
<1>3. PICK predicted \in Int : predicted = PredictedOf(Len(closed))
  <2>1. fills \in Seq(Int) /\ Len(closed) \in 0 .. Len(fills)
    BY DEF GInv
  <2> QED BY <2>1, TotalsOfParts DEF PredictedOf
<1>4. PICK r \in [MarketGroups -> Verdicts \union {"none"}], f \in Forecasts :
        r = rows /\ f = forecast
  BY DEF IInv, GInv
<1>5. PICK e : e = Evidence /\ e = EvidenceOf(DecisionFigures(D), n, made, predicted, r, f)
  BY <1>1, <1>2, <1>3, <1>4 DEF Evidence, EvidenceOn
<1>6. Consistent(e) /\ e.lower80 = Lower80(Takers(D))
  <2>1. MadeOf(e, D, made, n, predicted, r, f)
    BY <1>1, <1>5 DEF MadeOf
  <2> QED BY ONLY <2>1, MadeIsTyped
<1>7. PICK T : T = Takers(D)
  OBVIOUS
<1>8. IsBag(T) /\ \A d \in DOMAIN T : d.ev >= 15
  BY <1>1, <1>7, TakersAreBag DEF AboveFloor
<1>9. e.lower80 = Unknown \/ e.lower80 > 0
  <2>1. CASE Size(T) = 0
    BY <1>6, <1>7, <2>1 DEF Lower80
  <2>2. CASE Size(T) # 0
    <3>1. EvAbove(0, Moments(T))
      BY <1>8, <2>2, FloorLifts
    <3>2. Lower80(T) \in 0 .. 21 /\ Lower80(T) # 0
      BY <1>8, <2>2, <3>1, LowerIsInt
    <3> QED BY <1>6, <1>7, <3>2
  <2> QED BY <2>1, <2>2
<1>10. e.lower80 \in Int
  BY <1>6 DEF Consistent, EvidenceTyped, Measures
<1>11. ~ ShadowEvNegative(e)
  BY <1>9, <1>10 DEF ShadowEvNegative
<1> QED BY <1>5, <1>6, <1>11

\* The variables keep their types, and no position settles without a fill, no fill comes
\* without a taker decision.
THEOREM TypeCorrect == Spec => []TypeOK
<1>1. IInv /\ GInv => TypeOK
  <2> SUFFICES ASSUME IInv, GInv PROVE TypeOK
    OBVIOUS
  <2>1. Size(decisions) \in 0 .. MaxDecisions
    BY SizeIs, GovernanceAssumption DEF GInv
  <2>2. tool.phase \in {"none", "corpus", "reconcile", "update", "judge"}
    BY DEF IInv, ToolOK, Phases
  <2>3. /\ fills \in Seq(Int) /\ closed \in Seq(Pnls)
        /\ rows \in [MarketGroups -> Verdicts \union {"none"}]
        /\ qual \in States \union {"none"} /\ cycle \in {"idle", "trade", "watch"}
        /\ Len(closed) <= Len(fills) /\ Len(fills) <= Size(Takers(decisions))
    BY DEF IInv, GInv
  <2> QED BY <2>1, <2>2, <2>3 DEF TypeOK
<1> QED BY StoreInv, <1>1, PTL

\* A city all of whose live gates pass is never judged fit for observation only, in
\* whatever the refresh tool and the cycles leave in the store.
THEOREM GatesAlwaysAgree == Spec => []GatesAgree
<1>1. IInv /\ GInv => GatesAgree
  <2> SUFFICES ASSUME IInv, GInv, Judging, NEW p \in Profiles, AllPassed(Evidence, p)
               PROVE  Recommend(Evidence, p) # "OBSERVE_ONLY"
    BY DEF GatesAgree
  <2>1. Consistent(Evidence)
    BY EvidenceHolds
  <2> QED BY <2>1, GatesNeverContradict
<1> QED BY StoreInv, <1>1, PTL

\* shadow_ev_negative is dead code: the takers' EVs it averages all passed the floor.
THEOREM EvNeverDemotes == Spec => []NeverDemotedForEv
<1>1. IInv /\ GInv => NeverDemotedForEv
  BY EvidenceHolds DEF NeverDemotedForEv
<1> QED BY StoreInv, <1>1, PTL

\* Had a settled position made more, the recommended state would rank no lower: in
\* whatever the tools and the cycles leave in the store, for any results and any profile,
\* but for a record that made exactly nothing.
THEOREM BetterIsNeverWorse == Spec => []BetterNeverDemotes
<1>1. IInv /\ GInv => BetterNeverDemotes
  <2> SUFFICES ASSUME IInv, GInv, Judging, PnlOf(closed) # 0, NEW k \in DOMAIN closed,
                      NEW x \in Pnls, NEW p \in Profiles, x >= closed[k]
               PROVE  Rank(Recommend(Evidence, p)) <=
                        Rank(Recommend(EvidenceOn([closed EXCEPT ![k] = x]), p))
    BY DEF BetterNeverDemotes
  <2>1. PICK D : IsBag(D) /\ AboveFloor(D) /\ tool.figures = DecisionFigures(D)
    BY DEF GInv, Judging
  <2>2. PICK a, b : a = closed /\ b = [closed EXCEPT ![k] = x]
    OBVIOUS
  <2>3. Raised(a, b, k)
    <3>1. closed \in Seq(Int)
      BY ClosedAreInt
    <3>2. x \in Int
      BY GovernanceAssumption
    <3>3. /\ b \in Seq(Int) /\ Len(b) = Len(a) /\ b[k] = x
          /\ \A n \in DOMAIN a \ {k} : a[n] = b[n]
      BY <2>2, <3>1, <3>2
    <3> QED BY <2>2, <3>1, <3>3 DEF Raised
  <2>4. PICK n \in Nat : n = Len(fills)
    BY DEF GInv
  <2>5. PICK predicted \in Int : predicted = PredictedOf(Len(closed))
    <3>1. fills \in Seq(Int) /\ Len(closed) \in 0 .. Len(fills)
      BY DEF GInv
    <3> QED BY <3>1, TotalsOfParts DEF PredictedOf
  <2>6. Len(b) = Len(closed)
    BY <2>2, <2>3 DEF Raised
  <2>7. PICK r \in [MarketGroups -> Verdicts \union {"none"}], f \in Forecasts :
          r = rows /\ f = forecast
    BY DEF IInv, GInv
  <2>8. PICK e, h : /\ e = Evidence /\ e = EvidenceOf(DecisionFigures(D), n, a, predicted, r, f)
                    /\ h = EvidenceOn(b) /\ h = EvidenceOf(DecisionFigures(D), n, b, predicted, r, f)
    BY <2>1, <2>2, <2>4, <2>5, <2>6, <2>7 DEF Evidence, EvidenceOn
  <2>9. BetterResults(e, h)
    BY <2>1, <2>2, <2>3, <2>8, EvidenceRises
  <2> QED BY <2>2, <2>8, <2>9, BetterNotDemoted
<1> QED BY StoreInv, <1>1, PTL
=============================================================================
