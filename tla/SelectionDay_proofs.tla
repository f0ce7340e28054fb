------------------------ MODULE SelectionDay_proofs -------------------------
(***************************************************************************)
(* Facts about one decision that hold whatever books, forecasts and stages *)
(* it is given (what an order without a veto is worth, that a maker never  *)
(* stands alone, that the gates which are written three times agree), and  *)
(* about the paper book, the recommendations and the selection of a day,   *)
(* for any number of evaluations.                                          *)
(***************************************************************************)
EXTENDS SelectionDay, OrderBook_proofs

-----------------------------------------------------------------------------
(* One decision *)

\* What the candidates need to know of the microstructure and of the haircuts.
MicrosOK(micros) ==
  \A s \in Outcomes : micros[s].slippage \in Nat /\ micros[s].adverse \in Nat

CutOK(cut) == cut.uncertainty \in 0 .. 100 /\ cut.regime \in 0 .. 100 /\ cut.portfolio \in 0 .. 100

LEMMA Scaled ==
  ASSUME NEW x \in Nat, NEW part \in 0 .. 100
  PROVE  x * (100 - part) \in Nat /\ x * (100 - part) <= x * 100
<1>1. x * (100 - part) = x * 100 - x * part
  OBVIOUS
<1>2. x * part \in Nat /\ x * (100 - part) \in Nat
  OBVIOUS
<1> QED
  BY <1>1, <1>2

\* Haircuts only take away.
LEMMA HaircutsTake ==
  ASSUME NEW raw \in Nat, NEW u \in 0 .. 100, NEW r \in 0 .. 100, NEW p \in 0 .. 100
  PROVE  Adjusted(raw, u, r, p) \in Int /\ Adjusted(raw, u, r, p) <= raw * Cent
<1> DEFINE a == raw * (100 - u)
           b == a * (100 - r)
           c == b * (100 - p)
<1>1. a \in Nat /\ a <= raw * 100
  BY Scaled
<1>2. b \in Nat /\ b <= a * 100
  <2> HIDE DEF a
  <2> QED
    BY <1>1, Scaled
<1>3. c \in Nat /\ c <= b * 100
  <2> HIDE DEF b
  <2> QED
    BY <1>2, Scaled
<1>4. Adjusted(raw, u, r, p) = c
  BY DEF Adjusted
<1> HIDE DEF a, b, c
<1>5. c <= raw * 1000000
  BY <1>1, <1>2, <1>3
<1> QED
  BY <1>3, <1>4, <1>5 DEF Cent

\* An estimate that passes the two floors is worth its price: what the forecast expects
\* of the contract covers price, fee and the floor on the EV, whatever the haircuts.
LEMMA FloorsPay ==
  ASSUME NEW side \in Outcomes, NEW p \in 0 .. 100, NEW price \in 0 .. 100,
         NEW micro, micro.slippage \in Nat, micro.adverse \in Nat,
         NEW cut, CutOK(cut), NEW k \in Nat,
         Estimate(side, "taker", p, price, micro, cut, k).raw >= MinRawEdge,
         Estimate(side, "taker", p, price, micro, cut, k).ev >= MinExecutableEv
  PROVE  (Belief(side, p) - price) * Cent - FeeCost(price, k) >= MinExecutableEv
<1> DEFINE raw == Belief(side, p) - price
           fee == FeeCost(price, k)
           left == Adjusted(raw, cut.uncertainty, cut.regime, cut.portfolio)
<1>1. /\ Estimate(side, "taker", p, price, micro, cut, k).raw = raw
      /\ Estimate(side, "taker", p, price, micro, cut, k).ev
           = left - (fee + (micro.slippage + micro.adverse))
  BY DEF Estimate
<1>2. raw \in Int
  BY DEF Belief
<1>3. fee \in Int
  BY DEF FeeCost
<1>4. raw \in Nat
  BY SMTT(30), <1>1, <1>2 DEF MinRawEdge
<1>5. left \in Int /\ left <= raw * Cent
  <2> HIDE DEF raw
  <2> QED
    BY <1>4, HaircutsTake DEF CutOK
<1>6. raw * Cent \in Int
  BY <1>2 DEF Cent
<1> HIDE DEF left, fee
<1> QED
  <2> DEFINE worth == raw * Cent
  <2>1. worth \in Int /\ left <= worth
    BY <1>5, <1>6
  <2>2. left - (fee + (micro.slippage + micro.adverse)) >= MinExecutableEv
    BY <1>1
  <2> HIDE DEF worth, raw
  <2>3. worth - fee >= MinExecutableEv
    BY <1>3, <1>5, <2>1, <2>2 DEF MinExecutableEv
  <2> QED
    BY <2>3 DEF worth, raw, fee

LEMMA EstimateTyped ==
  ASSUME NEW side \in Outcomes, NEW p \in 0 .. 100, NEW price \in Int,
         NEW micro, micro.slippage \in Nat, micro.adverse \in Nat,
         NEW cut, CutOK(cut), NEW k \in Nat
  PROVE  Estimate(side, "taker", p, price, micro, cut, k).ev \in Int
<1> DEFINE raw == Belief(side, p) - price
           fee == FeeCost(price, k)
           left == Adjusted(raw, cut.uncertainty, cut.regime, cut.portfolio)
<1>1. Estimate(side, "taker", p, price, micro, cut, k).ev
        = left - (fee + (micro.slippage + micro.adverse))
  BY DEF Estimate
<1>2. raw \in Int
  BY DEF Belief
<1>3. fee \in Int
  BY DEF FeeCost
<1>4. left \in Int
  <2> DEFINE a == raw * (100 - cut.uncertainty)
             b == a * (100 - cut.regime)
  <2>1. a \in Int
    <3> HIDE DEF raw
    <3> QED
      BY <1>2 DEF CutOK
  <2>2. b \in Int
    <3> HIDE DEF a
    <3> QED
      BY <2>1 DEF CutOK
  <2>3. b * (100 - cut.portfolio) \in Int
    <3> HIDE DEF b
    <3> QED
      BY <2>2 DEF CutOK
  <2> QED
    BY <2>3 DEF Adjusted
<1> HIDE DEF left, fee
<1> QED
  BY <1>1, <1>3, <1>4

\* What is known of a quote and of what the microstructure makes of its books.
QuoteOK(q, micros, cut) ==
  /\ q.p \in 0 .. 100 /\ q.multiplier \in Nat
  /\ \A s \in Outcomes : micros[s].price \in Int
  /\ MicrosOK(micros) /\ CutOK(cut)

\* A maker candidate is never the only one: it inherits the vetoes on its side's taker,
\* the floor on the taker's EV among them, so where a maker stands a taker does.
THEOREM MakerNeedsTaker ==
  ASSUME NEW q, NEW micros, NEW cut, NEW units, QuoteOK(q, micros, cut),
         Positive(Candidates(q, micros, cut, units), "maker") # {}
  PROVE  Positive(Candidates(q, micros, cut, units), "taker") # {}
<1> DEFINE PriceOf(side) == IF micros[side].price = NoPrice THEN 100 ELSE Cents(micros[side].price)
           Taker(side) ==
             Estimate(side, "taker", q.p, PriceOf(side), micros[side], cut, q.multiplier)
           Against(side) == Vetoes(q.stage, q.kill, q.lag, micros[side], Taker(side), units)
           all == Candidates(q, micros, cut, units)
<1>1. \A side \in Outcomes : [edge |-> Taker(side), against |-> Against(side)] \in all
  BY DEF Candidates
<1>2. PICK c \in all : c.edge.style = "maker" /\ c.against = {}
  BY DEF Positive
<1>3. PICK side \in Outcomes : Against(side) = {}
  <2>1. CASE \E side \in Outcomes : c = [edge |-> Taker(side), against |-> Against(side)]
    BY <2>1, <1>2
  <2>2. CASE \E side \in Outcomes : Against(side) \subseteq c.against
    BY <2>2, <1>2
  <2>3. \/ \E side \in Outcomes : c = [edge |-> Taker(side), against |-> Against(side)]
        \/ \E side \in Outcomes : Against(side) \subseteq c.against
    BY DEF Candidates
  <2> QED
    BY <2>1, <2>2, <2>3
<1>4. Taker(side).style = "taker"
  BY DEF Estimate
<1>5. Taker(side).ev \in Int
  <2>1. PriceOf(side) \in Int
    BY DollarAssumption DEF QuoteOK, Cents
  <2> HIDE DEF PriceOf
  <2> QED
    BY <2>1, EstimateTyped DEF QuoteOK, MicrosOK
<1>6. ~ (Taker(side).ev < MinExecutableEv)
  <2> HIDE DEF Taker
  <2> QED
    BY <1>3 DEF Vetoes
<1>7. Taker(side).ev > 0
  <2> HIDE DEF Taker
  <2> QED
    BY <1>5, <1>6 DEF MinExecutableEv
<1> QED
  <2> HIDE DEF Taker, Against
  <2>1. [edge |-> Taker(side), against |-> Against(side)] \in {d \in all :
           d.edge.style = "taker" /\ d.edge.ev > 0 /\ d.against = {}}
    BY <1>1, <1>3, <1>4, <1>7
  <2> HIDE DEF all
  <2> QED
    BY <2>1 DEF Positive, all

\* So the decision that is kept for a maker that stands alone is never taken.
THEOREM NoMakerOnly ==
  ASSUME NEW q, NEW micros, NEW cut, NEW units, QuoteOK(q, micros, cut)
  PROVE  Enter(Candidates(q, micros, cut, units)).decision # "MAKER_ONLY"
<1> DEFINE all == Candidates(q, micros, cut, units)
<1>1. Positive(all, "maker") # {} => Positive(all, "taker") # {}
  BY MakerNeedsTaker
<1> HIDE DEF all
<1>2. Enter(all).decision # "MAKER_ONLY"
  BY SMTT(30), <1>1 DEF Enter, Outcome, WatchIf
<1> QED
  BY <1>2 DEF all

\* A taker no reason stands against is worth its price.
THEOREM UnvetoedTakerPays ==
  ASSUME NEW q, NEW micros, NEW cut, NEW units, QuoteOK(q, micros, cut),
         NEW side \in Outcomes, NEW price \in 0 .. 100,
         Vetoes(q.stage, q.kill, q.lag, micros[side],
                Estimate(side, "taker", q.p, price, micros[side], cut, q.multiplier), units) = {}
  PROVE  (Belief(side, q.p) - price) * Cent - FeeCost(price, q.multiplier) >= MinExecutableEv
<1> DEFINE e == Estimate(side, "taker", q.p, price, micros[side], cut, q.multiplier)
<1>1. ~ (e.raw < MinRawEdge) /\ ~ (e.ev < MinExecutableEv)
  <2> HIDE DEF e
  <2>1. Vetoes(q.stage, q.kill, q.lag, micros[side], e, units) = {}
    BY DEF e
  <2> QED
    BY <2>1 DEF Vetoes
<1>2. e.ev \in Int
  <2>1. price \in Int /\ micros[side].slippage \in Nat /\ micros[side].adverse \in Nat
    BY DEF QuoteOK, MicrosOK
  <2> QED
    BY <2>1, EstimateTyped DEF QuoteOK
<1>3. e.raw \in Int
  BY DEF Estimate, Belief, QuoteOK
<1>4. e.raw >= MinRawEdge /\ e.ev >= MinExecutableEv
  <2> HIDE DEF e
  <2> QED
    BY <1>1, <1>2, <1>3 DEF MinRawEdge, MinExecutableEv
<1> QED
  BY <1>4, FloorsPay DEF QuoteOK, MicrosOK

(***************************************************************************)
(* The gates                                                               *)
(***************************************************************************)
\* The fields the gates read are numbers.
NumbersOK(d) ==
  /\ d.p \in Int /\ d.price \in Int /\ d.spread \in Int
  /\ d.ev \in Int /\ d.score \in Int /\ Disagreement(d) \in Int

\* The gates of the fill layer but for the last, as one formula.
FirstGates(d) ==
  /\ ~ (d.p < 70) /\ ~ (d.p > 97) /\ ~ (d.ev < 500000)
  /\ ~ (d.spread > 10) /\ ~ (100 * d.score < 55 * ScoreUnit)

LEMMA GatesAre ==
  ASSUME NEW d, NumbersOK(d)
  PROVE  Gates(d) <=> d.decision = "TAKER_ALLOWED" /\ FirstGates(d) /\ Disagreement(d) <= 99
<1> DEFINE gap == Disagreement(d)
<1>1. gap \in Int /\ (Disagreement(d) <= 99 <=> gap <= 99)
  BY DEF NumbersOK
<1> HIDE DEF gap
<1> QED
  BY <1>1 DEF Gates, FirstGates, NumbersOK, ScoreUnit

LEMMA ReasonsAre ==
  ASSUME NEW d, NumbersOK(d), HasEdge(d)
  PROVE  /\ GateReasons(d) = {} <=> FirstGates(d) /\ ~ (Disagreement(d) > 30)
         /\ GateReasons(d) = {"high_market_disagreement"}
              <=> FirstGates(d) /\ Disagreement(d) > 30
<1> DEFINE gap == Disagreement(d)
           known == {"below_favorite_floor", "near_certain_capped", "ev_below_floor",
                     "model_consensus_too_weak", "tradability_below_floor",
                     "high_market_disagreement"}
           reasons == GateReasons(d)
<1>1. reasons \subseteq known
  BY DEF GateReasons
<1>2. /\ "below_favorite_floor" \in reasons <=> d.p < 70
      /\ "near_certain_capped" \in reasons <=> d.p > 97
      /\ "ev_below_floor" \in reasons <=> d.ev < 500000
  BY DEF GateReasons
<1>3. /\ "model_consensus_too_weak" \in reasons <=> d.spread > 10
      /\ "tradability_below_floor" \in reasons <=> 100 * d.score < 55 * ScoreUnit
      /\ "high_market_disagreement" \in reasons <=> gap > 30
  BY DEF GateReasons
<1> HIDE DEF reasons, gap
<1>4. FirstGates(d) <=> \A r \in known : r # "high_market_disagreement" => r \notin reasons
  BY <1>2, <1>3 DEF FirstGates
<1>5. reasons = {} <=> FirstGates(d) /\ ~ (gap > 30)
  BY <1>1, <1>3, <1>4
<1>6. reasons = {"high_market_disagreement"} <=> FirstGates(d) /\ gap > 30
  BY <1>1, <1>3, <1>4
<1> QED
  BY <1>5, <1>6 DEF reasons, gap

\* Of a decision with an edge: the fill layer's gates pass exactly what the log calls BET
\* or REVIEW, the survey accepts exactly what passes them with confidence, and the cycle
\* notes neither reason whose limit is theirs of what passes them.
THEOREM GatesAreOne ==
  ASSUME NEW d, NumbersOK(d), HasEdge(d), d.price \in 0 .. 100
  PROVE  /\ Gates(d) <=> Classify(d) \in {"BET", "REVIEW"}
         /\ Accepts(d) <=> Gates(d) /\ Confident(d)
         /\ Gates(d) => Blocker(d) \notin {"outside_favorite_range", "ev_below_floor"}
<1>1. Disagreement(d) \in Int
  BY DEF NumbersOK
<1>2. FirstGates(d) => Disagreement(d) <= 99
  BY DEF NumbersOK, FirstGates, Disagreement, Distance
<1>3. Classify(d) = "BET" <=> d.decision = "TAKER_ALLOWED" /\ GateReasons(d) = {}
  BY DEF Classify
<1>4. Classify(d) = "REVIEW"
        <=> d.decision = "TAKER_ALLOWED" /\ GateReasons(d) = {"high_market_disagreement"}
  BY DEF Classify
<1>5. Gates(d) <=> Classify(d) \in {"BET", "REVIEW"}
  BY <1>2, <1>3, <1>4, GatesAre, ReasonsAre
<1>6. Accepts(d) <=> Gates(d) /\ Confident(d)
  <2>1. d.p >= 70 /\ d.p <= 97 <=> d.p \in 70 .. 97
    BY DEF NumbersOK
  <2> QED BY <2>1 DEF Accepts, Gates
<1>7. Gates(d) => Blocker(d) \notin {"outside_favorite_range", "ev_below_floor"}
  <2> SUFFICES ASSUME Gates(d) PROVE Blocker(d) \notin {"outside_favorite_range", "ev_below_floor"}
    OBVIOUS
  <2>1. d.p \in 70 .. 97 /\ ~ (d.ev < 500000)
    BY DEF Gates, NumbersOK
  <2> QED BY <2>1 DEF Blocker
<1> QED BY <1>5, <1>6, <1>7

-----------------------------------------------------------------------------
(* What the figures of a decision are made of *)

LEMMA ClampIn ==
  ASSUME NEW v \in Int, NEW least \in Int, NEW most \in Int, least <= most
  PROVE  Clamp(v, least, most) \in least .. most
<1>1. PICK a \in Int : a = Min({most, v}) /\ a <= most
  BY MinOfTwo
<1>2. Max({least, a}) = IF least >= a THEN least ELSE a
  BY MinOfTwo
<1> QED BY <1>1, <1>2 DEF Clamp

\* A share of a whole.
LEMMA ShareIn ==
  ASSUME NEW part \in Nat, NEW whole \in Nat, part <= whole, NEW none \in 0 .. 100
  PROVE  Share(part, whole, none) \in 0 .. 100
<1>1. CASE whole = 0
  BY <1>1 DEF Share
<1>2. CASE whole # 0
  <2>1. PICK n \in Nat \ {0} : n = whole
    BY <1>2
  <2>2. PICK x \in Nat : x = 100 * part /\ x <= 100 * n
    BY <2>1
  <2>3. PICK y \in Int : y = x \div n
    BY Divides
  <2>4. n * y <= x /\ x < n * (y + 1)
    BY <2>3
  <2>5. y >= 0
    <3>1. SUFFICES ASSUME y + 1 <= 0 PROVE FALSE
      OBVIOUS
    <3>2. n * (y + 1) <= 0
      BY <3>1
    <3> QED BY <2>4, <3>2
  <2>6. y <= 100
    <3>1. SUFFICES ASSUME y >= 101 PROVE FALSE
      OBVIOUS
    <3>2. n * y >= n * 101
      BY <3>1
    <3> QED BY <2>2, <2>4, <3>2
  <2> QED BY <1>2, <2>1, <2>2, <2>3, <2>5, <2>6 DEF Share
<1> QED BY <1>1, <1>2

LEMMA CentsIn ==
  ASSUME NEW t \in 0 .. Dollar
  PROVE  Cents(t) \in 0 .. 100
<1>1. PICK n \in Nat \ {0} : n = Dollar
  BY DollarAssumption
<1>2. PICK c \in Nat : c = 100 \div n /\ n * c <= 100
  <2>1. PICK y \in Int : y = 100 \div n
    BY Divides
  <2>2. n * y <= 100 /\ 100 < n * (y + 1)
    BY <2>1
  <2>3. y >= 0
    <3>1. SUFFICES ASSUME y + 1 <= 0 PROVE FALSE
      OBVIOUS
    <3>2. n * (y + 1) <= 0
      BY <3>1
    <3> QED BY <2>2, <3>2
  <2> QED BY <2>1, <2>2, <2>3
<1>3. t \in Nat /\ t <= n
  BY <1>1
<1>4. t * c \in Nat
  BY <1>3
<1>5. t * c <= n * c
  BY <1>3
<1> QED BY <1>1, <1>2, <1>4, <1>5 DEF Cents

LEMMA CentsIsInt == ASSUME NEW t \in Int PROVE Cents(t) \in Int
<1>1. PICK y \in Int : y = 100 \div Dollar
  <2>1. 100 \in Int /\ Dollar \in Nat \ {0}
    BY DollarAssumption
  <2> QED BY <2>1, Divides
<1>2. t * y \in Int
  OBVIOUS
<1> QED BY <1>1, <1>2 DEF Cents

LEMMA BidIs ==
  ASSUME NEW both \in Books, NEW side \in Outcomes
  PROVE  BestBid(both, side) \in Prices \union {NoPrice}
<1>1. CASE Levels(both[side]) = {}
  BY <1>1 DEF BestBid
<1>2. CASE Levels(both[side]) # {}
  <2>1. PICK S : S = Levels(both[side])
    OBVIOUS
  <2>2. S \in SUBSET Prices /\ S # {} /\ IsFiniteSet(S)
    <3>1. S \in SUBSET Prices
      BY <2>1 DEF Levels
    <3> QED BY <1>2, <2>1, <3>1, PricesFinite, FS_Subset
  <2>3. PICK f \in [S -> Int] : f = [p \in S |-> p]
    <3>1. \A p \in S : p \in Int
      BY <2>2, PricesFinite
    <3> QED BY <3>1
  <2>4. S = {f[p] : p \in S}
    BY <2>3
  <2>5. Max(S) \in S
    BY <2>2, <2>3, <2>4, Extremes
  <2> QED BY <1>2, <2>1, <2>2, <2>5 DEF BestBid
<1> QED BY <1>1, <1>2

LEMMA AskIs ==
  ASSUME NEW both \in Books, NEW side \in Outcomes
  PROVE  AskOf(both, side) \in Prices \union {NoPrice}
<1>1. PICK asks \in Ladders : asks = ImpliedAsks(both, side)
  BY AsksAreLadder
<1>2. Levels(asks) \in SUBSET Nat /\ Levels(asks) \subseteq Prices
  BY PricesFinite DEF Levels
<1>3. Levels(asks) # {} => Min(Levels(asks)) \in Prices
  BY <1>2, MinIs
<1> QED BY <1>1, <1>3 DEF AskOf, BestAsk

LEMMA PriceIsInt == ASSUME NEW p \in Prices \union {NoPrice} PROVE p \in Int
  BY PricesFinite DEF NoPrice

\* How many of some neighbours there are, of all that may be.
LEMMA PartOf ==
  ASSUME NEW n \in Int, NEW S \in SUBSET (1 .. n), NEW T \in SUBSET S
  PROVE  /\ Cardinality(S) \in Nat /\ Cardinality(T) \in Nat
         /\ Cardinality(T) <= Cardinality(S)
<1>1. 1 \in Int
  OBVIOUS
<1>2. IsFiniteSet(S)
  BY <1>1, FS_Interval, FS_Subset
<1> QED BY <1>2, FS_Subset, FS_CardinalityType

LEMMA KeptIn ==
  ASSUME NEW quotes \in Seq(Int)
  PROVE  Kept(quotes) \in 0 .. 100
<1>1. PICK n \in Int : n = Len(quotes) - 1
  BY SMTT(30)
<1>2. PICK S \in SUBSET (1 .. n) :
        S = {i \in 1 .. Len(quotes) - 1 : NoPrice \notin {quotes[i], quotes[i + 1]}}
  BY <1>1
<1>3. PICK T \in SUBSET S : T = {i \in S : quotes[i] = quotes[i + 1]}
  OBVIOUS
<1>4. 50 \in 0 .. 100
  OBVIOUS
<1>5. Share(Cardinality(T), Cardinality(S), 50) \in 0 .. 100
  BY <1>4, PartOf, ShareIn
<1> QED BY <1>2, <1>3, <1>5 DEF Kept

LEMMA StableIn ==
  ASSUME NEW history \in Seq(Books), NEW side \in Outcomes
  PROVE  Durability(history, side) \in 0 .. 100 /\ QuoteStability(history, side) \in 0 .. 100
<1>1. PICK n \in Nat : n = Len(history) /\ DOMAIN history = 1 .. n
  OBVIOUS
<1>2. \A i \in 1 .. n : history[i] \in Books
  BY <1>1
<1>3. \A i \in 1 .. n, s \in Outcomes :
        BestBid(history[i], s) \in Int /\ AskOf(history[i], s) \in Int
  BY <1>2, BidIs, AskIs, PriceIsInt
<1>4. \A f \in [1 .. n -> Int] : f \in Seq(Int)
  OBVIOUS
<1>5. PICK a : a = [i \in 1 .. n |-> IF side = "no" THEN BestBid(history[i], "yes")
                                                     ELSE AskOf(history[i], "yes")]
  OBVIOUS
<1>6. PICK b : b = [i \in 1 .. n |-> BestBid(history[i], side)]
  OBVIOUS
<1>7. a \in Seq(Int) /\ b \in Seq(Int)
  <2>1. "yes" \in Outcomes
    BY DEF Outcomes
  <2>2. a \in [1 .. n -> Int] /\ b \in [1 .. n -> Int]
    BY SMTT(30), <1>3, <1>5, <1>6, <2>1
  <2> QED BY <1>4, <2>2
<1>8. Kept(a) \in 0 .. 100 /\ Kept(b) \in 0 .. 100
  BY <1>7, KeptIn
<1> QED BY <1>1, <1>5, <1>6, <1>8 DEF Durability, QuoteStability

LEMMA GhostIn ==
  ASSUME NEW history \in Seq(Books), NEW side \in Outcomes
  PROVE  Ghost(history, side) \in 0 .. 100
<1> DEFINE Offer(i) == LET asks == ImpliedAsks(history[i], side) IN asks[BestAsk(asks)]
<1>1. PICK n \in Int : n = Len(history) - 1
  OBVIOUS
<1>2. PICK S \in SUBSET (1 .. n) :
        S = {i \in 1 .. Len(history) - 1 :
               NoPrice \notin {AskOf(history[i], side), AskOf(history[i + 1], side)}}
  BY <1>1
<1>3. PICK T \in SUBSET S : T = {i \in S : 2 * Offer(i) < Offer(i + 1)}
  OBVIOUS
<1>4. 20 \in 0 .. 100
  OBVIOUS
<1>5. Share(Cardinality(T), Cardinality(S), 20) \in 0 .. 100
  BY <1>4, PartOf, ShareIn
<1> QED BY <1>2, <1>3, <1>5 DEF Ghost

LEMMA ImbalanceIn ==
  ASSUME NEW trades, trades.yes \in Nat, trades.no \in Nat, NEW side \in Outcomes
  PROVE  Imbalance(trades, side) \in 0 .. 100
<1>1. PICK y \in Nat, o \in Nat : y = trades.yes /\ o = trades.no
  OBVIOUS
<1>2. PICK k \in Nat : k = trades[side] /\ k <= y + o
  BY <1>1 DEF Outcomes
<1>3. Count(trades) = y + o /\ y + o \in Nat
  BY <1>1 DEF Count
<1>4. 50 \in 0 .. 100
  OBVIOUS
<1>5. Share(k, y + o, 50) \in 0 .. 100
  BY <1>2, <1>3, <1>4, ShareIn
<1> QED BY <1>2, <1>3, <1>5 DEF Imbalance

LEMMA MakerAdverseIsInt ==
  ASSUME NEW trades, trades.yes \in Nat, trades.no \in Nat, trades.size \in Nat,
         NEW side \in Outcomes
  PROVE  MakerAdverse(trades, side) \in Int
<1>1. PICK i \in Int : i = Imbalance(trades, side)
  BY ImbalanceIn
<1>2. PICK m \in Int : m = Min({2000000, 400000 * trades.size})
  <2>1. 2000000 \in Int /\ 400000 * trades.size \in Int
    OBVIOUS
  <2>2. PICK s \in Int : s = 400000 * trades.size
    BY <2>1
  <2> QED BY <2>1, <2>2, MinOfTwo
<1>3. 1000000 + 30000 * i + m \in Int /\ 4 * Cent \in Int /\ 2 * Cent = 2000000
  BY DEF Cent
<1> QED BY <1>1, <1>2, <1>3 DEF MakerAdverse, Cent

LEMMA SpreadIsInt ==
  ASSUME NEW both \in Books, NEW side \in Outcomes
  PROVE  Spread(both, side) \in Int
<1>1. PICK a \in Int, b \in Int : a = AskOf(both, side) /\ b = BestBid(both, side)
  BY AskIs, BidIs, PriceIsInt
<1>2. Max({0, a - b}) \in Int
  <2>1. 0 \in Int /\ a - b \in Int
    OBVIOUS
  <2>2. PICK d \in Int : d = a - b
    BY <2>1
  <2> QED BY <2>1, <2>2, MinOfTwo
<1>3. Dollar \in Int
  BY DollarAssumption
<1> QED BY <1>1, <1>2, <1>3 DEF Spread

LEMMA ScoreIsInt ==
  ASSUME NEW levels \in Int, NEW durability \in Int, NEW stability \in Int, NEW ghost \in Int,
         NEW spread \in Int, NEW minutes
  PROVE  Score(levels, durability, stability, ghost, spread, minutes) \in Int
<1>1. PICK c \in Int : c = WideSpread - Cents(spread)
  BY CentsIsInt DEF WideSpread
<1>2. PICK room \in Int : room = Max({0, c})
  <2>1. 0 \in Int
    OBVIOUS
  <2> QED BY <2>1, MinOfTwo
<1>3. PICK base \in Int : base = IF levels <= 3 THEN 3600 ELSE 2160
  OBVIOUS
<1>4. PICK sum \in Int : sum = base + 24 * durability + 18 * stability + 18 * (100 - ghost) + 200 * room
  OBVIOUS
<1>5. PICK part \in Int : part = ScoreMultiplier(minutes)
  BY DEF ScoreMultiplier
<1>6. sum * part \in Int
  OBVIOUS
<1> QED BY <1>1, <1>2, <1>3, <1>4, <1>5, <1>6 DEF Score

\* What the microstructure makes of a quote's books: the price of a contract is the
\* side's best offer, and a side that offers none is blocked.
Micro(q, side) == AssessTaker(q.history, q.trades, q.minutes, side)

LEMMA Assessed ==
  ASSUME NEW q, IsQuote(q), NEW side \in Outcomes, NEW mic, mic = Micro(q, side)
  PROVE  /\ mic.price = AskOf(q.history[1], side) /\ mic.price \in Prices \union {NoPrice}
         /\ mic.slippage \in Nat /\ mic.adverse \in Nat /\ mic.makerAdverse \in Int
         /\ mic.score \in Int /\ mic.ghost \in Int /\ mic.levels \in Int
         /\ mic.price = NoPrice => mic.blocks # {}
<1>1. PICK h \in Seq(Books), both \in Books : h = q.history /\ both = h[1]
  <2>1. q.history \in Seq(Books) /\ q.history[1] \in Books
    BY DEF IsQuote
  <2> QED BY <2>1
<1>0. q.trades.yes \in Nat /\ q.trades.no \in Nat /\ q.trades.size \in Nat
  BY DEF IsQuote
<1>2. PICK asks \in Ladders : asks = ImpliedAsks(both, side)
  BY AsksAreLadder
<1>3. PICK price \in Prices \union {NoPrice} :
        /\ price = CostToBuy(asks, 1) /\ price = BestAsk(asks)
        /\ price = AskOf(both, side) /\ price \in Int
  BY <1>2, OneContract, AskIs, PriceIsInt DEF AskOf
<1>4. PICK made \in Int : made = MakerAdverse(q.trades, side)
  BY <1>0, MakerAdverseIsInt
<1>5. CASE price = NoPrice
  <2>1. mic = Unavailable(q.trades, side)
    BY <1>1, <1>2, <1>3, <1>5 DEF Micro, AssessTaker
  <2> QED BY <1>1, <1>3, <1>4, <1>5, <2>1 DEF Unavailable, Cent
<1>6. CASE price # NoPrice
  <2>1. PICK taken : taken = {p \in Prices : Taken(asks, 1, p) > 0}
    OBVIOUS
  <2>2. PICK levels \in Int : levels = Cardinality(taken)
    <3>1. taken \in SUBSET Prices
      BY <2>1
    <3>2. IsFiniteSet(Prices)
      BY PricesFinite
    <3>3. IsFiniteSet(taken)
      BY <3>1, <3>2, FS_Subset
    <3> QED BY <3>3, FS_CardinalityType
  <2>3. PICK durability \in 0 .. 100 : durability = Durability(h, side)
    BY StableIn
  <2>4. PICK stability \in 0 .. 100 : stability = QuoteStability(h, side)
    BY StableIn
  <2>5. PICK ghost \in 0 .. 100 : ghost = Ghost(h, side)
    BY GhostIn
  <2>6. PICK spread \in Int : spread = Spread(both, side)
    BY SpreadIsInt
  <2>7. PICK score \in Int : score = Score(levels, durability, stability, ghost, spread, q.minutes)
    BY <2>3, <2>4, <2>5, ScoreIsInt
  <2>8. PICK bias \in Nat : bias = Imbalance(q.trades, side)
    <3>1. Imbalance(q.trades, side) \in 0 .. 100
      BY <1>0, ImbalanceIn
    <3> QED BY <3>1
  <2>9. PICK slip \in Nat : slip = Cents(price - BestAsk(asks)) * Cent
    <3>1. price - BestAsk(asks) = 0 /\ 0 \in 0 .. Dollar
      BY <1>3, DollarAssumption
    <3>2. PICK c \in Nat : c = Cents(price - BestAsk(asks))
      BY <3>1, CentsIn
    <3> QED BY <3>2 DEF Cent
  <2>10. PICK adverse \in Nat :
          adverse = ((1500000 + 25000 * ghost + 15000 * bias) * AdverseMultiplier(q.minutes)) \div 100
    <3>1. PICK m \in Nat : m = AdverseMultiplier(q.minutes)
      BY DEF AdverseMultiplier
    <3>2. PICK x \in Nat : x = 1500000 + 25000 * ghost + 15000 * bias
      OBVIOUS
    <3>3. PICK y \in Nat : y = x * m
      OBVIOUS
    <3>4. y \div 100 \in Nat
      OBVIOUS
    <3> QED BY <3>1, <3>2, <3>3, <3>4
  <2>11. ~ (CostToBuy(ImpliedAsks(q.history[1], side), 1) = NoPrice)
    BY <1>1, <1>2, <1>3, <1>6
  <2>12. mic.price = price
    BY <1>1, <1>2, <1>3, <2>11 DEF Micro, AssessTaker
  <2>13. mic.slippage = slip
    <3>1. mic.slippage = Cents(CostToBuy(ImpliedAsks(q.history[1], side), 1)
                                 - BestAsk(ImpliedAsks(q.history[1], side))) * Cent
      BY <2>11 DEF Micro, AssessTaker
    <3> QED BY <1>1, <1>2, <1>3, <2>9, <3>1
  <2>14. mic.levels = levels
    BY <1>1, <1>2, <2>1, <2>2, <2>11 DEF Micro, AssessTaker
  <2>15. mic.ghost = ghost /\ mic.makerAdverse = made
    BY <1>1, <1>4, <2>5, <2>11 DEF Micro, AssessTaker
  <2>16. mic.score = score
    BY <1>1, <1>2, <2>1, <2>2, <2>3, <2>4, <2>5, <2>6, <2>7, <2>11 DEF Micro, AssessTaker
  <2>17. mic.adverse = adverse
    BY <1>1, <2>5, <2>8, <2>10, <2>11 DEF Micro, AssessTaker
  <2>18. mic.price = AskOf(q.history[1], side) /\ mic.price \in Prices \union {NoPrice}
         /\ mic.price # NoPrice
    BY <1>1, <1>3, <1>6, <2>12
  <2> QED BY <2>13, <2>14, <2>15, <2>16, <2>17, <2>18
<1> QED BY <1>5, <1>6

(***************************************************************************)
(* The haircuts                                                            *)
(***************************************************************************)
LEMMA PriorIn == ASSUME NEW a, NEW b PROVE Prior(a, b) \in 0 .. 100
<1>1. \A l \in DOMAIN Priors : \A e \in DOMAIN Priors[l] : Priors[l][e] \in 0 .. 100
  BY SMTT(60) DEF Priors
<1> QED BY <1>1 DEF Prior, Unrelated

LEMMA CorrelationIn ==
  ASSUME NEW a, NEW b, NEW regimes
  PROVE  AdjustedCorrelation(a, b, regimes) \in 0 .. 100
<1>1. CASE a = b
  BY <1>1 DEF AdjustedCorrelation
<1>2. CASE a # b
  <2>1. PICK x \in 0 .. 100 : x = PairwiseCorrelation(a, b)
    BY PriorIn DEF PairwiseCorrelation
  <2>2. PICK k \in {85, 100, 140} : k = RegimeMultiplier(regimes[a], regimes[b])
    <3>1. \A l, e : RegimeMultiplier(l, e) \in {85, 100, 140}
      BY SMT DEF RegimeMultiplier
    <3> QED BY <3>1
  <2>3. PICK y \in Nat : y = (x * k) \div 100
    <3>1. PICK z \in Nat : z = x * k
      OBVIOUS
    <3> QED BY <3>1
  <2>4. Min({90, y}) \in 0 .. 90
    <3>1. Min({90, y}) = IF 90 <= y THEN 90 ELSE y
      <4>1. 90 \in Int /\ y \in Int
        OBVIOUS
      <4> QED BY <4>1, MinOfTwo
    <3> QED BY <3>1
  <2> QED BY <1>2, <2>1, <2>2, <2>3, <2>4 DEF AdjustedCorrelation
<1> QED BY <1>1, <1>2

\* The sum of numbers that are at most c is at most c for each.
LEMMA SumAtMost ==
  ASSUME NEW S, IsFiniteSet(S), NEW f \in [S -> Nat], NEW c \in Nat, \A x \in S : f[x] <= c
  PROVE  SumOver(f) \in Nat /\ SumOver(f) <= c * Cardinality(S)
<1> DEFINE On(T) == [x \in T |-> f[x]]
           F == {T \in SUBSET S : SumOver(On(T)) <= c * Cardinality(T)}
<1>1. \A T \in SUBSET S : /\ IsFiniteSet(T) /\ Cardinality(T) \in Nat
                          /\ On(T) \in [T -> Int] /\ SumOver(On(T)) \in Int
  <2> TAKE T \in SUBSET S
  <2>1. IsFiniteSet(T) /\ Cardinality(T) \in Nat
    BY FS_Subset, FS_CardinalityType
  <2>2. On(T) \in [T -> Int]
    OBVIOUS
  <2> HIDE DEF On
  <2>3. SumOver(On(T)) \in Int
    BY <2>1, <2>2, SumType
  <2> QED BY <2>1, <2>2, <2>3
<1>2. ASSUME NEW T \in SUBSET S, \A x \in T : T \ {x} \in F PROVE T \in F
  <2>1. CASE T = {}
    <3>1. SumOver(On(T)) = 0
      BY <2>1, SumEmpty
    <3>2. Cardinality(T) = 0
      BY <2>1, FS_EmptySet
    <3> QED BY <3>1, <3>2
  <2>2. CASE T # {}
    <3>1. PICK x \in T : TRUE
      BY <2>2
    <3>2. PICK g : g = On(T)
      OBVIOUS
    <3>3. PICK e : e = On(T \ {x})
      OBVIOUS
    <3>4. /\ IsFiniteSet(DOMAIN g) /\ DOMAIN g = T /\ x \in DOMAIN g /\ DOMAIN e = T \ {x}
          /\ g[x] \in Nat /\ g[x] <= c
          /\ \A y \in DOMAIN g : g[y] \in Int
          /\ \A y \in DOMAIN e : e[y] = g[y]
      BY <1>1, <3>1, <3>2, <3>3
    <3>5. SumOver(g) = g[x] + SumOver(e)
      BY <3>4, SumSplits
    <3>6. SumOver(e) <= c * Cardinality(T \ {x}) /\ SumOver(e) \in Int
      BY <1>1, <1>2, <3>1, <3>3
    <3>7. PICK k \in Nat : k = Cardinality(T \ {x}) /\ Cardinality(T) = k + 1
      <4>1. Cardinality(T \ {x}) = Cardinality(T) - 1 /\ Cardinality(T) \in Nat
            /\ IsFiniteSet(T \ {x})
        BY <1>1, <3>1, FS_RemoveElement
      <4>2. Cardinality(T \ {x}) \in Nat
        BY <4>1, FS_CardinalityType
      <4> QED BY <4>1, <4>2
    <3>8. c * (k + 1) = c * k + c
      OBVIOUS
    <3>9. PICK ck \in Nat : ck = c * k
      OBVIOUS
    <3> QED BY <3>2, <3>4, <3>5, <3>6, <3>7, <3>8, <3>9
  <2> QED BY <2>1, <2>2
<1>3. SUBSET S \subseteq F
  <2> HIDE DEF F
  <2> QED BY <1>2, SubsetInduction
<1>4. On(S) = f
  OBVIOUS
<1>5. SumOver(On(S)) <= c * Cardinality(S)
  BY <1>3
<1> HIDE DEF On
<1> QED BY <1>4, <1>5, SumNat

\* Whatever a number up to a hundred times a square is, its root can be told.
LEMMA RootExists ==
  ASSUME NEW k \in Nat, NEW total \in Nat, total <= 100 * (k * k)
  PROVE  \E n \in 0 .. k : 100 * n * n <= total /\ total < 100 * (n + 1) * (n + 1)
<1> DEFINE S == {n \in Nat : total < 100 * ((n + 1) * (n + 1))}
<1>1. k \in S
  <2>1. (k + 1) * (k + 1) = k * k + 2 * k + 1
    OBVIOUS
  <2>2. PICK kk \in Nat : kk = k * k
    OBVIOUS
  <2> QED BY <2>1, <2>2
<1>2. PICK n \in S : \A m \in S : n <= m
  <2>1. S \in SUBSET Nat /\ S # {}
    BY <1>1
  <2> HIDE DEF S
  <2> QED BY <2>1, MinIs
<1>3. n \in 0 .. k
  BY <1>1, <1>2
<1>4. total < 100 * ((n + 1) * (n + 1))
  BY <1>2
<1>5. 100 * (n * n) <= total
  <2>1. CASE n = 0
    BY <2>1
  <2>2. CASE n # 0
    <3>1. PICK m \in Nat : m = n - 1 /\ n = m + 1
      BY <2>2
    <3>2. m \notin S
      BY <1>2, <3>1
    <3>3. ~ (total < 100 * (n * n))
      BY <3>1, <3>2
    <3>4. PICK nn \in Nat : nn = n * n
      OBVIOUS
    <3> QED BY <3>3, <3>4
  <2> QED BY <2>1, <2>2
<1>6. 100 * n * n = 100 * (n * n) /\ 100 * (n + 1) * (n + 1) = 100 * ((n + 1) * (n + 1))
  OBVIOUS
<1> QED BY <1>3, <1>4, <1>5, <1>6

\* The risk of finitely many holdings is a number.
LEMMA UnitsAreNat ==
  ASSUME NEW holdings, IsFiniteSet(holdings), \A h \in holdings : h.qty \in 0 .. 100, NEW regimes
  PROVE  RiskUnits(holdings, regimes) \in Nat
<1>1. PICK pairs : pairs = holdings \X holdings
  OBVIOUS
<1>2. PICK f : f = [pair \in pairs |-> pair[1].qty * pair[2].qty
                      * AdjustedCorrelation(pair[1].city, pair[2].city, regimes)]
  OBVIOUS
<1>3. PICK count \in Nat : count = Cardinality(holdings)
  BY FS_CardinalityType
<1>4. IsFiniteSet(pairs) /\ Cardinality(pairs) = count * count
  BY <1>1, <1>3, FS_Product
<1>5. \A x \in 0 .. 100, y \in 0 .. 100, z \in 0 .. 100 : x * y * z \in Nat /\ x * y * z <= 1000000
  <2> TAKE x \in 0 .. 100, y \in 0 .. 100, z \in 0 .. 100
  <2>1. PICK u \in Nat : u = x * y /\ u <= 10000
    <3>1. x * y \in Nat /\ x * y <= x * 100
      OBVIOUS
    <3> QED BY <3>1
  <2>2. u * z \in Nat /\ u * z <= u * 100
    OBVIOUS
  <2> QED BY SMTT(30), <2>1, <2>2
<1>6. \A pair \in pairs : f[pair] \in Nat /\ f[pair] <= 1000000
  <2> TAKE pair \in pairs
  <2>1. pair[1] \in holdings /\ pair[2] \in holdings
    BY <1>1
  <2>2. pair[1].qty \in 0 .. 100 /\ pair[2].qty \in 0 .. 100
    BY <2>1
  <2>3. AdjustedCorrelation(pair[1].city, pair[2].city, regimes) \in 0 .. 100
    BY CorrelationIn
  <2>4. PICK x \in 0 .. 100 : x = pair[1].qty
    BY <2>2
  <2>7. PICK y \in 0 .. 100 : y = pair[2].qty
    BY <2>2
  <2>8. PICK z \in 0 .. 100 : z = AdjustedCorrelation(pair[1].city, pair[2].city, regimes)
    BY <2>3
  <2>5. f[pair] = x * y * z
    BY SMTT(30), <1>2, <2>4, <2>7, <2>8
  <2>6. x * y * z \in Nat /\ x * y * z <= 1000000
    BY <1>5
  <2> QED BY <2>5, <2>6
<1>7. f \in [pairs -> Nat] /\ \A pair \in pairs : f[pair] <= 1000000
  BY <1>2, <1>6
<1>8. SumOver(f) \in Nat /\ SumOver(f) <= 1000000 * (count * count)
  <2>1. 1000000 \in Nat
    OBVIOUS
  <2> QED BY <1>4, <1>7, <2>1, SumAtMost
<1>9. PICK total \in Nat : total = SumOver(f)
  BY <1>8
<1>10. PICK k \in Nat : k = 100 * count
  OBVIOUS
<1>11. 100 * (k * k) = 1000000 * (count * count)
  BY <1>10
<1>12. \E n \in 0 .. k : 100 * n * n <= total /\ total < 100 * (n + 1) * (n + 1)
  <2>1. total <= 100 * (k * k)
    BY <1>8, <1>9, <1>11
  <2> QED BY <2>1, RootExists
<1>13. RiskUnits(holdings, regimes)
         = CHOOSE n \in 0 .. k : 100 * n * n <= total /\ total < 100 * (n + 1) * (n + 1)
  BY <1>1, <1>2, <1>3, <1>9, <1>10 DEF RiskUnits
<1>14. (CHOOSE n \in 0 .. k : 100 * n * n <= total /\ total < 100 * (n + 1) * (n + 1)) \in 0 .. k
  BY <1>12
<1> QED BY <1>13, <1>14

LEMMA HaircutsAre ==
  ASSUME NEW q, IsQuote(q), NEW units \in Nat
  PROVE  CutOK(Haircuts(q.addon, q.spread, q.straddle, q.sky, units))
<1>1. PortfolioHaircut(units) \in 0 .. 15
  <2>1. PICK v \in Int : v = (units - 50) \div 10
    <3>1. units - 50 \in Int /\ 10 \in Nat \ {0}
      OBVIOUS
    <3> QED BY <3>1, Divides
  <2>2. 0 \in Int /\ 15 \in Int /\ 0 <= 15
    OBVIOUS
  <2> QED BY <2>1, <2>2, ClampIn DEF PortfolioHaircut
<1>2. RegimeHaircut(q.sky) \in 0 .. 100
  <2>1. PICK shock \in 0 .. 100 : shock = q.sky.shock
    BY DEF IsQuote
  <2>2. CASE shock >= 50
    <3>1. PICK d \in 0 .. 50 : d = shock - 50
      BY <2>2
    <3>2. Min({50, d}) = d
      <4>1. 50 \in Int /\ d \in Int /\ d <= 50
        OBVIOUS
      <4> QED BY <4>1, MinOfTwo
    <3>3. 20 + (7 * d) \div 10 \in 0 .. 100
      OBVIOUS
    <3>4. RegimeHaircut(q.sky) = 20 + (7 * d) \div 10
      BY <2>1, <2>2, <3>1, <3>2 DEF RegimeHaircut, Convective, Clouded, Marine, Late
    <3> QED BY <3>3, <3>4
  <2>3. CASE ~ (shock >= 50)
    BY <2>1, <2>3 DEF RegimeHaircut, Convective
  <2> QED BY <2>2, <2>3
<1>3. Min({65, 20 + q.addon + DisagreementHaircut(q.spread, q.straddle)}) \in 0 .. 100
  <2>1. PICK d \in Nat : d = DisagreementHaircut(q.spread, q.straddle)
    BY DEF DisagreementHaircut
  <2>2. PICK x \in Nat : x = 20 + q.addon + d
    BY DEF IsQuote
  <2>3. Min({65, x}) = IF 65 <= x THEN 65 ELSE x
    <3>1. 65 \in Int /\ x \in Int
      OBVIOUS
    <3> QED BY <3>1, MinOfTwo
  <2> QED BY <2>1, <2>2, <2>3
<1> QED BY <1>1, <1>2, <1>3 DEF CutOK, Haircuts

(***************************************************************************)
(* The candidates and the choice                                           *)
(***************************************************************************)
LEMMA AdjustedIsInt ==
  ASSUME NEW raw \in Int, NEW cut, CutOK(cut)
  PROVE  Adjusted(raw, cut.uncertainty, cut.regime, cut.portfolio) \in Int
<1>1. /\ 100 - cut.uncertainty \in Int /\ 100 - cut.regime \in Int
      /\ 100 - cut.portfolio \in Int
  BY DEF CutOK
<1>u. PICK u \in Int : u = 100 - cut.uncertainty
  BY <1>1
<1>r. PICK r \in Int : r = 100 - cut.regime
  BY <1>1
<1>p. PICK p \in Int : p = 100 - cut.portfolio
  BY <1>1
<1>2. \A x, y \in Int : x * y \in Int
  OBVIOUS
<1>3. PICK a \in Int : a = raw * u
  BY <1>2
<1>4. PICK b \in Int : b = a * r
  BY <1>2
<1>5. b * p \in Int
  BY <1>2
<1> QED BY <1>u, <1>r, <1>p, <1>3, <1>4, <1>5 DEF Adjusted

LEMMA FeeIs ==
  ASSUME NEW price \in Int, NEW k \in Nat
  PROVE  FeeCost(price, k) \in Int /\ (price \in 0 .. 100 => FeeCost(price, k) >= 0)
<1>1. PICK m \in Nat : m = 1050 * k
  OBVIOUS
<1>2. \A x, y \in Int : x * y \in Int
  OBVIOUS
<1>3. \A x, y \in Nat : x * y \in Nat
  OBVIOUS
<1>4. PICK rest \in Int : rest = 100 - price
  OBVIOUS
<1>5. PICK mp \in Int : mp = m * price
  BY <1>2
<1>6. FeeCost(price, k) = mp * rest
  BY <1>1, <1>4, <1>5 DEF FeeCost
<1>7. mp * rest \in Int
  BY <1>2
<1>8. ASSUME price \in 0 .. 100 PROVE mp * rest >= 0
  <2>1. price \in Nat /\ rest \in Nat
    BY <1>4, <1>8
  <2>2. mp \in Nat
    BY <1>3, <1>5, <2>1
  <2>3. mp * rest \in Nat
    BY <1>3, <2>1, <2>2
  <2> QED BY <2>3
<1> QED BY <1>6, <1>7, <1>8

PriceOf(micros, side) ==
  IF micros[side].price = NoPrice THEN 100 ELSE Cents(micros[side].price)
TakerOf(q, micros, cut, side) ==
  Estimate(side, "taker", q.p, PriceOf(micros, side), micros[side], cut, q.multiplier)
MakerOf(q, micros, cut, side) ==
  Estimate(side, "maker", q.p, Cents(BestBid(q.history[1], side)), micros[side], cut, q.multiplier)
AgainstOf(q, micros, cut, units, side) ==
  Vetoes(q.stage, q.kill, q.lag, micros[side], TakerOf(q, micros, cut, side), units)

\* A quote with what is made of its books and its haircuts.
Given(q, micros, cut) ==
  IsQuote(q) /\ CutOK(cut) /\ \A s \in Outcomes : micros[s] = Micro(q, s)

EdgeOK(e) == e.raw \in Int /\ e.ev \in Int /\ e.p \in 0 .. 100 /\ e.price \in Int

LEMMA GivenOK ==
  ASSUME NEW q, NEW micros, NEW cut, Given(q, micros, cut)
  PROVE  /\ QuoteOK(q, micros, cut)
         /\ \A s \in Outcomes : PriceOf(micros, s) \in 0 .. 100
<1>1. \A s \in Outcomes : /\ micros[s].price \in Prices \union {NoPrice} /\ micros[s].price \in Int
                          /\ micros[s].slippage \in Nat /\ micros[s].adverse \in Nat
  BY Assessed, PriceIsInt DEF Given
<1>2. \A t \in Prices : t \in 0 .. Dollar
  BY DollarAssumption DEF Prices
<1>3. \A s \in Outcomes : PriceOf(micros, s) \in 0 .. 100
  BY <1>1, <1>2, CentsIn DEF PriceOf
<1> QED BY <1>1, <1>3 DEF QuoteOK, MicrosOK, Given, IsQuote

LEMMA TakerIs ==
  ASSUME NEW q, NEW micros, NEW cut, Given(q, micros, cut), NEW side \in Outcomes,
         NEW e, e = TakerOf(q, micros, cut, side)
  PROVE  /\ EdgeOK(e) /\ e.side = side /\ e.style = "taker"
         /\ e.p = Belief(side, q.p) /\ e.price = PriceOf(micros, side)
<1>1. PICK price \in 0 .. 100 : price = PriceOf(micros, side)
  BY GivenOK
<1>2. PICK p \in 0 .. 100 : p = Belief(side, q.p)
  <2>1. PICK own \in 0 .. 100 : own = q.p
    BY DEF Given, IsQuote
  <2>2. Belief(side, q.p) \in 0 .. 100
    BY <2>1 DEF Belief
  <2> QED BY <2>2
<1>3. /\ e.side = side /\ e.style = "taker" /\ e.p = p /\ e.price = price /\ e.raw = p - price
  BY <1>1, <1>2 DEF TakerOf, Estimate
<1>4. e.ev \in Int
  <2>1. q.p \in 0 .. 100 /\ q.multiplier \in Nat /\ CutOK(cut) /\ price \in Int
        /\ micros[side].slippage \in Nat /\ micros[side].adverse \in Nat
    BY GivenOK DEF QuoteOK, MicrosOK
  <2>2. Estimate(side, "taker", q.p, price, micros[side], cut, q.multiplier).ev \in Int
    BY <2>1, EstimateTyped
  <2> QED BY <1>1, <2>2 DEF TakerOf
<1> QED BY <1>1, <1>2, <1>3, <1>4 DEF EdgeOK

LEMMA CandidatesAre ==
  ASSUME NEW q, NEW micros, NEW cut, NEW units, NEW all, all = Candidates(q, micros, cut, units)
  PROVE  /\ \A s \in Outcomes : [edge |-> TakerOf(q, micros, cut, s),
                                 against |-> AgainstOf(q, micros, cut, units, s)] \in all
         /\ \A c \in all : c.edge.style = "taker" =>
              \E s \in Outcomes : c.edge = TakerOf(q, micros, cut, s)
                                  /\ c.against = AgainstOf(q, micros, cut, units, s)
<1>1. \A s \in Outcomes : [edge |-> TakerOf(q, micros, cut, s),
                           against |-> AgainstOf(q, micros, cut, units, s)] \in all
  BY DEF Candidates, TakerOf, AgainstOf, PriceOf
<1>2. \A c \in all :
        \/ \E s \in Outcomes : c = [edge |-> TakerOf(q, micros, cut, s),
                                    against |-> AgainstOf(q, micros, cut, units, s)]
        \/ \E s \in Outcomes : c.edge = MakerOf(q, micros, cut, s)
  BY DEF Candidates, TakerOf, MakerOf, AgainstOf, PriceOf
<1>3. \A s \in Outcomes : MakerOf(q, micros, cut, s).style = "maker"
  BY DEF MakerOf, Estimate
<1> QED BY <1>1, <1>2, <1>3

LEMMA BestIs ==
  ASSUME NEW edges, edges # {}, \A e \in edges : e.ev \in Int /\ e.side \in Outcomes,
         \A e, f \in edges : e.side = f.side => e = f
  PROVE  BestEdge(edges) \in edges
<1> DEFINE Best(e) == \A f \in edges : e.ev > f.ev \/ (e.ev = f.ev /\ (e = f \/ e.side = "yes"))
<1>1. \E e \in edges : Best(e)
  <2>1. PICK e \in edges : TRUE
    OBVIOUS
  <2>2. CASE \A f \in edges : f = e
    BY <2>2
  <2>3. ASSUME NEW f \in edges, f # e PROVE \E x \in edges : Best(x)
    <3>1. \A x \in edges : x = e \/ x = f
      BY <2>3 DEF Outcomes
    <3>2. e.side \in Outcomes /\ f.side \in Outcomes /\ e.side # f.side
      BY <2>3
    <3>7. \/ e.side = "yes" /\ f.side = "no"
          \/ e.side = "no" /\ f.side = "yes"
      BY <3>2 DEF Outcomes
    <3>3. e.ev \in Int /\ f.ev \in Int
      OBVIOUS
    <3>4. CASE e.ev > f.ev
      BY <3>1, <3>3, <3>4
    <3>5. CASE f.ev > e.ev
      BY <3>1, <3>3, <3>5
    <3>6. CASE e.ev = f.ev
      BY <3>1, <3>7, <3>6
    <3> QED BY <3>3, <3>4, <3>5, <3>6
  <2> QED BY <2>1, <2>2, <2>3
<1> HIDE DEF Best
<1>2. BestEdge(edges) = CHOOSE e \in edges : Best(e)
  BY DEF BestEdge, Best
<1> QED BY <1>1, <1>2

\* The takers nothing stands against.
LEMMA TakersAre ==
  ASSUME NEW q, NEW micros, NEW cut, Given(q, micros, cut), NEW units,
         NEW takers, takers = Positive(Candidates(q, micros, cut, units), "taker")
  PROVE  /\ \A e \in takers : \E s \in Outcomes : e = TakerOf(q, micros, cut, s)
                                /\ AgainstOf(q, micros, cut, units, s) = {}
         /\ takers # {} => BestEdge(takers) \in takers
<1>1. PICK all : all = Candidates(q, micros, cut, units)
  OBVIOUS
<1>2. \A e \in takers : \E s \in Outcomes : e = TakerOf(q, micros, cut, s)
                          /\ AgainstOf(q, micros, cut, units, s) = {}
  <2> TAKE e \in takers
  <2>1. PICK c \in all : c.edge.style = "taker" /\ c.against = {} /\ e = c.edge
    BY <1>1 DEF Positive
  <2> QED BY <1>1, <2>1, CandidatesAre
<1>3. \A e \in takers : e.ev \in Int /\ e.side \in Outcomes
  BY <1>2, TakerIs DEF EdgeOK
<1>4. \A e, f \in takers : e.side = f.side => e = f
  BY <1>2, TakerIs
<1> QED BY <1>2, <1>3, <1>4, BestIs

\* A choice on an edge is on the taker of a side, and an order on one with no veto.
Chosen(o, q, micros, cut, units) ==
  /\ o.decision \in Decisions
  /\ o.edge = NoEdge \/ \E s \in Outcomes : o.edge = TakerOf(q, micros, cut, s)
  /\ o.decision = "TAKER_ALLOWED" =>
       \E s \in Outcomes : o.edge = TakerOf(q, micros, cut, s)
                           /\ AgainstOf(q, micros, cut, units, s) = {}

LEMMA EnterIs ==
  ASSUME NEW q, NEW micros, NEW cut, Given(q, micros, cut), NEW units
  PROVE  Chosen(Enter(Candidates(q, micros, cut, units)), q, micros, cut, units)
<1>1. PICK all : all = Candidates(q, micros, cut, units)
  OBVIOUS
<1>2. PICK takers : takers = Positive(all, "taker")
  OBVIOUS
<1>3. CASE takers # {}
  <2>4. /\ BestEdge(takers) \in takers
        /\ \A e \in takers : \E s \in Outcomes : e = TakerOf(q, micros, cut, s)
                                /\ AgainstOf(q, micros, cut, units, s) = {}
    BY <1>1, <1>2, <1>3, TakersAre
  <2>1. PICK s \in Outcomes : BestEdge(takers) = TakerOf(q, micros, cut, s)
                              /\ AgainstOf(q, micros, cut, units, s) = {}
    BY <2>4
  <2>2. PICK o : o = Enter(all)
    OBVIOUS
  <2>3. o.edge = BestEdge(takers) /\ o.decision \in {"TAKER_ALLOWED", "WATCH"}
    BY <1>2, <1>3, <2>2 DEF Enter, Outcome
  <2> QED BY <1>1, <2>1, <2>2, <2>3 DEF Chosen, Decisions
<1>4. CASE takers = {}
  <2>1. Positive(all, "maker") = {}
    BY <1>1, <1>2, <1>4, MakerNeedsTaker, GivenOK
  <2>2. PICK o : o = Enter(all)
    OBVIOUS
  <2>3. o.edge = NoEdge /\ o.decision \in {"WATCH", "NO_TRADE"}
    BY <1>2, <1>4, <2>1, <2>2 DEF Enter, WatchIf, Outcome
  <2> QED BY <1>1, <2>2, <2>3 DEF Chosen, Decisions
<1> QED BY <1>3, <1>4

LEMMA ManageIs ==
  ASSUME NEW q, NEW micros, NEW cut, Given(q, micros, cut), NEW units,
         NEW held, held.side \in Outcomes, NEW blocked, NEW halted
  PROVE  Chosen(Manage(held, Candidates(q, micros, cut, units), blocked, halted),
                q, micros, cut, units)
<1>1. PICK all : all = Candidates(q, micros, cut, units)
  OBVIOUS
<1>2. PICK same : same = CHOOSE e \in Edges(all, "taker") : e.side = held.side
  OBVIOUS
<1>3. PICK s \in Outcomes : same = TakerOf(q, micros, cut, s)
  <2>1. \E e \in Edges(all, "taker") : e.side = held.side
    <3>3. [edge |-> TakerOf(q, micros, cut, held.side),
           against |-> AgainstOf(q, micros, cut, units, held.side)] \in all
      BY <1>1, CandidatesAre
    <3>1. PICK c \in all : c.edge = TakerOf(q, micros, cut, held.side)
      BY <3>3
    <3>2. c.edge.side = held.side /\ c.edge.style = "taker"
      BY <3>1, TakerIs
    <3> QED BY <3>2 DEF Edges
  <2>2. same \in Edges(all, "taker")
    BY <1>2, <2>1
  <2>3. PICK c \in all : c.edge.style = "taker" /\ same = c.edge
    BY <2>2 DEF Edges
  <2> QED BY <1>1, <2>3, CandidatesAre
<1>4. PICK reversal : reversal = {e \in Positive(all, "taker") : e.side # held.side}
  OBVIOUS
<1>5. reversal # {} => \E x \in Outcomes : BestEdge(reversal) = TakerOf(q, micros, cut, x)
  <2> SUFFICES ASSUME reversal # {}
               PROVE  \E x \in Outcomes : BestEdge(reversal) = TakerOf(q, micros, cut, x)
    OBVIOUS
  <2>1. \A e \in reversal : \E x \in Outcomes : e = TakerOf(q, micros, cut, x)
    BY <1>1, <1>4, TakersAre
  <2>2. \A e \in reversal : e.ev \in Int /\ e.side \in Outcomes
    BY <2>1, TakerIs DEF EdgeOK
  <2>3. \A e, f \in reversal : e.side = f.side => e = f
    BY <2>1, TakerIs
  <2>4. BestEdge(reversal) \in reversal
    BY <2>2, <2>3, BestIs
  <2> QED BY <2>1, <2>4
<1>6. PICK o : o = Manage(held, all, blocked, halted)
  OBVIOUS
<1>7. /\ o.decision \in {"EXIT", "REDUCE", "NO_TRADE"}
      /\ o.edge = same \/ (reversal # {} /\ o.edge = BestEdge(reversal))
  BY <1>2, <1>4, <1>6 DEF Manage, Outcome
<1> QED BY <1>1, <1>3, <1>5, <1>6, <1>7 DEF Chosen, Decisions

LEMMA ChooseIs ==
  ASSUME NEW q, NEW micros, NEW cut, Given(q, micros, cut), NEW units, NEW m,
         NEW held, \A h \in held : h.side \in Outcomes
  PROVE  Chosen(Choose(q, held, m, Candidates(q, micros, cut, units)), q, micros, cut, units)
<1>1. PICK all : all = Candidates(q, micros, cut, units)
  OBVIOUS
<1>2. PICK halted, blocked, full :
        /\ halted = HardHalt(q.stage, q.kill, q.lag) /\ blocked = RegimeBlocks(q.sky)
        /\ full = OthersFull(held, m)
  OBVIOUS
<1>3. PICK here : here = HeldHere(held, m)
  OBVIOUS
<1>4. PICK o : o = Choose(q, held, m, all)
  OBVIOUS
<1>5. \A c \in BOOLEAN : Chosen(WatchIf(c), q, micros, cut, units)
  BY DEF Chosen, WatchIf, Outcome, Decisions
<1>6. CASE here # {}
  <2>1. PICK h : h = (CHOOSE x \in here : TRUE) /\ h.side \in Outcomes
    BY <1>3, <1>6 DEF HeldHere
  <2>2. o = Manage(h, all, blocked, halted)
    BY <1>2, <1>3, <1>4, <1>6, <2>1 DEF Choose
  <2> QED BY <1>1, <1>4, <2>1, <2>2, ManageIs
<1>7. CASE here = {} /\ halted
  <2>1. o = Outcome(IF q.kill THEN "HALT_GLOBAL" ELSE "HALT_CITY", NoEdge)
    BY <1>2, <1>3, <1>4, <1>7 DEF Choose
  <2> QED BY <1>1, <1>4, <2>1 DEF Chosen, Outcome, Decisions
<1>8. CASE here = {} /\ ~ halted /\ blocked
  <2>1. o = Outcome("NO_TRADE", NoEdge)
    BY <1>2, <1>3, <1>4, <1>8 DEF Choose
  <2> QED BY <1>1, <1>4, <2>1 DEF Chosen, Outcome, Decisions
<1>9. CASE here = {} /\ ~ halted /\ ~ blocked /\ full
  <2>1. o = WatchIf(Positive(all, "taker") # {} \/ AnyRawEdge(all))
    BY <1>2, <1>3, <1>4, <1>9 DEF Choose
  <2> QED BY <1>1, <1>4, <1>5, <2>1
<1>10. CASE here = {} /\ ~ halted /\ ~ blocked /\ ~ full
  <2>1. o = Enter(all)
    BY <1>2, <1>3, <1>4, <1>10 DEF Choose
  <2> QED BY <1>1, <1>4, <2>1, EnterIs
<1> QED BY <1>6, <1>7, <1>8, <1>9, <1>10

(***************************************************************************)
(* The decision                                                            *)
(***************************************************************************)
\* Positions a cycle may know of.
BookOK(held) ==
  held \subseteq Positions /\ \A h, i \in held : h.market = i.market => h = i

\* A taker is worth its price; the body of TakersPay.
Worth(d, q) ==
  LET expected == IF d.side = "yes" THEN q.p ELSE 100 - q.p
      both == q.history[1]
      otherAsk == AskOf(both, Other(d.side))
  IN  /\ (expected - d.price) * Cent - FeeCost(d.price, q.multiplier) >= MinExecutableEv
      /\ d.price = Cents(AskOf(both, d.side))
      /\ d.price + Cents(otherAsk) >= 100 => 100 - expected < Cents(otherAsk)

DecisionOK(d, q) ==
  /\ d.decision \in Decisions /\ d.side \in Outcomes \union {"none"}
  /\ HasEdge(d) => NumbersOK(d) /\ d.price \in 0 .. 100 /\ d.ghost \in Int /\ d.levels \in Int
  /\ d.decision = "TAKER_ALLOWED" => HasEdge(d) /\ Worth(d, q)

LEMMA RiskIsNat ==
  ASSUME NEW held, BookOK(held), NEW m, NEW regime
  PROVE  CandidateRisk(held, m, regime) \in Nat
<1> DEFINE Holding(h) == [city |-> CityOf[h.market], market |-> h.market, qty |-> h.qty]
           new == [city |-> CityOf[m], market |-> m, qty |-> 100]
<1>1. PICK own : own = {Holding(h) : h \in held}
  OBVIOUS
<1>2. IsFiniteSet(own) /\ \A x \in own : x.qty \in 0 .. 100
  <2>1. PICK T : T = {h.market : h \in held}
    OBVIOUS
  <2>2. T \in SUBSET Markets
    BY <2>1 DEF BookOK, Positions
  <2>3. IsFiniteSet(T)
    BY <2>2, FS_Subset, MarketAssumption
  <2>4. PICK f : f = [t \in T |-> Holding(CHOOSE h \in held : h.market = t)]
    OBVIOUS
  <2>5. \A h \in held : h.market \in T /\ f[h.market] = Holding(h)
    <3> TAKE h \in held
    <3>1. h.market \in T
      BY <2>1
    <3>2. (CHOOSE i \in held : i.market = h.market) = h
      BY DEF BookOK
    <3> QED BY <2>4, <3>1, <3>2
  <2>6. \A t \in T : \E h \in held : t = h.market
    BY <2>1
  <2>7. \A t \in T : f[t] \in own
    BY <1>1, <2>5, <2>6
  <2>8. \A x \in own : \E t \in T : f[t] = x
    BY <1>1, <2>5
  <2>9. f \in [T -> own]
    BY <2>4, <2>7
  <2>10. f \in Surjection(T, own)
    BY <2>8, <2>9 DEF Surjection
  <2>11. IsFiniteSet(own)
    BY <2>3, <2>10, FS_Surjection
  <2>12. \A h \in held : Holding(h).qty \in 0 .. 100
    BY DEF BookOK, Positions
  <2> QED BY <1>1, <2>11, <2>12
<1>3. IsFiniteSet(own \union {new}) /\ \A x \in own \union {new} : x.qty \in 0 .. 100
  <2>1. IsFiniteSet(own \union {new})
    BY <1>2, FS_AddElement
  <2>2. new.qty \in 0 .. 100
    OBVIOUS
  <2> QED BY <1>2, <2>1, <2>2
<1>4. PICK regimes : regimes = [c \in Cities |-> IF c = CityOf[m] THEN regime ELSE ""]
  OBVIOUS
<1>5. RiskUnits(own, regimes) \in Nat
  BY <1>2, UnitsAreNat
<1>6. RiskUnits(own \union {new}, regimes) \in Nat
  BY <1>3, UnitsAreNat
<1>7. \/ CandidateRisk(held, m, regime) = RiskUnits(own, regimes)
      \/ CandidateRisk(held, m, regime) = RiskUnits(own \union {new}, regimes)
  BY <1>1, <1>4 DEF CandidateRisk
<1> QED BY <1>5, <1>6, <1>7

\* A taker without a veto was offered at its price and pays it.
LEMMA TakerIsWorth ==
  ASSUME NEW q, NEW micros, NEW cut, Given(q, micros, cut), NEW units, NEW s \in Outcomes,
         AgainstOf(q, micros, cut, units, s) = {},
         NEW d, d.side = s, d.price = TakerOf(q, micros, cut, s).price
  PROVE  Worth(d, q)
<1>1. PICK price \in 0 .. 100 : price = PriceOf(micros, s)
  BY GivenOK
<1>2. d.price = price
  BY <1>1, TakerIs
<1>3. PICK p \in 0 .. 100 : p = q.p
  BY DEF Given, IsQuote
<1>4. PICK expected \in 0 .. 100 : expected = Belief(s, q.p)
  BY <1>3 DEF Belief
<1>5. PICK k \in Nat : k = q.multiplier
  BY SMTT(30) DEF Given, IsQuote
<1>6. (expected - price) * Cent - FeeCost(price, k) >= MinExecutableEv
  <2>1. Vetoes(q.stage, q.kill, q.lag, micros[s],
               Estimate(s, "taker", q.p, price, micros[s], cut, q.multiplier), units) = {}
    BY <1>1 DEF AgainstOf, TakerOf
  <2> QED BY <1>4, <1>5, <2>1, GivenOK, UnvetoedTakerPays
<1>7. q.history[1] \in Books
  BY DEF Given, IsQuote
<1>8. price = Cents(AskOf(q.history[1], s))
  <2>1. micros[s].blocks = {}
    BY DEF AgainstOf, Vetoes
  <2>2. micros[s].price # NoPrice /\ micros[s].price = AskOf(q.history[1], s)
    BY <2>1, Assessed DEF Given
  <2> QED BY <1>1, <2>2 DEF PriceOf
<1>9. PICK fee \in Int : fee = FeeCost(price, k) /\ fee >= 0
  <2>1. price \in Int
    OBVIOUS
  <2>2. FeeCost(price, k) \in Int /\ FeeCost(price, k) >= 0
    BY <2>1, FeeIs
  <2> QED BY <2>2
<1>10. expected > price
  <2>1. PICK gain \in Int : gain = expected - price
    OBVIOUS
  <2>2. gain * 1000000 - fee >= 1500000
    BY <1>6, <1>9, <2>1 DEF Cent, MinExecutableEv
  <2>3. gain > 0
    BY <1>9, <2>2
  <2> QED BY <2>1, <2>3
<1>11. PICK other \in Int : other = Cents(AskOf(q.history[1], Other(s)))
  <2>1. Other(s) \in Outcomes
    BY DEF Other, Outcomes
  <2>2. AskOf(q.history[1], Other(s)) \in Int
    BY <1>7, <2>1, AskIs, PriceIsInt
  <2> QED BY <2>2, CentsIsInt
<1>12. price + other >= 100 => 100 - expected < other
  BY <1>10
<1>13. expected = IF d.side = "yes" THEN q.p ELSE 100 - q.p
  BY <1>4 DEF Belief
<1> QED BY <1>2, <1>5, <1>6, <1>8, <1>11, <1>12, <1>13 DEF Worth

LEMMA DecideIs ==
  ASSUME NEW q, IsQuote(q), NEW held, BookOK(held), NEW signals, NEW m,
         NEW d, d = Decide(q, held, signals, m)
  PROVE  DecisionOK(d, q)
<1>1. PICK micros : micros = [s \in Outcomes |-> Micro(q, s)]
  OBVIOUS
<1>2. \A s \in Outcomes : micros[s] = Micro(q, s)
  BY <1>1
<1>3. PICK units \in Nat : units = CandidateRisk(held, m, ActiveRegime(q.sky))
  BY RiskIsNat
<1>4. PICK cut : cut = Haircuts(q.addon, q.spread, q.straddle, q.sky, units)
  OBVIOUS
<1>5. Given(q, micros, cut)
  BY <1>2, <1>4, HaircutsAre DEF Given
<1>6. PICK o : o = Choose(q, held, m, Candidates(q, micros, cut, units))
  OBVIOUS
<1>7. Chosen(o, q, micros, cut, units)
  <2>1. \A h \in held : h.side \in Outcomes
    BY DEF BookOK, Positions
  <2> QED BY <1>5, <1>6, <2>1, ChooseIs
<1>8. PICK verdict : d = Explanation(verdict, o.edge, q, micros)
                     /\ (verdict = o.decision \/ verdict = "WATCH")
  BY <1>1, <1>3, <1>4, <1>6 DEF Decide, Micro
<1>9. verdict \in Decisions
  BY <1>7, <1>8 DEF Chosen, Decisions
<1>10. CASE o.edge = NoEdge
  <2>1. o.decision # "TAKER_ALLOWED"
    BY <1>7, <1>10, <1>5, TakerIs DEF Chosen, NoEdge, Outcomes
  <2>2. d.decision = verdict /\ d.side = "none"
    BY <1>8, <1>10 DEF Explanation
  <2> QED BY <1>8, <1>9, <2>1, <2>2 DEF DecisionOK, HasEdge
<1>11. CASE o.edge # NoEdge
  <2>1. PICK s \in Outcomes :
          /\ o.edge = TakerOf(q, micros, cut, s)
          /\ o.decision = "TAKER_ALLOWED" => AgainstOf(q, micros, cut, units, s) = {}
    BY <1>7, <1>11 DEF Chosen
  <2>2. PICK e : e = o.edge /\ EdgeOK(e) /\ e.side = s
    BY <1>5, <2>1, TakerIs
  <2>3. /\ d.decision = verdict /\ d.side = s /\ d.spread = q.spread
        /\ d.p = e.p /\ d.price = e.price /\ d.ev = e.ev
        /\ d.score = micros[s].score /\ d.ghost = micros[s].ghost /\ d.levels = micros[s].levels
    BY <1>8, <1>11, <2>2 DEF Explanation
  <2>4. /\ micros[s].score \in Int /\ micros[s].ghost \in Int /\ micros[s].levels \in Int
        /\ q.spread \in Int
    BY <1>2, Assessed DEF IsQuote
  <2>5. /\ d.p \in Int /\ d.price \in Int /\ d.spread \in Int /\ d.ev \in Int /\ d.score \in Int
        /\ d.ghost \in Int /\ d.levels \in Int
    BY <2>2, <2>3, <2>4 DEF EdgeOK
  <2>6. NumbersOK(d)
    BY <2>5 DEF NumbersOK, Disagreement, Distance
  <2>7. d.decision = "TAKER_ALLOWED" => Worth(d, q)
    BY <1>5, <1>8, <2>1, <2>2, <2>3, TakerIsWorth
  <2>8. d.price \in 0 .. 100
    BY <1>5, <2>1, <2>2, <2>3, TakerIs, GivenOK
  <2> QED BY <1>9, <2>3, <2>5, <2>6, <2>7, <2>8 DEF DecisionOK, HasEdge, Outcomes
<1> QED BY <1>10, <1>11

\* What the fill layer and the log make of a decision.
LEMMA ReadingsAre ==
  ASSUME NEW q, NEW d, DecisionOK(d, q)
  PROVE  /\ HasEdge(d) => BaseFill(d) \in 0 .. 100
         /\ Classify(d) \in {"BET", "REVIEW", "WATCH_RECOMMEND", "SKIP"}
         /\ Blocker(d) \in Reasons
<1>1. ASSUME HasEdge(d) PROVE BaseFill(d) \in 0 .. 100
  <2>1. PICK ghost \in Int : ghost = d.ghost
    BY <1>1 DEF DecisionOK
  <2>2. PICK score \in Int : score = d.score \div 12000
    <3>1. d.score \in Int /\ 12000 \in Nat \ {0}
      BY <1>1 DEF DecisionOK, NumbersOK
    <3> QED BY <3>1, Divides
  <2>3. PICK kept \in Int : kept = 10000 - 45 * ghost
    OBVIOUS
  <2>4. PICK x \in Int : x = score * kept
    <3>1. \A a, b \in Int : a * b \in Int
      OBVIOUS
    <3> QED BY <3>1
  <2>5. PICK y \in Int : y = x \div 10000
    <3>1. 10000 \in Nat \ {0}
      OBVIOUS
    <3> QED BY <3>1, Divides
  <2>6. PICK walked \in Int : walked = Max({0, d.levels - 1})
    <3>1. 0 \in Int /\ d.levels - 1 \in Int
      BY <1>1 DEF DecisionOK
    <3>2. Max({0, d.levels - 1}) \in Int
      BY <3>1, MinOfTwo
    <3> QED BY <3>2
  <2>7. PICK v \in Int : v = y - 8 * walked
    OBVIOUS
  <2>8. BaseFill(d) = Clamp(v, 0, 100)
    BY <2>1, <2>2, <2>3, <2>4, <2>5, <2>6, <2>7 DEF BaseFill
  <2>9. 0 \in Int /\ 100 \in Int /\ 0 <= 100
    OBVIOUS
  <2>10. Clamp(v, 0, 100) \in 0 .. 100
    BY <2>9, ClampIn
  <2> QED BY <2>8, <2>10
<1>2. Classify(d) \in {"BET", "REVIEW", "WATCH_RECOMMEND", "SKIP"}
  BY DEF Classify
<1>3. Blocker(d) \in Reasons
  BY DEF Blocker, Reasons
<1> QED BY <1>1, <1>2, <1>3

-----------------------------------------------------------------------------
(* The day *)

Steps == {"exit", "log", "shadow", "position", "live", "rollback", "rollbackPosition", "mark"}

\* A cycle at a market; the values the proofs do not look into are their own type.
CycleOK ==
  \/ cycle.pc \in {"idle", "market"}
  \/ cycle \in [pc : Steps, todo : {cycle.todo}, base : {cycle.base}, signals : {cycle.signals},
                m : {cycle.m}, q : {cycle.q}, d : {cycle.d}, logged : BOOLEAN, filled : BOOLEAN]

Shape(r) == [market : {r.market}, kind : {r.kind}, side : {r.side}, filled : BOOLEAN,
             blocker : {r.blocker}, won : {r.won}]

RowsOK ==
  /\ evaluations \in Nat
  /\ recs = [n \in DOMAIN recs |-> recs[n]]
  /\ \A n \in DOMAIN recs : n \in 1 .. evaluations /\ recs[n] \in Shape(recs[n])
  /\ \A h \in open : h.by \in 0 .. evaluations

OnePerMarket == \A h, i \in open : h.market = i.market => h = i

Mine(h) == h.by = evaluations

\* Before the position is saved the market is free and nothing is this evaluation's;
\* from then on to the mark the cycle knows whether the position is there.
CycleKnows ==
  /\ cycle.pc = "position" => \A h \in open : h.market # cycle.m
  /\ cycle.pc \in Steps => evaluations > 0
  /\ cycle.pc \in {"exit", "log", "shadow", "position"} =>
       ~ cycle.filled /\ \A h \in open : ~ Mine(h)
  /\ cycle.pc \in {"live", "rollback", "rollbackPosition"} => cycle.filled
  /\ cycle.pc \in Steps =>
       /\ cycle.filled => \E h \in open : Mine(h)
       /\ ~ cycle.filled => \A h \in open : ~ Mine(h)
       /\ \A h \in open : Mine(h) => h.market = cycle.m

BlockedHasNone ==
  /\ \A n \in DOMAIN recs : recs[n].blocker # "none" => \A h \in open : h.by # n
  /\ cycle.pc \in Steps /\ evaluations \in DOMAIN recs => recs[evaluations].blocker = "none"
  /\ cycle.pc \in Steps /\ cycle.logged => evaluations \in DOMAIN recs

SInv == CycleOK /\ RowsOK /\ OnePerMarket /\ CycleKnows /\ BlockedHasNone

Early == {"exit", "log", "shadow", "position"}
Filled == {"live", "rollback", "rollbackPosition"}

-----------------------------------------------------------------------------
\* The parts that only look at the rows and the positions.
BookKept == RowsOK /\ OnePerMarket /\ \A n \in DOMAIN recs :
              recs[n].blocker # "none" => \A h \in open : h.by # n

\* A step of the program counter keeps the rest of the cycle.
LEMMA GotoKeeps ==
  ASSUME CycleOK, cycle.pc \in Steps, NEW x \in Steps, Goto(x)
  PROVE  /\ CycleOK' /\ cycle'.pc = x
         /\ cycle'.m = cycle.m /\ cycle'.logged = cycle.logged /\ cycle'.filled = cycle.filled
<1>1. cycle \in [pc : Steps, todo : {cycle.todo}, base : {cycle.base}, signals : {cycle.signals},
                 m : {cycle.m}, q : {cycle.q}, d : {cycle.d}, logged : BOOLEAN, filled : BOOLEAN]
  BY DEF CycleOK, Steps
<1>2. cycle' = [cycle EXCEPT !.pc = x]
  BY DEF Goto
<1>3. cycle' \in [pc : Steps, todo : {cycle'.todo}, base : {cycle'.base},
                  signals : {cycle'.signals}, m : {cycle'.m}, q : {cycle'.q}, d : {cycle'.d},
                  logged : BOOLEAN, filled : BOOLEAN]
  BY <1>1, <1>2
<1>4. /\ cycle'.pc = x /\ cycle'.m = cycle.m
      /\ cycle'.logged = cycle.logged /\ cycle'.filled = cycle.filled
  BY <1>1, <1>2
<1> QED
  BY <1>3, <1>4 DEF CycleOK

\* A cycle that is at no market knows nothing.
LEMMA BetweenMarkets ==
  ASSUME BookKept', cycle'.pc \in {"idle", "market"}
  PROVE  SInv'
BY DEF SInv, BookKept, CycleOK, CycleKnows, BlockedHasNone, Steps

\* A step of the cycle alone.
LEMMA Passes ==
  ASSUME SInv, cycle.pc \in Steps, NEW x \in Steps, Goto(x),
         UNCHANGED <<open, recs, evaluations>>,
         x = "position" => \A h \in open : h.market # cycle.m,
         x \in Early => cycle.pc \in Early,
         x \in Filled => cycle.pc \in Filled
  PROVE  SInv'
<1>1. /\ CycleOK' /\ cycle'.pc = x
      /\ cycle'.m = cycle.m /\ cycle'.logged = cycle.logged /\ cycle'.filled = cycle.filled
  BY GotoKeeps DEF SInv
<1>2. RowsOK' /\ OnePerMarket'
  BY DEF SInv, RowsOK, Shape, OnePerMarket
<1>3. CycleKnows'
  BY <1>1 DEF SInv, CycleKnows, Mine, Early, Filled
<1>4. BlockedHasNone'
  BY <1>1 DEF SInv, BlockedHasNone
<1> QED
  BY <1>1, <1>2, <1>3, <1>4 DEF SInv

-----------------------------------------------------------------------------
\* One lemma for each step that changes the rows or the positions.
LEMMA InitOK == Init => SInv
<1> SUFFICES ASSUME Init PROVE SInv
  OBVIOUS
<1>1. cycle.pc = "idle"
  BY DEF Init, Idle
<1>2. world \in DOMAIN Worlds /\ open = Worlds[world].open
  BY DEF Init
<1>3. OnePerMarket /\ \A h \in open : h.by = 0
  BY <1>2, WorldAssumption DEF OnePerMarket
<1>4. RowsOK
  BY <1>3 DEF Init, RowsOK
<1> QED
  BY <1>1, <1>3, <1>4 DEF SInv, CycleOK, CycleKnows, BlockedHasNone, Steps, Init

LEMMA EvaluateOK ==
  ASSUME SInv, NEW m \in Markets, NEW q, Evaluate(m, q)
  PROVE  SInv'
<1>1. PICK d : cycle' = [pc |-> IF d.decision = "EXIT" THEN "exit" ELSE "log",
                         todo |-> cycle.todo \ {m}, base |-> cycle.base,
                         signals |-> cycle.signals, m |-> m, q |-> q, d |-> d,
                         logged |-> FALSE, filled |-> FALSE]
  BY DEF Evaluate
<1>2. evaluations' = evaluations + 1 /\ open' = open /\ recs' = recs
  BY DEF Evaluate, book
<1>3. CycleOK'
  BY <1>1 DEF CycleOK, Steps
<1>4. RowsOK' /\ OnePerMarket'
  BY <1>2 DEF SInv, RowsOK, Shape, OnePerMarket
<1>5. /\ \A h \in open' : h.by # evaluations'
      /\ evaluations' \notin DOMAIN recs' /\ evaluations' > 0
  BY <1>2 DEF SInv, RowsOK
<1>6. ~ cycle'.filled /\ ~ cycle'.logged /\ cycle'.pc \in {"exit", "log"}
  BY <1>1
<1>7. CycleKnows'
  BY <1>5, <1>6 DEF CycleKnows, Mine, Steps
<1>8. BlockedHasNone'
  BY <1>2, <1>5, <1>6 DEF SInv, BlockedHasNone
<1> QED
  BY <1>3, <1>4, <1>7, <1>8 DEF SInv

\* Positions may go while the cycle stands at no market.
LEMMA Shrinks ==
  ASSUME SInv, cycle'.pc \in {"idle", "market"}, UNCHANGED <<recs, evaluations>>,
         open' \subseteq open
  PROVE  SInv'
<1>1. BookKept'
  BY DEF SInv, BookKept, RowsOK, Shape, OnePerMarket, BlockedHasNone
<1> QED
  BY <1>1, BetweenMarkets

LEMMA LogOK ==
  ASSUME SInv, Log
  PROVE  SInv'
<1>1. PICK logged \in {FALSE, Recorded(cycle.d)} :
        /\ cycle' = [cycle EXCEPT !.pc = "shadow", !.logged = logged]
        /\ recs' = IF logged THEN WithLogged ELSE recs
  BY DEF Log
<1>2. evaluations' = evaluations /\ open' = open /\ cycle.pc = "log"
  BY DEF Log, book, At
<1>3. cycle \in [pc : Steps, todo : {cycle.todo}, base : {cycle.base}, signals : {cycle.signals},
                 m : {cycle.m}, q : {cycle.q}, d : {cycle.d}, logged : BOOLEAN, filled : BOOLEAN]
  BY <1>2 DEF SInv, CycleOK, Steps
<1>4. logged \in BOOLEAN
  BY <1>1 DEF Recorded
<1>5. cycle' \in [pc : Steps, todo : {cycle'.todo}, base : {cycle'.base},
                  signals : {cycle'.signals}, m : {cycle'.m}, q : {cycle'.q}, d : {cycle'.d},
                  logged : BOOLEAN, filled : BOOLEAN]
  BY <1>1, <1>3, <1>4 DEF Steps
<1>6. /\ cycle'.pc = "shadow" /\ cycle'.m = cycle.m /\ cycle'.filled = cycle.filled
      /\ cycle'.logged = logged
  BY <1>1, <1>3
<1>7. ~ cycle.filled /\ (\A h \in open : ~ Mine(h)) /\ evaluations > 0
  BY <1>2 DEF SInv, CycleKnows, Steps
<1>8. CycleKnows'
  BY <1>2, <1>6, <1>7 DEF CycleKnows, Mine
<1>9. CASE logged
  <2>1. recs' = [n \in DOMAIN recs \union {evaluations} |->
                   IF n = evaluations THEN Logged ELSE recs[n]]
    BY <1>1, <1>9 DEF WithLogged
  <2>2. DOMAIN recs' = DOMAIN recs \union {evaluations}
    BY <2>1
  <2>3. recs'[evaluations] = Logged
    BY <2>1
  <2>4. \A n \in DOMAIN recs : n # evaluations => recs'[n] = recs[n]
    BY <2>1
  <2>5. Logged \in Shape(Logged) /\ Logged.blocker = "none"
    BY DEF Logged, Shape
  <2>6. RowsOK'
    BY <1>2, <1>7, <2>1, <2>2, <2>3, <2>4, <2>5 DEF SInv, RowsOK
  <2>7. BlockedHasNone'
    BY <1>2, <1>6, <1>9, <2>2, <2>3, <2>4, <2>5 DEF SInv, BlockedHasNone
  <2> QED
    BY <1>2, <1>5, <1>8, <2>6, <2>7 DEF SInv, CycleOK, OnePerMarket
<1>10. CASE ~ logged
  <2>1. recs' = recs
    BY <1>1, <1>10
  <2>2. BlockedHasNone'
    BY <1>2, <1>6, <1>10, <2>1 DEF SInv, BlockedHasNone, Steps
  <2> QED
    BY <1>2, <1>5, <1>8, <2>1, <2>2 DEF SInv, CycleOK, OnePerMarket, RowsOK, Shape
<1> QED
  BY <1>9, <1>10

LEMMA ShadowPositionOK ==
  ASSUME SInv, ShadowPosition
  PROVE  SInv'
<1> DEFINE new == [market |-> cycle.m, side |-> cycle.d.side, qty |-> BaseFill(cycle.d),
                   by |-> evaluations]
<1>1. cycle.pc = "position" /\ UNCHANGED <<recs, evaluations>>
  BY DEF ShadowPosition, At
<1>2. CASE Goto("mark") /\ UNCHANGED open
  BY <1>1, <1>2, Passes DEF Steps, Early, Filled
<1>3. CASE /\ open' = (open \ HeldHere(open, cycle.m)) \union {new}
           /\ cycle' = [cycle EXCEPT !.pc = "live", !.filled = TRUE]
  <2>1. cycle \in [pc : Steps, todo : {cycle.todo}, base : {cycle.base},
                   signals : {cycle.signals}, m : {cycle.m}, q : {cycle.q}, d : {cycle.d},
                   logged : BOOLEAN, filled : BOOLEAN]
    BY <1>1 DEF SInv, CycleOK, Steps
  <2>2. cycle' \in [pc : Steps, todo : {cycle'.todo}, base : {cycle'.base},
                    signals : {cycle'.signals}, m : {cycle'.m}, q : {cycle'.q}, d : {cycle'.d},
                    logged : BOOLEAN, filled : BOOLEAN]
    BY <1>3, <2>1 DEF Steps
  <2>3. cycle'.pc = "live" /\ cycle'.m = cycle.m /\ cycle'.filled /\ cycle'.logged = cycle.logged
    BY <1>3, <2>1
  <2>4. new.market = cycle.m /\ new.by = evaluations
    OBVIOUS
  <2> HIDE DEF new
  <2>5. \A h \in open : h.market # cycle.m /\ h.by # evaluations
    BY <1>1 DEF SInv, CycleKnows, Mine
  <2>6. \A h \in open' : h \in open \/ h = new
    BY <1>3
  <2>7. OnePerMarket'
    BY <2>4, <2>5, <2>6 DEF SInv, OnePerMarket
  <2>8. RowsOK'
    BY <1>1, <2>4, <2>6 DEF SInv, RowsOK, Shape
  <2>9. new \in open'
    BY <1>3
  <2>10. CycleKnows'
    BY <1>1, <2>3, <2>4, <2>5, <2>6, <2>9 DEF SInv, CycleKnows, Mine, Steps
  <2>11. BlockedHasNone'
    <3>1. \A n \in DOMAIN recs : recs[n].blocker # "none" => n # evaluations
      BY <1>1 DEF SInv, BlockedHasNone, Steps
    <3> QED
      BY <1>1, <2>3, <2>4, <2>6, <3>1 DEF SInv, BlockedHasNone, Steps
  <2> QED
    BY <2>2, <2>7, <2>8, <2>10, <2>11 DEF SInv, CycleOK
<1> QED
  BY <1>2, <1>3 DEF ShadowPosition

LEMMA RollbackPositionOK ==
  ASSUME SInv, RollbackPosition
  PROVE  SInv'
<1>1. cycle.pc = "rollbackPosition" /\ UNCHANGED <<recs, evaluations>>
  BY DEF RollbackPosition, At
<1>2. CASE Goto("mark") /\ UNCHANGED open
  BY <1>1, <1>2, Passes DEF Steps, Early, Filled
<1>3. CASE /\ open' = open \ HeldHere(open, cycle.m)
           /\ cycle' = [cycle EXCEPT !.pc = "mark", !.filled = FALSE]
  <2>1. cycle \in [pc : Steps, todo : {cycle.todo}, base : {cycle.base},
                   signals : {cycle.signals}, m : {cycle.m}, q : {cycle.q}, d : {cycle.d},
                   logged : BOOLEAN, filled : BOOLEAN]
    BY <1>1 DEF SInv, CycleOK, Steps
  <2>2. cycle' \in [pc : Steps, todo : {cycle'.todo}, base : {cycle'.base},
                    signals : {cycle'.signals}, m : {cycle'.m}, q : {cycle'.q}, d : {cycle'.d},
                    logged : BOOLEAN, filled : BOOLEAN]
    BY <1>3, <2>1 DEF Steps
  <2>3. /\ cycle'.pc = "mark" /\ cycle'.m = cycle.m /\ ~ cycle'.filled
        /\ cycle'.logged = cycle.logged
    BY <1>3, <2>1
  <2>4. \A h \in open' : h \in open /\ h.market # cycle.m
    BY <1>3 DEF HeldHere
  <2>5. \A h \in open' : h.by # evaluations
    BY <1>1, <2>4 DEF SInv, CycleKnows, Mine, Steps
  <2>6. OnePerMarket' /\ RowsOK'
    BY <1>1, <2>4 DEF SInv, OnePerMarket, RowsOK, Shape
  <2>7. CycleKnows'
    BY <1>1, <2>3, <2>5 DEF SInv, CycleKnows, Mine, Steps
  <2>8. BlockedHasNone'
    BY <1>1, <2>3, <2>4 DEF SInv, BlockedHasNone, Steps
  <2> QED
    BY <2>2, <2>6, <2>7, <2>8 DEF SInv, CycleOK
<1> QED
  BY <1>2, <1>3 DEF RollbackPosition

\* What is marked is the row of this evaluation.
LEMMA Marked ==
  ASSUME SInv, Mark
  PROVE  \/ recs' = recs
         \/ /\ evaluations \in DOMAIN recs /\ DOMAIN recs' = DOMAIN recs
            /\ recs' = [n \in DOMAIN recs' |-> recs'[n]]
            /\ \A n \in DOMAIN recs : n # evaluations => recs'[n] = recs[n]
            /\ recs'[evaluations] \in Shape(recs'[evaluations])
            /\ recs'[evaluations].filled = cycle.filled
            /\ cycle.filled => recs'[evaluations].blocker = "none"
<1> DEFINE reason == IF cycle.filled THEN "none" ELSE Blocker(cycle.d)
<1>1. cycle.pc = "mark"
  BY DEF Mark, WithMark, At
<1>2. SUFFICES ASSUME recs' # recs
               PROVE  /\ evaluations \in DOMAIN recs /\ DOMAIN recs' = DOMAIN recs
                      /\ recs' = [n \in DOMAIN recs' |-> recs'[n]]
                      /\ \A n \in DOMAIN recs : n # evaluations => recs'[n] = recs[n]
                      /\ recs'[evaluations] \in Shape(recs'[evaluations])
                      /\ recs'[evaluations].filled = cycle.filled
                      /\ cycle.filled => recs'[evaluations].blocker = "none"
  OBVIOUS
<1>3. /\ cycle.logged
      /\ recs' = [recs EXCEPT ![evaluations].filled = cycle.filled,
                              ![evaluations].blocker = reason]
  BY <1>2 DEF Mark, WithMark
<1>4. evaluations \in DOMAIN recs /\ recs[evaluations] \in Shape(recs[evaluations])
  BY <1>1, <1>3 DEF SInv, BlockedHasNone, Steps, RowsOK
<1>5. cycle.filled \in BOOLEAN
  BY <1>1 DEF SInv, CycleOK, Steps
<1>6. cycle.filled => reason = "none"
  OBVIOUS
<1> HIDE DEF reason
<1>7. recs = [n \in DOMAIN recs |-> recs[n]]
  BY DEF SInv, RowsOK
<1>8. recs'[evaluations] = [recs[evaluations] EXCEPT !.filled = cycle.filled, !.blocker = reason]
  BY <1>3, <1>4, <1>7
<1>9. /\ DOMAIN recs' = DOMAIN recs /\ recs' = [n \in DOMAIN recs' |-> recs'[n]]
      /\ \A n \in DOMAIN recs : n # evaluations => recs'[n] = recs[n]
  BY <1>3, <1>7
<1>10. recs'[evaluations] \in Shape(recs'[evaluations])
  BY <1>4, <1>5, <1>8 DEF Shape
<1>11. recs'[evaluations].filled = cycle.filled /\ recs'[evaluations].blocker = reason
  BY <1>4, <1>5, <1>8 DEF Shape
<1> QED
  BY <1>4, <1>6, <1>9, <1>10, <1>11

LEMMA MarkOK ==
  ASSUME SInv, Mark
  PROVE  SInv'
<1>1. cycle'.pc = "market" /\ cycle.pc = "mark" /\ UNCHANGED <<open, evaluations>>
  BY DEF Mark, WithMark, ToNextMarket, At, book
<1>2. CASE recs' = recs
  BY <1>1, <1>2, Shrinks
<1>3. CASE recs' # recs
  <2>1. /\ evaluations \in DOMAIN recs /\ DOMAIN recs' = DOMAIN recs
        /\ recs' = [n \in DOMAIN recs' |-> recs'[n]]
        /\ \A n \in DOMAIN recs : n # evaluations => recs'[n] = recs[n]
        /\ recs'[evaluations] \in Shape(recs'[evaluations])
        /\ cycle.filled => recs'[evaluations].blocker = "none"
    BY <1>3, Marked
  <2>2. RowsOK' /\ OnePerMarket'
    BY <1>1, <2>1 DEF SInv, RowsOK, OnePerMarket
  <2>3. ~ cycle.filled => \A h \in open : h.by # evaluations
    BY <1>1 DEF SInv, CycleKnows, Mine, Steps
  <2>4. \A n \in DOMAIN recs' : recs'[n].blocker # "none" => \A h \in open' : h.by # n
    BY <1>1, <2>1, <2>3 DEF SInv, BlockedHasNone
  <2> QED
    BY <1>1, <2>2, <2>4, BetweenMarkets DEF BookKept
<1> QED
  BY <1>2, <1>3

\* A resolved row is the old one but for its result.
LEMMA Resolved ==
  ASSUME SInv, NEW k \in DOMAIN recs, Resolve(k)
  PROVE  /\ DOMAIN recs' = DOMAIN recs /\ recs' = [n \in DOMAIN recs' |-> recs'[n]]
         /\ \A n \in DOMAIN recs : /\ recs'[n] \in Shape(recs'[n])
                                   /\ recs'[n].blocker = recs[n].blocker
                                   /\ recs'[n].filled = recs[n].filled
<1>1. PICK won : recs' = [recs EXCEPT ![k].won = won]
  BY DEF Resolve, WithOutcome
<1>2. recs = [n \in DOMAIN recs |-> recs[n]] /\ \A n \in DOMAIN recs : recs[n] \in Shape(recs[n])
  BY DEF SInv, RowsOK
<1>3. /\ DOMAIN recs' = DOMAIN recs /\ recs' = [n \in DOMAIN recs' |-> recs'[n]]
      /\ recs'[k] = [recs[k] EXCEPT !.won = won]
      /\ \A n \in DOMAIN recs : n # k => recs'[n] = recs[n]
  BY <1>1, <1>2
<1>4. /\ recs'[k] \in Shape(recs'[k])
      /\ recs'[k].blocker = recs[k].blocker /\ recs'[k].filled = recs[k].filled
  BY <1>2, <1>3 DEF Shape
<1> QED
  BY <1>2, <1>3, <1>4

LEMMA ResolveOK ==
  ASSUME SInv, NEW k \in DOMAIN recs, Resolve(k)
  PROVE  SInv'
<1>1. UNCHANGED <<open, evaluations, cycle>>
  BY DEF Resolve, WithOutcome, book
<1>2. RowsOK' /\ OnePerMarket'
  BY <1>1, Resolved DEF SInv, RowsOK, OnePerMarket
<1>3. BlockedHasNone'
  BY <1>1, Resolved DEF SInv, BlockedHasNone
<1> QED
  BY <1>1, <1>2, <1>3 DEF SInv, CycleOK, CycleKnows, Mine

\* Whatever leaves the rows, the positions and the cycle alone.
LEMMA ElsewhereOK ==
  ASSUME SInv, UNCHANGED <<open, recs, cycle, evaluations>>
  PROVE  SInv'
BY DEF SInv, CycleOK, RowsOK, Shape, OnePerMarket, CycleKnows, BlockedHasNone, Mine

LEMMA NextOK ==
  ASSUME SInv, [Next]_vars
  PROVE  SInv'
<1>1. CASE Start
  BY <1>1, Shrinks DEF Start, book
<1>2. ASSUME NEW q, NEW m \in Markets, Evaluate(m, q) PROVE SInv'
  BY <1>2, EvaluateOK
<1>3. CASE ExitCheck
  <2>1. open' \subseteq open
    BY <1>3 DEF ExitCheck
  <2> QED
    BY <1>3, <2>1, Shrinks DEF ExitCheck, ToNextMarket
<1>4. CASE Log
  BY <1>4, LogOK
<1>5. CASE ShadowFill
  <2>1. \A h \in open : h.market # cycle.m
    BY <1>5 DEF ShadowFill, ShadowTakes, CityGate, HeldHere
  <2> QED
    BY <1>5, <2>1, Passes DEF ShadowFill, At, Steps, Early, Filled
<1>6. CASE ShadowPass
  BY <1>6, Passes DEF ShadowPass, At, Steps, Early, Filled, book
<1>7. CASE ShadowPosition
  BY <1>7, ShadowPositionOK
<1>8. CASE Live
  BY <1>8, Passes DEF Live, At, Steps, Early, Filled, book
<1>9. CASE RollbackFill
  BY <1>9, Passes DEF RollbackFill, At, Steps, Early, Filled
<1>10. CASE RollbackPosition
  BY <1>10, RollbackPositionOK
<1>11. CASE Mark
  BY <1>11, MarkOK
<1>12. CASE EndCycle
  BY <1>12, Shrinks DEF EndCycle, Idle, book
<1>13. CASE NextDay
  BY <1>13, ElsewhereOK DEF NextDay, book
<1>14. ASSUME NEW d \in CityDays, NEW h \in Highs, Fetch(d, h) PROVE SInv'
  BY <1>14, ElsewhereOK DEF Fetch, Reported, WithHigh, book
<1>15. ASSUME NEW h \in open, Settle(h) PROVE SInv'
  BY <1>15, Shrinks DEF Settle, At
<1>16. ASSUME NEW n \in DOMAIN recs, Resolve(n) PROVE SInv'
  BY <1>16, ResolveOK
<1>17. CASE UNCHANGED vars
  BY <1>17, ElsewhereOK DEF vars, book
<1> QED
  BY <1>1, <1>2, <1>3, <1>4, <1>5, <1>6, <1>7, <1>8, <1>9, <1>10, <1>11, <1>12, <1>13, <1>14,
     <1>15, <1>16, <1>17 DEF Next, CycleStep, Outside

-----------------------------------------------------------------------------
LEMMA OpenShrinks ==
  ASSUME [Next]_vars, ~ ShadowPosition
  PROVE  open' \subseteq open
<1>1. CASE Start \/ Log \/ ShadowFill \/ ShadowPass \/ Live \/ RollbackFill \/ Mark \/ EndCycle
  BY <1>1 DEF Start, Log, ShadowFill, ShadowPass, Live, RollbackFill, Mark, WithMark, EndCycle, book
<1>2. CASE ExitCheck \/ RollbackPosition
  BY <1>2 DEF ExitCheck, RollbackPosition
<1>3. ASSUME NEW q, NEW m \in Markets, Evaluate(m, q) PROVE open' \subseteq open
  BY <1>3 DEF Evaluate, book
<1>4. CASE Outside
  BY <1>4 DEF Outside, NextDay, Fetch, Reported, WithHigh, Settle, Resolve, WithOutcome, book
<1>5. CASE UNCHANGED vars
  BY <1>5 DEF vars, book
<1> QED
  BY <1>1, <1>2, <1>3, <1>4, <1>5 DEF Next, CycleStep

\* Only three steps change a row.
LEMMA RowsChange ==
  ASSUME [Next]_vars
  PROVE  Mark \/ Log \/ (\E k \in DOMAIN recs : Resolve(k)) \/ recs' = recs
<1>1. CASE \/ Start \/ ExitCheck \/ ShadowFill \/ ShadowPass \/ ShadowPosition \/ Live
           \/ RollbackFill \/ RollbackPosition \/ EndCycle
  BY <1>1 DEF Start, ExitCheck, ShadowFill, ShadowPass, ShadowPosition, Live, RollbackFill,
              RollbackPosition, EndCycle
<1>2. ASSUME NEW q, NEW m \in Markets, Evaluate(m, q) PROVE recs' = recs
  BY <1>2 DEF Evaluate
<1>3. CASE Outside
  BY <1>3 DEF Outside, NextDay, Fetch, Reported, WithHigh, Settle
<1>4. CASE UNCHANGED vars
  BY <1>4 DEF vars
<1> QED
  BY <1>1, <1>2, <1>3, <1>4 DEF Next, CycleStep

\* A row that is newly marked as filled is this evaluation's, and its position is there.
LEMMA NewlyFilled ==
  ASSUME SInv, [Next]_vars, NEW n \in DOMAIN recs', recs'[n].filled,
         ~ (n \in DOMAIN recs /\ recs[n].filled)
  PROVE  \E h \in open' : h.by = n
<1>1. CASE Mark
  <2>1. cycle.pc = "mark" /\ open' = open
    BY <1>1 DEF Mark, WithMark, At, book
  <2>2. n = evaluations /\ cycle.filled
    BY <1>1, Marked
  <2> QED
    BY <2>1, <2>2 DEF SInv, CycleKnows, Mine, Steps
<1>2. CASE Log
  <2>1. recs' # recs
    OBVIOUS
  <2>2. recs' = [k \in DOMAIN recs \union {evaluations} |->
                   IF k = evaluations THEN Logged ELSE recs[k]]
    BY <1>2, <2>1 DEF Log, WithLogged
  <2>3. ~ Logged.filled
    BY DEF Logged
  <2> QED
    BY <2>2, <2>3
<1>3. ASSUME NEW k \in DOMAIN recs, Resolve(k) PROVE FALSE
  BY <1>3, Resolved
<1>4. CASE recs' = recs
  BY <1>4
<1>5. Mark \/ Log \/ (\E k \in DOMAIN recs : Resolve(k)) \/ recs' = recs
  BY RowsChange
<1> QED
  BY <1>1, <1>2, <1>3, <1>4, <1>5

\* What the rows, the paper book and the running cycle know of each other always holds.
THEOREM SelectionInvariant == Spec => []SInv
BY InitOK, NextOK, PTL DEF Spec

\* Whatever save raises and wherever the cycle dies, a recommendation is marked as
\* filled only when the paper position is there, and a blocked one has none.
THEOREM MarksAreTrue == Spec => MarksTellTruth
<1> DEFINE Truth == \A n \in DOMAIN recs' :
              /\ recs'[n].filled /\ ~ (n \in DOMAIN recs /\ recs[n].filled)
                   => n \in fills' \/ \E h \in open' : h.by = n
              /\ recs'[n].blocker # "none" => \A h \in open' : h.by # n
<1>1. SInv /\ [Next]_vars => Truth
  BY NewlyFilled, NextOK DEF SInv, BlockedHasNone
<1>2. SInv /\ [Next]_vars => [Truth]_vars
  BY <1>1
<1> QED
  BY <1>2, SelectionInvariant, PTL DEF Spec, MarksTellTruth

(***************************************************************************)
(* The survey's selection                                                  *)
(***************************************************************************)
\* f[n] is what is selected of the first n candidates.
Offer(a, ranked, newest, n) == Take(a, ranked[n], newest[ranked[n]].price)
NothingYet == [cost |-> 0, markets |-> {}]
Selects(f, ranked, newest) ==
  f = [n \in 0 .. Len(ranked) |->
         IF n = 0 THEN NothingYet ELSE Offer(f[n - 1], ranked, newest, n)]

LEMMA SelectionExists ==
  ASSUME NEW ranked, Len(ranked) \in Nat, NEW newest
  PROVE  \E f : Selects(f, ranked, newest)
<1> DEFINE N == Len(ranked)
           Upto(f, m) ==
             f = [n \in 0 .. m |-> IF n = 0 THEN NothingYet ELSE Offer(f[n - 1], ranked, newest, n)]
           S == {m \in Nat : m > N \/ \E f : Upto(f, m)}
<1>1. 0 \in S
  <2>1. Upto([n \in 0 .. 0 |-> NothingYet], 0)
    OBVIOUS
  <2> QED BY <2>1
<1>2. ASSUME NEW m \in Nat, m \in S PROVE m + 1 \in S
  <2>1. CASE m + 1 > N
    BY <2>1
  <2>2. CASE m + 1 <= N
    <3> PICK f : Upto(f, m)
      BY <1>2, <2>2
    <3> DEFINE g == [n \in 0 .. m + 1 |->
                       IF n = m + 1 THEN Offer(f[m], ranked, newest, m + 1) ELSE f[n]]
    <3>1. \A n \in 0 .. m + 1 :
            g[n] = IF n = 0 THEN NothingYet ELSE Offer(g[n - 1], ranked, newest, n)
      <4> TAKE n \in 0 .. m + 1
      <4>1. CASE n = m + 1
        <5>1. g[m] = f[m] /\ g[n] = Offer(f[m], ranked, newest, m + 1) /\ n - 1 = m /\ n # 0
          BY <4>1
        <5> QED BY <4>1, <5>1
      <4>2. CASE n \in 0 .. m
        <5>1. f[n] = IF n = 0 THEN NothingYet ELSE Offer(f[n - 1], ranked, newest, n)
          BY <4>2
        <5>2. g[n] = f[n] /\ (n # 0 => g[n - 1] = f[n - 1])
          BY <4>2
        <5> HIDE DEF g
        <5> QED BY <5>1, <5>2
      <4> QED BY <4>1, <4>2
    <3>2. Upto(g, m + 1)
      BY <3>1
    <3> HIDE DEF g, Upto
    <3>3. \E h : Upto(h, m + 1)
      BY <3>2
    <3> QED BY <3>3
  <2> QED BY <2>1, <2>2
<1> HIDE DEF S
<1>3. N \in S
  BY <1>1, <1>2, SetInduction
<1> QED BY <1>3 DEF S, Selects

LEMMA SelectionIs ==
  ASSUME NEW ranked, Len(ranked) \in Nat, NEW newest
  PROVE  \E f : Selects(f, ranked, newest) /\ Selection(ranked, newest) = f[Len(ranked)]
<1> DEFINE f == CHOOSE f : Selects(f, ranked, newest)
<1>1. Selects(f, ranked, newest)
  BY SelectionExists
<1>2. Selection(ranked, newest) = f[Len(ranked)]
  BY DEF Selection, Selects, Offer, NothingYet
<1> QED BY <1>1, <1>2

CostOf(newest, ms) == SumOver([m \in ms |-> newest[m].price])

LEMMA CostAdds ==
  ASSUME NEW ms, IsFiniteSet(ms), NEW m, m \notin ms, NEW newest,
         \A x \in ms \union {m} : newest[x].price \in Nat
  PROVE  /\ CostOf(newest, ms) \in Nat
         /\ CostOf(newest, ms \union {m}) = newest[m].price + CostOf(newest, ms)
<1> DEFINE f == [x \in ms |-> newest[x].price]
           e == [x \in ms \union {m} |-> newest[x].price]
<1>1. /\ f \in [ms -> Nat] /\ f \in [ms -> Int] /\ e \in [ms \union {m} -> Int]
      /\ e[m] = newest[m].price /\ \A x \in ms : e[x] = f[x]
  OBVIOUS
<1>2. CostOf(newest, ms) = SumOver(f) /\ CostOf(newest, ms \union {m}) = SumOver(e)
  BY DEF CostOf
<1> HIDE DEF f, e
<1>3. SumOver(f) \in Nat
  BY <1>1, SumNat
<1>4. SumOver(e) = e[m] + SumOver(f)
  BY ONLY <1>1, IsFiniteSet(ms), m \notin ms, SumAdds
<1> QED BY <1>1, <1>2, <1>3, <1>4

\* What is selected of the first n candidates is within the cap, and a candidate left out
\* did not fit beside those not worse.
Better(a, newest, m) == {x \in a.markets : newest[x].ev >= newest[m].ev}
SoundUpto(a, ranked, newest, n) ==
  /\ \A m \in a.markets : \E i \in 1 .. n : ranked[i] = m
  /\ a.cost = CostOf(newest, a.markets) /\ a.cost \in Nat /\ a.cost <= CapitalCap
  /\ \A i \in 1 .. n : ranked[i] \notin a.markets =>
       CostOf(newest, Better(a, newest, ranked[i])) + newest[ranked[i]].price > CapitalCap

LEMMA OfferOK ==
  ASSUME NEW ms, IsFiniteSet(ms), NEW newest, NEW ranked \in [1 .. Cardinality(ms) -> ms],
         \A m \in ms : newest[m].price \in Nat /\ newest[m].ev \in Int,
         \A i, j \in 1 .. Cardinality(ms) :
           i < j => ranked[i] # ranked[j] /\ newest[ranked[i]].ev >= newest[ranked[j]].ev,
         NEW n \in Nat, n + 1 <= Cardinality(ms), NEW a, SoundUpto(a, ranked, newest, n),
         NEW b, b = Offer(a, ranked, newest, n + 1)
  PROVE  SoundUpto(b, ranked, newest, n + 1)
<1>1. Cardinality(ms) \in Nat /\ n + 1 \in 1 .. Cardinality(ms)
  BY FS_CardinalityType
<1>2. PICK m \in ms : m = ranked[n + 1]
  BY <1>1
<1>3. \A i \in 1 .. n : i \in 1 .. Cardinality(ms) /\ i < n + 1 /\ ranked[i] \in ms
  BY <1>1
<1>4. a.markets \subseteq ms /\ m \notin a.markets /\ \A x \in a.markets : newest[x].ev >= newest[m].ev
  BY <1>1, <1>2, <1>3 DEF SoundUpto
<1>5. IsFiniteSet(a.markets)
  BY <1>4, FS_Subset
<1>6. PICK price \in Nat : price = newest[m].price
  OBVIOUS
<1>7. b = Take(a, m, price)
  BY <1>2, <1>6 DEF Offer
<1>8. PICK spent \in Nat : spent = a.cost /\ spent = CostOf(newest, a.markets)
  BY DEF SoundUpto
<1>9. CapitalCap \in Nat
  BY CapitalAssumption
<1>10. CASE spent + price <= CapitalCap
  <2>1. b = [cost |-> spent + price, markets |-> a.markets \union {m}]
    BY <1>7, <1>8, <1>10 DEF Take, Fits
  <2>2. b.cost = spent + price /\ b.markets = a.markets \union {m}
    BY <2>1
  <2>3. CostOf(newest, a.markets \union {m}) = price + spent
    BY <1>4, <1>5, <1>6, <1>8, CostAdds
  <2>4. \A x \in b.markets : \E i \in 1 .. n + 1 : ranked[i] = x
    BY <1>1, <1>2, <2>2 DEF SoundUpto
  <2>5. ASSUME NEW i \in 1 .. n + 1, ranked[i] \notin b.markets
        PROVE  CostOf(newest, Better(b, newest, ranked[i])) + newest[ranked[i]].price > CapitalCap
    <3>1. i \in 1 .. n /\ ranked[i] \notin a.markets
      BY <1>2, <2>2, <2>5
    <3>2. PICK left \in ms : left = ranked[i]
      BY <1>3, <3>1
    <3>3. CostOf(newest, Better(a, newest, left)) + newest[left].price > CapitalCap
      BY <3>1, <3>2 DEF SoundUpto
    <3>4. PICK T : T = Better(a, newest, left)
      OBVIOUS
    <3>5. T \subseteq ms /\ IsFiniteSet(T) /\ m \notin T
      BY <1>4, <1>5, <3>4, FS_Subset DEF Better
    <3>6. CostOf(newest, T) \in Nat /\ CostOf(newest, T \union {m}) = price + CostOf(newest, T)
      BY <1>6, <3>5, CostAdds
    <3>7. Better(b, newest, left) = T \/ Better(b, newest, left) = T \union {m}
      BY <2>2, <3>4 DEF Better
    <3>8. PICK x \in Nat, y \in Nat :
            /\ x = CostOf(newest, T) /\ y = CostOf(newest, Better(b, newest, left)) /\ y >= x
      <4>1. PICK x \in Nat : x = CostOf(newest, T)
        BY <3>6
      <4>2. PICK y \in Nat : y = price + x /\ y >= x
        OBVIOUS
      <4>3. CostOf(newest, T \union {m}) = y
        BY <3>6, <4>1, <4>2
      <4>4. CASE Better(b, newest, left) = T
        BY <4>1, <4>4
      <4>5. CASE Better(b, newest, left) = T \union {m}
        BY <4>1, <4>2, <4>3, <4>5
      <4> QED BY <3>7, <4>4, <4>5
    <3>9. newest[left].price \in Nat
      OBVIOUS
    <3> QED BY <1>9, <3>2, <3>3, <3>4, <3>8, <3>9
  <2>6. b.cost = CostOf(newest, b.markets) /\ b.cost \in Nat /\ b.cost <= CapitalCap
    <3>1. PICK both \in Nat : both = spent + price /\ both = price + spent
      OBVIOUS
    <3>2. b.cost = both /\ CostOf(newest, b.markets) = both
      BY <2>2, <2>3, <3>1
    <3> QED BY <1>10, <3>1, <3>2
  <2> QED BY <2>4, <2>5, <2>6 DEF SoundUpto
<1>11. CASE ~ (spent + price <= CapitalCap)
  <2>1. b = a
    BY <1>7, <1>8, <1>11 DEF Take, Fits
  <2>2. Better(a, newest, m) = a.markets
    BY <1>4 DEF Better
  <2>3. CostOf(newest, Better(a, newest, m)) + newest[m].price > CapitalCap
    BY <1>6, <1>8, <1>9, <1>11, <2>2
  <2>4. \A i \in 1 .. n + 1 : i \in 1 .. n \/ ranked[i] = m
    BY <1>2
  <2>5. \A x \in a.markets : \E i \in 1 .. n + 1 : ranked[i] = x
    BY DEF SoundUpto
  <2> QED BY <2>1, <2>3, <2>4, <2>5 DEF SoundUpto
<1> QED BY <1>10, <1>11

\* Whatever the prices and in whatever order markets of equal EV are ranked, the greedy
\* walk stays within the cap, and a market it leaves out did not fit beside those it
\* took that are not worse.
THEOREM GreedyIsSound ==
  ASSUME NEW ms, IsFiniteSet(ms), NEW newest,
         \A m \in ms : newest[m].price \in Nat /\ newest[m].ev \in Int,
         NEW ranked \in Rankings(ms, newest), NEW s, s = Selection(ranked, newest)
  PROVE  /\ s.markets \subseteq ms
         /\ s.cost = CostOf(newest, s.markets) /\ s.cost <= CapitalCap
         /\ \A m \in ms \ s.markets :
              CostOf(newest, Better(s, newest, m)) + newest[m].price > CapitalCap
<1>1. PICK N \in Nat : N = Cardinality(ms)
  BY FS_CardinalityType
<1>2. /\ ranked \in [1 .. N -> ms] /\ DOMAIN ranked = 1 .. N /\ Len(ranked) = N
      /\ \A i, j \in 1 .. N : i # j => ranked[i] # ranked[j]
      /\ \A i, j \in 1 .. N : i < j => newest[ranked[i]].ev >= newest[ranked[j]].ev
  <2>1. /\ ranked \in [1 .. N -> ms] /\ \A i, j \in 1 .. N : i # j => ranked[i] # ranked[j]
        /\ \A i, j \in DOMAIN ranked : i < j => newest[ranked[i]].ev >= newest[ranked[j]].ev
    BY <1>1 DEF Rankings, SetToSeqs
  <2>2. DOMAIN ranked = 1 .. N
    BY <2>1
  <2>3. Len(ranked) = N
    BY <2>1, <2>2
  <2> QED BY <2>1, <2>2, <2>3
<1>3. PICK f : Selects(f, ranked, newest) /\ s = f[N]
  BY <1>2, SelectionIs
<1> DEFINE S == {n \in Nat : n > N \/ SoundUpto(f[n], ranked, newest, n)}
<1>4. 0 \in S
  <2>1. f[0] = NothingYet
    BY <1>2, <1>3 DEF Selects
  <2>2. NothingYet.cost = 0 /\ NothingYet.markets = {}
    BY DEF NothingYet
  <2>3. CostOf(newest, {}) = 0
    BY SumEmpty DEF CostOf
  <2> QED BY <2>1, <2>2, <2>3, CapitalAssumption DEF SoundUpto
<1>5. ASSUME NEW n \in Nat, n \in S PROVE n + 1 \in S
  <2>1. CASE n + 1 <= N
    <3>1. SoundUpto(f[n], ranked, newest, n)
      BY <1>5, <2>1
    <3>2. f[n + 1] = Offer(f[n], ranked, newest, n + 1)
      <4>1. n + 1 \in 0 .. N /\ n + 1 # 0 /\ (n + 1) - 1 = n
        BY <2>1
      <4> QED BY <1>2, <1>3, <4>1 DEF Selects
    <3>3. SoundUpto(f[n + 1], ranked, newest, n + 1)
      BY SMTT(30), <1>1, <1>2, <2>1, <3>1, <3>2, OfferOK
    <3> QED BY <3>3
  <2>2. CASE n + 1 > N
    BY <2>2
  <2> QED BY <2>1, <2>2
<1> HIDE DEF S
<1>6. N \in S
  BY <1>4, <1>5, SetInduction
<1>7. SoundUpto(s, ranked, newest, N)
  BY <1>3, <1>6 DEF S
<1>8. \A m \in ms : \E i \in 1 .. N : ranked[i] = m
  <2>1. ranked \in Injection(1 .. N, ms)
    BY <1>2 DEF Injection, IsInjective
  <2>2. Cardinality(1 .. N) = N
    BY FS_Interval
  <2>3. ranked \in Surjection(1 .. N, ms)
    BY <1>1, <2>1, <2>2, FS_Injection
  <2> QED BY <2>3 DEF Surjection
<1>9. s.markets \subseteq ms
  BY <1>2, <1>7 DEF SoundUpto
<1> QED BY <1>7, <1>8, <1>9 DEF SoundUpto

(***************************************************************************)
(* What the variables hold                                                 *)
(***************************************************************************)
WorldOK ==
  /\ world \in DOMAIN Worlds /\ today \in 0 .. Worlds[world].days
  /\ evaluations \in 0 .. Worlds[world].evaluations /\ fills \subseteq 1 .. evaluations
  /\ high \in [CityDays -> Highs \union {NoHigh}]

\* What is kept of a decision whatever quote it was made on.
Decided(d) ==
  /\ d.decision \in Decisions
  /\ HasEdge(d) => NumbersOK(d) /\ d.price \in 0 .. 100

LatestOK ==
  /\ latest = [m \in Markets |-> latest[m]]
  /\ \A m \in Markets : latest[m] = NoDecision \/ Decided(latest[m])

\* The cycle works on what it read, and a position is saved for an edge.
AtMarket ==
  /\ cycle.pc # "idle" => BookOK(cycle.base)
  /\ cycle.pc \in Steps => /\ cycle.m \in Markets /\ cycle.q \in Worlds[world].quotes
                           /\ DecisionOK(cycle.d, cycle.q)
  /\ cycle.pc = "position" => HasEdge(cycle.d)

\* A resolved row was for a side, and won as the day's high says.
RowIs(r, highs) ==
  /\ r \in Row
  /\ r.won # "pending" =>
       /\ r.side \in Outcomes /\ highs[Day(r.market)] # NoHigh
       /\ r.won = IF PaysYes(r.market, highs[Day(r.market)]) = (r.side = "yes")
                  THEN "yes" ELSE "no"

RowsAre == \A n \in DOMAIN recs : RowIs(recs[n], high)

TInv == WorldOK /\ LatestOK /\ AtMarket /\ open \subseteq Positions /\ RowsAre

LEMMA TInitOK == Init => TInv
<1> SUFFICES ASSUME Init PROVE TInv
  OBVIOUS
<1>1. world \in DOMAIN Worlds /\ today = 0 /\ evaluations = 0 /\ fills = {}
      /\ open = Worlds[world].open
  BY DEF Init
<1>2. Worlds[world].evaluations \in Nat /\ Worlds[world].days \in Nat /\ open \subseteq Positions
  BY <1>1, WorldAssumption
<1>3. high \in [CityDays -> Highs \union {NoHigh}]
  BY DEF Init
<1>4. WorldOK
  BY <1>1, <1>2, <1>3 DEF WorldOK
<1>5. LatestOK
  BY DEF Init, LatestOK
<1>6. AtMarket
  BY DEF Init, Idle, AtMarket, Steps
<1>7. \A n \in DOMAIN recs : FALSE
  BY DEF Init
<1> QED BY <1>2, <1>4, <1>5, <1>6, <1>7 DEF TInv, RowsAre

\* The steps of a cycle at a market stay at it.
LEMMA StaysAtMarket ==
  ASSUME CycleOK, cycle.pc \in Steps, AtMarket, world' = world,
         NEW x \in Steps, cycle' = [cycle EXCEPT !.pc = x],
         x = "position" => HasEdge(cycle.d)
  PROVE  AtMarket'
<1>1. cycle \in [pc : Steps, todo : {cycle.todo}, base : {cycle.base}, signals : {cycle.signals},
                 m : {cycle.m}, q : {cycle.q}, d : {cycle.d}, logged : BOOLEAN, filled : BOOLEAN]
  BY DEF CycleOK, Steps
<1>2. /\ cycle'.pc = x /\ cycle'.base = cycle.base
      /\ cycle'.m = cycle.m /\ cycle'.q = cycle.q /\ cycle'.d = cycle.d
  BY <1>1
<1>3. cycle.pc # "idle"
  BY DEF Steps
<1> QED BY <1>2, <1>3 DEF AtMarket

LEMMA AtMarketNext ==
  ASSUME SInv, TInv, [Next]_vars
  PROVE  AtMarket'
<1>1. CycleOK /\ AtMarket /\ world' = world
  <2>1. world' = world
    BY DEF Next, CycleStep, Outside, vars, Start, Evaluate, ExitCheck, Log, ShadowFill, ShadowPass,
           ShadowPosition, Live, RollbackFill, RollbackPosition, Mark, WithMark, EndCycle, NextDay,
           Fetch, Reported, WithHigh,
           Settle, Resolve, WithOutcome
  <2> QED BY <2>1 DEF SInv, TInv
<1>2. BookOK(open)
  BY DEF SInv, TInv, OnePerMarket, BookOK
<1>3. CASE Start
  <2>1. cycle'.pc = "market" /\ cycle'.base = open
    BY <1>3 DEF Start
  <2> QED BY <1>2, <2>1 DEF AtMarket, Steps
<1>4. ASSUME NEW q \in Worlds[world].quotes, NEW m \in Markets, Evaluate(m, q) PROVE AtMarket'
  <2>1. PICK d : /\ d = Decide(q, Seen(m), cycle.signals, m)
                 /\ cycle' = [pc |-> IF d.decision = "EXIT" THEN "exit" ELSE "log",
                              todo |-> cycle.todo \ {m}, base |-> cycle.base,
                              signals |-> cycle.signals, m |-> m, q |-> q, d |-> d,
                              logged |-> FALSE, filled |-> FALSE]
    BY <1>4 DEF Evaluate
  <2>2. BookOK(cycle.base)
    BY <1>1, <1>4 DEF Evaluate, At, AtMarket
  <2>3. BookOK(Seen(m))
    BY <2>2 DEF Seen, BookOK
  <2>4. IsQuote(q)
    BY WorldAssumption DEF TInv, WorldOK
  <2>5. DecisionOK(d, q)
    BY <2>1, <2>3, <2>4, DecideIs
  <2>6. /\ cycle'.pc \in {"exit", "log"} /\ cycle'.base = cycle.base
        /\ cycle'.m = m /\ cycle'.q = q /\ cycle'.d = d
    BY <2>1
  <2> QED BY <1>1, <2>2, <2>5, <2>6 DEF AtMarket
<1>5. CASE ExitCheck \/ Mark
  <2>1. cycle'.pc = "market" /\ cycle'.base = cycle.base /\ cycle.pc # "idle"
    BY <1>5 DEF ExitCheck, Mark, WithMark, ToNextMarket, At
  <2> QED BY <1>1, <2>1 DEF AtMarket, Steps
<1>6. CASE Log
  <2>1. PICK logged : cycle' = [cycle EXCEPT !.pc = "shadow", !.logged = logged]
    BY <1>6 DEF Log
  <2>2. cycle.pc \in Steps
    BY <1>6 DEF Log, At, Steps
  <2>3. cycle \in [pc : Steps, todo : {cycle.todo}, base : {cycle.base},
                   signals : {cycle.signals}, m : {cycle.m}, q : {cycle.q}, d : {cycle.d},
                   logged : BOOLEAN, filled : BOOLEAN]
    BY <1>1, <2>2 DEF CycleOK, Steps
  <2>4. /\ cycle'.pc = "shadow" /\ cycle'.base = cycle.base
        /\ cycle'.m = cycle.m /\ cycle'.q = cycle.q /\ cycle'.d = cycle.d
    BY <2>1, <2>3
  <2> QED BY <1>1, <2>2, <2>4 DEF AtMarket, Steps
<1>7. CASE ShadowFill
  <2>1. PICK x \in {"position", "mark"} : cycle' = [cycle EXCEPT !.pc = x]
    BY <1>7 DEF ShadowFill, Goto
  <2>2. cycle.pc \in Steps /\ x \in Steps /\ HasEdge(cycle.d)
    BY <1>7 DEF ShadowFill, ShadowTakes, At, Steps
  <2> QED BY <1>1, <2>1, <2>2, StaysAtMarket
<1>8. CASE ShadowPass \/ Live \/ RollbackFill
  <2>1. PICK x \in {"mark", "rollback", "rollbackPosition"} : cycle' = [cycle EXCEPT !.pc = x]
    BY <1>8 DEF ShadowPass, Live, RollbackFill, Goto
  <2>2. cycle.pc \in Steps /\ x \in Steps /\ x # "position"
    BY <1>8 DEF ShadowPass, Live, RollbackFill, At, Steps
  <2> QED BY <1>1, <2>1, <2>2, StaysAtMarket
<1>9. CASE ShadowPosition \/ RollbackPosition
  <2>1. PICK x \in {"live", "mark"}, filled \in BOOLEAN :
          cycle' \in {[cycle EXCEPT !.pc = x], [cycle EXCEPT !.pc = x, !.filled = filled]}
    BY <1>9 DEF ShadowPosition, RollbackPosition, Goto
  <2>2. cycle.pc \in Steps /\ x \in Steps /\ x # "position"
    BY <1>9, <2>1 DEF ShadowPosition, RollbackPosition, At, Steps
  <2>3. CASE cycle' = [cycle EXCEPT !.pc = x]
    BY <1>1, <2>2, <2>3, StaysAtMarket
  <2>4. CASE cycle' = [cycle EXCEPT !.pc = x, !.filled = filled]
    <3>1. cycle \in [pc : Steps, todo : {cycle.todo}, base : {cycle.base},
                     signals : {cycle.signals}, m : {cycle.m}, q : {cycle.q}, d : {cycle.d},
                     logged : BOOLEAN, filled : BOOLEAN]
      BY <1>1, <2>2 DEF CycleOK, Steps
    <3>2. /\ cycle'.pc = x /\ cycle'.base = cycle.base
          /\ cycle'.m = cycle.m /\ cycle'.q = cycle.q /\ cycle'.d = cycle.d
      BY <2>4, <3>1
    <3> QED BY <1>1, <2>2, <3>2 DEF AtMarket, Steps
  <2> QED BY <2>1, <2>3, <2>4
<1>10. CASE EndCycle
  BY <1>10 DEF EndCycle, Idle, AtMarket, Steps
<1>11. CASE Outside \/ UNCHANGED vars
  <2>1. cycle' = cycle
    BY <1>11 DEF Outside, vars, NextDay, Fetch, Reported, WithHigh, Settle, Resolve, WithOutcome
  <2> QED BY <1>1, <2>1 DEF AtMarket
<1> QED
  BY <1>3, <1>4, <1>5, <1>6, <1>7, <1>8, <1>9, <1>10, <1>11 DEF Next, CycleStep

LEMMA WorldNext ==
  ASSUME SInv, TInv, [Next]_vars
  PROVE  WorldOK'
<1>1. WorldOK /\ world' = world
  <2>1. world' = world
    BY DEF Next, CycleStep, Outside, vars, Start, Evaluate, ExitCheck, Log, ShadowFill, ShadowPass,
           ShadowPosition, Live, RollbackFill, RollbackPosition, Mark, WithMark, EndCycle, NextDay,
           Fetch, Reported, WithHigh,
           Settle, Resolve, WithOutcome
  <2> QED BY <2>1 DEF TInv
<1>2. PICK n \in Nat : n = Worlds[world].evaluations
  BY <1>1, WorldAssumption DEF WorldOK
<1>3. PICK days \in Nat : days = Worlds[world].days
  BY <1>1, WorldAssumption DEF WorldOK
<1>4. evaluations \in 0 .. n /\ today \in 0 .. days
  BY <1>1, <1>2, <1>3 DEF WorldOK
<1>5. ASSUME NEW q, NEW m, Evaluate(m, q) PROVE WorldOK'
  <2>1. evaluations' = evaluations + 1 /\ evaluations < n /\ UNCHANGED <<today, fills, high>>
    BY <1>2, <1>5 DEF Evaluate, book
  <2>2. evaluations' \in 0 .. n /\ fills' \subseteq 1 .. evaluations'
    BY <1>1, <1>4, <2>1 DEF WorldOK
  <2> QED BY <1>1, <1>2, <2>1, <2>2 DEF WorldOK
<1>6. CASE ShadowFill \/ RollbackFill
  <2>1. UNCHANGED <<today, high, evaluations>> /\ fills' \subseteq fills \union {evaluations}
    BY <1>6 DEF ShadowFill, RollbackFill
  <2>2. evaluations > 0
    BY <1>6 DEF SInv, CycleKnows, ShadowFill, RollbackFill, At, Steps
  <2>3. evaluations \in 1 .. evaluations
    BY <1>4, <2>2
  <2> QED BY <1>1, <2>1, <2>3 DEF WorldOK
<1>7. CASE NextDay
  <2>1. today' = today + 1 /\ today < days /\ UNCHANGED <<fills, high, evaluations>>
    BY <1>3, <1>7 DEF NextDay, book
  <2>2. today' \in 0 .. days
    BY <1>4, <2>1
  <2> QED BY <1>1, <1>3, <2>1, <2>2 DEF WorldOK
<1>8. ASSUME NEW d \in CityDays, NEW h \in Highs, Fetch(d, h) PROVE WorldOK'
  BY <1>1, <1>8 DEF Fetch, Reported, WithHigh, book, WorldOK
<1>9. CASE \/ Start \/ ExitCheck \/ Log \/ ShadowPass \/ ShadowPosition \/ Live
           \/ RollbackPosition \/ Mark \/ EndCycle \/ UNCHANGED vars
  <2>1. UNCHANGED <<today, fills, high, evaluations>>
    BY <1>9 DEF Start, ExitCheck, Log, ShadowPass, ShadowPosition, Live, RollbackPosition, Mark,
                WithMark,
                EndCycle, vars, book
  <2> QED BY <1>1, <2>1 DEF WorldOK
<1>10. ASSUME NEW h, Settle(h) PROVE WorldOK'
  BY <1>1, <1>10 DEF Settle, WorldOK
<1>11. ASSUME NEW k, Resolve(k) PROVE WorldOK'
  BY <1>1, <1>11 DEF Resolve, WithOutcome, book, WorldOK
<1> QED
  BY <1>5, <1>6, <1>7, <1>8, <1>9, <1>10, <1>11 DEF Next, CycleStep, Outside

LEMMA LatestNext ==
  ASSUME SInv, TInv, [Next]_vars
  PROVE  LatestOK'
<1>1. ASSUME NEW q, NEW m \in Markets, Evaluate(m, q) PROVE LatestOK'
  <2>1. latest' = [latest EXCEPT ![m] = cycle'.d]
    BY <1>1 DEF Evaluate
  <2>2. Decided(cycle'.d)
    <3>1. cycle'.pc \in Steps
      BY <1>1 DEF Evaluate, Steps
    <3> QED BY <3>1, AtMarketNext DEF AtMarket, DecisionOK, Decided
  <2> QED BY <2>1, <2>2 DEF TInv, LatestOK
<1>2. CASE \/ Start \/ ExitCheck \/ Log \/ ShadowFill \/ ShadowPass \/ ShadowPosition \/ Live
           \/ RollbackFill \/ RollbackPosition \/ Mark \/ EndCycle \/ Outside \/ UNCHANGED vars
  <2>1. latest' = latest
    BY <1>2 DEF Start, ExitCheck, Log, ShadowFill, ShadowPass, ShadowPosition, Live, RollbackFill,
                RollbackPosition, Mark, WithMark, EndCycle, Outside, NextDay, Fetch, Reported,
                WithHigh, Settle, Resolve, WithOutcome, vars
  <2> QED BY <2>1 DEF TInv, LatestOK
<1> QED BY <1>1, <1>2 DEF Next, CycleStep

LEMMA PositionsNext ==
  ASSUME SInv, TInv, [Next]_vars
  PROVE  open' \subseteq Positions
<1>1. CASE ShadowPosition
  <2>1. cycle.pc = "position"
    BY <1>1 DEF ShadowPosition, At
  <2>2. /\ cycle.m \in Markets /\ DecisionOK(cycle.d, cycle.q) /\ HasEdge(cycle.d)
    BY <2>1 DEF TInv, AtMarket, Steps
  <2>3. cycle.d.side \in Outcomes /\ BaseFill(cycle.d) \in 0 .. 100 /\ evaluations \in Nat
    <3>1. cycle.d.side \in Outcomes
      BY <2>2 DEF DecisionOK, HasEdge
    <3>2. BaseFill(cycle.d) \in 0 .. 100
      BY <2>2, ReadingsAre
    <3> QED BY <3>1, <3>2 DEF SInv, RowsOK
  <2>4. [market |-> cycle.m, side |-> cycle.d.side, qty |-> BaseFill(cycle.d),
         by |-> evaluations] \in Positions
    BY <2>2, <2>3 DEF Positions
  <2> QED BY <1>1, <2>4 DEF ShadowPosition, TInv
<1>2. CASE ~ ShadowPosition
  BY <1>2, OpenShrinks DEF TInv
<1> QED BY <1>1, <1>2

\* A row stays as it must be while the highs of the days that have one are kept.
LEMMA RowsNext ==
  ASSUME SInv, TInv, [Next]_vars
  PROVE  RowsAre'
<1>1. \A n \in DOMAIN recs : RowIs(recs[n], high) /\ recs[n].market \in Markets
  BY DEF TInv, RowsAre, RowIs, Row
<1>2. \A m \in Markets : Day(m) \in CityDays
  BY DEF Day, CityDays
<1>3. \A m \in Markets : high[Day(m)] # NoHigh => high'[Day(m)] = high[Day(m)]
  <2>1. ASSUME NEW d \in CityDays, NEW h \in Highs, Fetch(d, h)
        PROVE  \A m \in Markets : high[Day(m)] # NoHigh => high'[Day(m)] = high[Day(m)]
    BY <1>2, <2>1 DEF Fetch, Reported, WithHigh, TInv, WorldOK
  <2>2. CASE ~ \E d \in CityDays, h \in Highs : Fetch(d, h)
    <3>1. high' = high
      BY <2>2 DEF Next, CycleStep, Outside, vars, Start, Evaluate, ExitCheck, Log, ShadowFill,
             ShadowPass, ShadowPosition, Live, RollbackFill, RollbackPosition, Mark, WithMark,
             EndCycle,
             NextDay, Settle, Resolve, WithOutcome
    <3> QED BY <3>1
  <2> QED BY <2>1, <2>2
<1>4. \A r : RowIs(r, high) /\ r.market \in Markets => RowIs(r, high')
  BY <1>3 DEF RowIs
<1>5. CASE recs' = recs
  BY <1>1, <1>4, <1>5 DEF RowsAre
<1>6. CASE Log
  <2>1. cycle.pc = "log"
    BY <1>6 DEF Log, At
  <2>2. cycle.m \in Markets /\ DecisionOK(cycle.d, cycle.q)
    BY <2>1 DEF TInv, AtMarket, Steps
  <2>3. Logged \in Row
    BY <2>2, ReadingsAre DEF Logged, Row, DecisionOK, Reasons
  <2>4. Logged.won = "pending"
    BY DEF Logged
  <2>5. \A n \in DOMAIN recs' : recs'[n] = Logged \/ (n \in DOMAIN recs /\ recs'[n] = recs[n])
    BY <1>6 DEF Log, WithLogged
  <2>6. PICK own : own = Logged
    OBVIOUS
  <2>7. RowIs(own, high')
    BY <2>3, <2>4, <2>6 DEF RowIs
  <2> QED BY <1>1, <1>4, <2>5, <2>6, <2>7 DEF RowsAre
<1>7. CASE Mark
  <2>1. cycle.pc = "mark"
    BY <1>7 DEF Mark, WithMark, At
  <2>2. DecisionOK(cycle.d, cycle.q) /\ cycle.filled \in BOOLEAN
    BY <2>1 DEF TInv, AtMarket, Steps, SInv, CycleOK
  <2>3. PICK reason \in Reasons : reason = IF cycle.filled THEN "none" ELSE Blocker(cycle.d)
    BY <2>2, ReadingsAre DEF Reasons
  <2>4. PICK filled \in BOOLEAN : filled = cycle.filled
    BY <2>2
  <2>5. recs = [n \in DOMAIN recs |-> recs[n]]
    BY DEF SInv, RowsOK
  <2>6. recs' = recs \/ recs' = [recs EXCEPT ![evaluations].filled = filled,
                                             ![evaluations].blocker = reason]
    BY <1>7, <2>3, <2>4 DEF Mark, WithMark
  <2>7. CASE recs' # recs
    <3>1. /\ DOMAIN recs' = DOMAIN recs
          /\ \A n \in DOMAIN recs : n # evaluations => recs'[n] = recs[n]
          /\ evaluations \in DOMAIN recs =>
               recs'[evaluations] = [recs[evaluations] EXCEPT !.filled = filled, !.blocker = reason]
      BY <2>5, <2>6, <2>7
    <3>2. ASSUME evaluations \in DOMAIN recs PROVE RowIs(recs'[evaluations], high')
      <4>1. PICK r \in Row : r = recs[evaluations] /\ RowIs(r, high)
        BY <1>1, <3>2 DEF RowIs
      <4>2. PICK s : s = [r EXCEPT !.filled = filled, !.blocker = reason]
        OBVIOUS
      <4>3. s \in Row /\ s.market = r.market /\ s.side = r.side /\ s.won = r.won
        BY <4>2 DEF Row
      <4>4. RowIs(s, high)
        BY <4>1, <4>3 DEF RowIs
      <4>5. s.market \in Markets
        BY <4>3 DEF Row
      <4> QED BY <1>4, <3>1, <3>2, <4>1, <4>2, <4>4, <4>5
    <3> QED BY <1>1, <1>4, <3>1, <3>2 DEF RowsAre
  <2> QED BY <1>5, <2>7
<1>8. ASSUME NEW k \in DOMAIN recs, Resolve(k)
      PROVE  RowsAre'
  <2>1. PICK r \in Row : r = recs[k] /\ RowIs(r, high)
    BY <1>1 DEF RowIs
  <2>2. PICK won \in {"yes", "no"} :
          won = IF PaysYes(r.market, high[Day(r.market)]) = (r.side = "yes")
                THEN "yes" ELSE "no"
    OBVIOUS
  <2>3. recs = [n \in DOMAIN recs |-> recs[n]]
    BY DEF SInv, RowsOK
  <2>4. recs' = [recs EXCEPT ![k].won = won]
    BY <1>8, <2>1, <2>2 DEF Resolve, WithOutcome, YesWon
  <2>5. PICK s : s = [r EXCEPT !.won = won]
    OBVIOUS
  <2>6. /\ DOMAIN recs' = DOMAIN recs /\ recs'[k] = s
        /\ \A n \in DOMAIN recs : n # k => recs'[n] = recs[n]
    BY <2>1, <2>3, <2>4, <2>5
  <2>7. s \in Row /\ s.market = r.market /\ s.side = r.side /\ s.won = won
    BY <2>5 DEF Row
  <2>8. r.side \in Outcomes /\ high[Day(r.market)] # NoHigh
    BY <1>8, <2>1 DEF Resolve, Resolvable, Unresolved, Reported, Row
  <2>9. RowIs(s, high)
    BY <2>2, <2>7, <2>8 DEF RowIs
  <2>10. s.market \in Markets
    BY <2>7 DEF Row
  <2> QED BY <1>1, <1>4, <2>6, <2>9, <2>10 DEF RowsAre
<1>9. Mark \/ Log \/ (\E k \in DOMAIN recs : Resolve(k)) \/ recs' = recs
  BY RowsChange
<1> QED BY <1>5, <1>6, <1>7, <1>8, <1>9

\* Every variable has its type, every decision at hand is one the engine makes, and a
\* resolved row won as its day's high says.
THEOREM DayInvariant == Spec => [](SInv /\ TInv)
<1>1. SInv /\ TInv /\ [Next]_vars => TInv'
  BY AtMarketNext, WorldNext, LatestNext, PositionsNext, RowsNext DEF TInv
<1> QED BY <1>1, TInitOK, SelectionInvariant, PTL DEF Spec

\* Whatever the quotes and the highs, the variables have their types.
THEOREM TypeCorrect == Spec => []TypeOK
<1>1. SInv /\ TInv => TypeOK
  <2> SUFFICES ASSUME SInv, TInv PROVE TypeOK
    OBVIOUS
  <2>1. DOMAIN recs \subseteq 1 .. evaluations /\ \A n \in DOMAIN recs : recs[n] \in Row
    BY DEF SInv, RowsOK, TInv, RowsAre, RowIs
  <2>2. Deciding => cycle.pc \in Steps
    BY DEF SInv, CycleOK, Deciding, At
  <2>3. cycle.pc \in Steps => cycle.logged \in BOOLEAN /\ cycle.filled \in BOOLEAN
    BY DEF SInv, CycleOK, Steps
  <2>4. cycle.pc \in Steps => cycle.m \in Markets
    BY DEF TInv, AtMarket
  <2>5. cycle.pc \in Steps /\ cycle.logged => evaluations \in DOMAIN recs
    BY DEF SInv, BlockedHasNone
  <2> QED BY <2>1, <2>2, <2>3, <2>4, <2>5 DEF TypeOK, TInv, WorldOK, LatestOK, Decided, SInv, OnePerMarket
<1> QED BY <1>1, DayInvariant, PTL

\* Whatever books, forecasts and portfolio the engine is given, an order it allows was
\* offered at its price and is worth it after the fee.
THEOREM TakersArePaid == Spec => []TakersPay
<1>1. SInv /\ TInv => TakersPay
  <2> SUFFICES ASSUME SInv, TInv, Deciding, cycle.d.decision = "TAKER_ALLOWED" PROVE TakersPay
    BY DEF TakersPay
  <2>1. cycle.pc \in Steps
    BY DEF SInv, CycleOK, Deciding, At
  <2>2. Worth(cycle.d, cycle.q)
    BY <2>1 DEF TInv, AtMarket, DecisionOK
  <2> QED BY <2>2 DEF Worth, TakersPay
<1> QED BY <1>1, DayInvariant, PTL

\* Whatever quote the engine is given, the fill layer, the log and the survey draw one
\* line through its decisions, but for the confidence only the survey asks for.
THEOREM GatesAreOneSet == Spec => []OneSetOfGates
<1>1. SInv /\ TInv => OneSetOfGates
  <2> SUFFICES ASSUME SInv, TInv, Deciding PROVE OneSetOfGates
    BY DEF OneSetOfGates
  <2>1. cycle.pc \in Steps
    BY DEF SInv, CycleOK, Deciding, At
  <2>2. DecisionOK(cycle.d, cycle.q)
    BY <2>1 DEF TInv, AtMarket
  <2>3. CASE HasEdge(cycle.d)
    <3>1. NumbersOK(cycle.d) /\ cycle.d.price \in 0 .. 100
      BY <2>2, <2>3 DEF DecisionOK
    <3> QED BY <2>3, <3>1, GatesAreOne DEF OneSetOfGates
  <2>4. CASE ~ HasEdge(cycle.d)
    <3>1. cycle.d.decision # "TAKER_ALLOWED"
      BY <2>2, <2>4 DEF DecisionOK
    <3>2. Classify(cycle.d) \notin {"BET", "REVIEW"} /\ ~ Gates(cycle.d) /\ ~ Accepts(cycle.d)
      BY <2>4, <3>1 DEF Classify, Gates, Accepts
    <3> QED BY <3>2 DEF OneSetOfGates
  <2> QED BY <2>3, <2>4
<1> QED BY <1>1, DayInvariant, PTL

\* Whatever was decided and however equals are ranked, the survey stays within the day's
\* capital and selects nothing that is held or that the fill layer's first five gates
\* refuse.
THEOREM SelectionIsSound == Spec => []SelectionSound
<1>1. SInv /\ TInv => SelectionSound
  <2> SUFFICES ASSUME TInv,
                      NEW ranked \in Rankings(Accepted(latest, open, today), latest)
               PROVE  LET s == Selection(ranked, latest)
                      IN  /\ s.cost = CostOf(latest, s.markets) /\ s.cost <= CapitalCap
                          /\ \A m \in s.markets : HeldHere(open, m) = {} /\ Gates(latest[m])
                          /\ \A m \in Accepted(latest, open, today) \ s.markets :
                               CostOf(latest, Better(s, latest, m)) + latest[m].price > CapitalCap
    BY DEF SelectionSound, CostOf, Better
  <2>1. PICK ms : ms = Accepted(latest, open, today)
    OBVIOUS
  <2>2. PICK s : s = Selection(ranked, latest)
    OBVIOUS
  <2>3. \A m \in ms : /\ m \in Markets /\ HeldHere(open, m) = {} /\ latest[m] # NoDecision
                      /\ Accepts(latest[m])
    BY <2>1 DEF Accepted
  <2>4. \A m \in ms : NumbersOK(latest[m]) /\ latest[m].price \in 0 .. 100 /\ HasEdge(latest[m])
    BY <2>3 DEF TInv, LatestOK, Decided, Accepts
  <2>5. \A m \in ms : Gates(latest[m])
    BY <2>3, <2>4, GatesAreOne
  <2>6. \A m \in ms : latest[m].price \in Nat /\ latest[m].ev \in Int
    BY <2>4 DEF NumbersOK
  <2>7. IsFiniteSet(ms)
    BY <2>3, MarketAssumption, FS_Subset
  <2>8. /\ s.markets \subseteq ms
        /\ s.cost = CostOf(latest, s.markets) /\ s.cost <= CapitalCap
        /\ \A m \in ms \ s.markets :
             CostOf(latest, Better(s, latest, m)) + latest[m].price > CapitalCap
    BY <2>1, <2>2, <2>6, <2>7, GreedyIsSound
  <2> QED BY <2>1, <2>2, <2>3, <2>5, <2>8
<1> QED BY <1>1, DayInvariant, PTL

\* Rows of one market that are resolved tell one story, whenever each was logged and
\* resolved: a day's high is never fetched twice.
THEOREM OutcomesAlwaysAgree == Spec => []OutcomesAgree
<1>1. SInv /\ TInv => OutcomesAgree
  <2> SUFFICES ASSUME TInv, NEW n \in DOMAIN recs, NEW k \in DOMAIN recs,
                      recs[n].market = recs[k].market,
                      recs[n].won # "pending", recs[k].won # "pending"
               PROVE  recs[n].side = recs[k].side <=> recs[n].won = recs[k].won
    BY DEF OutcomesAgree
  <2>1. PICK yes \in BOOLEAN : yes = YesWon(recs[n].market)
    <3>1. PaysYes(recs[n].market, high[Day(recs[n].market)]) \in BOOLEAN
      BY DEF PaysYes
    <3> QED BY <3>1 DEF YesWon
  <2>2. \A i \in {n, k} : /\ recs[i].side \in Outcomes
                          /\ recs[i].won = IF yes = (recs[i].side = "yes") THEN "yes" ELSE "no"
    BY <2>1 DEF TInv, RowsAre, RowIs, YesWon
  <2> QED BY <2>2 DEF Outcomes
<1> QED BY <1>1, DayInvariant, PTL
=============================================================================
