---------------------------- MODULE SelectionDay ----------------------------
(***************************************************************************)
(* What becomes of a decision (tools/run_city_cycle.py): it is saved, a    *)
(* recommendation is logged, the paper book is filled, a blocked live      *)
(* order rolls the fill back, and the recommendation is marked.  Each is   *)
(* a transaction of its own, may raise and is then passed over, and the    *)
(* watchdog may kill the cycle between any two.  Beside the cycle the      *)
(* day's report is fetched (tools/fetch_settlements.py), positions settle, *)
(* and the survey resolves recommendations and selects markets             *)
(* (tools/survey_opportunities.py).                                        *)
(*                                                                         *)
(* There is one cycle and one fetch.  What a second cycle does to the      *)
(* paper book, the morning one that runs outside the lock, is              *)
(* TradingCycle's subject.                                                 *)
(*                                                                         *)
(* Which orders a live gate blocks or an exit closes is TradingCycle's     *)
(* subject and is open here.                                               *)
(***************************************************************************)
EXTENDS FillLayer

CONSTANTS
  Worlds,           \* [label -> what is open at first, the markets discovery
                    \*           lists, the quotes that may come up and, two bounds, how
                    \*           many of them are evaluated and how many days pass]
  Highs,            \* daily highs a report may give
  OperatorOf        \* of a market's rule: what its threshold is compared with

Positions == [market : Markets, side : Outcomes, qty : 0 .. 100, by : Nat]
NoHigh == -1000

ASSUME WorldAssumption ==
  /\ Highs \subseteq Int \ {NoHigh} /\ OperatorOf \in [Markets -> {">", ">=", "<", "<="}]
  /\ \A w \in DOMAIN Worlds :
       /\ Worlds[w].open \subseteq Positions
       /\ \A h, i \in Worlds[w].open : h.by = 0 /\ (h.market = i.market => h = i)
       /\ Worlds[w].evaluations \in Nat /\ Worlds[w].days \in Nat
       /\ Worlds[w].markets \subseteq Markets
       /\ \A q \in Worlds[w].quotes : IsQuote(q)

VARIABLES
  world,            \* a label of Worlds; never changes
  today,            \* the cities' local day
  open,             \* shadow_positions that are OPEN; by: the evaluation that made it
  fills,            \* shadow_fills: the evaluations that made them
  latest,           \* decisions: the newest of each market
  recs,             \* market_recommendations: a row per evaluation that logged one
  high,             \* market_settlements: the high of a city's day, NoHigh if missing
  cycle,            \* the running cycle
  evaluations       \* evaluations so far; they identify fills and rows

book == <<open, fills>>
vars == <<world, today, book, latest, recs, high, cycle, evaluations>>

CityDays == {<<CityOf[m], DayOf[m]>> : m \in Markets}
Day(m) == <<CityOf[m], DayOf[m]>>

Reasons == {"none", "fill_layer_blocked", "outside_favorite_range", "ev_below_floor",
            "high_market_disagreement", "model_consensus_too_weak"}
Row == [market : Markets, kind : {"BET", "REVIEW", "WATCH_RECOMMEND", "SKIP"},
        side : Outcomes \union {"none"}, filled : BOOLEAN, blocker : Reasons,
        won : {"pending", "yes", "no"}]

Idle == [pc |-> "idle"]

Init ==
  /\ world \in DOMAIN Worlds /\ today = 0
  /\ open = Worlds[world].open /\ fills = {} /\ latest = [m \in Markets |-> NoDecision]
  /\ recs = <<>> /\ high = [d \in CityDays |-> NoHigh]
  /\ cycle = Idle /\ evaluations = 0

(***************************************************************************)
(* The cycle                                                               *)
(***************************************************************************)
At(pc) == cycle.pc = pc
Goto(pc) == cycle' = [cycle EXCEPT !.pc = pc]
ToNextMarket ==
  cycle' = [pc |-> "market", todo |-> cycle.todo, base |-> cycle.base, signals |-> cycle.signals]

\* Kalshi lists a day's markets today and the day before (external).
Listed(m) == DayOf[m] \in {today, today + 1}

\* What is open, and what was last said of it, is read once.
Start ==
  /\ At("idle")
  /\ cycle' = [pc |-> "market", todo |-> Worlds[world].markets, base |-> open, signals |-> latest]
  /\ UNCHANGED <<world, today, book, latest, recs, high, evaluations>>

\* A market of a later day is decided on as if nothing were open.
Seen(m) == IF DayOf[m] > today THEN {} ELSE cycle.base

Evaluate(m, q) ==
  /\ At("market") /\ m \in cycle.todo /\ Listed(m)
  /\ evaluations < Worlds[world].evaluations /\ evaluations' = evaluations + 1
  /\ \E d \in {Decide(q, Seen(m), cycle.signals, m)} :
       /\ latest' = [latest EXCEPT ![m] = d]
       /\ cycle' = [pc |-> IF d.decision = "EXIT" THEN "exit" ELSE "log",
                    todo |-> cycle.todo \ {m}, base |-> cycle.base, signals |-> cycle.signals,
                    m |-> m, q |-> q, d |-> d, logged |-> FALSE, filled |-> FALSE]
  /\ UNCHANGED <<world, today, book, recs, high>>

\* _maybe_close_if_underwater: a close that is placed drops the paper position.
ExitCheck ==
  /\ At("exit") /\ ToNextMarket
  /\ open' \in {open, open \ HeldHere(open, cycle.m)}
  /\ UNCHANGED <<world, today, fills, latest, recs, high, evaluations>>

Logged == [market |-> cycle.m, kind |-> Classify(cycle.d), side |-> cycle.d.side,
           filled |-> FALSE, blocker |-> "none", won |-> "pending"]
WithLogged == [n \in DOMAIN recs \union {evaluations} |->
                 IF n = evaluations THEN Logged ELSE recs[n]]

\* Mutant: the row counts as logged although saving it raised.
LogUnsaved ==
  /\ At("log")
  /\ cycle' = [cycle EXCEPT !.pc = "shadow", !.logged = Recorded(cycle.d)]
  /\ recs' \in {recs} \union (IF Recorded(cycle.d) THEN {WithLogged} ELSE {})
  /\ UNCHANGED <<world, today, book, latest, high, evaluations>>

\* record_recommendation; saving it may raise.
Log ==
  /\ At("log")
  /\ \E logged \in {FALSE, Recorded(cycle.d)} :
       /\ cycle' = [cycle EXCEPT !.pc = "shadow", !.logged = logged]
       /\ recs' = IF logged THEN WithLogged ELSE recs
  /\ UNCHANGED <<world, today, book, latest, high, evaluations>>

\* apply_shadow_decision up to save_shadow_fill; without an edge it is not called.
ShadowTakes == HasEdge(cycle.d) /\ Gates(cycle.d) /\ CityGate(open, cycle.m) /\ BaseFill(cycle.d) > 0

ShadowFill ==
  /\ At("shadow") /\ ShadowTakes
  /\ \/ Goto("position") /\ fills' = fills \union {evaluations}
     \/ Goto("mark") /\ UNCHANGED fills           \* saving the fill raised
  /\ UNCHANGED <<world, today, open, latest, recs, high, evaluations>>

ShadowPass ==
  /\ At("shadow") /\ ~ ShadowTakes /\ Goto("mark")
  /\ UNCHANGED <<world, today, book, latest, recs, high, evaluations>>

\* save_shadow_position replaces the market's row.
ShadowPosition ==
  LET new == [market |-> cycle.m, side |-> cycle.d.side, qty |-> BaseFill(cycle.d),
              by |-> evaluations]
  IN  /\ At("position")
      /\ \/ /\ open' = (open \ HeldHere(open, cycle.m)) \union {new}
            /\ cycle' = [cycle EXCEPT !.pc = "live", !.filled = TRUE]
         \/ Goto("mark") /\ UNCHANGED open        \* raised: the fill stays
      /\ UNCHANGED <<world, today, fills, latest, recs, high, evaluations>>

\* maybe_place_live_order: placed, a preview, disabled or raised; or blocked.
Live ==
  /\ At("live") /\ (Goto("mark") \/ Goto("rollback"))
  /\ UNCHANGED <<world, today, book, latest, recs, high, evaluations>>

RollbackFill ==
  /\ At("rollback")
  /\ \/ Goto("rollbackPosition") /\ fills' = fills \ {evaluations}
     \/ Goto("mark") /\ UNCHANGED fills
  /\ UNCHANGED <<world, today, open, latest, recs, high, evaluations>>

\* Mutant: the rollback leaves the cycle's own result as it was.
RollbackPositionKeeps ==
  /\ At("rollbackPosition") /\ Goto("mark")
  /\ open' \in {open, open \ HeldHere(open, cycle.m)}
  /\ UNCHANGED <<world, today, fills, latest, recs, high, evaluations>>

\* Only when both rows are gone does the cycle forget the fill.
RollbackPosition ==
  /\ At("rollbackPosition")
  /\ \/ /\ open' = open \ HeldHere(open, cycle.m)
        /\ cycle' = [cycle EXCEPT !.pc = "mark", !.filled = FALSE]
     \/ Goto("mark") /\ UNCHANGED open
  /\ UNCHANGED <<world, today, fills, latest, recs, high, evaluations>>

\* mark_recommendation_filled, mark_recommendation_blocked
WithMark(n, filled, blocker) == [recs EXCEPT ![n].filled = filled, ![n].blocker = blocker]

\* A row that was logged for an edge is marked, unless that raises.
Mark ==
  /\ At("mark") /\ ToNextMarket
  /\ recs' \in {recs} \union
       (IF ~ cycle.logged \/ ~ HasEdge(cycle.d) THEN {}
        ELSE {WithMark(evaluations, cycle.filled,
                     IF cycle.filled THEN "none" ELSE Blocker(cycle.d))})
  /\ UNCHANGED <<world, today, book, latest, high, evaluations>>

\* The cycle ends, raises or is killed.
EndCycle ==
  /\ ~ At("idle") /\ cycle' = Idle
  /\ UNCHANGED <<world, today, book, latest, recs, high, evaluations>>

(***************************************************************************)
(* Beside the cycle                                                        *)
(***************************************************************************)
NextDay ==
  /\ today < Worlds[world].days /\ today' = today + 1
  /\ UNCHANGED <<world, book, latest, recs, high, cycle, evaluations>>

\* A bound: the reports of the other cities' days are fetched too, and never read.
Concerned == {Day(m) : m \in Worlds[world].markets}

\* Mutant: a day that has its report is fetched again.
FetchAgain(d, h) ==
  /\ d \in Concerned /\ d[2] <= today /\ high' = [high EXCEPT ![d] = h]
  /\ UNCHANGED <<world, today, book, latest, recs, cycle, evaluations>>

\* get_market_settlement, save_market_settlement: a row per city and day, replaced.
Reported(d) == high[d] # NoHigh
WithHigh(d, h) == [high EXCEPT ![d] = h]

\* fetch_settlements of a day that has no high yet: yesterday in UTC, so perhaps the
\* city's own today, of which the report knows the high so far.  A report without a
\* high does not parse.  Only this tool writes the table, so what one fetch checked
\* still holds when it saves; two at once are not modelled.
Fetch(d, h) ==
  /\ d \in Concerned /\ d[2] <= today /\ ~ Reported(d) /\ high' = WithHigh(d, h)
  /\ UNCHANGED <<world, today, book, latest, recs, cycle, evaluations>>

\* Reconciliation closes a position whose market settled (ShadowBook).  Markets settle
\* hours after their day, and a cycle that could still be at one lives for minutes.
Settle(h) ==
  /\ DayOf[h.market] < today /\ At("idle") /\ open' = open \ {h}
  /\ UNCHANGED <<world, today, fills, latest, recs, high, cycle, evaluations>>

\* The contract pays yes when the high compares as its rule says.  A market of lows reads
\* the row's low, which is saved with the high; one without a -T threshold has no date
\* that _market_local_date can read.
PaysYes(m, h) ==
  IF OperatorOf[m] \in {">", ">="}
  THEN h > ThresholdOf[m] \/ (OperatorOf[m] = ">=" /\ h = ThresholdOf[m])
  ELSE h < ThresholdOf[m] \/ (OperatorOf[m] = "<=" /\ h = ThresholdOf[m])
YesWon(m) == PaysYes(m, high[Day(m)])

\* list_recommendations(unresolved_only), update_recommendation_outcome
Unresolved == {n \in DOMAIN recs : recs[n].won = "pending"}
WithOutcome(n, won) == [recs EXCEPT ![n].won = won]

\* resolve_pending_recommendations, one row at a time
Resolvable(n) ==
  /\ n \in Unresolved /\ recs[n].side # "none"
  /\ ThresholdOf[recs[n].market] # NoThreshold /\ Reported(Day(recs[n].market))

Resolve(n) ==
  /\ Resolvable(n)
  /\ recs' = WithOutcome(n, IF YesWon(recs[n].market) = (recs[n].side = "yes")
                            THEN "yes" ELSE "no")
  /\ UNCHANGED <<world, today, book, latest, high, cycle, evaluations>>

CycleStep ==
  \/ Start \/ (\E q \in Worlds[world].quotes, m \in Markets : Evaluate(m, q))
  \/ ExitCheck \/ Log \/ ShadowFill \/ ShadowPass \/ ShadowPosition
  \/ Live \/ RollbackFill \/ RollbackPosition \/ Mark \/ EndCycle

Outside ==
  \/ NextDay \/ (\E d \in CityDays, h \in Highs : Fetch(d, h))
  \/ (\E h \in open : Settle(h)) \/ (\E n \in DOMAIN recs : Resolve(n))

Next == CycleStep \/ Outside

Spec == Init /\ [][Next]_vars
(***************************************************************************)
(*                               PROPERTIES                                *)
(***************************************************************************)
Deciding == ~ At("idle") /\ ~ At("market")

\* The types of the variables, and a cycle's fill belongs to the market it is at.
TypeOK ==
  /\ world \in DOMAIN Worlds /\ today \in 0 .. Worlds[world].days
  /\ open \subseteq Positions /\ \A h, i \in open : h.market = i.market => h = i
  /\ fills \subseteq 1 .. evaluations /\ evaluations \in 0 .. Worlds[world].evaluations
  /\ DOMAIN recs \subseteq 1 .. evaluations /\ \A n \in DOMAIN recs : recs[n] \in Row
  /\ high \in [CityDays -> Highs \union {NoHigh}]
  /\ \A m \in Markets : latest[m] = NoDecision \/ latest[m].decision \in Decisions
  /\ Deciding => /\ cycle.m \in Markets /\ cycle.logged \in BOOLEAN /\ cycle.filled \in BOOLEAN
                 /\ cycle.logged => evaluations \in DOMAIN recs

\* A taker is worth its price: what the forecast expects the contract to pay covers the
\* price, the fee and the floor on the EV, the book offered it at that price, and in a
\* book that is not crossed the other side of the market is no bargain.
TakersPay ==
  Deciding /\ cycle.d.decision = "TAKER_ALLOWED" =>
    LET d == cycle.d
        expected == IF d.side = "yes" THEN cycle.q.p ELSE 100 - cycle.q.p
        book_ == cycle.q.history[1]
        otherAsk == AskOf(book_, Other(d.side))
    IN  /\ (expected - d.price) * Cent - FeeCost(d.price, cycle.q.multiplier) >= MinExecutableEv
        /\ d.price = Cents(AskOf(book_, d.side))
        /\ d.price + Cents(otherAsk) >= 100 => 100 - expected < Cents(otherAsk)

\* The fill layer's first five gates are written again in the log and in the survey, and
\* all three draw the same line: the fill layer takes exactly what the log calls a BET or
\* REVIEW, and the survey accepts exactly what the fill layer takes with confidence.  Of
\* the reasons the cycle notes, the two whose limits are the gates' are never noted of a
\* decision that passes them.  So the bot fills what the log puts up for human review.
OneSetOfGates ==
  Deciding =>
    /\ Gates(cycle.d) <=> Classify(cycle.d) \in {"BET", "REVIEW"}
    /\ Accepts(cycle.d) <=> Gates(cycle.d) /\ Confident(cycle.d)
    /\ Gates(cycle.d) => Blocker(cycle.d) \notin {"outside_favorite_range", "ev_below_floor"}

\* However equals are ranked, the survey's selection stays within the day's capital,
\* holds no market the desk is in and none the fill layer's first five gates refuse; a
\* market is left out only when it and those not worse cost more than the cap.  (A cycle
\* may end anywhere, so what the survey can read is all seen between cycles.)  The sixth
\* gate, the city's cap, is not the survey's: it may refuse what was selected.
SelectionSound ==
  At("idle") => \A ranked \in Rankings(Accepted(latest, open, today), latest) :
    LET s == Selection(ranked, latest)
        Cost(ms) == SumOver([m \in ms |-> latest[m].price])
    IN  /\ s.cost = Cost(s.markets) /\ s.cost <= CapitalCap
        /\ \A m \in s.markets : HeldHere(open, m) = {} /\ Gates(latest[m])
        /\ \A m \in Accepted(latest, open, today) \ s.markets :
             Cost({n \in s.markets : latest[n].ev >= latest[m].ev}) + latest[m].price > CapitalCap

\* Recommendations of one market tell one story: two that are resolved won both or
\* lost both exactly when they were for the same side, whenever each was resolved.
OutcomesAgree ==
  \A n, k \in DOMAIN recs :
    /\ recs[n].market = recs[k].market /\ recs[n].won # "pending" /\ recs[k].won # "pending"
    => (recs[n].side = recs[k].side <=> recs[n].won = recs[k].won)

\* A recommendation is marked as filled only when the paper book shows the fill or its
\* position, and one that is marked as blocked has no position, whatever raised.
MarksTellTruth ==
  [][\A n \in DOMAIN recs' :
       /\ recs'[n].filled /\ ~ (n \in DOMAIN recs /\ recs[n].filled)
            => n \in fills' \/ \E h \in open' : h.by = n
       /\ recs'[n].blocker # "none" => \A h \in open' : h.by # n]_vars

=============================================================================
