----------------------------- MODULE ManualPlan -----------------------------
(***************************************************************************)
(* The manual order: tools/prepare_live_plan.py picks a stored decision    *)
(* (analytics/opportunities.py), the thin adapter submits it               *)
(* (live/adapter.py), and the HTTP client tries up to three times          *)
(* (clients/http.py).                                                      *)
(*                                                                         *)
(* A decision is [market, at, taker, side, price, ev] and, as history, the *)
(* price the exchange offered.  The store keeps them in order of as_of     *)
(* time.  Times are in clock units, prices and EVs in ticks.               *)
(***************************************************************************)
EXTENDS OrderBook, Sequences

CONSTANTS
  CityOf,           \* city of each market
  DayOf,            \* settlement day of each market
  Preferred,        \* --preferred-city-id
  Zone,             \* offset of each city's local time
  DayLength,
  Window,           \* cycle_window_seconds of the selection
  MaxAge,           \* max_age_seconds of an execution plan
  MaxAttempts,      \* max_attempts of http_request_text
  Timeout,          \* timeout_seconds of an attempt
  MaxWait,          \* bound: the longest Retry-After
  MaxPlans,         \* bound: runs of the tool
  MaxTime           \* bound of the clock

ASSUME PlanAssumption ==
  /\ DayLength \in Nat \ {0} /\ MaxAttempts \in Nat \ {0}
  /\ {Window, MaxAge, Timeout, MaxWait, MaxPlans, MaxTime} \subseteq Nat

VARIABLES
  clock,
  decisions,        \* decisions of the store
  openCities,       \* cities with an open shadow position
  plan,             \* the running tool
  plans,            \* runs so far: the plan_id of the next
  orders,           \* external: the orders the exchange accepted
  rows              \* live_orders: the rows this tool saved

planVars == <<openCities, plan, plans, orders, rows>>

Modes == {"next_available", "open_day", "all"}
NoPlan == [phase |-> "none"]
PlanInit ==
  /\ clock = 0 /\ decisions = <<>> /\ openCities = {}
  /\ plan = NoPlan /\ plans = 0 /\ orders = {} /\ rows = <<>>

(***************************************************************************)
(* Selection, on the indices of the stored decisions.                      *)
(***************************************************************************)
City(i) == CityOf[decisions[i].market]
LocalDay(i) == (decisions[i].at + Zone[City(i)]) \div DayLength
AtMost(S, w) == {i \in S : \A j \in S : decisions[j].at - decisions[i].at <= w}

\* Mutant: only takers are looked at, so that a later refusal does not count.
LatestTakers(S) ==
  {i \in S : /\ decisions[i].taker
             /\ \A j \in S : decisions[j].taker /\ decisions[j].market = decisions[i].market => j <= i}

\* select_latest_market_decisions
LatestOfMarket(S) ==
  {i \in S : \A j \in S : decisions[j].market = decisions[i].market => j <= i}

\* _latest_cycle_market_decisions: the last minutes of each city.
LatestCycle ==
  LatestOfMarket(UNION {AtMost({i \in DOMAIN decisions : City(i) = c}, Window) :
                          c \in {City(i) : i \in DOMAIN decisions}})

\* _filter_market_day_mode
NextDays(S, c) == {DayOf[decisions[i].market] : i \in {j \in S :
                     City(j) = c /\ DayOf[decisions[j].market] > LocalDay(j)}}

OfMode(S, mode) ==
  CASE mode = "all" -> S
    [] mode = "open_day" -> {i \in S : DayOf[decisions[i].market] = LocalDay(i)}
    [] mode = "next_available" ->
         {i \in S : LET days == NextDays(S, City(i)) IN
            days # {} /\ DayOf[decisions[i].market] = Min(days)}

\* select_scannable_market_decisions
Scannable(mode, excluded) == {i \in OfMode(LatestCycle, mode) : City(i) \notin excluded}

\* _select_latest_taker_decision: the best takers of the preferred city's last minutes,
\* else of everybody's.
TakersOf(pool) == {i \in AtMost(pool, Window) : decisions[i].taker}

Best(S) == {i \in S : \A j \in S :
              \/ decisions[j].ev < decisions[i].ev
              \/ decisions[j].ev = decisions[i].ev /\ j <= i}

Selected(mode, excluded) ==
  LET all == Scannable(mode, excluded)
      preferred == {i \in all : City(i) = Preferred}
  IN  Best(IF TakersOf(preferred) # {} THEN TakersOf(preferred) ELSE TakersOf(all))

\* main: open cities are skipped, unless nothing else is left.
Chosen(mode, includeOpen) ==
  LET first == Selected(mode, IF includeOpen THEN {} ELSE openCities)
  IN  IF first # {} \/ includeOpen THEN first ELSE Selected(mode, {})

Prepare(mode, includeOpen, execute) ==
  /\ plan = NoPlan /\ plans < MaxPlans /\ plans' = plans + 1
  /\ \E i \in Chosen(mode, includeOpen) :
       plan' = [phase |-> "selected", id |-> plans + 1, index |-> i,
                decision |-> decisions[i], execute |-> execute]
  /\ UNCHANGED <<clock, decisions, openCities, orders, rows>>

(***************************************************************************)
(* submit_plan.  gates stands for the live gate report, computed in        *)
(* between, and for the haircut it asks for with several cities.           *)
(***************************************************************************)
\* Mutant: the age is not looked at.
SubmittableAtAnyAge(d, gates) == gates /\ d.taker /\ d.price \in Prices

Submittable(d, gates) ==
  gates /\ d.taker /\ clock - d.at <= MaxAge /\ d.price \in Prices

\* save_live_order_record with the response's status; the tool ends.
Save(status) ==
  /\ rows' = Append(rows, [id |-> plan.id, market |-> plan.decision.market, status |-> status])
  /\ plan' = NoPlan
  /\ UNCHANGED <<clock, decisions, openCities, plans, orders>>

Block == \E gates \in BOOLEAN :
  plan.phase = "selected" /\ ~ Submittable(plan.decision, gates) /\ Save("BLOCKED")

DryRun ==
  /\ plan.phase = "selected" /\ ~ plan.execute
  /\ Submittable(plan.decision, TRUE) /\ Save("DRY_RUN")

Submit ==
  /\ plan.phase = "selected" /\ plan.execute /\ Submittable(plan.decision, TRUE)
  /\ plan' = [phase |-> "sent", id |-> plan.id, decision |-> plan.decision,
              attempt |-> 1, until |-> clock + Timeout, lost |-> FALSE]
  /\ UNCHANGED <<clock, decisions, openCities, plans, orders, rows>>

(***************************************************************************)
(* http_request_text.                                                      *)
(***************************************************************************)
\* Mutant: every attempt is an order of its own.
KnownAttempt == {o \in orders : o.id = plan.id /\ o.attempt = plan.attempt}

\* client_order_id is the plan_id in every attempt: the exchange accepts it once.
Known == {o \in orders : o.id = plan.id}

Accepted ==
  Known = {} /\ orders' = orders \union
    {[id |-> plan.id, attempt |-> plan.attempt, market |-> plan.decision.market,
      price |-> plan.decision.price, offered |-> plan.decision.offered,
      decided |-> plan.decision.at, at |-> clock]}

AnswerOk ==
  /\ plan.phase = "sent" /\ Accepted
  /\ plan' = [plan EXCEPT !.phase = "ok"]
  /\ UNCHANGED <<clock, decisions, openCities, plans, rows>>

\* A status that is not retried; the answer to an id the exchange knows.
AnswerRefused ==
  /\ plan.phase = "sent" /\ plan' = [plan EXCEPT !.phase = "raised"]
  /\ UNCHANGED <<clock, decisions, openCities, plans, orders, rows>>

\* Mutant: the last attempt is tried again.
RetryOnceMore == plan.attempt <= MaxAttempts

MayRetry == plan.attempt < MaxAttempts

Retried(lost) ==
  IF MayRetry
  THEN {[plan EXCEPT !.phase = "waiting", !.until = clock + w, !.lost = lost] : w \in 0 .. MaxWait}
  ELSE {[plan EXCEPT !.phase = "raised", !.lost = lost]}

\* A retryable status, a timeout or a broken connection: whether the exchange acted on
\* the request before is not known.
AnswerLost ==
  /\ plan.phase = "sent"
  /\ \/ Accepted /\ plan' \in Retried(TRUE)
     \/ UNCHANGED orders /\ plan' \in Retried(plan.lost)
  /\ UNCHANGED <<clock, decisions, openCities, plans, rows>>

Retry ==
  /\ plan.phase = "waiting" /\ clock = plan.until
  /\ plan' = [plan EXCEPT !.phase = "sent", !.attempt = @ + 1, !.until = clock + Timeout]
  /\ UNCHANGED <<clock, decisions, openCities, plans, orders, rows>>

SaveResult ==
  \/ plan.phase = "ok" /\ Save("SUBMITTED")
  \/ plan.phase = "raised" /\ Save("BLOCKED")

\* The tool is killed.
KillPlan ==
  /\ plan # NoPlan /\ plan' = NoPlan
  /\ UNCHANGED <<clock, decisions, openCities, plans, orders, rows>>

PlanNext ==
  \/ \E m \in Modes, o, x \in BOOLEAN : Prepare(m, o, x)
  \/ Block \/ DryRun \/ Submit \/ AnswerOk \/ AnswerRefused \/ AnswerLost
  \/ Retry \/ SaveResult \/ KillPlan

\* The next moment; a pending attempt or wait is not overslept.
Tick ==
  /\ clock < MaxTime /\ clock' = clock + 1
  /\ plan.phase \in {"sent", "waiting"} => clock < plan.until
  /\ UNCHANGED <<decisions, planVars>>

(***************************************************************************)
(*                               PROPERTIES                                *)
(***************************************************************************)
\* What the tool acts on is the last the program said of that market: a later refusal
\* takes back an earlier permission.
NewestDecisionDecides ==
  [][plan = NoPlan /\ plan' # NoPlan =>
       \A i \in DOMAIN decisions :
         decisions[i].market = plan'.decision.market => i <= plan'.index]_<<plan, decisions>>

\* The exchange may act on an order later than the 45 seconds its decision stays valid,
\* but never later than the attempts and their waits allow.
OrderFresh ==
  \A o \in orders :
    o.at - o.decided <= MaxAge + MaxAttempts * Timeout + (MaxAttempts - 1) * MaxWait

\* A SUBMITTED row stands for exactly one order, and an order without one for an answer
\* that was lost or a tool that was killed; nothing is ordered twice for one plan.
RowTellsTruth ==
  /\ \A o1, o2 \in orders : o1.id = o2.id => o1 = o2
  /\ \A i \in DOMAIN rows : rows[i].status = "SUBMITTED" => \E o \in orders : o.id = rows[i].id
  /\ plan.phase = "raised" /\ ~ plan.lost => Known = {}

\* Every order's limit is a price the exchange offered when the decision was made.
PriceWasOffered == \A o \in orders : o.price = o.offered
=============================================================================
