---------------------------- MODULE TradingCycle ----------------------------
(***************************************************************************)
(* One decision cycle of tools/run_city_cycle.py: for each open market it  *)
(* takes the engine's decision, keeps the shadow book                      *)
(* (engines/shadow.py) and mirrors it on the exchange                      *)
(* (engines/live_execution.py).                                            *)
(*                                                                         *)
(* Every SQLite operation is a transaction of its own and every order is a *)
(* network call, so a cycle is cut into steps at those calls: another      *)
(* cycle, the clock, the operator or a crash may act between two of them.  *)
(* What a cycle read once at its start (kill switch, open positions) it    *)
(* keeps in its own record and may be stale when it is used.               *)
(***************************************************************************)
EXTENDS LiveOrders

CONSTANTS
  Cycles,           \* cycle processes: the wrapper's, the morning script's, ...
  NoTicker,         \* no market is being traded
  CityOf,           \* [Tickers -> city_id]
  SettleDay,        \* [Tickers -> settlement day, local]
  MaxPerCityDay,    \* _MAX_DISTINCT_MARKETS_PER_CITY_PER_DAY
  MaxDaysAhead,     \* MAX_SETTLEMENT_DAYS_AHEAD
  DayLength,        \* clock units per day
  LocalLag,         \* how far the city's clock is behind UTC
  Signals,          \* edges a TAKER_ALLOWED decision may select
  ExitPs,           \* p_model of the edge an EXIT decision selects
  Modes,            \* [Cycles -> modes its LIVE_ORDERS_ENABLED / _DRY_RUN may give]
  FaultyReads,      \* queries of the database that may raise
  MaxTime,          \* bound: clock units explored
  MaxOrders         \* bound: orders prepared

AllModes == {"LIVE", "DRY_RUN", "DISABLED"}
Reads == {"kill_switch", "reentry", "spend", "closed"}

ASSUME CycleAssumption ==
  /\ NoTicker \notin Tickers
  /\ SettleDay \in [Tickers -> Nat]
  /\ MaxPerCityDay \in Nat /\ MaxDaysAhead \in Nat
  /\ DayLength \in Nat \ {0} /\ LocalLag \in Nat
  /\ Signals \subseteq [side : Sides, price : Int, p : Int]
  /\ ExitPs \subseteq Int
  /\ IsFiniteSet(Cycles) /\ Cycles # {}
  /\ Modes \in [Cycles -> SUBSET AllModes] /\ FaultyReads \subseteq Reads
  /\ MaxTime \in Nat /\ MaxOrders \in Nat

VARIABLES
  now,              \* the clock
  utcDay,           \* the UTC date of now
  killSwitch,       \* is the GLOBAL kill switch row ACTIVE
  live_orders,      \* the table, in created_at order
  warned,           \* rows whose save failed; only the log has them
  shadow_positions, \* tickers with an OPEN shadow position
  shadow_fills,     \* OPEN shadow fills: the ticker and the fill's id
  net,              \* contracts held on the exchange, per ticker and side
  cyc,              \* each cycle's program counter and local variables
  prepared          \* orders prepared so far; only the bound reads it

vars == <<now, utcDay, killSwitch, live_orders, warned, shadow_positions,
          shadow_fills, net, cyc, prepared>>
book == <<live_orders, warned>>
shadow == <<shadow_positions, shadow_fills>>
clock == <<now, utcDay>>

PCs == {"idle", "market", "savePosition", "gates", "submit", "record",
        "rollbackFill", "rollbackPosition", "sell", "recordClose", "dropShadow"}

Outcomes == {"executed", "canceled", "failed", "failed_filled"}

CycleState ==
  [pc : PCs,
   todo : SUBSET Tickers,        \* markets not yet evaluated
   base : SUBSET Tickers,        \* baseline_open_positions
   halt : BOOLEAN,               \* active_kill_switch, read at the start
   mode : AllModes,
   ticker : Tickers \union {NoTicker},
   side : Sides, price : Int, p : Int,  \* the order being prepared
   fill : Nat,                   \* shadow_fill_id
   re : BOOLEAN,                 \* is_reentry
   outcome : Outcomes]

TypeOK ==
  /\ now \in Nat /\ utcDay \in Nat
  /\ killSwitch \in BOOLEAN
  /\ live_orders \in Seq(Row)
  /\ warned \subseteq Row
  /\ shadow_positions \subseteq Tickers
  /\ shadow_fills \subseteq (Tickers \X Nat)
  /\ net \in [Tickers -> [Sides -> Int]]
  /\ cyc \in [Cycles -> CycleState]
  /\ \A c \in Cycles : cyc[c].pc \notin {"idle", "market"} => cyc[c].ticker \in Tickers
  /\ prepared \in 0 .. MaxOrders

\* The record of a process that is not running.
Idle ==
  [pc |-> "idle", todo |-> {}, base |-> {}, halt |-> FALSE, mode |-> "DISABLED",
   ticker |-> NoTicker, side |-> "yes", price |-> 0, p |-> 0, fill |-> 0,
   re |-> FALSE, outcome |-> "canceled"]

Init ==
  /\ now = 0 /\ utcDay = 0
  /\ killSwitch = FALSE
  /\ live_orders = <<>> /\ warned = {}
  /\ shadow_positions = {} /\ shadow_fills = {}
  /\ net = [t \in Tickers |-> [s \in Sides |-> 0]]
  /\ cyc = [c \in Cycles |-> Idle]
  /\ prepared = 0

-----------------------------------------------------------------------------
(* The market and the engine's decision *)

LocalDay == (now - LocalLag) \div DayLength

\* Kalshi lists a day's markets today and the day before (external).
Listed(t) == LocalDay \in {SettleDay[t] - 1, SettleDay[t]}

\* A market of a later local day is evaluated as if nothing were open.
Scouting(t) == SettleDay[t] > LocalDay
SeenOpen(c, t) == IF Scouting(t) THEN {} ELSE cyc[c].base

SameCityDate(t, u) == CityOf[t] = CityOf[u] /\ SettleDay[t] = SettleDay[u]
OthersOpen(open, t) == {u \in open : SameCityDate(t, u)}

\* same_market_position: the engine manages it, and emits no TAKER_ALLOWED.
MayExit(c, t) == t \in SeenOpen(c, t)

MayTake(c, t) ==
  /\ t \notin SeenOpen(c, t)
  /\ ~ cyc[c].halt
  /\ Cardinality(OthersOpen(SeenOpen(c, t), t)) < MaxPerCityDay

\* Mutant: only the same market is looked up; the city's others are not.
ShadowGatesNoCityCap(t, sig) == sig.p \in 70 .. 97 /\ t \notin shadow_positions

\* The gates of apply_shadow_decision that read the shadow book now.
FavoriteRange == 70 .. 97
ShadowGates(t, sig) ==
  /\ sig.p \in FavoriteRange
  /\ t \notin shadow_positions
  /\ Cardinality(OthersOpen(shadow_positions, t)) < MaxPerCityDay

-----------------------------------------------------------------------------
(* Steps of a cycle *)

At(c, pc) == cyc[c].pc = pc
Goto(c, pc) == cyc' = [cyc EXCEPT ![c].pc = pc]

\* On to the next market, with nothing of this one.
Between(x) ==
  [Idle EXCEPT !.pc = "market", !.todo = x.todo, !.base = x.base,
               !.halt = x.halt, !.mode = x.mode]
Finish(c) == cyc' = [cyc EXCEPT ![c] = Between(cyc[c])]

\* Bound of the instance.
Prepare == prepared < MaxOrders /\ prepared' = prepared + 1

StartCycle(c, m) ==
  /\ At(c, "idle")
  /\ cyc' = [cyc EXCEPT ![c] = [Idle EXCEPT
                 !.pc = "market", !.mode = m, !.base = shadow_positions, !.halt = killSwitch,
                 !.todo = {t \in Tickers : Listed(t)}]]
  /\ UNCHANGED <<clock, killSwitch, book, shadow, net, prepared>>

\* No order comes of this market: HOLD, WATCH, HALT, or a gate said no.
SkipMarket(c, t) ==
  /\ At(c, "market") /\ t \in cyc[c].todo
  /\ cyc' = [cyc EXCEPT ![c].todo = @ \ {t}]
  /\ UNCHANGED <<clock, killSwitch, book, shadow, net, prepared>>

ToSell(x, t, entry, p) ==
  [x EXCEPT !.todo = @ \ {t}, !.ticker = t, !.side = entry.side,
            !.price = entry.price, !.p = p, !.re = FALSE,
            !.pc = IF x.mode = "LIVE" THEN "sell" ELSE "recordClose"]

ToBuy(x, t, sig, fill) ==
  [x EXCEPT !.todo = @ \ {t}, !.ticker = t, !.side = sig.side,
            !.price = sig.price, !.p = sig.p, !.fill = fill, !.pc = "savePosition"]

\* EXIT of a position that is under water: prepare a sell of what the newest
\* PLACED_ row bought.  An error of the "already closed" query is ignored.
EvaluateExit(c, t, p) ==
  /\ At(c, "market") /\ t \in cyc[c].todo
  /\ MayExit(c, t)
  /\ ~ EverClosed(live_orders, t) \/ "closed" \in FaultyReads
  /\ cyc[c].mode # "DISABLED"
  /\ Prepare
  /\ \E i \in DOMAIN live_orders :
       /\ NewestPlaced(live_orders, t, i)
       /\ cyc' = [cyc EXCEPT ![c] = ToSell(cyc[c], t, live_orders[i], p)]
  /\ UNCHANGED <<clock, killSwitch, book, shadow, net>>

\* TAKER_ALLOWED that passes every shadow gate: save_shadow_fill.
EvaluateEntry(c, t, sig) ==
  /\ At(c, "market") /\ t \in cyc[c].todo
  /\ MayTake(c, t)
  /\ ShadowGates(t, sig)
  /\ Prepare
  /\ shadow_fills' = shadow_fills \union {<<t, prepared + 1>>}
  /\ cyc' = [cyc EXCEPT ![c] = ToBuy(cyc[c], t, sig, prepared + 1)]
  /\ UNCHANGED <<clock, killSwitch, book, shadow_positions, net>>

\* save_shadow_position; its failure is caught and the market abandoned, the
\* fill stays.
SavePosition(c, ok) ==
  /\ At(c, "savePosition")
  /\ IF ok
       THEN /\ shadow_positions' = shadow_positions \union {cyc[c].ticker}
            /\ Goto(c, "gates")
       ELSE /\ shadow_positions' = shadow_positions
            /\ Finish(c)
  /\ UNCHANGED <<clock, killSwitch, book, shadow_fills, net, prepared>>

(***************************************************************************)
(* Gates 1b to 5 of maybe_place_live_order, read at this moment.  A query  *)
(* that raises reads "no kill switch" and "nothing spent"; the re-entry    *)
(* check then refuses the order.                                           *)
(***************************************************************************)
InWindow(t) == SettleDay[t] - utcDay \in 0 .. MaxDaysAhead

\* Mutant: the order path trusts the switch the cycle read at its start.
KillSwitchGateAtStart == TRUE

KillSwitchGate == ~ killSwitch \/ "kill_switch" \in FaultyReads

SpendGate(x) ==
  \/ DailyLiveSpend(live_orders, utcDay) + x.price <= DailyCap
  \/ "spend" \in FaultyReads /\ x.price <= DailyCap

LiveGates(x, re) ==
  /\ InWindow(x.ticker)
  /\ KillSwitchGate
  /\ MayEnter(live_orders, x.ticker, utcDay, now, x.p, re)
  /\ SpendGate(x)
  /\ x.price \in 1 .. 99

\* Disabled, or an exception the caller catches: nothing is placed and the
\* shadow rows are kept.
GatesAbandoned(c) ==
  /\ At(c, "gates")
  /\ Finish(c)
  /\ UNCHANGED <<clock, killSwitch, book, shadow, net, prepared>>

GatesPass(c, re) ==
  /\ At(c, "gates") /\ cyc[c].mode # "DISABLED"
  /\ LiveGates(cyc[c], re)
  /\ cyc' = [cyc EXCEPT ![c].re = re,
                        ![c].pc = IF cyc[c].mode = "LIVE" THEN "submit" ELSE "record"]
  /\ UNCHANGED <<clock, killSwitch, book, shadow, net, prepared>>

GatesBlock(c) ==
  /\ At(c, "gates") /\ cyc[c].mode # "DISABLED"
  /\ \/ \A re \in BOOLEAN : ~ LiveGates(cyc[c], re)
     \/ "reentry" \in FaultyReads
  /\ Goto(c, "rollbackFill")
  /\ UNCHANGED <<clock, killSwitch, book, shadow, net, prepared>>

\* One order on the exchange.  The response may be lost after the order
\* executed (timeout, or a retry answered "duplicate").
Trade(c, sign) ==
  \E o \in Outcomes :
    /\ cyc' = [cyc EXCEPT ![c].outcome = o,
                          ![c].pc = IF sign > 0 THEN "record" ELSE "recordClose"]
    /\ net' = IF o \in {"executed", "failed_filled"}
                THEN [net EXCEPT ![cyc[c].ticker][cyc[c].side] = @ + sign]
                ELSE net
    /\ UNCHANGED <<clock, killSwitch, book, shadow, prepared>>

SubmitOrder(c) == At(c, "submit") /\ Trade(c, 1)
SubmitClose(c) == At(c, "sell") /\ Trade(c, -1)

Failed(x) == x.outcome \in {"failed", "failed_filled"}

OrderStatus(x) ==
  IF x.mode # "LIVE" THEN "DRY_RUN_PREVIEW"
  ELSE IF Failed(x) THEN "ERROR"
  ELSE IF x.outcome = "executed" THEN "PLACED_EXECUTED" ELSE "PLACED_CANCELED"

\* Mutant: a failed close is recorded under a status no query knows.
CloseStatusUnknown(x) == IF Failed(x) THEN "CLOSE_FAILED" ELSE "CLOSED_EXECUTED"

CloseStatus(x) ==
  IF x.mode # "LIVE" THEN "DRY_RUN_CLOSE_PREVIEW"
  ELSE IF Failed(x) THEN "CLOSE_ERROR"
  ELSE IF x.outcome = "executed" THEN "CLOSED_EXECUTED" ELSE "CLOSED_CANCELED"

\* Mutant: the row does not carry the is_reentry tag.
RowOfUntagged(x, status) ==
  [ticker |-> x.ticker, day |-> utcDay, at |-> now, status |-> status,
   side |-> x.side, price |-> x.price, p |-> x.p, re |-> FALSE,
   filled |-> x.mode = "LIVE" /\ x.outcome \in {"executed", "failed_filled"}]

RowOf(x, status) ==
  [ticker |-> x.ticker, day |-> utcDay, at |-> now, status |-> status,
   side |-> x.side, price |-> x.price, p |-> x.p, re |-> x.re,
   filled |-> x.mode = "LIVE" /\ x.outcome \in {"executed", "failed_filled"}]

\* _record_live_order: a save that fails is logged and forgotten.
SaveRow(row, ok) ==
  IF ok THEN live_orders' = Append(live_orders, row) /\ warned' = warned
        ELSE live_orders' = live_orders /\ warned' = warned \union {row}

\* Mutant: an order the exchange canceled is rolled back like a failed one.
RecordOrderRollsBackCanceled(c, ok) ==
  /\ At(c, "record")
  /\ SaveRow(RowOf(cyc[c], OrderStatus(cyc[c])), ok)
  /\ IF cyc[c].mode = "LIVE" /\ cyc[c].outcome # "executed"
       THEN Goto(c, "rollbackFill") ELSE Finish(c)
  /\ UNCHANGED <<clock, killSwitch, shadow, net, prepared>>

RecordOrder(c, ok) ==
  /\ At(c, "record")
  /\ SaveRow(RowOf(cyc[c], OrderStatus(cyc[c])), ok)
  /\ IF cyc[c].mode = "LIVE" /\ Failed(cyc[c]) THEN Goto(c, "rollbackFill") ELSE Finish(c)
  /\ UNCHANGED <<clock, killSwitch, shadow, net, prepared>>

RecordClose(c, ok) ==
  /\ At(c, "recordClose")
  /\ SaveRow(RowOf(cyc[c], CloseStatus(cyc[c])), ok)
  /\ IF cyc[c].mode = "LIVE" /\ ~ Failed(cyc[c]) THEN Goto(c, "dropShadow") ELSE Finish(c)
  /\ UNCHANGED <<clock, killSwitch, shadow, net, prepared>>

\* The rollback of a blocked order; its own failure is caught.
RollbackFill(c, ok) ==
  /\ At(c, "rollbackFill")
  /\ IF ok
       THEN /\ shadow_fills' = shadow_fills \ {<<cyc[c].ticker, cyc[c].fill>>}
            /\ Goto(c, "rollbackPosition")
       ELSE /\ shadow_fills' = shadow_fills
            /\ Finish(c)
  /\ UNCHANGED <<clock, killSwitch, book, shadow_positions, net, prepared>>

DeletePosition(c, ok) ==
  /\ shadow_positions' = IF ok THEN shadow_positions \ {cyc[c].ticker}
                              ELSE shadow_positions
  /\ Finish(c)
  /\ UNCHANGED <<clock, killSwitch, book, shadow_fills, net, prepared>>

RollbackPosition(c, ok) == At(c, "rollbackPosition") /\ DeletePosition(c, ok)
DropShadow(c, ok) == At(c, "dropShadow") /\ DeletePosition(c, ok)

\* Every market is done, or the process is killed at any point.
EndCycle(c) ==
  /\ At(c, "market") /\ cyc[c].todo = {}
  /\ cyc' = [cyc EXCEPT ![c] = Idle]
  /\ UNCHANGED <<clock, killSwitch, book, shadow, net, prepared>>

Crash(c) ==
  /\ ~ At(c, "idle")
  /\ cyc' = [cyc EXCEPT ![c] = Idle]
  /\ UNCHANGED <<clock, killSwitch, book, shadow, net, prepared>>

-----------------------------------------------------------------------------
(* The environment *)

Tick ==
  /\ now < MaxTime
  /\ now' = now + 1
  /\ utcDay' = IF (now + 1) % DayLength = 0 THEN utcDay + 1 ELSE utcDay
  /\ UNCHANGED <<killSwitch, book, shadow, net, cyc, prepared>>

\* tools/set_kill_switch.py; no tool clears it.
SetKillSwitch ==
  /\ ~ killSwitch
  /\ killSwitch' = TRUE
  /\ UNCHANGED <<clock, book, shadow, net, cyc, prepared>>

CycleStep(c) ==
  \/ \E m \in Modes[c] : StartCycle(c, m)
  \/ \E t \in Tickers : SkipMarket(c, t)
  \/ \E t \in Tickers, p \in ExitPs : EvaluateExit(c, t, p)
  \/ \E t \in Tickers, sig \in Signals : EvaluateEntry(c, t, sig)
  \/ \E ok \in BOOLEAN : SavePosition(c, ok)
  \/ GatesAbandoned(c)
  \/ \E re \in BOOLEAN : GatesPass(c, re)
  \/ GatesBlock(c)
  \/ SubmitOrder(c)
  \/ SubmitClose(c)
  \/ \E ok \in BOOLEAN : RecordOrder(c, ok)
  \/ \E ok \in BOOLEAN : RecordClose(c, ok)
  \/ \E ok \in BOOLEAN : RollbackFill(c, ok)
  \/ \E ok \in BOOLEAN : RollbackPosition(c, ok)
  \/ \E ok \in BOOLEAN : DropShadow(c, ok)
  \/ EndCycle(c)
  \/ Crash(c)

Next == (\E c \in Cycles : CycleStep(c)) \/ Tick \/ SetKillSwitch

Spec == Init /\ [][Next]_vars

-----------------------------------------------------------------------------
(***************************************************************************)
(* Properties.  The wrapper's cycles share a lock, so one of them runs at a *)
(* time; scripts/run_settlements_morning.sh starts a cycle beside them      *)
(* without it, under LIVE_ORDERS_ENABLED=0.  The ledger's promises are made *)
(* of one process that trades and any number that do not; what the shadow   *)
(* book promises holds of every set of cycles.                              *)
(***************************************************************************)

MayTrade(c) == Modes[c] \ {"DISABLED"} # {}
OneTrader == \A c, d \in Cycles : MayTrade(c) /\ MayTrade(d) => c = d

\* The cycle is in the middle of an order on t.
Working(t) == \E c \in Cycles : cyc[c].ticker = t

\* A market gets one first entry per UTC day and no more re-entries than the
\* policy's budget, although the gate and the row may fall on two days, rows
\* may be lost and the cycle may die anywhere (live_execution.py gate 3).
EntriesPerDay ==
  \A t \in Tickers, d \in {live_orders[i].day : i \in DOMAIN live_orders} :
    LET placed == PlacedOn(live_orders, t, d)
    IN  /\ \A i, j \in placed \ ReentriesOn(live_orders, t, d) : i = j
        /\ Cardinality(ReentriesOn(live_orders, t, d)) <= MaxReentries

\* A row e that comes i-th comes after a close of its market, with no entry in
\* between, the cooldown elapsed and the probability risen by the boost.
FollowsClose(rows, i, e) ==
  \E j \in 1 .. i - 1 :
    LET x == rows[j]
    IN  /\ IsClosed(x) /\ x.ticker = e.ticker
        /\ e.at - x.at >= Cooldown
        /\ x.p # NoMeta /\ e.p - x.p >= Boost
        /\ \A k \in j + 1 .. i - 1 : ~ (rows[k].ticker = e.ticker /\ IsPlaced(rows[k]))

\* Every order tagged as a re-entry has, before it, the close it re-enters
\* after: with no entry in between, the cooldown elapsed and the model's
\* probability risen by the boost (REENTRY_* policy, lines 65-90).
ReentryFollowsClose ==
  \A i \in DOMAIN live_orders :
    IsPlaced(live_orders[i]) /\ live_orders[i].re =>
      FollowsClose(live_orders, i, live_orders[i])

\* The recorded entries of one UTC day cost no more than the cap, also when
\* an order is checked before midnight and recorded after it (gate 4).
DailySpendWithinCap ==
  \A d \in {live_orders[i].day : i \in DOMAIN live_orders} :
    Total([i \in DOMAIN live_orders |->
             IF /\ IsPlaced(live_orders[i])
                /\ live_orders[i].day = d
             THEN live_orders[i].price ELSE 0]) <= DailyCap

\* The ledger says that t is bought and not closed.  A close whose row was
\* lost does not count.
Owned(t) ==
  /\ PlacedEver(live_orders, t) # {}
  /\ ~ EverClosed(live_orders, t)
  /\ \A r \in warned : ~ (r.ticker = t /\ IsClosed(r))

\* What the ledger says is bought and not closed is in the shadow book, so
\* the engine keeps managing it: no later evaluation, rollback or crash makes
\* the cycle forget it.
BoughtIsTracked == \A t \in Tickers : Owned(t) => t \in shadow_positions

OpenBeside(t) == Cardinality(OthersOpen(shadow_positions, t))

\* Gate 6 of engines/shadow.py counts the city's open markets in one step and
\* saves the new one in another.  Every cycle that overlaps another costs at
\* most one market above the cap, for any interleaving of counts, saves,
\* rollbacks and crashes; a cycle alone keeps the cap, and one that the morning
\* cycle overlaps need not.
CityExposureBounded ==
  \A t \in Tickers : OpenBeside(t) <= MaxPerCityDay + Cardinality(Cycles) - 1

\* An answered close is final: after it the ledger has no other attempt to
\* close that market, answered or not, although the shadow book may not have
\* been told and the next cycles keep evaluating the market.  A close whose
\* answer was lost is not answered: its CLOSE_ERROR row does not keep the next
\* EXIT from selling again what it sold (SellsOnlyWhatItOwns, README section 5).
ClosedOnce ==
  \A i, j \in DOMAIN live_orders :
    /\ IsClosed(live_orders[i]) /\ live_orders[i].ticker = live_orders[j].ticker
    /\ i < j
    => ~ IsCloseAttempt(live_orders[j])

Buying == \E c \in Cycles : At(c, "submit")

\* Once the kill switch is on and no order is past its gates, nothing more is
\* bought, also by a cycle that read the switch when it was off.
KillSwitchStopsBuying ==
  [][killSwitch /\ ~ Buying =>
       /\ ~ Buying'
       /\ \A t \in Tickers, s \in Sides : net'[t][s] <= net[t][s]]_vars

(***************************************************************************)
(* Strengthenings of the invariants: what an order that is past its gates  *)
(* still knows about the ledger when its row is written, and what a cycle  *)
(* still knows about the shadow book when it changes it.                   *)
(***************************************************************************)

\* A cycle that does not trade leaves the market loop only for the shadow book.
BystandersOnlyWatch ==
  \A c \in Cycles :
    /\ cyc[c].mode \in Modes[c] \union {"DISABLED"}
    /\ cyc[c].mode = "DISABLED" => cyc[c].pc \in {"idle", "market", "savePosition", "gates"}

RowsInPast == \A i \in DOMAIN live_orders : live_orders[i].day <= utcDay

EntryLimit(rows, t, d) ==
  /\ \A i, j \in PlacedOn(rows, t, d) \ ReentriesOn(rows, t, d) : i = j
  /\ Cardinality(ReentriesOn(rows, t, d)) <= MaxReentries

RoomForEntry(rows, d, x) ==
  IF x.re THEN Cardinality(ReentriesOn(rows, x.ticker, d)) < MaxReentries
          ELSE PlacedOn(rows, x.ticker, d) = {}

Entering(x) == x.pc \in {"submit", "record"} /\ x.mode = "LIVE"
Closing(x) == x.pc \in {"sell", "recordClose"} /\ x.mode = "LIVE"

EntryInv ==
  /\ RowsInPast
  /\ \A t \in Tickers, d \in Nat : EntryLimit(live_orders, t, d)
  /\ \A c \in Cycles : Entering(cyc[c]) => RoomForEntry(live_orders, utcDay, cyc[c])

CloseInv ==
  /\ ClosedOnce
  /\ \A c \in Cycles : Closing(cyc[c]) => ~ EverClosed(live_orders, cyc[c].ticker)

SpendInv ==
  /\ RowsInPast
  /\ \A i \in DOMAIN live_orders : IsPlaced(live_orders[i]) => live_orders[i].price >= 0
  /\ \A d \in Nat : DailyLiveSpend(live_orders, d) <= DailyCap
  /\ \A c \in Cycles : Entering(cyc[c]) =>
       /\ cyc[c].price >= 0
       /\ DailyLiveSpend(live_orders, utcDay) + cyc[c].price <= DailyCap

RowsInOrder ==
  \A i, j \in DOMAIN live_orders : i <= j => live_orders[i].day <= live_orders[j].day

ReentryInv ==
  /\ RowsInPast /\ RowsInOrder
  /\ ReentryFollowsClose
  /\ \A c \in Cycles : Entering(cyc[c]) /\ cyc[c].re =>
       FollowsClose(live_orders, Len(live_orders) + 1,
                    RowOf(cyc[c], OrderStatus(cyc[c])))

\* A trading cycle buys only what is not owned, and what it buys it tracks.
Tracked(c) ==
  cyc[c].mode # "DISABLED" =>
    /\ cyc[c].pc \in {"savePosition", "gates", "submit", "record", "rollbackFill",
                     "rollbackPosition", "dropShadow"} => ~ Owned(cyc[c].ticker)
    /\ cyc[c].pc \in {"gates", "submit", "record"} => cyc[c].ticker \in shadow_positions

TrackInv == BoughtIsTracked /\ \A c \in Cycles : Tracked(c)

\* The cycles that counted t's city below its cap and have not saved yet.
Counted(t) == {c \in Cycles : At(c, "savePosition") /\ SameCityDate(t, cyc[c].ticker)}

ExposureInv ==
  /\ IsFiniteSet(shadow_positions)
  /\ \A t \in Tickers :
       OpenBeside(t) + Cardinality(Counted(t)) <= MaxPerCityDay + Cardinality(Cycles) - 1

(***************************************************************************)
(* What the source says and the code does not do.                          *)
(***************************************************************************)

\* "Max 1 contract per market per day", a hard limit (live_execution.py:8):
\* at no time does the account hold more of one market.
OneContractPerMarket ==
  \A t \in Tickers : net[t]["yes"] + net[t]["no"] <= 1

\* "If we own this market and selling now would be a loss, close"
\* (run_city_cycle.py:75): a sell is submitted only for a held contract, not
\* for one that was never bought nor for one an earlier order sold.
SellsOnlyWhatItOwns ==
  \A c \in Cycles : At(c, "sell") => net[cyc[c].ticker][cyc[c].side] > 0
=============================================================================
