----------------------------- MODULE ShadowBook -----------------------------
(***************************************************************************)
(* The paper account of one city: shadow_fills, shadow_positions and the   *)
(* validation rows, with the processes that write them                     *)
(* (engines/shadow_reconcile.py, tools/reconcile_shadow_positions.py,      *)
(* tools/validate_settlement_corpus.py, storage/state_store.py).           *)
(*                                                                         *)
(* Each save commits on its own, so every save is a step and a process     *)
(* killed after its time limit leaves what it had saved.  The operator's   *)
(* run starts the tools one after the other: at most one works.            *)
(* A fill is one contract on YES, its cost in cents with every charge in.  *)
(***************************************************************************)
EXTENDS ClimateReports, Sums, FiniteSetsExt

CONSTANTS
  Tickers,          \* the city's markets of the date
  Order,            \* the tickers in the order of shadow_positions' key
  NoTicker,
  Threshold,        \* the temperature each market is about
  Costs,            \* the cost of the n-th fill
  MaxKills          \* bound: how many tools the time limit kills

ASSUME BookAssumption ==
  /\ Order \in Seq(Tickers) /\ \A t \in Tickers : \E i \in DOMAIN Order : Order[i] = t
  /\ Threshold \in [Tickers -> Int] /\ NoTicker \notin Tickers
  /\ Costs \in Seq(Int) /\ MaxKills \in Nat

VARIABLES
  fills,            \* shadow_fills, in insertion order
  position,         \* shadow_positions, by ticker
  rows,             \* settlement_validations, by ticker
  opening,          \* the market whose fill is saved and whose position is not
  result,           \* external: the exchange's result of each market
  tool,             \* what the running tool still has to do
  attempts,         \* per ticker, the settlements begun (history)
  kills

bookVars == <<fills, position, rows, opening, result, tool, attempts, kills>>

Idle == [name |-> "none", queue |-> {}]
ReconcileNext == [name |-> "next", queue |-> {}]
NoPosition == [status |-> "NONE", pnl |-> 0]
SomePositions == {t \in Tickers : position[t].status # "NONE"}
OpenPositions == {t \in Tickers : position[t].status = "OPEN"}
FillsOf(t) == {i \in DOMAIN fills : fills[i].ticker = t}
UnsettledOf(t) == {i \in FillsOf(t) : ~ fills[i].settled}

FirstOf(S) == Order[Min({i \in DOMAIN Order : Order[i] \in S})]

\* get_shadow_position returns one row of the city: the first in key order.
PositionOfCity == FirstOf(SomePositions)

\* _fill_net_pnl of a YES contract.
Payout(fill, r) == (IF r = "yes" THEN 100 ELSE 0) - fill.cost

\* What the fills of S pay out, of all the fills.
Payouts(S, r) == [i \in DOMAIN fills |-> IF i \in S THEN Payout(fills[i], r) ELSE 0]
TotalOf(S, r) == Total(Payouts(S, r))

BookInit ==
  /\ fills = <<>> /\ position = [t \in Tickers |-> NoPosition]
  /\ rows = [t \in Tickers |-> NoRow] /\ result = [t \in Tickers |-> NotSettled]
  /\ opening = NoTicker /\ tool = Idle
  /\ attempts = [t \in Tickers |-> 0] /\ kills = 0

(***************************************************************************)
(* apply_shadow_decision saves the fill, then the position; the cycle may  *)
(* die in between.  A market with an open position is not bought again.    *)
(***************************************************************************)
\* save_shadow_fill: a row of its own for every fill.
WithFill(t) == Append(fills, [ticker |-> t, cost |-> Costs[Len(fills) + 1], settled |-> FALSE])

SaveFill(t) ==
  /\ opening = NoTicker /\ result[t] = NotSettled /\ position[t].status # "OPEN"
  /\ Len(fills) < Len(Costs) /\ fills' = WithFill(t)
  /\ opening' = t
  /\ UNCHANGED <<position, rows, result, tool, attempts, kills>>

SavePosition ==
  /\ opening # NoTicker
  /\ position' = [position EXCEPT ![opening] = [status |-> "OPEN", pnl |-> 0]]
  /\ opening' = NoTicker
  /\ UNCHANGED <<fills, rows, result, tool, attempts, kills>>

CycleDies ==
  /\ opening # NoTicker /\ opening' = NoTicker
  /\ UNCHANGED <<fills, position, rows, result, tool, attempts, kills>>

\* A live close deletes the position and leaves its fill.
DeletePosition(t) ==
  /\ position[t].status = "OPEN" /\ result[t] = NotSettled /\ opening = NoTicker
  /\ position' = [position EXCEPT ![t] = NoPosition]
  /\ UNCHANGED <<opening, fills, rows, result, tool, attempts, kills>>

(***************************************************************************)
(* validate_settlement_corpus: the entries of the settled markets are      *)
(* computed, the city's rows are deleted, the entries are saved.           *)
(***************************************************************************)
ClearRows(entry) ==
  /\ tool = Idle
  /\ rows' = [t \in Tickers |-> NoRow]
  /\ tool' = LET settled == {t \in Tickers : result[t] # NotSettled}
             IN  IF settled = {} THEN ReconcileNext
                 ELSE [name |-> "corpus", entry |-> entry, queue |-> settled]
  /\ UNCHANGED <<opening, fills, position, result, attempts, kills>>

SaveRow(t) ==
  /\ tool.name = "corpus" /\ t \in tool.queue
  /\ rows' = [rows EXCEPT ![t] = tool.entry[t]]
  /\ tool' = IF tool.queue = {t} THEN ReconcileNext
             ELSE [tool EXCEPT !.queue = @ \ {t},
                               !.entry = [u \in tool.queue \ {t} |-> @[u]]]
  /\ UNCHANGED <<opening, fills, position, result, attempts, kills>>

(***************************************************************************)
(* reconcile_shadow_positions walks the positions that were OPEN when it   *)
(* started; for each it asks the exchange (the request may fail) and calls *)
(* reconcile_shadow_position, which looks the position up by city.         *)
(***************************************************************************)
Listed(queue) == IF queue = {} THEN Idle ELSE [name |-> "reconcile", queue |-> queue]

StartReconcile ==
  /\ tool = ReconcileNext /\ tool' = Listed(OpenPositions)
  /\ UNCHANGED <<opening, fills, position, rows, result, attempts, kills>>

\* Mutant: the result the corpus expected.
ResultExpected(p, t, answered) ==
  IF answered /\ result[t] # NotSettled THEN result[t]
  ELSE IF rows[p].present /\ rows[p].resolved THEN rows[p].expected ELSE NotSettled

\* _resolve_market_result: the result of the held position p, when market t was asked for.
ResultFor(p, t, answered) ==
  IF answered /\ result[t] # NotSettled THEN result[t]
  ELSE IF rows[p].present /\ rows[p].resolved THEN rows[p].actual ELSE NotSettled

\* The early returns of reconcile_shadow_position.
MayReconcile(p, t, answered) ==
  /\ position[p].status = "OPEN" /\ (answered => p = t)
  /\ ~ (rows[p].present /\ ~ rows[p].resolved)
  /\ ResultFor(p, t, answered) # NotSettled /\ FillsOf(p) # {}

BeginSettlement(t) ==
  /\ tool.name = "reconcile" /\ t = FirstOf(tool.queue)
  /\ SomePositions # {}
  /\ \E answered \in BOOLEAN :
       LET p == PositionOfCity IN
       /\ MayReconcile(p, t, answered)
       /\ tool' = [name |-> "settle", ticker |-> p, acc |-> 0,
                   result |-> ResultFor(p, t, answered), todo |-> UnsettledOf(p),
                   queue |-> tool.queue \ {t}]
       /\ attempts' = [attempts EXCEPT ![p] = @ + 1]
  /\ UNCHANGED <<opening, fills, position, rows, result, kills>>

SkipPosition(t) ==
  /\ tool.name = "reconcile" /\ t = FirstOf(tool.queue)
  /\ \E answered \in BOOLEAN :
       SomePositions # {} => ~ MayReconcile(PositionOfCity, t, answered)
  /\ tool' = Listed(tool.queue \ {t})
  /\ UNCHANGED <<opening, fills, position, rows, result, attempts, kills>>

\* Mutant: the total is the last fill's.
SettleFillOverwriting(i) ==
  /\ tool.name = "settle" /\ i \in tool.todo
  /\ fills' = [fills EXCEPT ![i].settled = TRUE]
  /\ tool' = [tool EXCEPT !.todo = @ \ {i}, !.acc = Payout(fills[i], tool.result)]
  /\ UNCHANGED <<opening, position, rows, result, attempts, kills>>

\* Mutant: a lifecycle_status no reader knows.
ClosePositionSettled ==
  /\ tool.name = "settle" /\ tool.todo = {}
  /\ position' = [position EXCEPT ![tool.ticker] =
                    [status |-> "SETTLED", pnl |-> @.pnl + tool.acc]]
  /\ tool' = Listed(tool.queue)
  /\ UNCHANGED <<opening, fills, rows, result, attempts, kills>>

SettleFill(i) ==
  /\ tool.name = "settle" /\ i \in tool.todo
  /\ fills' = [fills EXCEPT ![i].settled = TRUE]
  /\ tool' = [tool EXCEPT !.todo = @ \ {i}, !.acc = @ + Payout(fills[i], tool.result)]
  /\ UNCHANGED <<opening, position, rows, result, attempts, kills>>

ClosePosition ==
  /\ tool.name = "settle" /\ tool.todo = {}
  /\ position' = [position EXCEPT ![tool.ticker] =
                    [status |-> "CLOSED", pnl |-> @.pnl + tool.acc]]
  /\ tool' = Listed(tool.queue)
  /\ UNCHANGED <<opening, fills, rows, result, attempts, kills>>

\* MODULE_TIMEOUT_SECONDS: the run kills the tool and goes on.  A tool that
\* dies before it writes leaves no more than one that skips its positions.
Kill ==
  /\ tool.name \in {"corpus", "settle"} /\ kills < MaxKills
  /\ tool' = IF tool.name = "corpus" THEN ReconcileNext ELSE Idle
  /\ kills' = kills + 1
  /\ UNCHANGED <<opening, fills, position, rows, result, attempts>>

BookTypeOK ==
  /\ \A i \in DOMAIN fills : fills[i] \in [ticker : Tickers, cost : Int, settled : BOOLEAN]
  /\ position \in [Tickers -> [status : {"NONE", "OPEN", "CLOSED"}, pnl : Int]]
  /\ result \in [Tickers -> Results \union {NotSettled}]
  /\ tool.name \in {"none", "corpus", "next", "reconcile", "settle"} /\ tool.queue \subseteq Tickers
  /\ attempts \in [Tickers -> Nat] /\ kills \in 0 .. MaxKills
=============================================================================
