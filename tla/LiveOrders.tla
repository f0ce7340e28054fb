----------------------------- MODULE LiveOrders -----------------------------
(***************************************************************************)
(* The live_orders table and every query the program decides with          *)
(* (engines/live_execution.py, tools/run_city_cycle.py).                   *)
(*                                                                         *)
(* The table is append-only.  It is a sequence here, in created_at order,  *)
(* so "ORDER BY created_at DESC LIMIT 1" is the largest index.  A row      *)
(* carries the UTC day of its created_at, the clock value, and the fields  *)
(* of payload_json that some query reads.  Times are in clock units,       *)
(* prices in cents, probabilities in percent.                              *)
(***************************************************************************)
EXTENDS Sums, FiniteSets

CONSTANTS
  Tickers,          \* the market tickers of the instance
  Cooldown,         \* REENTRY_MIN_COOLDOWN_MINUTES, in clock units
  Boost,            \* REENTRY_P_MODEL_BOOST_REQUIRED, in percent
  MaxReentries,     \* REENTRY_MAX_PER_TICKER_PER_DAY
  DailyCap          \* LIVE_DAILY_USD_CAP, in cents

ASSUME LedgerAssumption ==
  /\ Cooldown \in Nat /\ Boost \in Nat
  /\ MaxReentries \in Nat /\ DailyCap \in Nat

Sides == {"yes", "no"}

\* p_model_at_close missing from exit_metadata
NoMeta == -1

\* PLACED_ and CLOSED_ carry the exchange's order status: an
\* immediate-or-cancel order comes back "executed" or "canceled".
PlacedStatuses == {"PLACED_EXECUTED", "PLACED_CANCELED"}
ClosedStatuses == {"CLOSED_EXECUTED", "CLOSED_CANCELED"}
PreviewStatuses == {"DRY_RUN_PREVIEW", "DRY_RUN_CLOSE_PREVIEW"}
Statuses == PlacedStatuses \union ClosedStatuses \union PreviewStatuses
              \union {"ERROR", "CLOSE_ERROR"}

(***************************************************************************)
(* filled is what the exchange did with the order.  No query reads it: an  *)
(* order whose response was lost may be filled and have an ERROR row.      *)
(***************************************************************************)
Row == [ticker : Tickers, day : Nat, at : Nat, status : Statuses,
        side : Sides, price : Int, p : Int, re : BOOLEAN, filled : BOOLEAN]

IsPlaced(r) == r.status \in PlacedStatuses
IsClosed(r) == r.status \in ClosedStatuses
IsCloseAttempt(r) == IsClosed(r) \/ r.status = "CLOSE_ERROR"

\* Indices of a ticker's rows of one UTC day that the re-entry check reads.
TradeRows(rows, t, d) ==
  {i \in DOMAIN rows : /\ rows[i].ticker = t
                       /\ rows[i].day = d
                       /\ rows[i].status \notin PreviewStatuses \union {"ERROR"}}

PlacedOn(rows, t, d) == {i \in TradeRows(rows, t, d) : IsPlaced(rows[i])}
ClosedOn(rows, t, d) == {i \in TradeRows(rows, t, d) : IsClosed(rows[i])}
ReentriesOn(rows, t, d) == {i \in PlacedOn(rows, t, d) : rows[i].re}

\* An untouched market: its next order is a first entry.
FirstTouch(rows, t, d) == TradeRows(rows, t, d) = {}

\* c is the last close, and no entry follows it.
LastClose(rows, t, d, c) ==
  /\ c \in ClosedOn(rows, t, d)
  /\ \A i \in ClosedOn(rows, t, d) \union PlacedOn(rows, t, d) : i <= c

\* Mutant: any rise since the close is enough.
ReentryAllowedAnyRise(rows, t, d, now, p) ==
  /\ ~ FirstTouch(rows, t, d)
  /\ Cardinality(ReentriesOn(rows, t, d)) < MaxReentries
  /\ \E c \in ClosedOn(rows, t, d) :
       LastClose(rows, t, d, c) /\ now - rows[c].at >= Cooldown /\ p > rows[c].p

(***************************************************************************)
(* _check_reentry_policy, the case of a market already touched today.  The *)
(* checks are in the code's order; all of them have to pass.               *)
(***************************************************************************)
ReentryAllowed(rows, t, d, now, p) ==
  /\ ~ FirstTouch(rows, t, d)
  /\ \A i \in TradeRows(rows, t, d) : rows[i].status # "CLOSE_ERROR"
  /\ Cardinality(ReentriesOn(rows, t, d)) < MaxReentries
  /\ \E c \in ClosedOn(rows, t, d) :
       /\ LastClose(rows, t, d, c)
       /\ now - rows[c].at >= Cooldown
       /\ rows[c].p # NoMeta
       /\ p - rows[c].p >= Boost

\* A policy that tags the order it allows as a first entry.
MayEnter(rows, t, d, now, p, re) ==
  IF re THEN ReentryAllowed(rows, t, d, now, p) ELSE FirstTouch(rows, t, d)

\* Mutant: the price is read from a field the payload does not have.
DailyLiveSpendNoPrice(rows, d) == 0

\* _daily_live_spend: what today's PLACED_ rows cost, one contract each,
\* added up row by row.
DailyLiveSpend(rows, d) ==
  Total([i \in DOMAIN rows |->
           IF IsPlaced(rows[i]) /\ rows[i].day = d THEN rows[i].price ELSE 0])

(***************************************************************************)
(* _maybe_close_if_underwater: the row of the position it would sell is    *)
(* the newest PLACED_ row, of any day; any CLOSED_ row of any day means    *)
(* "already closed".                                                       *)
(***************************************************************************)
PlacedEver(rows, t) == {i \in DOMAIN rows : rows[i].ticker = t /\ IsPlaced(rows[i])}

NewestPlaced(rows, t, i) ==
  i \in PlacedEver(rows, t) /\ \A j \in PlacedEver(rows, t) : j <= i

\* Mutant: only a close that sold something counts.
EverClosedFilled(rows, t) ==
  \E i \in DOMAIN rows : rows[i].ticker = t /\ rows[i].status = "CLOSED_EXECUTED"

EverClosed(rows, t) == \E i \in DOMAIN rows : rows[i].ticker = t /\ IsClosed(rows[i])
=============================================================================
