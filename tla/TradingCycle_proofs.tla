------------------------ MODULE TradingCycle_proofs ------------------------
(***************************************************************************)
(* Theorems about TradingCycle, for every value of its constants.          *)
(***************************************************************************)
EXTENDS TradingCycle, Sums_proofs

-----------------------------------------------------------------------------
(* What appending a row does to the queries over live_orders *)

\* The rows before the appended one are unchanged.
LEMMA AppendRows ==
  ASSUME NEW rows \in Seq(Row), NEW r \in Row
  PROVE  /\ Append(rows, r) \in Seq(Row)
         /\ DOMAIN Append(rows, r) = DOMAIN rows \union {Len(rows) + 1}
         /\ Len(rows) + 1 \notin DOMAIN rows
         /\ Append(rows, r)[Len(rows) + 1] = r
         /\ \A i \in DOMAIN rows : Append(rows, r)[i] = rows[i]
  OBVIOUS

\* An entry row adds itself to its ticker's entries of its day, and to no
\* other set of entries.
LEMMA AppendPlaced ==
  ASSUME NEW rows \in Seq(Row), NEW r \in Row, NEW t, NEW d
  PROVE  PlacedOn(Append(rows, r), t, d) =
           IF r.ticker = t /\ r.day = d /\ IsPlaced(r)
           THEN PlacedOn(rows, t, d) \union {Len(rows) + 1}
           ELSE PlacedOn(rows, t, d)
<1> DEFINE all == Append(rows, r)
           n == Len(rows) + 1
<1>1. /\ DOMAIN all = DOMAIN rows \union {n}
      /\ n \notin DOMAIN rows
      /\ all[n] = r
      /\ \A i \in DOMAIN rows : all[i] = rows[i]
  BY AppendRows
<1> HIDE DEF all, n
<1>2. \A i : i \in PlacedOn(all, t, d) <=>
               i \in PlacedOn(rows, t, d)
                 \/ (i = n /\ r.ticker = t /\ r.day = d /\ IsPlaced(r))
  BY <1>1 DEF PlacedOn, TradeRows, IsPlaced, PlacedStatuses, PreviewStatuses
<1> QED BY <1>2 DEF all, n

\* The same for the entries tagged as re-entries.
LEMMA AppendReentries ==
  ASSUME NEW rows \in Seq(Row), NEW r \in Row, NEW t, NEW d
  PROVE  ReentriesOn(Append(rows, r), t, d) =
           IF r.ticker = t /\ r.day = d /\ IsPlaced(r) /\ r.re
           THEN ReentriesOn(rows, t, d) \union {Len(rows) + 1}
           ELSE ReentriesOn(rows, t, d)
<1> DEFINE all == Append(rows, r)
           n == Len(rows) + 1
<1>1. /\ n \notin DOMAIN rows /\ all[n] = r
      /\ \A i \in DOMAIN rows : all[i] = rows[i]
  BY AppendRows
<1>2. PlacedOn(all, t, d) =
        IF r.ticker = t /\ r.day = d /\ IsPlaced(r)
        THEN PlacedOn(rows, t, d) \union {n} ELSE PlacedOn(rows, t, d)
  BY AppendPlaced
<1>3. PlacedOn(rows, t, d) \subseteq DOMAIN rows
  BY DEF PlacedOn, TradeRows
<1> HIDE DEF all, n
<1>4. \A i : i \in ReentriesOn(all, t, d) <=>
               i \in ReentriesOn(rows, t, d)
                 \/ (i = n /\ r.ticker = t /\ r.day = d /\ IsPlaced(r) /\ r.re)
  BY <1>1, <1>2, <1>3 DEF ReentriesOn
<1> QED BY <1>4 DEF all, n

\* The sets the budget counts are finite sets of row numbers.
LEMMA ReentriesFinite ==
  ASSUME NEW rows \in Seq(Row), NEW t, NEW d
  PROVE  /\ IsFiniteSet(ReentriesOn(rows, t, d))
         /\ Cardinality(ReentriesOn(rows, t, d)) \in Nat
         /\ ReentriesOn(rows, t, d) \subseteq PlacedOn(rows, t, d)
         /\ PlacedOn(rows, t, d) \subseteq DOMAIN rows
<1>1. IsFiniteSet(1 .. Len(rows))
  BY FS_Interval
<1>2. ReentriesOn(rows, t, d) \subseteq PlacedOn(rows, t, d)
  BY DEF ReentriesOn
<1>3. PlacedOn(rows, t, d) \subseteq DOMAIN rows
  BY DEF PlacedOn, TradeRows
<1>4. ReentriesOn(rows, t, d) \in SUBSET (1 .. Len(rows))
  BY <1>2, <1>3
<1>5. IsFiniteSet(ReentriesOn(rows, t, d))
  BY <1>1, <1>4, FS_Subset
<1> QED BY <1>2, <1>3, <1>5, FS_CardinalityType

\* A row counts as a close of its ticker exactly when it is one.
LEMMA AppendClosed ==
  ASSUME NEW rows \in Seq(Row), NEW r \in Row, NEW t
  PROVE  EverClosed(Append(rows, r), t) <=>
           EverClosed(rows, t) \/ (r.ticker = t /\ IsClosed(r))
<1> DEFINE all == Append(rows, r)
           n == Len(rows) + 1
<1>1. /\ DOMAIN all = DOMAIN rows \union {n}
      /\ all[n] = r
      /\ \A i \in DOMAIN rows : all[i] = rows[i]
  BY AppendRows
<1> HIDE DEF all, n
<1> QED BY <1>1 DEF EverClosed, all

\* A row counts as an entry of its ticker exactly when it is one.
LEMMA AppendPlacedEver ==
  ASSUME NEW rows \in Seq(Row), NEW r \in Row, NEW t
  PROVE  PlacedEver(Append(rows, r), t) # {} <=>
           PlacedEver(rows, t) # {} \/ (r.ticker = t /\ IsPlaced(r))
<1> DEFINE all == Append(rows, r)
           n == Len(rows) + 1
<1>1. /\ DOMAIN all = DOMAIN rows \union {n}
      /\ all[n] = r
      /\ \A i \in DOMAIN rows : all[i] = rows[i]
  BY AppendRows
<1> HIDE DEF all, n
<1> QED BY <1>1 DEF PlacedEver, all

-----------------------------------------------------------------------------
(* The day's spend *)

\* What a row costs its day.
Cost(r, d) == IF IsPlaced(r) /\ r.day = d THEN r.price ELSE 0
Costs(rows, d) == [i \in DOMAIN rows |-> Cost(rows[i], d)]

LEMMA CostsType ==
  ASSUME NEW rows \in Seq(Row), NEW d
  PROVE  /\ Costs(rows, d) \in Seq(Int)
         /\ Len(Costs(rows, d)) = Len(rows)
         /\ DOMAIN Costs(rows, d) = DOMAIN rows
         /\ DailyLiveSpend(rows, d) = Total(Costs(rows, d))
         /\ DailyLiveSpend(rows, d) \in Int
<1> DEFINE c == Costs(rows, d)
<1>1. \A i \in 1 .. Len(rows) : Cost(rows[i], d) \in Int
  <2> TAKE i \in 1 .. Len(rows)
  <2>1. rows[i] \in Row
    OBVIOUS
  <2> QED BY <2>1 DEF Cost, Row
<1>2. c \in [1 .. Len(rows) -> Int]
  BY <1>1 DEF Costs
<1>3. Len(rows) \in Nat
  OBVIOUS
<1>4. c \in Seq(Int) /\ DOMAIN c = 1 .. Len(rows)
  BY <1>2, <1>3
<1>5. Len(c) = Len(rows)
  BY <1>3, <1>4
<1>6. DailyLiveSpend(rows, d) = Total(c)
  BY DEF DailyLiveSpend, Costs, Cost
<1> HIDE DEF c
<1>7. Total(c) \in Int
  BY <1>4, TotalType
<1> QED BY <1>4, <1>5, <1>6, <1>7 DEF c

\* An appended row adds what it costs.
LEMMA SpendAppend ==
  ASSUME NEW rows \in Seq(Row), NEW r \in Row, NEW d
  PROVE  DailyLiveSpend(Append(rows, r), d) = DailyLiveSpend(rows, d) + Cost(r, d)
<1> DEFINE all == Append(rows, r)
           n == Len(rows) + 1
           a == Costs(rows, d)
           b == Costs(all, d)
<1>1. /\ all \in Seq(Row) /\ Len(all) = n
      /\ DOMAIN all = DOMAIN rows \union {n}
      /\ all[n] = r
      /\ \A i \in DOMAIN rows : all[i] = rows[i]
  BY AppendRows
<1> HIDE DEF all
<1>2. a \in Seq(Int) /\ b \in Seq(Int) /\ Len(b) = Len(a) + 1 /\ Len(a) = Len(rows)
  BY <1>1, CostsType
<1>3. b[n] = Cost(r, d) /\ \A i \in 1 .. Len(rows) : a[i] = b[i]
  BY <1>1 DEF Costs
<1>4. Total(b) = Total(a) + b[Len(b)]
  <2> HIDE DEF a, b
  <2> QED BY <1>2, <1>3, TotalAppend
<1> QED BY <1>1, <1>2, <1>3, <1>4, CostsType DEF all

\* Entries that cost nothing less than nothing never make a day's spend
\* negative, and a day without rows has none.
LEMMA SpendBounds ==
  ASSUME NEW rows \in Seq(Row), NEW d
  PROVE  /\ (\A i \in DOMAIN rows : Cost(rows[i], d) >= 0) => DailyLiveSpend(rows, d) \in Nat
         /\ (\A i \in DOMAIN rows : rows[i].day # d) => DailyLiveSpend(rows, d) = 0
<1> DEFINE a == Costs(rows, d)
<1>1. a \in Seq(Int) /\ DOMAIN a = DOMAIN rows /\ DailyLiveSpend(rows, d) = Total(a)
  BY CostsType
<1>2. \A i \in DOMAIN a : a[i] = Cost(rows[i], d) /\ a[i] \in Int
  BY <1>1 DEF Costs
<1> HIDE DEF a
<1>3. ASSUME \A i \in DOMAIN rows : Cost(rows[i], d) >= 0 PROVE Total(a) \in Nat
  <2>1. \A k \in Nat, i \in DOMAIN a : k + a[i] \in Nat
    BY <1>1, <1>2, <1>3
  <2> QED BY <1>1, <2>1, TotalStays
<1>4. ASSUME \A i \in DOMAIN rows : rows[i].day # d PROVE Total(a) \in {0}
  <2>1. \A k \in {0}, i \in DOMAIN a : k + a[i] \in {0}
    BY <1>1, <1>2, <1>4 DEF Cost
  <2> QED BY <1>1, <2>1, TotalStays
<1> QED BY <1>1, <1>3, <1>4

-----------------------------------------------------------------------------
(* Type correctness *)

USE DEF Sides, NoMeta

\* The records a cycle moves through are process records.
LEMMA IdleType == Idle \in CycleState /\ Idle.pc = "idle"
  BY DEF Idle, CycleState, PCs, AllModes, Outcomes

LEMMA BetweenType ==
  ASSUME NEW x \in CycleState
  PROVE  Between(x) \in CycleState /\ Between(x).pc = "market"
<1>1. /\ x.todo \in SUBSET Tickers /\ x.base \in SUBSET Tickers
      /\ x.halt \in BOOLEAN /\ x.mode \in AllModes
  BY DEF CycleState
<1> QED BY ZenonT(30), <1>1, IdleType DEF Between, Idle, CycleState, PCs

\* The part of TypeOK about processes.
ProcessOK(f) ==
  /\ f \in [Cycles -> CycleState]
  /\ \A c \in Cycles : f[c].pc \notin {"idle", "market"} => f[c].ticker \in Tickers

LEMMA UpdateType ==
  ASSUME ProcessOK(cyc), NEW c \in Cycles, NEW x \in CycleState,
         x.pc \in {"idle", "market"} \/ x.ticker \in Tickers,
         cyc' = [cyc EXCEPT ![c] = x]
  PROVE  ProcessOK(cyc)'
  BY DEF ProcessOK

LEMMA FinishType ==
  ASSUME ProcessOK(cyc), NEW c \in Cycles, Finish(c)
  PROVE  ProcessOK(cyc)'
<1>1. cyc[c] \in CycleState
  BY DEF ProcessOK
<1> QED BY <1>1, BetweenType, UpdateType DEF Finish

LEMMA GotoType ==
  ASSUME ProcessOK(cyc), NEW c \in Cycles, NEW pc \in PCs, Goto(c, pc),
         cyc[c].pc \notin {"idle", "market"}
  PROVE  ProcessOK(cyc)'
  BY DEF ProcessOK, Goto, CycleState

\* Whatever is recorded is a row of the table.
LEMMA RowOfType ==
  ASSUME TypeOK, NEW x \in CycleState, x.ticker \in Tickers, NEW s \in Statuses
  PROVE  RowOf(x, s) \in Row
  BY DEF TypeOK, RowOf, Row, CycleState

LEMMA OrderStatusType ==
  \A x : OrderStatus(x) \in Statuses /\ CloseStatus(x) \in Statuses
  BY DEF OrderStatus, CloseStatus, Statuses, PlacedStatuses, ClosedStatuses, PreviewStatuses

LEMMA SaveRowType ==
  ASSUME TypeOK, NEW row \in Row, NEW ok \in BOOLEAN, SaveRow(row, ok)
  PROVE  live_orders' \in Seq(Row) /\ warned' \subseteq Row
<1>1. live_orders \in Seq(Row) /\ warned \subseteq Row
  BY DEF TypeOK
<1>2. Append(live_orders, row) \in Seq(Row)
  BY <1>1
<1>3. warned \union {row} \subseteq Row
  BY <1>1
<1> QED BY <1>1, <1>2, <1>3 DEF SaveRow

\* The part of TypeOK about everything but the processes.
StoreOK ==
  /\ now \in Nat /\ utcDay \in Nat /\ killSwitch \in BOOLEAN
  /\ live_orders \in Seq(Row) /\ warned \subseteq Row
  /\ shadow_positions \subseteq Tickers
  /\ shadow_fills \subseteq (Tickers \X Nat)
  /\ net \in [Tickers -> [Sides -> Int]]
  /\ prepared \in 0 .. MaxOrders

LEMMA TypeParts == TypeOK <=> StoreOK /\ ProcessOK(cyc)
  BY DEF TypeOK, StoreOK, ProcessOK

LEMMA InitType == Init => TypeOK
<1> SUFFICES ASSUME Init PROVE TypeOK
  OBVIOUS
<1>1. ProcessOK(cyc)
  BY IdleType DEF Init, ProcessOK
<1>2. prepared \in 0 .. MaxOrders
  BY CycleAssumption DEF Init
<1>3. live_orders \in Seq(Row)
  BY DEF Init
<1>4. net \in [Tickers -> [Sides -> Int]]
  BY DEF Init
<1>5. now \in Nat /\ utcDay \in Nat /\ killSwitch \in BOOLEAN /\ warned \subseteq Row
  BY DEF Init
<1>6. shadow_positions \subseteq Tickers /\ shadow_fills \subseteq (Tickers \X Nat)
  BY DEF Init
<1> QED BY <1>1, <1>2, <1>3, <1>4, <1>5, <1>6, TypeParts DEF StoreOK

(***************************************************************************)
(* Every step of a process keeps the types, one case per action.           *)
(***************************************************************************)
LEMMA StepType ==
  ASSUME TypeOK, NEW c \in Cycles, CycleStep(c)
  PROVE  TypeOK'
<1>1. StoreOK /\ ProcessOK(cyc) /\ cyc[c] \in CycleState
  BY TypeParts DEF ProcessOK
<1> SUFFICES StoreOK' /\ ProcessOK(cyc)'
  BY DEF TypeOK, StoreOK, ProcessOK
<1>2. ASSUME UNCHANGED <<clock, killSwitch, book, shadow, net, prepared>>
      PROVE  StoreOK'
  BY <1>1, <1>2 DEF StoreOK, clock, book, shadow
<1>a. CASE \E m \in Modes[c] : StartCycle(c, m)
  <2> PICK m \in Modes[c] : StartCycle(c, m)
    BY <1>a
  <2> DEFINE x == [Idle EXCEPT !.pc = "market", !.mode = m,
                     !.base = shadow_positions, !.halt = killSwitch,
                     !.todo = {t \in Tickers : Listed(t)}]
  <2>0. killSwitch \in BOOLEAN /\ shadow_positions \in SUBSET Tickers
    BY <1>1 DEF StoreOK
  <2>1. x \in CycleState /\ x.pc = "market"
    BY <2>0, IdleType, CycleAssumption DEF Idle, CycleState, PCs
  <2>2. cyc' = [cyc EXCEPT ![c] = x]
    BY DEF StartCycle
  <2>3. ProcessOK(cyc)'
    <3> HIDE DEF x
    <3> QED BY <2>1, <2>2, <1>1, UpdateType
  <2> QED BY <2>3, <1>2 DEF StartCycle
<1>b. CASE \E t \in Tickers : SkipMarket(c, t)
  <2> PICK t \in Tickers : SkipMarket(c, t)
    BY <1>b
  <2>1. ProcessOK(cyc)'
    BY <1>1 DEF SkipMarket, ProcessOK, CycleState
  <2> QED BY <2>1, <1>2 DEF SkipMarket
<1>c. CASE \E t \in Tickers, p \in ExitPs : EvaluateExit(c, t, p)
  <2> PICK t \in Tickers, p \in ExitPs : EvaluateExit(c, t, p)
    BY <1>c
  <2> PICK i \in DOMAIN live_orders :
        cyc' = [cyc EXCEPT ![c] = ToSell(cyc[c], t, live_orders[i], p)]
    BY DEF EvaluateExit
  <2>0. live_orders[i] \in Row
    BY <1>1 DEF StoreOK
  <2>1. live_orders[i].side \in Sides /\ live_orders[i].price \in Int
    BY <2>0 DEF Row
  <2>2. p \in Int
    BY CycleAssumption
  <2>3. /\ ToSell(cyc[c], t, live_orders[i], p) \in CycleState
        /\ ToSell(cyc[c], t, live_orders[i], p).ticker \in Tickers
    BY ZenonT(30), <1>1, <2>1, <2>2 DEF ToSell, CycleState, PCs
  <2>4. ProcessOK(cyc)'
    BY <1>1, <2>3, UpdateType
  <2>5. prepared' \in 0 .. MaxOrders
    BY <1>1, CycleAssumption DEF EvaluateExit, Prepare, StoreOK
  <2>6. StoreOK'
    BY <1>1, <2>5 DEF EvaluateExit, StoreOK, clock, book, shadow
  <2> QED BY <2>4, <2>6
<1>d. CASE \E t \in Tickers, sig \in Signals : EvaluateEntry(c, t, sig)
  <2> PICK t \in Tickers, sig \in Signals : EvaluateEntry(c, t, sig)
    BY <1>d
  <2>1. sig.side \in Sides /\ sig.price \in Int /\ sig.p \in Int
    BY CycleAssumption
  <2>2. prepared \in Nat /\ prepared + 1 \in Nat
    BY <1>1 DEF StoreOK
  <2>3. ProcessOK(cyc)'
    <3>1. /\ ToBuy(cyc[c], t, sig, prepared + 1) \in CycleState
          /\ ToBuy(cyc[c], t, sig, prepared + 1).ticker \in Tickers
      BY <1>1, <2>1, <2>2 DEF ToBuy, CycleState, PCs
    <3> QED BY <1>1, <3>1, UpdateType DEF EvaluateEntry
  <2>4. prepared' \in 0 .. MaxOrders
    BY <1>1, CycleAssumption DEF EvaluateEntry, Prepare, StoreOK
  <2>5. shadow_fills' \subseteq (Tickers \X Nat)
    BY <1>1, <2>2 DEF EvaluateEntry, StoreOK
  <2>6. StoreOK'
    BY <1>1, <2>4, <2>5 DEF EvaluateEntry, StoreOK, clock, book
  <2> QED BY <2>3, <2>6
<1>e. CASE \E ok \in BOOLEAN : SavePosition(c, ok)
  <2> PICK ok \in BOOLEAN : SavePosition(c, ok)
    BY <1>e
  <2>1. cyc[c].ticker \in Tickers
    BY <1>1 DEF SavePosition, At, ProcessOK
  <2>2. ProcessOK(cyc)'
    BY <1>1, FinishType, GotoType DEF SavePosition, At, PCs
  <2>3. StoreOK'
    BY <1>1, <2>1 DEF SavePosition, StoreOK, clock, book
  <2> QED BY <2>2, <2>3
<1>f. CASE GatesAbandoned(c)
  BY <1>f, <1>1, <1>2, FinishType DEF GatesAbandoned
<1>g. CASE \E re \in BOOLEAN : GatesPass(c, re)
  <2> PICK re \in BOOLEAN : GatesPass(c, re)
    BY <1>g
  <2>1. ProcessOK(cyc)'
    BY <1>1 DEF GatesPass, At, ProcessOK, CycleState, PCs
  <2> QED BY <2>1, <1>2 DEF GatesPass
<1>h. CASE GatesBlock(c)
  BY <1>h, <1>1, <1>2, GotoType DEF GatesBlock, At, PCs
<1>i. ASSUME NEW sign \in {-1, 1}, Trade(c, sign), cyc[c].pc \in {"submit", "sell"}
      PROVE  StoreOK' /\ ProcessOK(cyc)'
  <2> PICK o \in Outcomes :
        /\ cyc' = [cyc EXCEPT ![c].outcome = o,
                              ![c].pc = IF sign > 0 THEN "record" ELSE "recordClose"]
        /\ net' = IF o \in {"executed", "failed_filled"}
                    THEN [net EXCEPT ![cyc[c].ticker][cyc[c].side] = @ + sign]
                    ELSE net
        /\ UNCHANGED <<clock, killSwitch, book, shadow, prepared>>
    BY <1>i DEF Trade
  <2>1. ProcessOK(cyc)'
    BY <1>1, <1>i DEF ProcessOK, CycleState, PCs
  <2>2. cyc[c].ticker \in Tickers /\ cyc[c].side \in Sides
    BY <1>1, <1>i DEF ProcessOK, CycleState
  <2>3. net' \in [Tickers -> [Sides -> Int]]
    <3>1. net \in [Tickers -> [Sides -> Int]]
      BY <1>1 DEF StoreOK
    <3>2. net[cyc[c].ticker] \in [Sides -> Int] /\ sign \in Int
      BY <3>1, <2>2
    <3>3. [net[cyc[c].ticker] EXCEPT ![cyc[c].side] = @ + sign] \in [Sides -> Int]
      BY <3>2, <2>2
    <3> QED BY <3>1, <3>3, <2>2
  <2>4. StoreOK'
    BY <1>1, <2>3 DEF StoreOK, clock, book, shadow
  <2> QED BY <2>1, <2>4
<1>j. CASE SubmitOrder(c)
  BY <1>i, <1>j DEF SubmitOrder, At
<1>k. CASE SubmitClose(c)
  BY <1>i, <1>k DEF SubmitClose, At
<1>l. ASSUME NEW s \in Statuses, NEW ok \in BOOLEAN, SaveRow(RowOf(cyc[c], s), ok),
             cyc[c].pc \in {"record", "recordClose"},
             UNCHANGED <<clock, killSwitch, shadow, net, prepared>>
      PROVE  StoreOK'
  <2>1. cyc[c].ticker \in Tickers
    BY <1>1, <1>l DEF ProcessOK
  <2>2. RowOf(cyc[c], s) \in Row
    BY <1>1, <2>1, RowOfType
  <2>3. live_orders' \in Seq(Row) /\ warned' \subseteq Row
    BY <1>l, <2>2, SaveRowType
  <2> QED BY <1>1, <1>l, <2>3 DEF StoreOK, clock, shadow
<1>m. CASE \E ok \in BOOLEAN : RecordOrder(c, ok)
  <2> PICK ok \in BOOLEAN : RecordOrder(c, ok)
    BY <1>m
  <2>1. ProcessOK(cyc)'
    BY <1>1, FinishType, GotoType DEF RecordOrder, At, PCs
  <2>2. StoreOK'
    BY <1>l, OrderStatusType DEF RecordOrder, At
  <2> QED BY <2>1, <2>2
<1>n. CASE \E ok \in BOOLEAN : RecordClose(c, ok)
  <2> PICK ok \in BOOLEAN : RecordClose(c, ok)
    BY <1>n
  <2>1. ProcessOK(cyc)'
    BY <1>1, FinishType, GotoType DEF RecordClose, At, PCs
  <2>2. StoreOK'
    BY <1>l, OrderStatusType DEF RecordClose, At
  <2> QED BY <2>1, <2>2
<1>o. CASE \E ok \in BOOLEAN : RollbackFill(c, ok)
  <2> PICK ok \in BOOLEAN : RollbackFill(c, ok)
    BY <1>o
  <2>1. ProcessOK(cyc)'
    BY <1>1, FinishType, GotoType DEF RollbackFill, At, PCs
  <2>2. StoreOK'
    BY <1>1 DEF RollbackFill, StoreOK, clock, book
  <2> QED BY <2>1, <2>2
<1>p. ASSUME NEW ok \in BOOLEAN, DeletePosition(c, ok)
      PROVE  StoreOK' /\ ProcessOK(cyc)'
  <2>1. ProcessOK(cyc)'
    BY <1>1, <1>p, FinishType DEF DeletePosition
  <2>2. StoreOK'
    BY <1>1, <1>p DEF DeletePosition, StoreOK, clock, book
  <2> QED BY <2>1, <2>2
<1>q. CASE \E ok \in BOOLEAN : RollbackPosition(c, ok) \/ DropShadow(c, ok)
  BY <1>p, <1>q DEF RollbackPosition, DropShadow
<1>r. CASE EndCycle(c) \/ Crash(c)
  <2>1. ProcessOK(cyc)'
    BY <1>1, <1>r, IdleType, UpdateType DEF EndCycle, Crash
  <2> QED BY <1>r, <1>2, <2>1 DEF EndCycle, Crash
<1> QED
  BY <1>a, <1>b, <1>c, <1>d, <1>e, <1>f, <1>g, <1>h, <1>j, <1>k, <1>m, <1>n,
     <1>o, <1>q, <1>r DEF CycleStep

\* The clock, the operator and a stuttering step keep the types.
LEMMA NextType == TypeOK /\ [Next]_vars => TypeOK'
<1> SUFFICES ASSUME TypeOK, [Next]_vars PROVE TypeOK'
  OBVIOUS
<1>1. CASE \E c \in Cycles : CycleStep(c)
  BY <1>1, StepType
<1>2. CASE Tick
  BY <1>2 DEF Tick, TypeOK, book, shadow
<1>3. CASE SetKillSwitch
  BY <1>3 DEF SetKillSwitch, TypeOK, clock, book, shadow
<1>4. CASE UNCHANGED vars
  BY <1>4 DEF vars, TypeOK
<1> QED BY <1>1, <1>2, <1>3, <1>4 DEF Next

\* Every variable keeps its type, and a process that handles an order knows
\* the market it is for, whatever the number of cycles that overlap.
THEOREM TypeCorrect == Spec => []TypeOK
<1>1. Init => TypeOK
  BY InitType
<1>2. TypeOK /\ [Next]_vars => TypeOK'
  BY NextType
<1> QED BY <1>1, <1>2, PTL DEF Spec

-----------------------------------------------------------------------------
(* What one step of a cycle can change *)

\* A step of one cycle touches no other cycle, nor the clock or the switch.
LEMMA StepFrame ==
  ASSUME TypeOK, NEW c \in Cycles, CycleStep(c)
  PROVE  /\ \A d \in Cycles \ {c} : cyc'[d] = cyc[d]
         /\ UNCHANGED <<clock, killSwitch>>
<1> USE DEF clock
<1>1. cyc \in [Cycles -> CycleState]
  BY DEF TypeOK
<1>2. CASE \E m \in Modes[c] : StartCycle(c, m)
  BY <1>1, <1>2 DEF StartCycle
<1>3. CASE \E t \in Tickers : SkipMarket(c, t)
  BY <1>1, <1>3 DEF SkipMarket
<1>4. CASE \E t \in Tickers, p \in ExitPs : EvaluateExit(c, t, p)
  BY <1>1, <1>4 DEF EvaluateExit
<1>5. CASE \E t \in Tickers, sig \in Signals : EvaluateEntry(c, t, sig)
  BY <1>1, <1>5 DEF EvaluateEntry
<1>6. CASE \E ok \in BOOLEAN : SavePosition(c, ok)
  BY <1>1, <1>6 DEF SavePosition, Goto, Finish
<1>7. CASE GatesAbandoned(c) \/ GatesBlock(c)
  BY <1>1, <1>7 DEF GatesAbandoned, GatesBlock, Goto, Finish
<1>8. CASE \E re \in BOOLEAN : GatesPass(c, re)
  BY <1>1, <1>8 DEF GatesPass
<1>9. CASE SubmitOrder(c) \/ SubmitClose(c)
  BY <1>1, <1>9 DEF SubmitOrder, SubmitClose, Trade
<1>10. CASE \E ok \in BOOLEAN : RecordOrder(c, ok) \/ RecordClose(c, ok)
  BY <1>1, <1>10 DEF RecordOrder, RecordClose, Goto, Finish
<1>11. CASE \E ok \in BOOLEAN : RollbackFill(c, ok)
  BY <1>1, <1>11 DEF RollbackFill, Goto, Finish
<1>12. CASE \E ok \in BOOLEAN : RollbackPosition(c, ok) \/ DropShadow(c, ok)
  BY <1>1, <1>12 DEF RollbackPosition, DropShadow, DeletePosition, Finish
<1>13. CASE EndCycle(c) \/ Crash(c)
  BY <1>1, <1>13 DEF EndCycle, Crash
<1> QED
  BY <1>2, <1>3, <1>4, <1>5, <1>6, <1>7, <1>8, <1>9, <1>10, <1>11, <1>12, <1>13
  DEF CycleStep

\* A cycle comes to an order's submission or recording only through the gates
\* or the exit check, and only the two recordings write the ledger.
LEMMA StepOrder ==
  ASSUME TypeOK, NEW c \in Cycles, CycleStep(c)
  PROVE  /\ cyc'[c].pc = "submit" => \E re \in BOOLEAN : GatesPass(c, re)
         /\ cyc'[c].pc = "record" =>
              SubmitOrder(c) \/ \E re \in BOOLEAN : GatesPass(c, re)
         /\ cyc'[c].pc = "sell" =>
              \E t \in Tickers, p \in ExitPs : EvaluateExit(c, t, p)
         /\ cyc'[c].pc = "recordClose" =>
              \/ SubmitClose(c)
              \/ \E t \in Tickers, p \in ExitPs : EvaluateExit(c, t, p)
         /\ live_orders' # live_orders =>
              \E ok \in BOOLEAN : RecordOrder(c, ok) \/ RecordClose(c, ok)
         /\ net' # net => SubmitOrder(c) \/ SubmitClose(c)
<1> USE DEF book
<1>1. cyc \in [Cycles -> CycleState] /\ cyc[c] \in CycleState
  BY DEF TypeOK
<1>2. Between(cyc[c]).pc = "market" /\ Idle.pc = "idle"
  BY <1>1, BetweenType, IdleType
<1>3. ASSUME cyc' = [cyc EXCEPT ![c] = Idle] PROVE cyc'[c].pc = "idle"
  BY <1>1, <1>2, <1>3
<1>4. ASSUME Finish(c) PROVE cyc'[c].pc = "market"
  BY <1>1, <1>2, <1>4 DEF Finish
<1>5. ASSUME NEW pc, Goto(c, pc) PROVE cyc'[c].pc = pc
  BY <1>1, <1>5 DEF Goto, CycleState
<1>a. CASE \E m \in Modes[c] : StartCycle(c, m)
  <2>1. cyc'[c].pc = "market"
    BY <1>1, <1>a DEF StartCycle, Idle
  <2> QED BY <2>1, <1>a DEF StartCycle
<1>b. CASE \E t \in Tickers : SkipMarket(c, t)
  <2>1. cyc'[c].pc = "market"
    BY <1>1, <1>b DEF SkipMarket, At, CycleState
  <2> QED BY <2>1, <1>b DEF SkipMarket
<1>c. CASE \E t \in Tickers, p \in ExitPs : EvaluateExit(c, t, p)
  <2>1. cyc'[c].pc \in {"sell", "recordClose"}
    BY <1>1, <1>c DEF EvaluateExit, ToSell, CycleState
  <2>2. UNCHANGED <<live_orders, net>>
    BY <1>c DEF EvaluateExit
  <2> QED BY <2>1, <2>2, <1>c
<1>d. CASE \E t \in Tickers, sig \in Signals : EvaluateEntry(c, t, sig)
  <2>1. cyc'[c].pc = "savePosition"
    BY <1>1, <1>d DEF EvaluateEntry, ToBuy, CycleState
  <2> QED BY <2>1, <1>d DEF EvaluateEntry
<1>e. CASE \E ok \in BOOLEAN : SavePosition(c, ok)
  BY <1>4, <1>5, <1>e DEF SavePosition
<1>f. CASE GatesAbandoned(c)
  BY <1>4, <1>f DEF GatesAbandoned
<1>g. CASE \E re \in BOOLEAN : GatesPass(c, re)
  <2>1. cyc'[c].pc \in {"submit", "record"}
    BY <1>1, <1>g DEF GatesPass, CycleState
  <2>2. UNCHANGED <<live_orders, net>>
    BY <1>g DEF GatesPass
  <2> QED BY <2>1, <2>2, <1>g
<1>h. CASE GatesBlock(c)
  BY <1>5, <1>h DEF GatesBlock
<1>i. CASE SubmitOrder(c)
  <2>1. cyc'[c].pc = "record"
    BY <1>1, <1>i DEF SubmitOrder, Trade, CycleState
  <2> QED BY <2>1, <1>i DEF SubmitOrder, Trade
<1>j. CASE SubmitClose(c)
  <2>1. cyc'[c].pc = "recordClose"
    BY <1>1, <1>j DEF SubmitClose, Trade, CycleState
  <2> QED BY <2>1, <1>j DEF SubmitClose, Trade
<1>k. CASE \E ok \in BOOLEAN : RecordOrder(c, ok)
  <2>1. cyc'[c].pc \in {"rollbackFill", "market"}
    BY <1>4, <1>5, <1>k DEF RecordOrder
  <2> QED BY <2>1, <1>k DEF RecordOrder
<1>l. CASE \E ok \in BOOLEAN : RecordClose(c, ok)
  <2>1. cyc'[c].pc \in {"dropShadow", "market"}
    BY <1>4, <1>5, <1>l DEF RecordClose
  <2> QED BY <2>1, <1>l DEF RecordClose
<1>m. CASE \E ok \in BOOLEAN : RollbackFill(c, ok)
  BY <1>4, <1>5, <1>m DEF RollbackFill
<1>n. CASE \E ok \in BOOLEAN : RollbackPosition(c, ok) \/ DropShadow(c, ok)
  BY <1>4, <1>n DEF RollbackPosition, DropShadow, DeletePosition
<1>o. CASE EndCycle(c) \/ Crash(c)
  BY <1>3, <1>o DEF EndCycle, Crash
<1> QED
  BY <1>a, <1>b, <1>c, <1>d, <1>e, <1>f, <1>g, <1>h, <1>i, <1>j, <1>k, <1>l,
     <1>m, <1>n, <1>o DEF CycleStep

-----------------------------------------------------------------------------
(* Cycles that do not trade *)

\* A cycle that does not trade touches neither the ledger nor an open
\* position, and stays in the part of the loop where it can do neither.
LEMMA WatchingStep ==
  ASSUME TypeOK, NEW c \in Cycles, CycleStep(c),
         cyc[c].mode = "DISABLED",
         cyc[c].pc \in {"idle", "market", "savePosition", "gates"}
  PROVE  /\ UNCHANGED book
         /\ shadow_positions \subseteq shadow_positions'
         /\ cyc'[c].pc \in {"idle", "market", "savePosition", "gates"}
         /\ \/ cyc'[c].mode = "DISABLED"
            \/ cyc'[c].mode \in Modes[c] /\ cyc'[c].pc = "market"
<1> USE DEF shadow
<1>1. cyc \in [Cycles -> CycleState] /\ cyc[c] \in CycleState
  BY DEF TypeOK
<1>2. /\ Between(cyc[c]).pc = "market" /\ Between(cyc[c]).mode = "DISABLED"
      /\ Idle.pc = "idle" /\ Idle.mode = "DISABLED"
  BY <1>1, BetweenType DEF Between, Idle
<1>3. ASSUME Finish(c) PROVE cyc'[c].pc = "market" /\ cyc'[c].mode = "DISABLED"
  BY <1>1, <1>2, <1>3 DEF Finish
<1>a. CASE \E m \in Modes[c] : StartCycle(c, m)
  <2>1. cyc'[c].pc = "market" /\ cyc'[c].mode \in Modes[c]
    BY <1>1, <1>a DEF StartCycle, Idle
  <2> QED BY <2>1, <1>a DEF StartCycle
<1>b. CASE \E t \in Tickers : SkipMarket(c, t)
  <2>1. cyc'[c].pc = "market" /\ cyc'[c].mode = "DISABLED"
    BY <1>1, <1>b DEF SkipMarket, At, CycleState
  <2> QED BY <2>1, <1>b DEF SkipMarket
<1>c. CASE \E t \in Tickers, p \in ExitPs : EvaluateExit(c, t, p)
  BY <1>c DEF EvaluateExit
<1>d. CASE \E t \in Tickers, sig \in Signals : EvaluateEntry(c, t, sig)
  <2>1. cyc'[c].pc = "savePosition" /\ cyc'[c].mode = "DISABLED"
    BY <1>1, <1>d DEF EvaluateEntry, ToBuy, CycleState
  <2> QED BY <2>1, <1>d DEF EvaluateEntry
<1>e. CASE \E ok \in BOOLEAN : SavePosition(c, ok)
  <2> PICK ok \in BOOLEAN : SavePosition(c, ok)
    BY <1>e
  <2>1. UNCHANGED book /\ shadow_positions \subseteq shadow_positions'
    BY DEF SavePosition
  <2>2. CASE ok
    <3>1. cyc'[c].pc = "gates" /\ cyc'[c].mode = "DISABLED"
      BY <1>1, <2>2 DEF SavePosition, Goto, CycleState
    <3> QED BY <2>1, <3>1
  <2>3. CASE ~ ok
    BY <1>3, <2>1, <2>3 DEF SavePosition
  <2> QED BY <2>2, <2>3
<1>f. CASE GatesAbandoned(c)
  BY <1>3, <1>f DEF GatesAbandoned
<1>g. CASE GatesBlock(c) \/ \E re \in BOOLEAN : GatesPass(c, re)
  BY <1>g DEF GatesBlock, GatesPass
<1>h. CASE SubmitOrder(c) \/ SubmitClose(c)
  BY <1>h DEF SubmitOrder, SubmitClose, At
<1>i. CASE \E ok \in BOOLEAN : RecordOrder(c, ok) \/ RecordClose(c, ok)
  BY <1>i DEF RecordOrder, RecordClose, At
<1>j. CASE \E ok \in BOOLEAN : RollbackFill(c, ok) \/ RollbackPosition(c, ok) \/ DropShadow(c, ok)
  BY <1>j DEF RollbackFill, RollbackPosition, DropShadow, At
<1>k. CASE EndCycle(c) \/ Crash(c)
  <2>1. cyc'[c].pc = "idle" /\ cyc'[c].mode = "DISABLED"
    BY <1>1, <1>2, <1>k DEF EndCycle, Crash
  <2> QED BY <2>1, <1>k DEF EndCycle, Crash
<1> QED
  BY <1>a, <1>b, <1>c, <1>d, <1>e, <1>f, <1>g, <1>h, <1>i, <1>j, <1>k DEF CycleStep

\* A cycle that trades keeps its mode until it starts again or ends.
LEMMA ModeStep ==
  ASSUME TypeOK, NEW c \in Cycles, CycleStep(c)
  PROVE  \/ cyc'[c].mode = cyc[c].mode
         \/ cyc'[c].mode \in Modes[c] /\ cyc'[c].pc = "market"
         \/ cyc'[c].mode = "DISABLED" /\ cyc'[c].pc = "idle"
<1>1. cyc \in [Cycles -> CycleState] /\ cyc[c] \in CycleState
  BY DEF TypeOK
<1>2. Between(cyc[c]).mode = cyc[c].mode /\ Idle.pc = "idle" /\ Idle.mode = "DISABLED"
  BY <1>1 DEF Between, Idle
<1>3. ASSUME Finish(c) PROVE cyc'[c].mode = cyc[c].mode
  BY <1>1, <1>2, <1>3 DEF Finish
<1>4. ASSUME NEW pc, Goto(c, pc) PROVE cyc'[c].mode = cyc[c].mode
  BY <1>1, <1>4 DEF Goto, CycleState
<1>a. CASE \E m \in Modes[c] : StartCycle(c, m)
  BY <1>1, <1>a DEF StartCycle, Idle
<1>b. CASE \E t \in Tickers : SkipMarket(c, t)
  BY <1>1, <1>b DEF SkipMarket, CycleState
<1>c. CASE \E t \in Tickers, p \in ExitPs : EvaluateExit(c, t, p)
  BY <1>1, <1>c DEF EvaluateExit, ToSell, CycleState
<1>d. CASE \E t \in Tickers, sig \in Signals : EvaluateEntry(c, t, sig)
  BY <1>1, <1>d DEF EvaluateEntry, ToBuy, CycleState
<1>e. CASE \E ok \in BOOLEAN : SavePosition(c, ok)
  BY <1>3, <1>4, <1>e DEF SavePosition
<1>f. CASE GatesAbandoned(c) \/ GatesBlock(c)
  BY <1>3, <1>4, <1>f DEF GatesAbandoned, GatesBlock
<1>g. CASE \E re \in BOOLEAN : GatesPass(c, re)
  BY <1>1, <1>g DEF GatesPass, CycleState
<1>h. CASE SubmitOrder(c) \/ SubmitClose(c)
  <2>1. CASE SubmitOrder(c)
    BY <1>1, <2>1 DEF SubmitOrder, Trade, CycleState
  <2>2. CASE SubmitClose(c)
    BY <1>1, <2>2 DEF SubmitClose, Trade, CycleState
  <2> QED BY <1>h, <2>1, <2>2
<1>i. CASE \E ok \in BOOLEAN : RecordOrder(c, ok) \/ RecordClose(c, ok)
  BY <1>3, <1>4, <1>i DEF RecordOrder, RecordClose
<1>j. CASE \E ok \in BOOLEAN : RollbackFill(c, ok) \/ RollbackPosition(c, ok) \/ DropShadow(c, ok)
  BY <1>3, <1>4, <1>j DEF RollbackFill, RollbackPosition, DropShadow, DeletePosition
<1>k. CASE EndCycle(c) \/ Crash(c)
  BY <1>1, <1>2, <1>k DEF EndCycle, Crash
<1> QED
  BY <1>a, <1>b, <1>c, <1>d, <1>e, <1>f, <1>g, <1>h, <1>i, <1>j, <1>k DEF CycleStep

LEMMA WatchNext == TypeOK /\ BystandersOnlyWatch /\ [Next]_vars => BystandersOnlyWatch'
<1> SUFFICES ASSUME TypeOK, BystandersOnlyWatch, [Next]_vars PROVE BystandersOnlyWatch'
  OBVIOUS
<1>1. CASE \E c \in Cycles : CycleStep(c)
  <2> PICK c \in Cycles : CycleStep(c)
    BY <1>1
  <2>1. /\ cyc'[c].mode \in Modes[c] \union {"DISABLED"}
        /\ cyc'[c].mode = "DISABLED" =>
             cyc'[c].pc \in {"idle", "market", "savePosition", "gates"}
    BY ModeStep, WatchingStep DEF BystandersOnlyWatch
  <2> QED BY <2>1, StepFrame DEF BystandersOnlyWatch
<1>2. CASE Tick \/ SetKillSwitch \/ UNCHANGED vars
  BY <1>2 DEF Tick, SetKillSwitch, vars, BystandersOnlyWatch
<1> QED BY <1>1, <1>2 DEF Next

LEMMA WatchHolds == Spec => []BystandersOnlyWatch
<1>1. Init => BystandersOnlyWatch
  BY DEF Init, Idle, BystandersOnlyWatch
<1>2. TypeOK /\ BystandersOnlyWatch /\ [Next]_vars => BystandersOnlyWatch'
  BY WatchNext
<1> QED BY <1>1, <1>2, TypeCorrect, PTL DEF Spec

\* While one process trades, a step of another one leaves it, the ledger and
\* the open positions as they are.
LEMMA Bystander ==
  ASSUME TypeOK, BystandersOnlyWatch, OneTrader, NEW c \in Cycles, CycleStep(c),
         NEW d \in Cycles, d # c, cyc[d].mode # "DISABLED"
  PROVE  /\ UNCHANGED book
         /\ shadow_positions \subseteq shadow_positions'
<1>1. MayTrade(d)
  BY DEF BystandersOnlyWatch, MayTrade
<1>2. cyc[c].mode = "DISABLED"
  BY <1>1 DEF BystandersOnlyWatch, MayTrade, OneTrader
<1> QED BY <1>2, WatchingStep DEF BystandersOnlyWatch

-----------------------------------------------------------------------------
(* The kill switch *)

\* A sale lowers what is held of one market and side and leaves the rest.
LEMMA SaleLowers ==
  ASSUME TypeOK, NEW c \in Cycles, SubmitClose(c), NEW t \in Tickers, NEW s \in Sides
  PROVE  net'[t][s] <= net[t][s]
<1>1. net \in [Tickers -> [Sides -> Int]]
  BY DEF TypeOK
<1>2. cyc[c].ticker \in Tickers /\ cyc[c].side \in Sides
  BY DEF TypeOK, SubmitClose, At, CycleState
<1>3. \/ net' = net
      \/ net' = [net EXCEPT ![cyc[c].ticker][cyc[c].side] = @ + (-1)]
  BY DEF SubmitClose, Trade
<1>4. net[t] \in [Sides -> Int] /\ net[t][s] \in Int
  BY <1>1
<1>5. CASE net' = [net EXCEPT ![cyc[c].ticker][cyc[c].side] = @ + (-1)]
  <2>1. net'[t][s] = IF t = cyc[c].ticker /\ s = cyc[c].side
                     THEN net[t][s] + (-1) ELSE net[t][s]
    BY <1>1, <1>2, <1>4, <1>5
  <2> QED BY <2>1, <1>4
<1>6. CASE net' = net
  BY <1>4, <1>6
<1> QED BY <1>3, <1>5, <1>6

\* With the switch on and every order before its gates, one step buys nothing
\* and brings no order past the gates.
LEMMA KillSwitchStep ==
  ASSUME TypeOK, [Next]_vars, "kill_switch" \notin FaultyReads, killSwitch, ~ Buying
  PROVE  /\ ~ Buying'
         /\ \A t \in Tickers, s \in Sides : net'[t][s] <= net[t][s]
<1>1. \A t \in Tickers, s \in Sides : net[t][s] \in Int
  BY DEF TypeOK
<1>2. CASE \E c \in Cycles : CycleStep(c)
  <2> PICK c \in Cycles : CycleStep(c)
    BY <1>2
  <2>1. cyc'[c].pc # "submit"
    <3> SUFFICES ASSUME NEW re \in BOOLEAN, GatesPass(c, re) PROVE FALSE
      BY StepOrder
    <3> QED BY DEF GatesPass, LiveGates, KillSwitchGate
  <2>2. ~ Buying'
    BY <2>1, StepFrame DEF Buying, At
  <2>3. ~ SubmitOrder(c)
    BY DEF Buying, SubmitOrder
  <2>4. net' = net \/ SubmitClose(c)
    BY <2>3, StepOrder
  <2> QED BY <1>1, <2>2, <2>4, SaleLowers
<1>3. CASE Tick \/ SetKillSwitch
  BY <1>1, <1>3 DEF Tick, SetKillSwitch, Buying, At
<1>4. CASE UNCHANGED vars
  BY <1>1, <1>4 DEF vars, Buying, At
<1> QED BY <1>2, <1>3, <1>4 DEF Next

\* However many cycles overlap: once the kill switch is on and no order is
\* past its gates, nothing more is bought, as long as the switch can be read.
THEOREM KillSwitchHolds ==
  "kill_switch" \notin FaultyReads => (Spec => KillSwitchStopsBuying)
<1> SUFFICES ASSUME "kill_switch" \notin FaultyReads PROVE Spec => KillSwitchStopsBuying
  OBVIOUS
<1> DEFINE Step == killSwitch /\ ~ Buying =>
                     /\ ~ Buying'
                     /\ \A t \in Tickers, s \in Sides : net'[t][s] <= net[t][s]
<1>1. TypeOK /\ [Next]_vars => [Step]_vars
  BY KillSwitchStep
<1> QED BY <1>1, TypeCorrect, PTL DEF Spec, KillSwitchStopsBuying

-----------------------------------------------------------------------------
(* One first entry per market and day *)

LEMMA EntryInit == Init => EntryInv
<1> SUFFICES ASSUME Init PROVE EntryInv
  OBVIOUS
<1>1. live_orders = <<>> /\ DOMAIN live_orders = {}
  BY DEF Init
<1>2. RowsInPast
  BY <1>1 DEF RowsInPast
<1>3. \A t \in Tickers, d \in Nat : EntryLimit(live_orders, t, d)
  <2> TAKE t \in Tickers, d \in Nat
  <2>1. PlacedOn(live_orders, t, d) = {} /\ ReentriesOn(live_orders, t, d) = {}
    BY <1>1 DEF PlacedOn, TradeRows, ReentriesOn
  <2> QED BY <2>1, FS_EmptySet, LedgerAssumption DEF EntryLimit
<1>4. \A c \in Cycles : ~ Entering(cyc[c])
  BY DEF Init, Idle, Entering
<1> QED BY <1>2, <1>3, <1>4 DEF EntryInv

\* The gates leave room for the order they let through.
LEMMA GatesLeaveRoom ==
  ASSUME TypeOK, NEW c \in Cycles, NEW re \in BOOLEAN, GatesPass(c, re)
  PROVE  RoomForEntry(live_orders, utcDay, cyc'[c])
<1>1. cyc \in [Cycles -> CycleState] /\ cyc[c] \in CycleState
  BY DEF TypeOK
<1>2. cyc'[c].re = re /\ cyc'[c].ticker = cyc[c].ticker
  BY <1>1 DEF GatesPass, CycleState
<1>3. MayEnter(live_orders, cyc[c].ticker, utcDay, now, cyc[c].p, re)
  BY DEF GatesPass, LiveGates
<1>4. CASE re
  BY <1>2, <1>3, <1>4 DEF MayEnter, ReentryAllowed, RoomForEntry
<1>5. CASE ~ re
  <2>1. PlacedOn(live_orders, cyc[c].ticker, utcDay) = {}
    BY <1>3, <1>5 DEF MayEnter, FirstTouch, PlacedOn
  <2> QED BY <1>2, <1>5, <2>1 DEF RoomForEntry
<1> QED BY <1>4, <1>5

\* Recording an order that still had room keeps every limit.
LEMMA RecordKeepsLimits ==
  ASSUME TypeOK, NEW x \in CycleState, x.ticker \in Tickers, NEW s \in Statuses,
         s \in PlacedStatuses => RoomForEntry(live_orders, utcDay, x),
         NEW t \in Tickers, NEW d \in Nat, EntryLimit(live_orders, t, d)
  PROVE  EntryLimit(Append(live_orders, RowOf(x, s)), t, d)
<1> DEFINE r == RowOf(x, s)
           new == Append(live_orders, r)
           n == Len(live_orders) + 1
           placed == PlacedOn(live_orders, t, d)
           again == ReentriesOn(live_orders, t, d)
<1>1. r \in Row /\ live_orders \in Seq(Row)
  BY RowOfType DEF TypeOK
<1>2. r.ticker = x.ticker /\ r.day = utcDay /\ r.re = x.re /\ r.status = s
  BY DEF RowOf
<1>3. /\ PlacedOn(new, t, d) =
            IF r.ticker = t /\ r.day = d /\ IsPlaced(r) THEN placed \union {n} ELSE placed
      /\ ReentriesOn(new, t, d) =
            IF r.ticker = t /\ r.day = d /\ IsPlaced(r) /\ r.re
            THEN again \union {n} ELSE again
  BY <1>1, AppendPlaced, AppendReentries
<1>4. /\ IsFiniteSet(again) /\ Cardinality(again) \in Nat /\ again \subseteq placed
      /\ n \notin placed
  BY <1>1, ReentriesFinite, AppendRows
<1>5. /\ \A i, j \in placed \ again : i = j
      /\ Cardinality(again) <= MaxReentries
  BY DEF EntryLimit
<1> HIDE DEF r, new, n, placed, again
<1>6. CASE r.ticker = t /\ r.day = d /\ IsPlaced(r) /\ x.re
  <2>1. Cardinality(again) < MaxReentries
    BY <1>2, <1>6 DEF RoomForEntry, again, IsPlaced
  <2>2. Cardinality(again \union {n}) = Cardinality(again) + 1
    BY <1>4, FS_AddElement
  <2>3. (placed \union {n}) \ (again \union {n}) = placed \ again
    BY <1>4
  <2> QED BY <1>2, <1>3, <1>4, <1>5, <1>6, <2>1, <2>2, <2>3, LedgerAssumption
          DEF EntryLimit, new, r
<1>7. CASE r.ticker = t /\ r.day = d /\ IsPlaced(r) /\ ~ x.re
  <2>1. placed = {}
    BY <1>2, <1>7 DEF RoomForEntry, placed, IsPlaced
  <2>2. again = {}
    BY <1>4, <2>1
  <2> QED BY <1>2, <1>3, <1>5, <1>7, <2>1, <2>2 DEF EntryLimit, new, r
<1>8. CASE ~ (r.ticker = t /\ r.day = d /\ IsPlaced(r))
  BY <1>3, <1>5, <1>8 DEF EntryLimit, new, r
<1> QED BY <1>6, <1>7, <1>8

LEMMA EntryStep ==
  ASSUME TypeOK, EntryInv, BystandersOnlyWatch, OneTrader, NEW c \in Cycles, CycleStep(c)
  PROVE  EntryInv'
<1>1. /\ live_orders \in Seq(Row) /\ utcDay \in Nat /\ utcDay' = utcDay
      /\ cyc \in [Cycles -> CycleState] /\ cyc[c] \in CycleState
  BY StepFrame DEF TypeOK, clock
<1>2. ASSUME NEW d \in Cycles, d # c
      PROVE  /\ cyc'[d] = cyc[d]
             /\ cyc[d].mode # "DISABLED" => live_orders' = live_orders
  BY <1>2, StepFrame, Bystander DEF book
<1>3. CASE live_orders' = live_orders
  <2>1. RowsInPast' /\ \A t \in Tickers, d \in Nat : EntryLimit(live_orders', t, d)
    BY <1>1, <1>3 DEF EntryInv, RowsInPast
  <2>2. ASSUME Entering(cyc'[c]) PROVE RoomForEntry(live_orders', utcDay', cyc'[c])
    <3>1. CASE \E re \in BOOLEAN : GatesPass(c, re)
      BY <1>1, <1>3, <3>1, GatesLeaveRoom
    <3>2. CASE SubmitOrder(c)
      <4>1. /\ cyc[c].pc = "submit" /\ cyc'[c].mode = cyc[c].mode
            /\ cyc'[c].re = cyc[c].re /\ cyc'[c].ticker = cyc[c].ticker
        BY <1>1, <3>2 DEF SubmitOrder, At, Trade, CycleState
      <4>2. RoomForEntry(live_orders, utcDay, cyc[c])
        BY <2>2, <4>1 DEF EntryInv, Entering
      <4> QED BY <1>1, <1>3, <4>1, <4>2 DEF RoomForEntry
    <3> QED BY <2>2, <3>1, <3>2, StepOrder DEF Entering
  <2>3. ASSUME NEW d \in Cycles, d # c, Entering(cyc'[d])
        PROVE  RoomForEntry(live_orders', utcDay', cyc'[d])
    BY <1>1, <1>2, <1>3, <2>3 DEF EntryInv
  <2> QED BY <2>1, <2>2, <2>3 DEF EntryInv
<1>4. CASE live_orders' # live_orders
  <2>1. \E ok \in BOOLEAN : RecordOrder(c, ok) \/ RecordClose(c, ok)
    BY <1>4, StepOrder
  <2>2. /\ cyc[c].pc \in {"record", "recordClose"} /\ cyc[c].ticker \in Tickers
    BY <2>1 DEF RecordOrder, RecordClose, At, TypeOK
  <2> DEFINE s == IF cyc[c].pc = "record" THEN OrderStatus(cyc[c]) ELSE CloseStatus(cyc[c])
  <2>3. live_orders' = Append(live_orders, RowOf(cyc[c], s))
    BY <1>4, <2>1 DEF RecordOrder, RecordClose, At, SaveRow
  <2>4. s \in Statuses
    BY OrderStatusType
  <2>5. s \in PlacedStatuses => RoomForEntry(live_orders, utcDay, cyc[c])
    <3> SUFFICES ASSUME s \in PlacedStatuses PROVE Entering(cyc[c])
      BY DEF EntryInv
    <3> QED BY <2>2 DEF OrderStatus, CloseStatus, PlacedStatuses, Entering
  <2> HIDE DEF s
  <2>6. \A t \in Tickers, d \in Nat : EntryLimit(live_orders', t, d)
    BY <1>1, <2>2, <2>3, <2>4, <2>5, RecordKeepsLimits DEF EntryInv
  <2>7. RowsInPast'
    <3>1. RowOf(cyc[c], s) \in Row /\ RowOf(cyc[c], s).day = utcDay
      BY <1>1, <2>2, <2>4, RowOfType DEF RowOf
    <3>2. /\ DOMAIN live_orders' = DOMAIN live_orders \union {Len(live_orders) + 1}
          /\ live_orders'[Len(live_orders) + 1] = RowOf(cyc[c], s)
          /\ \A i \in DOMAIN live_orders : live_orders'[i] = live_orders[i]
      BY <1>1, <2>3, <3>1, AppendRows
    <3> QED BY <1>1, <3>1, <3>2 DEF EntryInv, RowsInPast
  <2>8. ~ Entering(cyc'[c])
    BY <2>2, StepOrder DEF Entering, GatesPass, SubmitOrder, At
  <2>9. ASSUME NEW d \in Cycles, d # c PROVE ~ Entering(cyc'[d])
    BY <1>2, <1>4, <2>9 DEF Entering
  <2> QED BY <2>6, <2>7, <2>8, <2>9 DEF EntryInv
<1> QED BY <1>3, <1>4

LEMMA RowDays == TypeOK => \A i \in DOMAIN live_orders : live_orders[i].day \in Nat
<1> SUFFICES ASSUME TypeOK, NEW i \in DOMAIN live_orders PROVE live_orders[i].day \in Nat
  OBVIOUS
<1>1. live_orders \in Seq(Row)
  BY DEF TypeOK
<1>2. live_orders[i] \in Row
  BY <1>1
<1> QED BY <1>2 DEF Row

\* A new day has no rows yet, so an order checked before midnight has room.
LEMMA EntryTick ==
  ASSUME TypeOK, EntryInv, Tick
  PROVE  EntryInv'
<1>1. /\ live_orders' = live_orders /\ cyc' = cyc /\ utcDay \in Nat
      /\ utcDay' \in Nat /\ (utcDay' = utcDay \/ utcDay' > utcDay)
      /\ live_orders \in Seq(Row) /\ cyc \in [Cycles -> CycleState]
  BY DEF Tick, TypeOK, book
<1>2. RowsInPast'
  <2>1. \A i \in DOMAIN live_orders : live_orders[i].day \in Nat /\ live_orders[i].day <= utcDay
    BY RowDays DEF EntryInv, RowsInPast
  <2>2. \A d \in Nat : d <= utcDay => d <= utcDay'
    BY <1>1
  <2> QED BY <1>1, <2>1, <2>2 DEF RowsInPast
<1>3. ASSUME NEW c \in Cycles, Entering(cyc[c]), utcDay' > utcDay
      PROVE  RoomForEntry(live_orders, utcDay', cyc[c])
  <2> DEFINE t == cyc[c].ticker
  <2>1. PlacedOn(live_orders, t, utcDay') = {}
    <3>1. \A i \in DOMAIN live_orders : live_orders[i].day \in Nat /\ live_orders[i].day <= utcDay
      BY RowDays DEF EntryInv, RowsInPast
    <3>2. \A d \in Nat : d <= utcDay => d # utcDay'
      BY <1>1, <1>3
    <3> QED BY <3>1, <3>2 DEF PlacedOn, TradeRows
  <2>2. ReentriesOn(live_orders, t, utcDay') = {}
    BY <2>1 DEF ReentriesOn
  <2>3. RoomForEntry(live_orders, utcDay, cyc[c])
    BY <1>3 DEF EntryInv
  <2>4. CASE cyc[c].re
    <3>1. /\ Cardinality(ReentriesOn(live_orders, t, utcDay)) < MaxReentries
          /\ Cardinality(ReentriesOn(live_orders, t, utcDay)) \in Nat
      BY <1>1, <2>3, <2>4, ReentriesFinite DEF RoomForEntry
    <3>2. 0 < MaxReentries
      BY <3>1, LedgerAssumption
    <3> QED BY <2>2, <2>4, <3>2, FS_EmptySet DEF RoomForEntry
  <2>5. CASE ~ cyc[c].re
    BY <2>1, <2>5 DEF RoomForEntry
  <2> QED BY <2>4, <2>5
<1> QED BY <1>1, <1>2, <1>3 DEF EntryInv

LEMMA EntryNext == TypeOK /\ EntryInv /\ BystandersOnlyWatch /\ OneTrader /\ [Next]_vars => EntryInv'
<1> SUFFICES ASSUME TypeOK, EntryInv, BystandersOnlyWatch, OneTrader, [Next]_vars PROVE EntryInv'
  OBVIOUS
<1>1. CASE \E c \in Cycles : CycleStep(c)
  BY <1>1, EntryStep
<1>2. CASE Tick
  BY <1>2, EntryTick
<1>3. CASE SetKillSwitch \/ UNCHANGED vars
  BY <1>3 DEF SetKillSwitch, vars, clock, book, EntryInv, RowsInPast
<1> QED BY <1>1, <1>2, <1>3 DEF Next

LEMMA EntryInvImplies == TypeOK /\ EntryInv => EntriesPerDay
<1> SUFFICES ASSUME TypeOK, EntryInv PROVE EntriesPerDay
  OBVIOUS
<1>1. {live_orders[i].day : i \in DOMAIN live_orders} \subseteq Nat
  BY RowDays
<1> QED BY <1>1 DEF EntryInv, EntryLimit, EntriesPerDay

\* When one process trades and others only watch, a market gets one first
\* entry per UTC day and no more re-entries than the budget, whatever rows are
\* lost, wherever the cycle dies and wherever midnight falls.
THEOREM EntriesPerDayHold == OneTrader => (Spec => []EntriesPerDay)
<1> SUFFICES ASSUME OneTrader PROVE Spec => []EntriesPerDay
  OBVIOUS
<1>1. Init => EntryInv
  BY EntryInit
<1>2. TypeOK /\ BystandersOnlyWatch /\ EntryInv /\ [Next]_vars => EntryInv'
  BY EntryNext
<1>3. TypeOK /\ EntryInv => EntriesPerDay
  BY EntryInvImplies
<1> QED BY <1>1, <1>2, <1>3, TypeCorrect, WatchHolds, PTL DEF Spec

-----------------------------------------------------------------------------
(* An answered close is final *)

\* Recording an attempt to close a market that has no close keeps closes final.
LEMMA RecordKeepsClosedOnce ==
  ASSUME live_orders \in Seq(Row), ClosedOnce, NEW r \in Row,
         IsCloseAttempt(r) => ~ EverClosed(live_orders, r.ticker),
         live_orders' = Append(live_orders, r)
  PROVE  ClosedOnce'
<1> DEFINE n == Len(live_orders) + 1
<1>1. /\ DOMAIN live_orders' = DOMAIN live_orders \union {n}
      /\ live_orders'[n] = r
      /\ \A i \in DOMAIN live_orders : live_orders'[i] = live_orders[i]
      /\ \A i \in DOMAIN live_orders : i < n
  BY AppendRows
<1> HIDE DEF n
<1>2. \A i \in DOMAIN live_orders :
        ~ (IsCloseAttempt(r) /\ IsClosed(live_orders[i]) /\ live_orders[i].ticker = r.ticker)
  BY DEF EverClosed
<1>3. ASSUME NEW i \in DOMAIN live_orders', NEW j \in DOMAIN live_orders',
             IsClosed(live_orders'[i]), live_orders'[i].ticker = live_orders'[j].ticker,
             i < j
      PROVE  ~ IsCloseAttempt(live_orders'[j])
  <2>0. n \in Nat /\ DOMAIN live_orders \subseteq Nat
    BY DEF n
  <2>1. i \in DOMAIN live_orders
    BY <1>1, <1>3, <2>0
  <2>2. CASE j = n
    BY <1>1, <1>2, <1>3, <2>1, <2>2
  <2>3. CASE j \in DOMAIN live_orders
    BY <1>1, <1>3, <2>1, <2>3 DEF ClosedOnce
  <2> QED BY <1>1, <2>2, <2>3
<1> QED BY <1>3 DEF ClosedOnce

LEMMA CloseStep ==
  ASSUME TypeOK, CloseInv, BystandersOnlyWatch, OneTrader, "closed" \notin FaultyReads,
         NEW c \in Cycles, CycleStep(c)
  PROVE  CloseInv'
<1>1. /\ live_orders \in Seq(Row)
      /\ cyc \in [Cycles -> CycleState] /\ cyc[c] \in CycleState
  BY DEF TypeOK
<1>2. ASSUME NEW d \in Cycles, d # c
      PROVE  /\ cyc'[d] = cyc[d]
             /\ cyc[d].mode # "DISABLED" => live_orders' = live_orders
  BY <1>2, StepFrame, Bystander DEF book
<1>3. CASE live_orders' = live_orders
  <2>1. ClosedOnce'
    BY <1>3 DEF CloseInv, ClosedOnce
  <2>2. ASSUME Closing(cyc'[c]) PROVE ~ EverClosed(live_orders, cyc'[c].ticker)
    <3>1. CASE \E t \in Tickers, p \in ExitPs : EvaluateExit(c, t, p)
      <4> PICK t \in Tickers, p \in ExitPs : EvaluateExit(c, t, p)
        BY <3>1
      <4>1. cyc'[c].ticker = t
        BY <1>1 DEF EvaluateExit, ToSell, CycleState
      <4> QED BY <4>1 DEF EvaluateExit
    <3>2. CASE SubmitClose(c)
      <4>1. /\ cyc[c].pc = "sell" /\ cyc'[c].mode = cyc[c].mode
            /\ cyc'[c].ticker = cyc[c].ticker
        BY <1>1, <3>2 DEF SubmitClose, At, Trade, CycleState
      <4> QED BY <2>2, <4>1 DEF CloseInv, Closing
    <3> QED BY <2>2, <3>1, <3>2, StepOrder DEF Closing
  <2>3. ASSUME NEW d \in Cycles, d # c, Closing(cyc'[d])
        PROVE  ~ EverClosed(live_orders, cyc'[d].ticker)
    BY <1>2, <2>3 DEF CloseInv
  <2> QED BY <1>3, <2>1, <2>2, <2>3 DEF CloseInv
<1>4. CASE live_orders' # live_orders
  <2>1. \E ok \in BOOLEAN : RecordOrder(c, ok) \/ RecordClose(c, ok)
    BY <1>4, StepOrder
  <2>2. cyc[c].pc \in {"record", "recordClose"} /\ cyc[c].ticker \in Tickers
    BY <2>1 DEF RecordOrder, RecordClose, At, TypeOK
  <2> DEFINE s == IF cyc[c].pc = "record" THEN OrderStatus(cyc[c]) ELSE CloseStatus(cyc[c])
             r == RowOf(cyc[c], s)
  <2>3. live_orders' = Append(live_orders, r)
    BY <1>4, <2>1 DEF RecordOrder, RecordClose, At, SaveRow
  <2>4. r.ticker = cyc[c].ticker /\ r.status = s
    BY DEF RowOf
  <2>5. s \in Statuses
    BY OrderStatusType
  <2>6. s \in ClosedStatuses \union {"CLOSE_ERROR"} => Closing(cyc[c])
    BY <2>2 DEF OrderStatus, CloseStatus, ClosedStatuses, Closing
  <2> HIDE DEF s
  <2>7. r \in Row
    BY <1>1, <2>2, <2>5, RowOfType
  <2> HIDE DEF r
  <2>8. IsCloseAttempt(r) => ~ EverClosed(live_orders, r.ticker)
    BY <2>4, <2>6 DEF IsCloseAttempt, IsClosed, CloseInv
  <2>9. ClosedOnce'
    BY <1>1, <2>3, <2>7, <2>8, RecordKeepsClosedOnce DEF CloseInv
  <2>10. ~ Closing(cyc'[c])
    <3>1. ~ SubmitClose(c)
      BY <2>2 DEF SubmitClose, At
    <3>2. \A t \in Tickers, p \in ExitPs : ~ EvaluateExit(c, t, p)
      BY <2>2 DEF EvaluateExit, At
    <3> QED BY <3>1, <3>2, StepOrder DEF Closing
  <2>11. ASSUME NEW d \in Cycles, d # c PROVE ~ Closing(cyc'[d])
    BY <1>2, <1>4, <2>11 DEF Closing
  <2> QED BY <2>9, <2>10, <2>11 DEF CloseInv
<1> QED BY <1>3, <1>4

LEMMA CloseNext ==
  ASSUME TypeOK, CloseInv, BystandersOnlyWatch, OneTrader, "closed" \notin FaultyReads, [Next]_vars
  PROVE  CloseInv'
<1>1. CASE \E c \in Cycles : CycleStep(c)
  BY <1>1, CloseStep
<1>2. CASE Tick \/ SetKillSwitch \/ UNCHANGED vars
  <2>1. live_orders' = live_orders /\ cyc' = cyc
    BY <1>2 DEF Tick, SetKillSwitch, vars, book
  <2> QED BY <2>1 DEF CloseInv, ClosedOnce
<1> QED BY <1>1, <1>2 DEF Next

\* When one process trades and others only watch, and the "already closed"
\* query can be read, the ledger has no other attempt to close a market after
\* an answered one, also when the shadow book could not be told of it.
THEOREM ClosedOnceHolds ==
  OneTrader /\ "closed" \notin FaultyReads => (Spec => []ClosedOnce)
<1> SUFFICES ASSUME OneTrader, "closed" \notin FaultyReads PROVE Spec => []ClosedOnce
  OBVIOUS
<1>1. Init => CloseInv
  BY DEF Init, CloseInv, ClosedOnce, Closing, Idle
<1>2. TypeOK /\ BystandersOnlyWatch /\ CloseInv /\ [Next]_vars => CloseInv'
  BY CloseNext
<1>3. CloseInv => ClosedOnce
  BY DEF CloseInv
<1> QED BY <1>1, <1>2, <1>3, TypeCorrect, WatchHolds, PTL DEF Spec

-----------------------------------------------------------------------------
(* What is bought is managed *)

\* A row that is saved makes its market owned only as an entry, and makes it
\* not owned as a close, also when the save fails.
LEMMA OwnedAfterSave ==
  ASSUME TypeOK, NEW r \in Row, NEW ok \in BOOLEAN, SaveRow(r, ok), NEW t
  PROVE  /\ Owned(t)' => Owned(t) \/ (r.ticker = t /\ IsPlaced(r))
         /\ IsClosed(r) => ~ Owned(r.ticker)'
<1>1. live_orders \in Seq(Row)
  BY DEF TypeOK
<1>2. CASE ok
  <2>1. live_orders' = Append(live_orders, r) /\ warned' = warned
    BY <1>2 DEF SaveRow
  <2>2. \A u : EverClosed(live_orders', u) <=>
                 EverClosed(live_orders, u) \/ (r.ticker = u /\ IsClosed(r))
    BY <1>1, <2>1, AppendClosed
  <2>3. PlacedEver(live_orders', t) # {} <=>
          PlacedEver(live_orders, t) # {} \/ (r.ticker = t /\ IsPlaced(r))
    BY <1>1, <2>1, AppendPlacedEver
  <2> QED BY <2>1, <2>2, <2>3 DEF Owned
<1>3. CASE ~ ok
  BY <1>3 DEF SaveRow, Owned
<1> QED BY <1>2, <1>3

LEMMA OwnedFrame ==
  ASSUME UNCHANGED book, NEW t
  PROVE  Owned(t)' <=> Owned(t)
  BY DEF book, Owned

\* The steps that leave ledger and shadow positions alone keep TrackInv if
\* they leave the cycle where it still holds of it.
LEMMA TrackFrame ==
  ASSUME TypeOK, TrackInv, NEW c \in Cycles,
         UNCHANGED book, UNCHANGED shadow_positions,
         \/ cyc'[c].pc \notin {"savePosition", "gates", "submit", "record", "rollbackFill",
                              "rollbackPosition", "dropShadow"}
         \/ /\ cyc'[c].pc = "savePosition"
            /\ cyc'[c].ticker \in Tickers \ shadow_positions
         \/ /\ cyc'[c].ticker = cyc[c].ticker /\ cyc'[c].mode = cyc[c].mode
            /\ \/ /\ cyc[c].pc = "gates" /\ cyc'[c].pc \in {"submit", "record", "rollbackFill"}
               \/ /\ cyc[c].pc = "submit" /\ cyc'[c].pc = "record"
               \/ /\ cyc[c].pc = "rollbackFill" /\ cyc'[c].pc = "rollbackPosition"
  PROVE  BoughtIsTracked' /\ Tracked(c)'
<1>2. \A t : Owned(t)' <=> Owned(t)
  BY OwnedFrame
<1>3. BoughtIsTracked'
  BY <1>2 DEF TrackInv, BoughtIsTracked
<1>4. ASSUME cyc'[c].ticker \in Tickers \ shadow_positions
      PROVE  ~ Owned(cyc'[c].ticker)
  BY <1>4 DEF TrackInv, BoughtIsTracked
<1> QED BY <1>2, <1>3, <1>4 DEF TrackInv, Tracked

LEMMA TrackStep ==
  ASSUME TypeOK, TrackInv, BystandersOnlyWatch, OneTrader, NEW c \in Cycles, CycleStep(c)
  PROVE  TrackInv'
<1>1. cyc \in [Cycles -> CycleState] /\ cyc[c] \in CycleState
  BY DEF TypeOK
<1>2. Between(cyc[c]).pc = "market" /\ Idle.pc = "idle"
  BY <1>1, BetweenType, IdleType
<1>3. ASSUME Finish(c) PROVE cyc'[c].pc = "market"
  BY <1>1, <1>2, <1>3 DEF Finish
<1>4. ASSUME NEW pc, Goto(c, pc)
      PROVE  cyc'[c].pc = pc /\ cyc'[c].ticker = cyc[c].ticker /\ cyc'[c].mode = cyc[c].mode
  BY <1>1, <1>4 DEF Goto, CycleState
\* What the invariant says of another cycle stays true.
<1>5. ASSUME NEW d \in Cycles, d # c PROVE Tracked(d)'
  <2>1. cyc'[d] = cyc[d]
    BY <1>5, StepFrame
  <2>2. CASE cyc[d].mode # "DISABLED"
    <3>1. UNCHANGED book /\ shadow_positions \subseteq shadow_positions'
      BY <1>5, <2>2, Bystander
    <3>2. \A t : Owned(t)' <=> Owned(t)
      BY <3>1, OwnedFrame
    <3> QED BY <2>1, <3>1, <3>2 DEF TrackInv, Tracked
  <2>3. CASE cyc[d].mode = "DISABLED"
    BY <2>1, <2>3 DEF Tracked
  <2> QED BY <2>2, <2>3
<1>6. SUFFICES BoughtIsTracked' /\ Tracked(c)'
  BY <1>5 DEF TrackInv
<1>7. cyc[c].pc \notin {"idle", "market", "savePosition", "gates"} => cyc[c].mode # "DISABLED"
  BY DEF BystandersOnlyWatch
<1>a. CASE \/ \E m \in Modes[c] : StartCycle(c, m)
           \/ \E t \in Tickers : SkipMarket(c, t)
           \/ EndCycle(c) \/ Crash(c)
  <2>1. cyc'[c].pc \in {"market", "idle"}
    <3>1. CASE \E m \in Modes[c] : StartCycle(c, m)
      BY <1>1, <3>1 DEF StartCycle, Idle
    <3>2. CASE \E t \in Tickers : SkipMarket(c, t)
      BY <1>1, <3>2 DEF SkipMarket, At, CycleState
    <3>3. CASE EndCycle(c) \/ Crash(c)
      BY <1>1, <1>2, <3>3 DEF EndCycle, Crash
    <3> QED BY <1>a, <3>1, <3>2, <3>3
  <2> QED BY <1>a, <2>1, TrackFrame DEF StartCycle, SkipMarket, EndCycle, Crash, shadow
<1>b. CASE \E t \in Tickers, p \in ExitPs : EvaluateExit(c, t, p)
  <2>1. cyc'[c].pc \in {"sell", "recordClose"}
    BY <1>1, <1>b DEF EvaluateExit, ToSell, CycleState
  <2> QED BY <1>b, <2>1, TrackFrame DEF EvaluateExit, shadow
<1>d. CASE \E t \in Tickers, sig \in Signals : EvaluateEntry(c, t, sig)
  <2> PICK t \in Tickers, sig \in Signals : EvaluateEntry(c, t, sig)
    BY <1>d
  <2>1. cyc'[c].pc = "savePosition" /\ cyc'[c].ticker = t
    BY <1>1 DEF EvaluateEntry, ToBuy, CycleState
  <2> QED BY <2>1, TrackFrame DEF EvaluateEntry, ShadowGates
<1>e. CASE \E ok \in BOOLEAN : SavePosition(c, ok)
  <2> PICK ok \in BOOLEAN : SavePosition(c, ok)
    BY <1>e
  <2>1. \A t : Owned(t)' <=> Owned(t)
    BY OwnedFrame DEF SavePosition
  <2>2. /\ cyc[c].pc = "savePosition"
        /\ cyc[c].mode # "DISABLED" => ~ Owned(cyc[c].ticker)
    BY DEF SavePosition, At, TrackInv, Tracked
  <2>3. CASE ok
    <3>1. /\ shadow_positions' = shadow_positions \union {cyc[c].ticker}
          /\ cyc'[c].pc = "gates" /\ cyc'[c].ticker = cyc[c].ticker
          /\ cyc'[c].mode = cyc[c].mode
      BY <1>4, <2>3 DEF SavePosition
    <3> QED BY <1>1, <2>1, <2>2, <3>1 DEF TrackInv, Tracked, BoughtIsTracked
  <2>4. CASE ~ ok
    <3>1. shadow_positions' = shadow_positions /\ cyc'[c].pc = "market"
      BY <1>3, <2>4 DEF SavePosition
    <3> QED BY <1>1, <2>1, <3>1 DEF TrackInv, Tracked, BoughtIsTracked
  <2> QED BY <2>3, <2>4
<1>f. CASE GatesAbandoned(c)
  BY <1>3, <1>f, TrackFrame DEF GatesAbandoned, shadow
<1>g. CASE \E re \in BOOLEAN : GatesPass(c, re)
  <2>1. /\ cyc[c].pc = "gates" /\ cyc'[c].pc \in {"submit", "record"}
        /\ cyc'[c].ticker = cyc[c].ticker /\ cyc'[c].mode = cyc[c].mode
    BY <1>1, <1>g DEF GatesPass, At, CycleState
  <2> QED BY <1>g, <2>1, TrackFrame DEF GatesPass, shadow
<1>h. CASE GatesBlock(c)
  BY <1>4, <1>h, TrackFrame DEF GatesBlock, At, shadow
<1>i. CASE SubmitOrder(c)
  <2>1. /\ cyc[c].pc = "submit" /\ cyc'[c].pc = "record"
        /\ cyc'[c].ticker = cyc[c].ticker /\ cyc'[c].mode = cyc[c].mode
    BY <1>1, <1>i DEF SubmitOrder, Trade, At, CycleState
  <2> QED BY <1>i, <2>1, TrackFrame DEF SubmitOrder, Trade, shadow
<1>j. CASE SubmitClose(c)
  <2>1. cyc'[c].pc = "recordClose"
    BY <1>1, <1>j DEF SubmitClose, Trade, CycleState
  <2> QED BY <1>j, <2>1, TrackFrame DEF SubmitClose, Trade, shadow
<1>k. CASE \E ok \in BOOLEAN : RecordOrder(c, ok)
  <2> PICK ok \in BOOLEAN : RecordOrder(c, ok)
    BY <1>k
  <2> DEFINE x == cyc[c]
             r == RowOf(x, OrderStatus(x))
  <2>1. /\ x.pc = "record" /\ x.ticker \in Tickers /\ ~ Owned(x.ticker)
        /\ x.ticker \in shadow_positions /\ shadow_positions' = shadow_positions
    BY <1>7 DEF RecordOrder, At, TrackInv, Tracked, TypeOK, shadow
  <2>2. r \in Row /\ r.ticker = x.ticker /\ r.status = OrderStatus(x)
    BY <1>1, <2>1, RowOfType, OrderStatusType DEF RowOf
  <2>3. SaveRow(r, ok)
    BY DEF RecordOrder
  <2> HIDE DEF r
  <2>4. \A t : Owned(t)' => Owned(t) \/ (x.ticker = t /\ IsPlaced(r))
    BY <2>2, <2>3, OwnedAfterSave
  <2>5. BoughtIsTracked'
    BY <2>1, <2>4 DEF TrackInv, Tracked, BoughtIsTracked
  <2>6. CASE x.mode = "LIVE" /\ Failed(x)
    <3>1. ~ IsPlaced(r)
      BY <2>2, <2>6 DEF IsPlaced, OrderStatus, PlacedStatuses
    <3>2. cyc'[c].pc = "rollbackFill" /\ cyc'[c].ticker = x.ticker
      BY <1>4, <2>6 DEF RecordOrder
    <3> QED BY <1>1, <2>1, <2>4, <2>5, <3>1, <3>2 DEF TrackInv, Tracked
  <2>7. CASE ~ (x.mode = "LIVE" /\ Failed(x))
    <3>1. cyc'[c].pc = "market"
      BY <1>3, <2>7 DEF RecordOrder
    <3> QED BY <1>1, <2>5, <3>1 DEF TrackInv, Tracked
  <2> QED BY <2>6, <2>7
<1>l. CASE \E ok \in BOOLEAN : RecordClose(c, ok)
  <2> PICK ok \in BOOLEAN : RecordClose(c, ok)
    BY <1>l
  <2> DEFINE x == cyc[c]
             r == RowOf(x, CloseStatus(x))
  <2>1. x.pc = "recordClose" /\ x.ticker \in Tickers /\ shadow_positions' = shadow_positions
    BY DEF RecordClose, At, TypeOK, shadow
  <2>2. /\ r \in Row /\ r.ticker = x.ticker /\ r.status = CloseStatus(x)
        /\ ~ IsPlaced(r)
    BY <1>1, <2>1, RowOfType, OrderStatusType
       DEF RowOf, IsPlaced, CloseStatus, PlacedStatuses
  <2>3. SaveRow(r, ok)
    BY DEF RecordClose
  <2> HIDE DEF r
  <2>4. \A t : Owned(t)' => Owned(t)
    BY <2>2, <2>3, OwnedAfterSave
  <2>8. \A t : t = x.ticker /\ IsClosed(r) => ~ Owned(t)'
    BY <2>2, <2>3, OwnedAfterSave
  <2>5. BoughtIsTracked'
    BY <2>1, <2>4 DEF TrackInv, Tracked, BoughtIsTracked
  <2>6. CASE x.mode = "LIVE" /\ ~ Failed(x)
    <3>1. IsClosed(r)
      BY <2>2, <2>6 DEF IsClosed, CloseStatus, ClosedStatuses
    <3>2. cyc'[c].pc = "dropShadow" /\ cyc'[c].ticker = x.ticker
      BY <1>4, <2>6 DEF RecordClose
    <3> QED BY <1>1, <2>8, <2>5, <3>1, <3>2 DEF TrackInv, Tracked
  <2>7. CASE ~ (x.mode = "LIVE" /\ ~ Failed(x))
    <3>1. cyc'[c].pc = "market"
      BY <1>3, <2>7 DEF RecordClose
    <3> QED BY <1>1, <2>5, <3>1 DEF TrackInv, Tracked
  <2> QED BY <2>6, <2>7
<1>m. CASE \E ok \in BOOLEAN : RollbackFill(c, ok)
  <2> PICK ok \in BOOLEAN : RollbackFill(c, ok)
    BY <1>m
  <2>1. /\ cyc[c].pc = "rollbackFill"
        /\ cyc'[c].pc \in {"market", "rollbackPosition"}
        /\ cyc'[c].pc = "rollbackPosition" =>
             cyc'[c].ticker = cyc[c].ticker /\ cyc'[c].mode = cyc[c].mode
    BY <1>3, <1>4 DEF RollbackFill, At
  <2> QED BY <2>1, TrackFrame DEF RollbackFill
<1>n. CASE \E ok \in BOOLEAN : RollbackPosition(c, ok) \/ DropShadow(c, ok)
  <2> PICK ok \in BOOLEAN : RollbackPosition(c, ok) \/ DropShadow(c, ok)
    BY <1>n
  <2>1. /\ ~ Owned(cyc[c].ticker)
        /\ shadow_positions \ {cyc[c].ticker} \subseteq shadow_positions'
        /\ UNCHANGED book /\ Finish(c)
    BY <1>7 DEF RollbackPosition, DropShadow, DeletePosition, At, TrackInv, Tracked
  <2>2. cyc'[c].pc = "market"
    BY <1>3, <2>1
  <2>3. \A t : Owned(t)' <=> Owned(t)
    BY <2>1, OwnedFrame
  <2> QED BY <1>1, <2>1, <2>2, <2>3 DEF TrackInv, Tracked, BoughtIsTracked
<1> QED
  BY <1>a, <1>b, <1>d, <1>e, <1>f, <1>g, <1>h, <1>i, <1>j, <1>k, <1>l, <1>m, <1>n
  DEF CycleStep

LEMMA TrackNext ==
  ASSUME TypeOK, TrackInv, BystandersOnlyWatch, OneTrader, [Next]_vars
  PROVE  TrackInv'
<1>1. CASE \E c \in Cycles : CycleStep(c)
  BY <1>1, TrackStep
<1>2. CASE Tick \/ SetKillSwitch \/ UNCHANGED vars
  <2>1. UNCHANGED book /\ shadow_positions' = shadow_positions /\ cyc' = cyc
    BY <1>2 DEF Tick, SetKillSwitch, vars, book, shadow
  <2>2. \A t : Owned(t)' <=> Owned(t)
    BY <2>1, OwnedFrame
  <2> QED BY <2>1, <2>2 DEF TrackInv, Tracked, BoughtIsTracked
<1> QED BY <1>1, <1>2 DEF Next

\* When one process trades and others only watch, whatever the ledger says is
\* bought and not closed stays in the shadow book, wherever a cycle dies,
\* whichever save fails and whatever is rolled back.
THEOREM BoughtStaysTracked == OneTrader => (Spec => []BoughtIsTracked)
<1> SUFFICES ASSUME OneTrader PROVE Spec => []BoughtIsTracked
  OBVIOUS
<1>1. Init => TrackInv
  BY DEF Init, TrackInv, Tracked, BoughtIsTracked, Owned, PlacedEver, Idle
<1>2. TypeOK /\ BystandersOnlyWatch /\ TrackInv /\ [Next]_vars => TrackInv'
  BY TrackNext
<1>3. TrackInv => BoughtIsTracked
  BY DEF TrackInv
<1> QED BY <1>1, <1>2, <1>3, TypeCorrect, WatchHolds, PTL DEF Spec

-----------------------------------------------------------------------------
(* The city's cap *)

\* Only the save of a position adds one, and only an entry that passed the
\* shadow gates comes to it.
LEMMA StepShadow ==
  ASSUME TypeOK, NEW c \in Cycles, CycleStep(c)
  PROVE  /\ shadow_positions' \subseteq shadow_positions \/ SavePosition(c, TRUE)
         /\ cyc'[c].pc = "savePosition" =>
              /\ shadow_positions' = shadow_positions
              /\ Cardinality(OthersOpen(shadow_positions, cyc'[c].ticker)) < MaxPerCityDay
<1> USE DEF shadow
<1>1. cyc \in [Cycles -> CycleState] /\ cyc[c] \in CycleState
  BY DEF TypeOK
<1>2. Between(cyc[c]).pc = "market" /\ Idle.pc = "idle"
  BY <1>1, BetweenType, IdleType
<1>3. ASSUME Finish(c) PROVE cyc'[c].pc = "market"
  BY <1>1, <1>2, <1>3 DEF Finish
<1>4. ASSUME NEW pc, Goto(c, pc) PROVE cyc'[c].pc = pc
  BY <1>1, <1>4 DEF Goto, CycleState
<1>a. CASE \E m \in Modes[c] : StartCycle(c, m)
  <2>1. cyc'[c].pc = "market"
    BY <1>1, <1>a DEF StartCycle, Idle
  <2> QED BY <2>1, <1>a DEF StartCycle
<1>b. CASE \E t \in Tickers : SkipMarket(c, t)
  <2>1. cyc'[c].pc = "market"
    BY <1>1, <1>b DEF SkipMarket, At, CycleState
  <2> QED BY <2>1, <1>b DEF SkipMarket
<1>c. CASE \E t \in Tickers, p \in ExitPs : EvaluateExit(c, t, p)
  <2>1. cyc'[c].pc \in {"sell", "recordClose"}
    BY <1>1, <1>c DEF EvaluateExit, ToSell, CycleState
  <2> QED BY <2>1, <1>c DEF EvaluateExit
<1>d. CASE \E t \in Tickers, sig \in Signals : EvaluateEntry(c, t, sig)
  <2> PICK t \in Tickers, sig \in Signals : EvaluateEntry(c, t, sig)
    BY <1>d
  <2>1. cyc'[c].ticker = t
    BY <1>1 DEF EvaluateEntry, ToBuy, CycleState
  <2> QED BY <2>1 DEF EvaluateEntry, ShadowGates
<1>e. CASE \E ok \in BOOLEAN : SavePosition(c, ok)
  <2> PICK ok \in BOOLEAN : SavePosition(c, ok)
    BY <1>e
  <2>1. cyc'[c].pc # "savePosition"
    BY <1>3, <1>4 DEF SavePosition
  <2>2. ok = TRUE \/ shadow_positions' = shadow_positions
    BY DEF SavePosition
  <2> QED BY <2>1, <2>2
<1>f. CASE GatesAbandoned(c)
  BY <1>3, <1>f DEF GatesAbandoned
<1>g. CASE \E re \in BOOLEAN : GatesPass(c, re)
  <2>1. cyc'[c].pc \in {"submit", "record"}
    BY <1>1, <1>g DEF GatesPass, CycleState
  <2> QED BY <2>1, <1>g DEF GatesPass
<1>h. CASE GatesBlock(c)
  BY <1>4, <1>h DEF GatesBlock
<1>i. CASE SubmitOrder(c) \/ SubmitClose(c)
  <2>1. cyc'[c].pc \in {"record", "recordClose"}
    <3>1. CASE SubmitOrder(c)
      BY <1>1, <3>1 DEF SubmitOrder, Trade, CycleState
    <3>2. CASE SubmitClose(c)
      BY <1>1, <3>2 DEF SubmitClose, Trade, CycleState
    <3> QED BY <1>i, <3>1, <3>2
  <2> QED BY <2>1, <1>i DEF SubmitOrder, SubmitClose, Trade
<1>j. CASE \E ok \in BOOLEAN : RecordOrder(c, ok) \/ RecordClose(c, ok)
  <2>1. cyc'[c].pc \in {"rollbackFill", "dropShadow", "market"}
    BY <1>3, <1>4, <1>j DEF RecordOrder, RecordClose
  <2> QED BY <2>1, <1>j DEF RecordOrder, RecordClose
<1>k. CASE \E ok \in BOOLEAN : RollbackFill(c, ok)
  <2>1. cyc'[c].pc \in {"rollbackPosition", "market"}
    BY <1>3, <1>4, <1>k DEF RollbackFill
  <2> QED BY <2>1, <1>k DEF RollbackFill
<1>l. CASE \E ok \in BOOLEAN : RollbackPosition(c, ok) \/ DropShadow(c, ok)
  <2> PICK ok \in BOOLEAN : DeletePosition(c, ok)
    BY <1>l DEF RollbackPosition, DropShadow
  <2>1. cyc'[c].pc = "market"
    BY <1>3 DEF DeletePosition
  <2> QED BY <2>1 DEF DeletePosition
<1>m. CASE EndCycle(c) \/ Crash(c)
  <2>1. cyc'[c].pc = "idle"
    BY <1>1, <1>2, <1>m DEF EndCycle, Crash
  <2> QED BY <2>1, <1>m DEF EndCycle, Crash
<1> QED
  BY <1>a, <1>b, <1>c, <1>d, <1>e, <1>f, <1>g, <1>h, <1>i, <1>j, <1>k, <1>l, <1>m
  DEF CycleStep

\* The positions of one city and date, of a finite set of positions.
SameDay(S, t) == {u \in S : SameCityDate(t, u)}

LEMMA SameDayFinite ==
  ASSUME NEW S, IsFiniteSet(S), NEW T, T \subseteq S, NEW t
  PROVE  /\ IsFiniteSet(T)
         /\ Cardinality(SameDay(T, t)) \in Nat /\ Cardinality(SameDay(S, t)) \in Nat
         /\ Cardinality(SameDay(T, t)) <= Cardinality(SameDay(S, t))
<1>1. SameDay(S, t) \in SUBSET S /\ SameDay(T, t) \in SUBSET SameDay(S, t)
  BY DEF SameDay
<1>2. IsFiniteSet(T) /\ IsFiniteSet(SameDay(S, t))
  BY <1>1, FS_Subset
<1>3. /\ IsFiniteSet(SameDay(T, t))
      /\ Cardinality(SameDay(T, t)) <= Cardinality(SameDay(S, t))
  BY <1>1, <1>2, FS_Subset
<1> QED BY <1>2, <1>3, FS_CardinalityType

\* The cycles that have counted are some of the cycles.
LEMMA CountedFinite ==
  ASSUME NEW t
  PROVE  /\ IsFiniteSet(Counted(t)) /\ Cardinality(Counted(t)) \in Nat
         /\ Cardinality(Counted(t)) <= Cardinality(Cycles)
         /\ Cardinality(Cycles) \in Nat /\ Cardinality(Cycles) >= 1
<1>1. Counted(t) \in SUBSET Cycles
  BY DEF Counted
<1>2. IsFiniteSet(Cycles) /\ Cycles # {}
  BY CycleAssumption
<1>3. IsFiniteSet(Counted(t)) /\ Cardinality(Counted(t)) <= Cardinality(Cycles)
  BY <1>1, <1>2, FS_Subset
<1>4. Cardinality(Cycles) \in Nat /\ Cardinality(Cycles) # 0
  BY <1>2, FS_CardinalityType, FS_EmptySet
<1> QED BY <1>3, <1>4, FS_CardinalityType

\* What a step does to the cycles that have counted: the one that steps comes,
\* goes or stays.
LEMMA CountedStep ==
  ASSUME TypeOK, NEW c \in Cycles, CycleStep(c), NEW t
  PROVE  Counted(t)' =
           IF cyc'[c].pc = "savePosition" /\ SameCityDate(t, cyc'[c].ticker)
           THEN Counted(t) \union {c} ELSE Counted(t) \ {c}
<1>1. \A d \in Cycles \ {c} : cyc'[d] = cyc[d]
  BY StepFrame
<1> QED BY <1>1 DEF Counted, At, SameCityDate

LEMMA ExposureStep ==
  ASSUME TypeOK, ExposureInv, NEW c \in Cycles, CycleStep(c)
  PROVE  ExposureInv'
<1> DEFINE n == Cardinality(Cycles)
           old == shadow_positions
           new == shadow_positions'
<1>1. /\ IsFiniteSet(old) /\ MaxPerCityDay \in Nat
      /\ \A t \in Tickers :
           Cardinality(SameDay(old, t)) + Cardinality(Counted(t)) <= MaxPerCityDay + n - 1
  BY CycleAssumption DEF ExposureInv, OpenBeside, OthersOpen, SameDay
<1>2. SUFFICES /\ IsFiniteSet(new)
               /\ \A t \in Tickers :
                    Cardinality(SameDay(new, t)) + Cardinality(Counted(t)')
                      <= MaxPerCityDay + n - 1
  BY DEF ExposureInv, OpenBeside, OthersOpen, SameDay, SameCityDate
<1>3. CASE new \subseteq old
  <2>1. IsFiniteSet(new)
    BY <1>1, <1>3, FS_Subset
  <2>2. ASSUME NEW t \in Tickers
        PROVE  Cardinality(SameDay(new, t)) + Cardinality(Counted(t)')
                 <= MaxPerCityDay + n - 1
    <3>1. /\ Cardinality(SameDay(new, t)) \in Nat /\ Cardinality(SameDay(old, t)) \in Nat
          /\ Cardinality(SameDay(new, t)) <= Cardinality(SameDay(old, t))
      BY <1>1, <1>3, SameDayFinite
    <3>2. /\ IsFiniteSet(Counted(t)) /\ Cardinality(Counted(t)) \in Nat
          /\ n \in Nat /\ n >= 1
      BY CountedFinite
    <3>3. CASE cyc'[c].pc = "savePosition" /\ SameCityDate(t, cyc'[c].ticker)
      <4>1. new = old /\ Cardinality(OthersOpen(old, cyc'[c].ticker)) < MaxPerCityDay
        BY <3>3, StepShadow
      <4>2. SameDay(new, t) = OthersOpen(old, cyc'[c].ticker)
        BY <3>3, <4>1 DEF SameDay, OthersOpen, SameCityDate
      <4>3. Counted(t)' \in SUBSET Cycles /\ IsFiniteSet(Cycles)
        BY CycleAssumption DEF Counted
      <4>4. Cardinality(Counted(t)') <= n /\ Cardinality(Counted(t)') \in Nat
        BY <4>3, FS_Subset, FS_CardinalityType
      <4> HIDE DEF n, old, new
      <4> QED BY <1>1, <3>1, <3>2, <4>1, <4>2, <4>4
    <3>4. CASE ~ (cyc'[c].pc = "savePosition" /\ SameCityDate(t, cyc'[c].ticker))
      <4>1. Counted(t)' = Counted(t) \ {c}
        BY <3>4, CountedStep
      <4>2. Cardinality(Counted(t)') <= Cardinality(Counted(t)) /\ Cardinality(Counted(t)') \in Nat
        BY <3>2, <4>1, FS_Subset, FS_CardinalityType
      <4>3. Cardinality(SameDay(old, t)) + Cardinality(Counted(t)) <= MaxPerCityDay + n - 1
        BY <1>1
      <4> HIDE DEF n, old, new
      <4> QED BY <1>1, <3>1, <3>2, <4>2, <4>3
    <3> QED BY <3>3, <3>4
  <2> QED BY <2>1, <2>2
<1>4. CASE SavePosition(c, TRUE)
  <2> DEFINE u == cyc[c].ticker
  <2>1. /\ new = old \union {u}
        /\ cyc[c].pc = "savePosition" /\ u \in Tickers /\ cyc'[c].pc # "savePosition"
    BY <1>4 DEF SavePosition, At, TypeOK, Goto, CycleState
  <2>2. IsFiniteSet(new)
    BY <1>1, <2>1, FS_AddElement
  <2>3. ASSUME NEW t \in Tickers
        PROVE  Cardinality(SameDay(new, t)) + Cardinality(Counted(t)')
                 <= MaxPerCityDay + n - 1
    <3> DEFINE D == SameDay(old, t)
               W == Counted(t)
    <3>1. /\ IsFiniteSet(W) /\ Cardinality(W) \in Nat /\ n \in Nat
      BY CountedFinite
    <3>2. IsFiniteSet(D) /\ Cardinality(D) \in Nat
      <4>1. D \in SUBSET old
        BY DEF SameDay
      <4> QED BY <1>1, <4>1, FS_Subset, FS_CardinalityType
    <3>3. Cardinality(D) + Cardinality(W) <= MaxPerCityDay + n - 1
      BY <1>1
    <3>4. Counted(t)' = W \ {c}
      BY <2>1, CountedStep
    <3>5. CASE SameCityDate(t, u)
      <4>1. SameDay(new, t) = D \union {u}
        BY <2>1, <3>5 DEF SameDay
      <4>2. c \in W
        BY <2>1, <3>5 DEF Counted, At
      <4> HIDE DEF D, W, n, u, old, new
      <4>3. Cardinality(W \ {c}) = Cardinality(W) - 1
        BY <3>1, <4>2, FS_RemoveElement
      <4>4. Cardinality(D \union {u}) = IF u \in D THEN Cardinality(D) ELSE Cardinality(D) + 1
        BY <3>2, FS_AddElement
      <4> QED BY <1>1, <3>1, <3>2, <3>3, <3>4, <4>1, <4>3, <4>4
    <3>6. CASE ~ SameCityDate(t, u)
      <4>1. SameDay(new, t) = D
        BY <2>1, <3>6 DEF SameDay
      <4>2. c \notin W
        BY <3>6 DEF Counted
      <4>3. Counted(t)' = W
        BY <3>4, <4>2
      <4> QED BY <3>3, <4>1, <4>3
    <3> QED BY <3>5, <3>6
  <2> QED BY <2>2, <2>3
<1> QED BY <1>3, <1>4, StepShadow

LEMMA ExposureNext ==
  ASSUME TypeOK, ExposureInv, [Next]_vars
  PROVE  ExposureInv'
<1>1. CASE \E c \in Cycles : CycleStep(c)
  BY <1>1, ExposureStep
<1>2. CASE Tick \/ SetKillSwitch \/ UNCHANGED vars
  <2>1. shadow_positions' = shadow_positions /\ cyc' = cyc
    BY <1>2 DEF Tick, SetKillSwitch, vars, shadow
  <2> QED BY <2>1 DEF ExposureInv, OpenBeside, OthersOpen, Counted, At, SameCityDate
<1> QED BY <1>1, <1>2 DEF Next

LEMMA ExposureImplies == TypeOK /\ ExposureInv => CityExposureBounded
<1> SUFFICES ASSUME TypeOK, ExposureInv, NEW t \in Tickers
             PROVE  OpenBeside(t) <= MaxPerCityDay + Cardinality(Cycles) - 1
  BY DEF CityExposureBounded
<1>1. /\ Cardinality(Counted(t)) \in Nat /\ Cardinality(Cycles) \in Nat
      /\ MaxPerCityDay \in Nat
  BY CountedFinite, CycleAssumption
<1>2. OpenBeside(t) + Cardinality(Counted(t)) <= MaxPerCityDay + Cardinality(Cycles) - 1
  BY DEF ExposureInv
<1>3. OpenBeside(t) \in Nat
  BY SameDayFinite DEF ExposureInv, OpenBeside, OthersOpen, SameDay
<1> QED BY <1>1, <1>2, <1>3

\* However many cycles overlap: no city has more open positions of one
\* settlement day than the cap and one more for each cycle beyond the first,
\* although each of them counts in one step and saves in another.
THEOREM CityExposureHolds == Spec => []CityExposureBounded
<1>1. Init => ExposureInv
  <2> SUFFICES ASSUME Init PROVE ExposureInv
    OBVIOUS
  <2>1. shadow_positions = {} /\ \A c \in Cycles : cyc[c].pc = "idle"
    BY DEF Init, Idle
  <2>2. \A t : OthersOpen(shadow_positions, t) = {} /\ Counted(t) = {}
    BY <2>1 DEF OthersOpen, Counted, At
  <2>3. IsFiniteSet({}) /\ Cardinality({}) = 0
    BY FS_EmptySet
  <2>4. MaxPerCityDay \in Nat /\ Cardinality(Cycles) \in Nat /\ Cardinality(Cycles) >= 1
    BY CountedFinite, CycleAssumption
  <2>5. ASSUME NEW t \in Tickers
        PROVE  OpenBeside(t) + Cardinality(Counted(t)) <= MaxPerCityDay + Cardinality(Cycles) - 1
    <3>1. OpenBeside(t) = 0 /\ Cardinality(Counted(t)) = 0
      BY <2>2, <2>3 DEF OpenBeside
    <3> QED BY <2>4, <3>1
  <2> QED BY <2>1, <2>3, <2>5 DEF ExposureInv
<1>2. TypeOK /\ ExposureInv /\ [Next]_vars => ExposureInv'
  BY ExposureNext
<1>3. TypeOK /\ ExposureInv => CityExposureBounded
  BY ExposureImplies
<1> QED BY <1>1, <1>2, <1>3, TypeCorrect, PTL DEF Spec

-----------------------------------------------------------------------------
(* The ledger and the order that is past its gates *)

\* What one step does to the ledger: nothing, or it appends the row of the
\* order at hand, which counts as an entry only if that order was past its
\* gates.
LEMMA LedgerStep ==
  ASSUME TypeOK, NEW c \in Cycles, CycleStep(c), live_orders' # live_orders
  PROVE  \E s \in Statuses :
           /\ live_orders' = Append(live_orders, RowOf(cyc[c], s))
           /\ RowOf(cyc[c], s) \in Row
           /\ IsPlaced(RowOf(cyc[c], s)) => Entering(cyc[c])
           /\ ~ Entering(cyc'[c])
<1>1. \E ok \in BOOLEAN : RecordOrder(c, ok) \/ RecordClose(c, ok)
  BY StepOrder
<1>2. /\ cyc[c].pc \in {"record", "recordClose"} /\ cyc[c].ticker \in Tickers
      /\ cyc[c] \in CycleState
  BY <1>1 DEF RecordOrder, RecordClose, At, TypeOK
<1> DEFINE s == IF cyc[c].pc = "record" THEN OrderStatus(cyc[c]) ELSE CloseStatus(cyc[c])
<1>3. live_orders' = Append(live_orders, RowOf(cyc[c], s))
  BY <1>1 DEF RecordOrder, RecordClose, At, SaveRow
<1>4. s \in Statuses
  BY OrderStatusType
<1>5. s \in PlacedStatuses => Entering(cyc[c])
  BY <1>2 DEF OrderStatus, CloseStatus, PlacedStatuses, Entering
<1>6. ~ Entering(cyc'[c])
  BY <1>2, StepOrder DEF Entering, GatesPass, SubmitOrder, At
<1> HIDE DEF s
<1>7. RowOf(cyc[c], s) \in Row
  BY <1>2, <1>4, RowOfType
<1>8. IsPlaced(RowOf(cyc[c], s)) => Entering(cyc[c])
  BY <1>5 DEF IsPlaced, RowOf
<1> QED BY <1>3, <1>4, <1>6, <1>7, <1>8

\* An order past its gates has just passed them or was past them before.
LEMMA EnteringStep ==
  ASSUME TypeOK, NEW c \in Cycles, CycleStep(c), Entering(cyc'[c])
  PROVE  /\ live_orders' = live_orders
         /\ /\ cyc'[c].ticker = cyc[c].ticker /\ cyc'[c].price = cyc[c].price
            /\ cyc'[c].p = cyc[c].p
         /\ \/ Entering(cyc[c]) /\ cyc'[c].re = cyc[c].re
            \/ LiveGates(cyc[c], cyc'[c].re)
<1>1. cyc \in [Cycles -> CycleState] /\ cyc[c] \in CycleState
  BY DEF TypeOK
<1>2. live_orders' = live_orders
  BY LedgerStep
<1>3. CASE \E re \in BOOLEAN : GatesPass(c, re)
  <2> PICK re \in BOOLEAN : GatesPass(c, re)
    BY <1>3
  <2>1. /\ cyc'[c].ticker = cyc[c].ticker /\ cyc'[c].price = cyc[c].price
        /\ cyc'[c].p = cyc[c].p /\ cyc'[c].re = re
    BY <1>1 DEF GatesPass, CycleState
  <2> QED BY <1>2, <2>1 DEF GatesPass
<1>4. CASE SubmitOrder(c)
  <2>1. /\ cyc[c].pc = "submit" /\ cyc'[c].mode = cyc[c].mode
        /\ cyc'[c].ticker = cyc[c].ticker /\ cyc'[c].price = cyc[c].price
        /\ cyc'[c].p = cyc[c].p /\ cyc'[c].re = cyc[c].re
    BY <1>1, <1>4 DEF SubmitOrder, At, Trade, CycleState
  <2> QED BY <1>2, <2>1 DEF Entering
<1> QED BY <1>3, <1>4, StepOrder DEF Entering

\* The clock moves on by one, and the day with it or not.
LEMMA TickTime ==
  ASSUME TypeOK, Tick
  PROVE  /\ live_orders' = live_orders /\ cyc' = cyc
         /\ now' = now + 1 /\ utcDay' \in Nat
         /\ utcDay' = utcDay \/ utcDay' > utcDay
  BY DEF Tick, TypeOK, book

-----------------------------------------------------------------------------
(* The day's spend stays within the cap *)

LEMMA SpendStep ==
  ASSUME TypeOK, SpendInv, BystandersOnlyWatch, OneTrader, "spend" \notin FaultyReads,
         NEW c \in Cycles, CycleStep(c)
  PROVE  SpendInv'
<1>1. /\ live_orders \in Seq(Row) /\ utcDay \in Nat /\ utcDay' = utcDay
      /\ cyc \in [Cycles -> CycleState] /\ cyc[c] \in CycleState
  BY StepFrame DEF TypeOK, clock
<1>2. ASSUME NEW d \in Cycles, d # c
      PROVE  /\ cyc'[d] = cyc[d]
             /\ cyc[d].mode # "DISABLED" => live_orders' = live_orders
  BY <1>2, StepFrame, Bystander DEF book
<1>3. ASSUME Entering(cyc'[c])
      PROVE  /\ cyc'[c].price >= 0
             /\ DailyLiveSpend(live_orders', utcDay') + cyc'[c].price <= DailyCap
  <2>1. CASE Entering(cyc[c])
    BY <1>1, <1>3, <2>1, EnteringStep DEF SpendInv
  <2>2. CASE LiveGates(cyc[c], cyc'[c].re)
    <3>1. /\ cyc[c].price \in 1 .. 99
          /\ DailyLiveSpend(live_orders, utcDay) + cyc[c].price <= DailyCap
      BY <2>2 DEF LiveGates, SpendGate
    <3>2. live_orders' = live_orders /\ cyc'[c].price = cyc[c].price
      BY <1>3, EnteringStep
    <3>3. DailyLiveSpend(live_orders', utcDay') = DailyLiveSpend(live_orders, utcDay)
      BY <1>1, <3>2
    <3>4. cyc[c].price >= 0
      BY <3>1
    <3> QED BY <3>1, <3>2, <3>3, <3>4
  <2> QED BY <1>3, <2>1, <2>2, EnteringStep
<1>4. CASE live_orders' = live_orders
  <2>1. ASSUME NEW d \in Cycles, d # c, Entering(cyc'[d])
        PROVE  /\ cyc'[d].price >= 0
               /\ DailyLiveSpend(live_orders', utcDay') + cyc'[d].price <= DailyCap
    BY <1>1, <1>2, <1>4, <2>1 DEF SpendInv
  <2> QED BY <1>1, <1>3, <1>4, <2>1 DEF SpendInv, RowsInPast
<1>5. CASE live_orders' # live_orders
  <2> PICK s \in Statuses :
        /\ live_orders' = Append(live_orders, RowOf(cyc[c], s))
        /\ RowOf(cyc[c], s) \in Row
        /\ IsPlaced(RowOf(cyc[c], s)) => Entering(cyc[c])
        /\ ~ Entering(cyc'[c])
    BY <1>5, LedgerStep
  <2> DEFINE r == RowOf(cyc[c], s)
  <2>1. r.day = utcDay /\ r.price = cyc[c].price
    BY DEF RowOf
  <2>2. /\ DOMAIN live_orders' = DOMAIN live_orders \union {Len(live_orders) + 1}
        /\ live_orders'[Len(live_orders) + 1] = r
        /\ \A i \in DOMAIN live_orders : live_orders'[i] = live_orders[i]
    BY <1>1, AppendRows
  <2>3. IsPlaced(r) => /\ r.price >= 0
                       /\ DailyLiveSpend(live_orders, utcDay) + r.price <= DailyCap
    BY <2>1 DEF SpendInv
  <2> HIDE DEF r
  <2>4. RowsInPast'
    BY <1>1, <2>1, <2>2 DEF SpendInv, RowsInPast
  <2>5. \A i \in DOMAIN live_orders' : IsPlaced(live_orders'[i]) => live_orders'[i].price >= 0
    BY <2>2, <2>3 DEF SpendInv
  <2>6. ASSUME NEW d \in Nat PROVE DailyLiveSpend(live_orders', d) <= DailyCap
    <3>1. DailyLiveSpend(live_orders', d) = DailyLiveSpend(live_orders, d) + Cost(r, d)
      BY <1>1, SpendAppend DEF r
    <3>2. DailyLiveSpend(live_orders, d) \in Int /\ DailyLiveSpend(live_orders, d) <= DailyCap
      BY <1>1, CostsType DEF SpendInv
    <3>3. CASE IsPlaced(r) /\ r.day = d
      BY <2>1, <2>3, <3>1, <3>3 DEF Cost
    <3>4. CASE ~ (IsPlaced(r) /\ r.day = d)
      BY <3>1, <3>2, <3>4 DEF Cost
    <3> QED BY <3>3, <3>4
  <2>7. ASSUME NEW d \in Cycles, d # c PROVE ~ Entering(cyc'[d])
    BY <1>2, <1>5, <2>7 DEF Entering
  <2>8. ~ Entering(cyc'[c])
    OBVIOUS
  <2> QED BY <2>4, <2>5, <2>6, <2>7, <2>8 DEF SpendInv
<1> QED BY <1>4, <1>5

\* On a new day nothing is spent yet, and the order still fits: it did when
\* what was spent that day was not negative.
LEMMA SpendTick ==
  ASSUME TypeOK, SpendInv, Tick
  PROVE  SpendInv'
<1>1. /\ live_orders' = live_orders /\ cyc' = cyc
      /\ utcDay \in Nat /\ utcDay' \in Nat /\ (utcDay' = utcDay \/ utcDay' > utcDay)
      /\ live_orders \in Seq(Row) /\ cyc \in [Cycles -> CycleState]
  BY TickTime DEF TypeOK
<1>2. \A i \in DOMAIN live_orders : live_orders[i].day \in Nat /\ live_orders[i].day <= utcDay
  BY RowDays DEF SpendInv, RowsInPast
<1>3. RowsInPast'
  BY <1>1, <1>2 DEF RowsInPast
<1>4. \A i \in DOMAIN live_orders : Cost(live_orders[i], utcDay) >= 0
  BY DEF SpendInv, Cost
<1>5. DailyLiveSpend(live_orders, utcDay) \in Nat
  BY <1>1, <1>4, SpendBounds
<1>6. ASSUME NEW c \in Cycles, Entering(cyc[c]), utcDay' > utcDay
      PROVE  DailyLiveSpend(live_orders, utcDay') + cyc[c].price <= DailyCap
  <2>1. \A i \in DOMAIN live_orders : live_orders[i].day # utcDay'
    BY <1>1, <1>2, <1>6
  <2>2. DailyLiveSpend(live_orders, utcDay') = 0
    BY <1>1, <2>1, SpendBounds
  <2>3. cyc[c].price \in Int
    BY <1>1 DEF CycleState
  <2>4. DailyLiveSpend(live_orders, utcDay) + cyc[c].price <= DailyCap
    BY <1>6 DEF SpendInv
  <2> QED BY <1>5, <2>2, <2>3, <2>4, LedgerAssumption
<1> QED BY <1>1, <1>3, <1>6 DEF SpendInv

LEMMA SpendNext ==
  ASSUME TypeOK, SpendInv, BystandersOnlyWatch, OneTrader, "spend" \notin FaultyReads, [Next]_vars
  PROVE  SpendInv'
<1>1. CASE \E c \in Cycles : CycleStep(c)
  BY <1>1, SpendStep
<1>2. CASE Tick
  BY <1>2, SpendTick
<1>3. CASE SetKillSwitch \/ UNCHANGED vars
  BY <1>3 DEF SetKillSwitch, vars, clock, book, SpendInv, RowsInPast
<1> QED BY <1>1, <1>2, <1>3 DEF Next

\* When one process trades and others only watch, and the spend can be read,
\* the recorded entries of a UTC day cost no more than the cap, also when an
\* order is checked before midnight and recorded after it.
THEOREM DailySpendHolds ==
  OneTrader /\ "spend" \notin FaultyReads => (Spec => []DailySpendWithinCap)
<1> SUFFICES ASSUME OneTrader, "spend" \notin FaultyReads
             PROVE  Spec => []DailySpendWithinCap
  OBVIOUS
<1>1. Init => SpendInv
  <2> SUFFICES ASSUME Init PROVE SpendInv
    OBVIOUS
  <2>1. live_orders = <<>> /\ DOMAIN live_orders = {} /\ live_orders \in Seq(Row)
    BY DEF Init
  <2>2. \A d \in Nat : DailyLiveSpend(live_orders, d) = 0
    BY <2>1, SpendBounds
  <2>3. \A c \in Cycles : ~ Entering(cyc[c])
    BY DEF Init, Idle, Entering
  <2> QED BY <2>1, <2>2, <2>3, LedgerAssumption DEF SpendInv, RowsInPast
<1>2. TypeOK /\ BystandersOnlyWatch /\ SpendInv /\ [Next]_vars => SpendInv'
  BY SpendNext
<1>3. TypeOK /\ SpendInv => DailySpendWithinCap
  <2> SUFFICES ASSUME TypeOK, SpendInv PROVE DailySpendWithinCap
    OBVIOUS
  <2>1. {live_orders[i].day : i \in DOMAIN live_orders} \subseteq Nat
    BY RowDays
  <2> QED BY <2>1 DEF SpendInv, DailyLiveSpend, DailySpendWithinCap
<1> QED BY <1>1, <1>2, <1>3, TypeCorrect, WatchHolds, PTL DEF Spec

-----------------------------------------------------------------------------
(* A re-entry follows the close it re-enters after *)

\* What follows a close depends on the rows before, and a later order of the
\* same market and probability follows it as well.
LEMMA FollowsLater ==
  ASSUME NEW rows \in Seq(Row), NEW more, NEW i \in Nat, NEW e, NEW f,
         \A j \in 1 .. i - 1 : more[j] = rows[j] /\ j \in DOMAIN rows,
         e.at \in Int, f.at \in Int,
         f.ticker = e.ticker, f.p = e.p, f.at >= e.at,
         FollowsClose(rows, i, e)
  PROVE  FollowsClose(more, i, f)
<1> PICK j \in 1 .. i - 1 :
      /\ IsClosed(rows[j]) /\ rows[j].ticker = e.ticker
      /\ e.at - rows[j].at >= Cooldown
      /\ rows[j].p # NoMeta /\ e.p - rows[j].p >= Boost
      /\ \A k \in j + 1 .. i - 1 : ~ (rows[k].ticker = e.ticker /\ IsPlaced(rows[k]))
  BY DEF FollowsClose
<1>1. more[j] = rows[j] /\ rows[j] \in Row /\ rows[j].at \in Nat
  <2>1. rows[j] \in Row
    OBVIOUS
  <2> QED BY <2>1 DEF Row
<1>2. f.at - rows[j].at >= Cooldown
  BY <1>1, LedgerAssumption
<1>3. \A k \in j + 1 .. i - 1 : ~ (more[k].ticker = f.ticker /\ IsPlaced(more[k]))
  BY DEF IsPlaced
<1> QED BY <1>1, <1>2, <1>3 DEF FollowsClose

\* The re-entry gate finds the close, and no entry of the day after it; rows
\* are in the order of their days, so there is none of another day either.
LEMMA GateFollows ==
  ASSUME live_orders \in Seq(Row), RowsInPast, RowsInOrder, utcDay \in Nat,
         NEW e, e.at = now,
         ReentryAllowed(live_orders, e.ticker, utcDay, now, e.p)
  PROVE  FollowsClose(live_orders, Len(live_orders) + 1, e)
<1> PICK j \in ClosedOn(live_orders, e.ticker, utcDay) :
      /\ LastClose(live_orders, e.ticker, utcDay, j)
      /\ now - live_orders[j].at >= Cooldown
      /\ live_orders[j].p # NoMeta
      /\ e.p - live_orders[j].p >= Boost
  BY DEF ReentryAllowed
<1>1. /\ j \in DOMAIN live_orders /\ live_orders[j].ticker = e.ticker
      /\ live_orders[j].day = utcDay /\ IsClosed(live_orders[j])
  BY DEF ClosedOn, TradeRows
<1>2. ASSUME NEW k \in DOMAIN live_orders, k > j,
             live_orders[k].ticker = e.ticker, IsPlaced(live_orders[k])
      PROVE  FALSE
  <2>1. live_orders[k] \in Row
    OBVIOUS
  <2>2. live_orders[k].day \in Nat /\ live_orders[k].day <= utcDay
    BY <2>1 DEF Row, RowsInPast
  <2>3. live_orders[j].day <= live_orders[k].day
    BY <1>1, <1>2 DEF RowsInOrder
  <2>4. live_orders[k].day = utcDay
    BY <1>1, <2>2, <2>3
  <2>5. k \in PlacedOn(live_orders, e.ticker, utcDay)
    BY <1>2, <2>4 DEF PlacedOn, TradeRows, IsPlaced, PlacedStatuses, PreviewStatuses
  <2> QED BY <1>1, <1>2, <2>5 DEF LastClose
<1>3. \A k \in j + 1 .. Len(live_orders) + 1 - 1 : k \in DOMAIN live_orders /\ k > j
  BY <1>1
<1>4. j \in 1 .. Len(live_orders) + 1 - 1
  BY <1>1
<1> QED BY <1>1, <1>2, <1>3, <1>4 DEF FollowsClose

LEMMA ReentryStep ==
  ASSUME TypeOK, ReentryInv, BystandersOnlyWatch, OneTrader, NEW c \in Cycles, CycleStep(c)
  PROVE  ReentryInv'
<1> DEFINE n == Len(live_orders) + 1
           e == RowOf(cyc[c], OrderStatus(cyc[c]))
<1>1. /\ live_orders \in Seq(Row) /\ utcDay \in Nat /\ now \in Nat
      /\ utcDay' = utcDay /\ now' = now
      /\ cyc \in [Cycles -> CycleState] /\ cyc[c] \in CycleState
  BY StepFrame DEF TypeOK, clock
<1>2. ASSUME NEW d \in Cycles, d # c
      PROVE  /\ cyc'[d] = cyc[d]
             /\ cyc[d].mode # "DISABLED" => live_orders' = live_orders
  BY <1>2, StepFrame, Bystander DEF book
<1>3. /\ e.ticker = cyc[c].ticker /\ e.at = now /\ e.p = cyc[c].p
      /\ e'.ticker = cyc'[c].ticker /\ e'.at = now' /\ e'.p = cyc'[c].p
  BY DEF RowOf
<1>4. Entering(cyc[c]) /\ cyc[c].re => FollowsClose(live_orders, n, e)
  BY DEF ReentryInv
<1>5. \A j \in 1 .. n - 1 : j \in DOMAIN live_orders
  OBVIOUS
<1>6. ASSUME Entering(cyc'[c]), cyc'[c].re
      PROVE  FollowsClose(live_orders, n, e')
  <2> HIDE DEF e
  <2>1. /\ e'.ticker = e.ticker /\ e'.p = e.p /\ e'.at = now
    BY <1>1, <1>3, <1>6, EnteringStep
  <2>2. CASE Entering(cyc[c]) /\ cyc[c].re
    <3>1. e.at \in Int /\ e'.at \in Int /\ e'.at >= e.at
      BY <1>1, <1>3, <2>1
    <3>2. n \in Nat
      BY <1>1
    <3> HIDE DEF n
    <3> QED BY <1>1, <1>4, <1>5, <2>1, <2>2, <3>1, <3>2, FollowsLater
  <2>3. CASE LiveGates(cyc[c], TRUE)
    <3>1. ReentryAllowed(live_orders, cyc[c].ticker, utcDay, now, cyc[c].p)
      BY <2>3 DEF LiveGates, MayEnter
    <3>2. ReentryAllowed(live_orders, e'.ticker, utcDay, now, e'.p)
      BY <1>3, <2>1, <3>1
    <3> QED BY <1>1, <2>1, <3>2, GateFollows DEF ReentryInv
  <2>4. cyc'[c].re = TRUE
    <3>1. CASE Entering(cyc[c]) /\ cyc'[c].re = cyc[c].re
      BY <1>1, <1>6, <3>1 DEF CycleState
    <3>2. CASE cyc'[c].re \in BOOLEAN
      BY <1>6, <3>2
    <3>3. cyc'[c] \in CycleState
      BY StepType DEF TypeOK
    <3> QED BY <3>2, <3>3 DEF CycleState
  <2> QED BY <1>6, <2>2, <2>3, <2>4, EnteringStep
<1>7. CASE live_orders' = live_orders
  <2>1. RowsInPast' /\ RowsInOrder' /\ ReentryFollowsClose'
    BY <1>1, <1>7 DEF ReentryInv, RowsInPast, RowsInOrder, ReentryFollowsClose
  <2>2. ASSUME Entering(cyc'[c]), cyc'[c].re
        PROVE  FollowsClose(live_orders', Len(live_orders') + 1, e')
    BY <1>6, <1>7, <2>2
  <2>3. ASSUME NEW d \in Cycles, d # c, Entering(cyc'[d]), cyc'[d].re
        PROVE  FollowsClose(live_orders', Len(live_orders') + 1,
                            RowOf(cyc[d], OrderStatus(cyc[d]))')
    BY <1>1, <1>2, <1>7, <2>3 DEF ReentryInv, RowOf
  <2> QED BY <2>1, <2>2, <2>3 DEF ReentryInv
<1>8. CASE live_orders' # live_orders
  <2> PICK s \in Statuses :
        /\ live_orders' = Append(live_orders, RowOf(cyc[c], s))
        /\ RowOf(cyc[c], s) \in Row
        /\ IsPlaced(RowOf(cyc[c], s)) => Entering(cyc[c])
        /\ ~ Entering(cyc'[c])
    BY <1>8, LedgerStep
  <2> DEFINE r == RowOf(cyc[c], s)
  <2>1. /\ r.day = utcDay /\ r.ticker = e.ticker /\ r.at = e.at /\ r.p = e.p
        /\ r.re = cyc[c].re
    BY DEF RowOf
  <2>2. /\ DOMAIN live_orders' = DOMAIN live_orders \union {n} /\ n \in Nat
        /\ live_orders'[n] = r
        /\ \A i \in DOMAIN live_orders : live_orders'[i] = live_orders[i]
        /\ DOMAIN live_orders = 1 .. n - 1
    BY <1>1, AppendRows
  <2>3. e.at \in Int /\ r.at \in Int /\ r.at >= e.at
    BY <1>1, <1>3, <2>1
  <2>4. IsPlaced(r) => Entering(cyc[c])
    OBVIOUS
  <2> HIDE DEF r, e, n
  <2>5. RowsInPast' /\ RowsInOrder'
    <3>1. \A i \in DOMAIN live_orders : live_orders[i].day \in Nat /\ live_orders[i].day <= utcDay
      BY RowDays DEF ReentryInv, RowsInPast
    <3>2. \A i, j \in DOMAIN live_orders : i <= j => live_orders[i].day <= live_orders[j].day
      BY DEF ReentryInv, RowsInOrder
    <3>3. \A i \in DOMAIN live_orders : i < n /\ i \in Nat
      BY <2>2
    <3>4. RowsInPast'
      BY <1>1, <2>1, <2>2, <3>1 DEF RowsInPast
    <3>5. ASSUME NEW i \in DOMAIN live_orders', NEW j \in DOMAIN live_orders', i <= j
          PROVE  live_orders'[i].day <= live_orders'[j].day
      <4>1. CASE j = n
        BY <1>1, <2>1, <2>2, <3>1, <3>5, <4>1
      <4>2. CASE j \in DOMAIN live_orders
        <5>1. i # n
          BY <2>2, <3>3, <3>5, <4>2
        <5> QED BY <2>2, <3>2, <3>5, <4>2, <5>1
      <4> QED BY <2>2, <4>1, <4>2
    <3> QED BY <3>4, <3>5 DEF RowsInOrder
  <2>6. ASSUME NEW i \in DOMAIN live_orders', IsPlaced(live_orders'[i]), live_orders'[i].re
        PROVE  FollowsClose(live_orders', i, live_orders'[i])
    <3>1. CASE i = n
      <4>1. FollowsClose(live_orders, n, e)
        BY <1>4, <2>1, <2>2, <2>4, <2>6, <3>1
      <4>2. \A j \in 1 .. n - 1 : live_orders'[j] = live_orders[j] /\ j \in DOMAIN live_orders
        BY <2>2
      <4>3. r.ticker = e.ticker /\ r.p = e.p
        BY <2>1
      <4> DEFINE more == live_orders'
      <4>4. \A j \in 1 .. n - 1 : more[j] = live_orders[j] /\ j \in DOMAIN live_orders
        BY <4>2
      <4>5. n \in Nat /\ live_orders \in Seq(Row)
        BY <1>1, <2>2
      <4> HIDE DEF more
      <4>6. FollowsClose(more, n, r)
        BY <2>3, <4>1, <4>3, <4>4, <4>5, FollowsLater
      <4>7. FollowsClose(live_orders', n, r)
        BY <4>6 DEF more
      <4> QED BY <2>2, <3>1, <4>7
    <3>2. CASE i \in DOMAIN live_orders
      <4>1. live_orders[i] \in Row /\ i \in 1 .. n - 1
        BY <1>1, <2>2, <3>2
      <4>2. live_orders'[i] = live_orders[i] /\ i \in Nat /\ live_orders[i].at \in Int
        BY <2>2, <3>2, <4>1 DEF Row
      <4>3. \A j \in 1 .. i - 1 : live_orders'[j] = live_orders[j] /\ j \in DOMAIN live_orders
        BY <2>2, <4>1
      <4>4. live_orders[i].at >= live_orders[i].at
        BY <4>2
      <4>5. FollowsClose(live_orders, i, live_orders[i])
        BY <2>6, <3>2, <4>2 DEF ReentryInv, ReentryFollowsClose
      <4>6. FollowsClose(live_orders', i, live_orders[i])
        BY <1>1, <4>2, <4>3, <4>4, <4>5, FollowsLater
      <4> QED BY <4>2, <4>6
    <3> QED BY <2>2, <3>1, <3>2
  <2>7. ReentryFollowsClose'
    BY <2>6 DEF ReentryFollowsClose
  <2>8. ASSUME NEW d \in Cycles, d # c PROVE ~ Entering(cyc'[d])
    BY <1>2, <1>8, <2>8 DEF Entering
  <2>9. ~ Entering(cyc'[c])
    OBVIOUS
  <2> QED BY <2>5, <2>7, <2>8, <2>9 DEF ReentryInv
<1> QED BY <1>7, <1>8

LEMMA ReentryTick ==
  ASSUME TypeOK, ReentryInv, Tick
  PROVE  ReentryInv'
<1>1. /\ live_orders' = live_orders /\ cyc' = cyc
      /\ utcDay \in Nat /\ utcDay' \in Nat /\ (utcDay' = utcDay \/ utcDay' > utcDay)
      /\ now \in Nat /\ now' = now + 1
      /\ live_orders \in Seq(Row)
  BY TickTime DEF TypeOK
<1>2. RowsInPast' /\ RowsInOrder' /\ ReentryFollowsClose'
  <2>1. \A i \in DOMAIN live_orders : live_orders[i].day \in Nat /\ live_orders[i].day <= utcDay
    BY RowDays DEF ReentryInv, RowsInPast
  <2>2. \A d \in Nat : d <= utcDay => d <= utcDay'
    BY <1>1
  <2>3. RowsInPast'
    BY <1>1, <2>1, <2>2 DEF RowsInPast
  <2> QED BY <1>1, <2>3 DEF ReentryInv, RowsInOrder, ReentryFollowsClose
<1>3. ASSUME NEW c \in Cycles, Entering(cyc[c]), cyc[c].re
      PROVE  FollowsClose(live_orders, Len(live_orders) + 1,
                          RowOf(cyc[c], OrderStatus(cyc[c])))'
  <2> DEFINE n == Len(live_orders) + 1
             e == RowOf(cyc[c], OrderStatus(cyc[c]))
  <2>1. e.ticker = cyc[c].ticker /\ e.at = now /\ e.p = cyc[c].p
    BY DEF RowOf
  <2>2. e'.ticker = cyc[c].ticker /\ e'.at = now' /\ e'.p = cyc[c].p
    BY <1>1 DEF RowOf
  <2>3. FollowsClose(live_orders, n, e)
    BY <1>3 DEF ReentryInv
  <2>4. n \in Nat /\ \A j \in 1 .. n - 1 : j \in DOMAIN live_orders
    BY <1>1
  <2>5. n' = n
    BY <1>1
  <2> HIDE DEF e, n
  <2>6. e.at \in Int /\ e'.at \in Int /\ e'.at >= e.at
    BY <1>1, <2>1, <2>2
  <2>7. FollowsClose(live_orders, n, e')
    BY <1>1, <2>1, <2>2, <2>3, <2>4, <2>6, FollowsLater
  <2>8. FollowsClose(live_orders', n', e')
    BY <1>1, <2>5, <2>7
  <2> QED BY <2>8 DEF e, n
<1> QED BY <1>1, <1>2, <1>3 DEF ReentryInv

LEMMA ReentryNext ==
  ASSUME TypeOK, ReentryInv, BystandersOnlyWatch, OneTrader, [Next]_vars
  PROVE  ReentryInv'
<1>1. CASE \E c \in Cycles : CycleStep(c)
  BY <1>1, ReentryStep
<1>2. CASE Tick
  BY <1>2, ReentryTick
<1>3. CASE SetKillSwitch \/ UNCHANGED vars
  <2>1. UNCHANGED <<live_orders, cyc, now, utcDay>>
    BY <1>3 DEF SetKillSwitch, vars, clock, book
  <2> QED BY <2>1 DEF ReentryInv, RowsInPast, RowsInOrder, ReentryFollowsClose, RowOf
<1> QED BY <1>1, <1>2, <1>3 DEF Next

\* When one process trades and others only watch, every recorded re-entry has
\* before it the close it re-enters after: no entry in between, the cooldown
\* elapsed and the probability risen by the boost, whatever rows are lost and
\* wherever midnight falls between the gate and the row.
THEOREM ReentryFollowsHolds == OneTrader => (Spec => []ReentryFollowsClose)
<1> SUFFICES ASSUME OneTrader PROVE Spec => []ReentryFollowsClose
  OBVIOUS
<1>1. Init => ReentryInv
  <2> SUFFICES ASSUME Init PROVE ReentryInv
    OBVIOUS
  <2>1. DOMAIN live_orders = {} /\ \A c \in Cycles : ~ Entering(cyc[c])
    BY DEF Init, Idle, Entering
  <2> QED BY <2>1 DEF ReentryInv, RowsInPast, RowsInOrder, ReentryFollowsClose
<1>2. TypeOK /\ BystandersOnlyWatch /\ ReentryInv /\ [Next]_vars => ReentryInv'
  BY ReentryNext
<1>3. ReentryInv => ReentryFollowsClose
  BY DEF ReentryInv
<1> QED BY <1>1, <1>2, <1>3, TypeCorrect, WatchHolds, PTL DEF Spec
=============================================================================
