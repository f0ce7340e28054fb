------------------------ MODULE SettlementDay_proofs ------------------------
(***************************************************************************)
(* The paper account of a settlement date, for any markets, reports, fills *)
(* and killed tools: its books balance, it does what SettledOnce promises, *)
(* and a mismatch means that the weather service contradicted itself.      *)
(***************************************************************************)
EXTENDS SettlementDay, Sums_proofs, FiniteSetTheorems

Fill == [ticker : Tickers, cost : Int, settled : BOOLEAN]
Report == [issue : Nat, version : Nat, high : Highs]
Final(i) == ReportStatus(published[i]) = "CANDIDATE_FINAL"

Typed ==
  /\ fills \in Seq(Fill)
  /\ position \in [Tickers -> [status : {"NONE", "OPEN", "CLOSED"}, pnl : Int]]
  /\ rows = [t \in Tickers |-> rows[t]]
  /\ result \in [Tickers -> Results \union {NotSettled}]
  /\ opening \in Tickers \union {NoTicker}
  /\ attempts \in [Tickers -> Nat] /\ kills \in 0 .. MaxKills
  /\ now \in 0 .. MaxTime

\* What is archived was issued, each report once.
ReportsInv ==
  /\ published \in Seq(Report) /\ Len(published) <= MaxReports
  /\ arrived \in Seq(Report)
  /\ \A k \in DOMAIN arrived : \E i \in DOMAIN published : arrived[k] = published[i]
  /\ \A k, l \in DOMAIN arrived : arrived[k] = arrived[l] => k = l

\* The exchange settled on a next-day report.
ResultsInv ==
  \A t \in Tickers : result[t] # NotSettled =>
    \E i \in DOMAIN published : Final(i) /\ result[t] = Evaluate(Threshold[t], published[i].high)

\* A validation of a settled market says what the exchange said, and calls it
\* a mismatch only with a next-day report that says otherwise.
EntryOK(e, t) ==
  /\ result[t] # NotSettled /\ e.actual = result[t]
  /\ e.mismatch /\ e.source = "exact" =>
       \E i \in DOMAIN published :
         Final(i) /\ Evaluate(Threshold[t], published[i].high) # e.actual

RowsInv == \A t \in Tickers : rows[t] = NoRow \/ EntryOK(rows[t], t)

AccountInv ==
  /\ opening # NoTicker => position[opening].status = "NONE" /\ FillsOf(opening) # {}
  /\ \A t \in Tickers :
       /\ position[t].status = "CLOSED" => result[t] # NotSettled /\ attempts[t] > 0
       /\ position[t].status # "CLOSED" => position[t].pnl = 0
       /\ attempts[t] = 0 => UnsettledOf(t) = FillsOf(t)
  /\ BooksBalance

\* What a settlement that is under way has added up: fills of its market, and
\* on the first attempt all those it has marked.
AddedUp(x) ==
  \E S \in SUBSET (FillsOf(x.ticker) \ x.todo) :
    /\ x.acc = TotalOf(S, x.result)
    /\ attempts[x.ticker] = 1 => S = FillsOf(x.ticker) \ x.todo

Corpusing(x) ==
  /\ x.name = "corpus"
  /\ x = [name |-> "corpus", entry |-> x.entry, queue |-> x.queue]
  /\ x.queue \subseteq Tickers
  /\ \A t \in x.queue : EntryOK(x.entry[t], t)

Settling(x) ==
  /\ x.name = "settle"
  /\ x = [name |-> "settle", ticker |-> x.ticker, acc |-> x.acc, result |-> x.result,
          todo |-> x.todo, queue |-> x.queue]
  /\ x.queue \subseteq Tickers /\ x.ticker \in Tickers
  /\ position[x.ticker].status = "OPEN" /\ attempts[x.ticker] > 0
  /\ x.result = result[x.ticker] /\ x.result # NotSettled
  /\ x.todo = UnsettledOf(x.ticker)
  /\ AddedUp(x)

Waiting(x) == x \in [name : {"none", "next", "reconcile"}, queue : SUBSET Tickers]

ToolInv == Waiting(tool) \/ Corpusing(tool) \/ Settling(tool)

IInv == Typed /\ ReportsInv /\ ResultsInv /\ RowsInv /\ AccountInv /\ ToolInv

-----------------------------------------------------------------------------
(* Reports *)

\* Among reports that have arrived, some first arrival is the latest.
LEMMA SomeLatest ==
  ASSUME NEW a \in Seq(Report), a # <<>>
  PROVE  \E i \in DOMAIN a : /\ \A j \in DOMAIN a : ~ Earlier(a[i], a[j])
                             /\ \A j \in 1 .. i - 1 : Earlier(a[j], a[i])
<1> DEFINE Best(i, n) == /\ i \in 1 .. n
                         /\ \A j \in 1 .. n : ~ Earlier(a[i], a[j])
                         /\ \A j \in 1 .. i - 1 : Earlier(a[j], a[i])
           S == {n \in Nat : n + 1 > Len(a) \/ \E i \in 1 .. n + 1 : Best(i, n + 1)}
<1>1. /\ Len(a) \in Nat /\ Len(a) > 0 /\ DOMAIN a = 1 .. Len(a)
      /\ \A i \in DOMAIN a : a[i].issue \in Nat /\ a[i].version \in Nat
  <2>1. \A i \in DOMAIN a : a[i] \in Report
    OBVIOUS
  <2> QED BY <2>1 DEF Report
<1>2. 0 \in S
  <2>1. Best(1, 1)
    BY <1>1 DEF Earlier
  <2> QED BY <2>1
<1>3. ASSUME NEW n \in Nat, n \in S PROVE n + 1 \in S
  <2>1. CASE n + 2 > Len(a)
    BY <2>1
  <2>2. CASE n + 2 <= Len(a)
    <3>1. PICK i \in 1 .. n + 1 : Best(i, n + 1)
      BY <1>1, <1>3, <2>2
    <3>2. /\ n + 2 \in DOMAIN a
          /\ \A j \in 1 .. n + 2 : j \in DOMAIN a
      BY <1>1, <2>2
    <3>3. CASE Earlier(a[i], a[n + 2])
      <4>1. \A j \in 1 .. n + 1 : Earlier(a[j], a[n + 2])
        <5> TAKE j \in 1 .. n + 1
        <5>1. ~ Earlier(a[i], a[j])
          BY <3>1
        <5>2. PICK x \in Nat, y \in Nat : x = a[i].issue /\ y = a[i].version
          BY <1>1, <3>2
        <5>3. PICK u \in Nat, v \in Nat : u = a[j].issue /\ v = a[j].version
          BY <1>1, <3>2
        <5>4. PICK k \in Nat, w \in Nat : k = a[n + 2].issue /\ w = a[n + 2].version
          BY <1>1, <3>2
        <5>5. k > x \/ (k = x /\ w > y)
          BY <3>3, <5>2, <5>4 DEF Earlier
        <5>6. u < x \/ (u = x /\ v <= y)
          BY <5>1, <5>2, <5>3 DEF Earlier
        <5>7. u < k \/ (u = k /\ v < w)
          BY <5>5, <5>6
        <5> QED BY <5>3, <5>4, <5>7 DEF Earlier
      <4>2. \A j \in 1 .. n + 2 : ~ Earlier(a[n + 2], a[j])
        <5> TAKE j \in 1 .. n + 2
        <5>1. CASE j \in 1 .. n + 1
          BY <1>1, <3>2, <4>1, <5>1 DEF Earlier
        <5>2. CASE j = n + 2
          BY <1>1, <3>2, <5>2 DEF Earlier
        <5> QED BY <5>1, <5>2
      <4>3. Best(n + 2, n + 2)
        BY <4>1, <4>2
      <4> QED BY <4>3
    <3>4. CASE ~ Earlier(a[i], a[n + 2])
      <4>1. Best(i, n + 2)
        BY <3>1, <3>4
      <4> QED BY <4>1
    <3> QED BY <3>3, <3>4
  <2> QED BY <1>1, <2>1, <2>2
<1> HIDE DEF S
<1>4. Nat \subseteq S
  BY <1>2, <1>3, SetInduction
<1>5. Len(a) - 1 \in S
  BY <1>1, <1>4
<1>6. \E i \in 1 .. Len(a) : Best(i, Len(a))
  BY <1>1, <1>5 DEF S
<1> QED BY <1>1, <1>6

\* The latest report is one of those that arrived.
LEMMA LatestArrived ==
  ASSUME NEW a \in Seq(Report), a # <<>>
  PROVE  \E k \in DOMAIN a : Latest(a) = a[k]
<1>1. PICK i \in DOMAIN a : /\ \A j \in DOMAIN a : ~ Earlier(a[i], a[j])
                            /\ \A j \in 1 .. i - 1 : Earlier(a[j], a[i])
  BY SomeLatest
<1>2. \A j \in DOMAIN a : a[j].issue \in Nat /\ a[j].version \in Nat
  <2>1. \A j \in DOMAIN a : a[j] \in Report
    OBVIOUS
  <2> QED BY <2>1 DEF Report
<1>3. FirstArrival(a, i)
  <2> SUFFICES ASSUME NEW j \in 1 .. i - 1, SameReport(a[j], a[i]) PROVE FALSE
    BY DEF FirstArrival
  <2>1. j \in DOMAIN a /\ Earlier(a[j], a[i])
    BY <1>1
  <2> QED BY <1>2, <2>1 DEF SameReport, Earlier
<1>4. a[i] \in History(a) /\ \A e \in History(a) : ~ Earlier(a[i], e)
  BY <1>1, <1>3 DEF History
<1>5. Latest(a) \in History(a)
  BY <1>4 DEF Latest
<1> QED BY <1>5 DEF History

\* The row of a market that the exchange has settled.
LEMMA EntryIs ==
  ASSUME ReportsInv, NEW t \in Tickers, result[t] # NotSettled, NEW asOf, NEW high, NEW history
  PROVE  EntryOK(EntryFor(Threshold[t], result[t], arrived, asOf, high, history), t)
<1> DEFINE final == ResolveFinal(arrived, asOf)
           e == EntryFor(Threshold[t], result[t], arrived, asOf, high, history)
<1>1. CASE final # NoReport
  <2>1. /\ arrived # <<>> /\ final = Latest(arrived)
        /\ ReportStatus(Latest(arrived)) = "CANDIDATE_FINAL"
    BY <1>1 DEF ResolveFinal
  <2>2. PICK k \in DOMAIN arrived : final = arrived[k]
    BY <2>1, LatestArrived DEF ReportsInv
  <2>3. PICK i \in DOMAIN published : final = published[i] /\ Final(i)
    BY <2>1, <2>2 DEF ReportsInv, Final
  <2>4. e = Validated(published[i].high, Threshold[t], result[t], "exact")
    BY <1>1, <2>3 DEF EntryFor
  <2>5. /\ e.actual = result[t]
        /\ e.mismatch = (Evaluate(Threshold[t], published[i].high) # result[t])
    BY <2>4 DEF Validated
  <2> HIDE DEF e
  <2>6. EntryOK(e, t)
    BY <2>3, <2>5 DEF EntryOK
  <2> QED BY <2>6 DEF e
<1>2. CASE final = NoReport
  <2>1. \/ e = Validated(high, Threshold[t], result[t], "proxy")
        \/ e = Unresolved(result[t])
    BY <1>2 DEF EntryFor
  <2>2. /\ Validated(high, Threshold[t], result[t], "proxy").actual = result[t]
        /\ Validated(high, Threshold[t], result[t], "proxy").source # "exact"
    BY DEF Validated
  <2>3. Unresolved(result[t]).actual = result[t] /\ Unresolved(result[t]).source # "exact"
    BY DEF Unresolved, NoRow
  <2> HIDE DEF e
  <2>4. EntryOK(e, t)
    BY <2>1, <2>2, <2>3 DEF EntryOK
  <2> QED BY <2>4 DEF e
<1> QED BY <1>1, <1>2

-----------------------------------------------------------------------------
(* Totals of fills *)

LEMMA FillFields ==
  ASSUME fills \in Seq(Fill), NEW i \in DOMAIN fills
  PROVE  /\ fills[i].ticker \in Tickers /\ fills[i].cost \in Int
         /\ fills[i].settled \in BOOLEAN
         /\ \A r : Payout(fills[i], r) \in Int
<1>1. fills[i] \in Fill
  OBVIOUS
<1> QED BY <1>1 DEF Fill, Payout

LEMMA PayoutsType ==
  ASSUME fills \in Seq(Fill), NEW S, NEW r
  PROVE  /\ Payouts(S, r) \in Seq(Int) /\ DOMAIN Payouts(S, r) = DOMAIN fills
         /\ Len(Payouts(S, r)) = Len(fills)
         /\ TotalOf(S, r) \in Int
<1> DEFINE p == Payouts(S, r)
<1>1. Len(fills) \in Nat /\ DOMAIN fills = 1 .. Len(fills)
  OBVIOUS
<1>2. p \in [1 .. Len(fills) -> Int]
  BY <1>1, FillFields DEF Payouts
<1>3. p \in Seq(Int) /\ DOMAIN p = 1 .. Len(fills) /\ Len(p) = Len(fills)
  BY <1>1, <1>2
<1> HIDE DEF p
<1>4. Total(p) \in Int
  BY <1>3, TotalType
<1> QED BY <1>1, <1>3, <1>4 DEF p, TotalOf

LEMMA TotalOfNone ==
  ASSUME fills \in Seq(Fill), NEW r
  PROVE  TotalOf({}, r) = 0
<1> DEFINE p == Payouts({}, r)
<1>1. p \in Seq(Int) /\ \A i \in DOMAIN p : p[i] = 0
  BY PayoutsType DEF Payouts
<1> HIDE DEF p
<1>2. \A k \in {0}, i \in DOMAIN p : k + p[i] \in {0}
  BY <1>1
<1>3. Total(p) \in {0}
  BY <1>1, <1>2, TotalStays
<1> QED BY <1>3 DEF p, TotalOf

\* One more fill adds what it pays out.
LEMMA TotalOfMore ==
  ASSUME fills \in Seq(Fill), NEW r, NEW S, NEW i \in DOMAIN fills, i \notin S
  PROVE  TotalOf(S \union {i}, r) = TotalOf(S, r) + Payout(fills[i], r)
<1> DEFINE a == Payouts(S, r)
           b == Payouts(S \union {i}, r)
<1>1. /\ a \in Seq(Int) /\ b \in Seq(Int) /\ Len(a) = Len(b)
      /\ i \in DOMAIN a /\ DOMAIN a = DOMAIN fills
  BY PayoutsType
<1>2. a[i] = 0 /\ b[i] = Payout(fills[i], r) /\ \A n \in DOMAIN a \ {i} : a[n] = b[n]
  BY <1>1 DEF Payouts
<1>3. Total(a) \in Int /\ Payout(fills[i], r) \in Int
  BY PayoutsType, FillFields DEF TotalOf
<1> HIDE DEF a, b
<1>4. Total(b) = Total(a) + (b[i] - a[i])
  BY <1>1, <1>2, TotalUpdate
<1>5. Total(b) = Total(a) + Payout(fills[i], r)
  BY <1>2, <1>3, <1>4
<1> QED BY <1>5 DEF a, b, TotalOf

\* Marking a fill, and buying another, leave the total of given fills alone.
LEMMA TotalOfMarked ==
  ASSUME fills \in Seq(Fill), NEW r, NEW S, NEW i \in DOMAIN fills,
         fills' = [fills EXCEPT ![i].settled = TRUE]
  PROVE  TotalOf(S, r)' = TotalOf(S, r)
<1>1. DOMAIN fills' = DOMAIN fills /\ \A n \in DOMAIN fills : fills'[n].cost = fills[n].cost
  <2>1. \A n \in DOMAIN fills : fills[n] \in Fill
    OBVIOUS
  <2> QED BY <2>1 DEF Fill
<1>2. Payouts(S, r)' = Payouts(S, r)
  BY <1>1 DEF Payouts, Payout
<1> QED BY <1>2 DEF TotalOf

LEMMA TotalOfBought ==
  ASSUME fills \in Seq(Fill), NEW r, NEW S, S \subseteq DOMAIN fills,
         NEW f \in Fill, fills' = Append(fills, f)
  PROVE  TotalOf(S, r)' = TotalOf(S, r)
<1> DEFINE a == Payouts(S, r)
           b == Payouts(S, r)'
           n == Len(fills) + 1
<1>1. /\ fills' \in Seq(Fill) /\ Len(fills') = n /\ n \in Nat
      /\ DOMAIN fills = 1 .. Len(fills) /\ Len(fills) \in Nat
      /\ \A i \in DOMAIN fills : fills'[i] = fills[i]
  OBVIOUS
<1>2. a \in Seq(Int) /\ Len(a) = Len(fills) /\ DOMAIN a = DOMAIN fills /\ TotalOf(S, r) \in Int
  BY PayoutsType
<1>3. b \in Seq(Int) /\ Len(b) = n /\ DOMAIN b = DOMAIN fills'
  <2>1. \A i \in DOMAIN fills' : fills'[i] \in Fill
    BY <1>1
  <2>2. \A i \in DOMAIN fills' : (Payout(fills[i], r))' \in Int
    BY <2>1 DEF Fill, Payout
  <2>3. DOMAIN fills' = 1 .. n
    BY <1>1
  <2>4. b \in [1 .. n -> Int]
    BY <2>2, <2>3 DEF Payouts
  <2> QED BY <1>1, <2>3, <2>4
<1>4. b[n] = 0
  BY <1>1 DEF Payouts
<1>5. \A i \in 1 .. Len(a) : a[i] = b[i]
  <2> TAKE i \in 1 .. Len(a)
  <2>1. i \in DOMAIN fills /\ i \in DOMAIN fills' /\ fills'[i] = fills[i]
    BY <1>1, <1>2
  <2> QED BY <2>1 DEF Payouts, Payout
<1>6. Total(a) \in Int
  BY <1>2 DEF TotalOf
<1> HIDE DEF a, b
<1>7. Total(b) = Total(a) + b[Len(b)]
  BY <1>2, <1>3, <1>5, TotalAppend
<1>8. Total(b) = Total(a)
  BY <1>3, <1>4, <1>6, <1>7
<1> QED BY <1>8 DEF a, b, TotalOf
-----------------------------------------------------------------------------
(* The invariant: steps outside the tools *)

LEMMA InitIInv == Init => IInv
<1> SUFFICES ASSUME Init PROVE IInv
  OBVIOUS
<1>1. /\ fills = <<>> /\ fills \in Seq(Fill) /\ published = <<>> /\ published \in Seq(Report)
      /\ arrived = <<>> /\ arrived \in Seq(Report) /\ Len(published) = 0
      /\ DOMAIN arrived = {} /\ DOMAIN fills = {}
  BY DEF Init, BookInit
<1>2. \A t \in Tickers : /\ position[t] = [status |-> "NONE", pnl |-> 0]
                         /\ rows[t] = NoRow /\ result[t] = NotSettled /\ attempts[t] = 0
  BY DEF Init, BookInit, NoPosition
<1>3. Typed
  BY <1>1, BookAssumption, DayAssumption DEF Init, BookInit, Typed, NoPosition
<1>4. ReportsInv
  BY <1>1, DayAssumption DEF ReportsInv
<1>5. ResultsInv /\ RowsInv
  BY <1>2 DEF ResultsInv, RowsInv
<1>6. AccountInv
  BY <1>1, <1>2 DEF AccountInv, BooksBalance, Init, BookInit, UnsettledOf, FillsOf
<1>7. ToolInv
  BY DEF Init, BookInit, Idle, ToolInv, Waiting
<1> QED BY <1>3, <1>4, <1>5, <1>6, <1>7 DEF IInv

\* What every step leaves of the exchange's results and the issued reports.
Outside ==
  /\ \A t \in Tickers : result[t] # NotSettled => result'[t] = result[t]
  /\ \A i \in DOMAIN published : i \in DOMAIN published' /\ published'[i] = published[i]

LEMMA EntryKeeps ==
  ASSUME Outside, NEW e, NEW t \in Tickers, EntryOK(e, t)
  PROVE  EntryOK(e, t)'
<1>1. result'[t] = result[t] /\ result[t] # NotSettled /\ e.actual = result'[t]
  BY DEF EntryOK, Outside
<1>2. ASSUME NEW i \in DOMAIN published, Final(i) PROVE i \in DOMAIN published' /\ Final(i)'
  BY <1>2 DEF Outside, Final
<1>3. ASSUME e.mismatch, e.source = "exact"
      PROVE  \E i \in DOMAIN published' :
               Final(i)' /\ Evaluate(Threshold[t], published'[i].high) # e.actual
  <2>1. PICK i \in DOMAIN published :
          Final(i) /\ Evaluate(Threshold[t], published[i].high) # e.actual
    BY <1>3 DEF EntryOK
  <2> QED BY <1>2, <2>1 DEF Outside
<1> QED BY <1>1, <1>3 DEF EntryOK

LEMMA RowsKeep == ASSUME RowsInv, Outside, rows' = rows PROVE RowsInv'
<1>1. \A t \in Tickers : EntryOK(rows[t], t) => EntryOK(rows[t], t)'
  <2> SUFFICES ASSUME NEW t \in Tickers, EntryOK(rows[t], t) PROVE EntryOK(rows[t], t)'
    OBVIOUS
  <2>1. \A e : EntryOK(e, t) => EntryOK(e, t)'
    BY EntryKeeps
  <2>2. \A e : e = rows[t] => (result'[t] # NotSettled /\ e.actual = result'[t]
                               /\ (e.mismatch /\ e.source = "exact" =>
                                     \E i \in DOMAIN published' : Final(i)' /\ Evaluate(Threshold[t], published'[i].high) # e.actual))
    BY <2>1 DEF EntryOK
  <2> QED BY <2>2 DEF EntryOK
<1> QED BY <1>1 DEF RowsInv

LEMMA ResultsKeep == ASSUME ResultsInv, Outside, result' = result PROVE ResultsInv'
  BY DEF ResultsInv, Outside, Final

\* A step that buys a fill or nothing, and changes no position that is open or
\* closed in a settled market, leaves the running tool and the books alone.
Apart ==
  /\ Outside
  /\ \A t \in Tickers : result[t] # NotSettled /\ position[t].status # "NONE" =>
                          position'[t] = position[t]
  /\ attempts' = attempts
  /\ \/ fills' = fills
     \/ \E f \in Fill : ~ f.settled /\ result[f.ticker] = NotSettled
                        /\ fills' = Append(fills, f)

LEMMA FillsApart ==
  ASSUME fills \in Seq(Fill), Apart
  PROVE  /\ fills' \in Seq(Fill)
         /\ DOMAIN fills \subseteq DOMAIN fills'
         /\ \A t \in Tickers : result[t] # NotSettled =>
              FillsOf(t)' = FillsOf(t) /\ UnsettledOf(t)' = UnsettledOf(t)
         /\ \A t : UnsettledOf(t) = FillsOf(t) => UnsettledOf(t)' = FillsOf(t)'
         /\ \A S, r : S \subseteq DOMAIN fills => TotalOf(S, r)' = TotalOf(S, r)
<1>1. CASE fills' = fills
  BY <1>1 DEF FillsOf, UnsettledOf, TotalOf, Payouts
<1>2. CASE \E f \in Fill : ~ f.settled /\ result[f.ticker] = NotSettled /\ fills' = Append(fills, f)
  <2> PICK f \in Fill : ~ f.settled /\ result[f.ticker] = NotSettled /\ fills' = Append(fills, f)
    BY <1>2
  <2> DEFINE n == Len(fills) + 1
  <2>1. /\ fills' \in Seq(Fill) /\ DOMAIN fills' = DOMAIN fills \union {n}
        /\ n \notin DOMAIN fills /\ fills'[n] = f
        /\ \A i \in DOMAIN fills : fills'[i] = fills[i]
    OBVIOUS
  <2> HIDE DEF n
  <2>2. \A t : FillsOf(t)' = IF f.ticker = t THEN FillsOf(t) \union {n} ELSE FillsOf(t)
    BY <2>1 DEF FillsOf
  <2>3. \A t : UnsettledOf(t)' = IF f.ticker = t THEN UnsettledOf(t) \union {n} ELSE UnsettledOf(t)
    BY <2>1, <2>2 DEF UnsettledOf, FillsOf
  <2> QED BY <2>1, <2>2, <2>3, TotalOfBought
<1> QED BY <1>1, <1>2 DEF Apart

LEMMA ToolApart ==
  ASSUME Typed, ToolInv, Apart, tool' = tool
  PROVE  ToolInv'
<1>1. CASE Waiting(tool)
  BY <1>1 DEF Waiting, ToolInv
<1>2. CASE Corpusing(tool)
  <2>1. \A t \in tool.queue : EntryOK(tool.entry[t], t)'
    <3> TAKE t \in tool.queue
    <3>1. t \in Tickers /\ EntryOK(tool.entry[t], t)
      BY <1>2 DEF Corpusing
    <3>2. \A e : EntryOK(e, t) => EntryOK(e, t)'
      BY <3>1, EntryKeeps DEF Apart
    <3>3. \A e : e = tool.entry[t] => EntryOK(e, t)'
      BY <3>1, <3>2
    <3> QED BY <3>3 DEF EntryOK
  <2> QED BY <1>2, <2>1 DEF Corpusing, ToolInv
<1>3. CASE Settling(tool)
  <2> DEFINE t == tool.ticker
  <2>1. /\ t \in Tickers /\ result[t] # NotSettled /\ position[t].status = "OPEN"
        /\ fills \in Seq(Fill)
    BY <1>3 DEF Settling, Typed
  <2>2. /\ result'[t] = result[t] /\ position'[t] = position[t] /\ attempts' = attempts
        /\ FillsOf(t)' = FillsOf(t) /\ UnsettledOf(t)' = UnsettledOf(t)
        /\ \A S, r : S \subseteq DOMAIN fills => TotalOf(S, r)' = TotalOf(S, r)
    BY <2>1, FillsApart DEF Apart, Outside
  <2>3. PICK S \in SUBSET (FillsOf(t) \ tool.todo) :
          /\ tool.acc = TotalOf(S, tool.result)
          /\ attempts[t] = 1 => S = FillsOf(t) \ tool.todo
    BY <1>3 DEF Settling, AddedUp
  <2>4. S \subseteq DOMAIN fills
    BY DEF FillsOf
  <2>5. \A r : TotalOf(S, r)' = TotalOf(S, r)
    BY <2>2, <2>4
  <2>6. AddedUp(tool)'
    <3>1. TotalOf(S, tool.result)' = TotalOf(S, tool.result)
      <4>1. \A r : r = tool.result => TotalOf(S, r)' = TotalOf(S, r)
        BY <2>5
      <4> QED BY <4>1 DEF TotalOf, Payouts
    <3>2. /\ tool.acc = TotalOf(S, tool.result)'
          /\ attempts'[t] = 1 => S = FillsOf(t)' \ tool.todo
      BY <2>2, <2>3, <3>1
    <3>3. S \in SUBSET (FillsOf(t)' \ tool.todo)
      BY <2>2
    <3> QED BY <3>2, <3>3 DEF AddedUp, FillsOf
  <2> QED BY <1>3, <2>1, <2>2, <2>6 DEF Settling, ToolInv, UnsettledOf, FillsOf
<1> QED BY <1>1, <1>2, <1>3 DEF ToolInv
LEMMA AccountApart ==
  ASSUME Typed, AccountInv, Apart,
         \A t \in Tickers : \/ position'[t] = position[t]
                            \/ position'[t] = [status |-> "OPEN", pnl |-> 0]
                            \/ position'[t] = [status |-> "NONE", pnl |-> 0],
         opening' # NoTicker =>
           position'[opening'].status = "NONE" /\ (FillsOf(opening) # {})'
  PROVE  AccountInv'
<1>1. fills \in Seq(Fill) /\ attempts' = attempts
  BY DEF Typed, Apart
<1>2. ASSUME NEW t \in Tickers
      PROVE  /\ position'[t].status = "CLOSED" => result'[t] # NotSettled /\ attempts'[t] > 0
             /\ position'[t].status # "CLOSED" => position'[t].pnl = 0
             /\ attempts'[t] = 0 => UnsettledOf(t)' = FillsOf(t)'
  <2>1. attempts[t] = 0 => UnsettledOf(t)' = FillsOf(t)'
    BY <1>1, FillsApart DEF AccountInv
  <2>2. position'[t].status = "CLOSED" => position'[t] = position[t]
    OBVIOUS
  <2>3. result[t] # NotSettled => result'[t] = result[t]
    BY DEF Apart, Outside
  <2> QED BY <1>1, <2>1, <2>2, <2>3 DEF AccountInv
<1>3. ASSUME NEW t \in Tickers, position'[t].status = "CLOSED", attempts'[t] = 1
      PROVE  position'[t].pnl = TotalOf(FillsOf(t), result[t])'
  <2>1. position'[t] = position[t] /\ position[t].status = "CLOSED" /\ attempts[t] = 1
    BY <1>1, <1>3
  <2>2. result[t] # NotSettled
    BY <2>1 DEF AccountInv
  <2>3. result'[t] = result[t]
    BY <2>2 DEF Apart, Outside
  <2>4. position[t].pnl = TotalOf(FillsOf(t), result[t])
    BY <2>1 DEF AccountInv, BooksBalance
  <2>5. FillsOf(t)' = FillsOf(t) /\ FillsOf(t) \subseteq DOMAIN fills
    BY <1>1, <2>2, FillsApart DEF FillsOf
  <2>6. \A S, r : S = FillsOf(t) /\ r = result[t] => TotalOf(S, r)' = TotalOf(S, r)
    BY <1>1, <2>5, FillsApart
  <2>7. \A S, r : S = FillsOf(t)' /\ r = result'[t] => TotalOf(S, r)' = TotalOf(FillsOf(t), result[t])
    BY <2>3, <2>5, <2>6
  <2>8. TotalOf(FillsOf(t), result[t])' = TotalOf(FillsOf(t), result[t])
    BY <2>7 DEF TotalOf, Payouts
  <2> QED BY <2>1, <2>4, <2>8
<1>4. BooksBalance'
  BY <1>3 DEF BooksBalance
<1> QED BY <1>2, <1>4 DEF AccountInv

LEMMA ReportsGrow ==
  ASSUME ReportsInv, NEW r \in Report, published' = Append(published, r),
         Len(published) < MaxReports, arrived' = arrived
  PROVE  ReportsInv' /\ \A i \in DOMAIN published :
                          i \in DOMAIN published' /\ published'[i] = published[i]
<1>1. published \in Seq(Report) /\ MaxReports \in Nat
  BY DayAssumption DEF ReportsInv
<1>2. /\ published' \in Seq(Report) /\ Len(published') <= MaxReports
      /\ \A i \in DOMAIN published : i \in DOMAIN published' /\ published'[i] = published[i]
  BY <1>1
<1> QED BY <1>2 DEF ReportsInv

LEMMA PublishIInv == ASSUME IInv, Publish PROVE IInv'
<1> USE DEF bookVars
<1>1. PICK h \in Highs :
        published' = Append(published, [issue |-> now, version |-> Len(published) + 1, high |-> h])
  BY DEF Publish
<1>2. /\ UNCHANGED <<bookVars, now, arrived>> /\ Len(published) < MaxReports
      /\ fills \in Seq(Fill)
  BY DEF Publish, IInv, Typed
<1>3. [issue |-> now, version |-> Len(published) + 1, high |-> h] \in Report
  <2>1. now \in Nat /\ published \in Seq(Report)
    BY DayAssumption DEF IInv, Typed, ReportsInv
  <2>2. Len(published) + 1 \in Nat
    BY <2>1
  <2> QED BY <2>1, <2>2 DEF Report
<1>4. ReportsInv' /\ Outside
  BY <1>1, <1>2, <1>3, ReportsGrow DEF IInv, Outside
<1>5. Apart
  BY <1>2, <1>4 DEF Apart
<1>6. Typed'
  BY <1>2 DEF IInv, Typed
<1>7. AccountInv'
  BY <1>2, <1>5, AccountApart DEF IInv, AccountInv, FillsOf
<1> QED BY <1>2, <1>4, <1>5, <1>6, <1>7, RowsKeep, ResultsKeep, ToolApart DEF IInv

LEMMA ArchiveIInv == ASSUME IInv, NEW i \in DOMAIN published, Archive(i) PROVE IInv'
<1> USE DEF bookVars
<1>1. /\ UNCHANGED <<bookVars, now, published>> /\ fills \in Seq(Fill)
      /\ arrived' = Append(arrived, published[i])
      /\ \A k \in DOMAIN arrived : arrived[k] # published[i]
  BY DEF Archive, Archived, IInv, Typed
<1>2. ReportsInv'
  <2>1. published \in Seq(Report) /\ arrived \in Seq(Report) /\ published[i] \in Report
    BY DEF IInv, ReportsInv
  <2> DEFINE n == Len(arrived) + 1
  <2>2. /\ arrived' \in Seq(Report) /\ DOMAIN arrived' = DOMAIN arrived \union {n}
        /\ arrived'[n] = published[i]
        /\ \A k \in DOMAIN arrived : arrived'[k] = arrived[k]
    BY <1>1, <2>1
  <2> HIDE DEF n
  <2> QED BY <1>1, <2>2 DEF IInv, ReportsInv
<1>3. Outside /\ Apart
  BY <1>1 DEF Outside, Apart
<1>4. Typed'
  BY <1>1 DEF IInv, Typed
<1>5. AccountInv'
  BY <1>1, <1>3, AccountApart DEF IInv, AccountInv, FillsOf
<1> QED BY <1>1, <1>2, <1>3, <1>4, <1>5, RowsKeep, ResultsKeep, ToolApart DEF IInv

LEMMA TickIInv == ASSUME IInv, Tick PROVE IInv'
<1> USE DEF bookVars
<1>1. UNCHANGED <<bookVars, published, arrived>> /\ fills \in Seq(Fill)
  BY DEF Tick, IInv, Typed
<1>2. ReportsInv' /\ Outside /\ Apart
  BY <1>1 DEF Outside, Apart, IInv, ReportsInv
<1>3. now' \in 0 .. MaxTime
  BY DayAssumption DEF IInv, Typed, Tick
<1>4. Typed'
  BY <1>1, <1>3 DEF IInv, Typed
<1>5. AccountInv'
  BY <1>1, <1>2, AccountApart DEF IInv, AccountInv, FillsOf
<1> QED BY <1>1, <1>2, <1>4, <1>5, RowsKeep, ResultsKeep, ToolApart DEF IInv

LEMMA SettleMarketsIInv == ASSUME IInv, SettleMarkets PROVE IInv'
<1> USE DEF dayVars
<1>1. /\ UNCHANGED <<fills, position, rows, opening, tool, attempts, kills, dayVars>>
      /\ published \in Seq(Report) /\ published # <<>>
      /\ ReportStatus(published[Len(published)]) = "CANDIDATE_FINAL"
      /\ \A t \in Tickers : result[t] = NotSettled
      /\ result' = [t \in Tickers |-> Evaluate(Threshold[t], published[Len(published)].high)]
  BY DEF SettleMarkets, Last, IInv, ReportsInv
<1>2. ReportsInv' /\ Outside /\ Apart
  BY <1>1 DEF Outside, Apart, IInv, ReportsInv
<1>3. Len(published) \in DOMAIN published
  BY <1>1
<1>4. ResultsInv'
  BY <1>1, <1>3 DEF ResultsInv, Final
<1>5. Typed'
  BY <1>1 DEF IInv, Typed, Evaluate, Results
<1>6. AccountInv'
  BY <1>1, <1>2, AccountApart DEF IInv, AccountInv, FillsOf
<1> QED BY <1>1, <1>2, <1>4, <1>5, <1>6, RowsKeep, ToolApart DEF IInv

LEMMA CycleIInv == ASSUME IInv, Cycle PROVE IInv'
<1> USE DEF dayVars
<1>0. /\ UNCHANGED <<now, published, arrived>> /\ fills \in Seq(Fill)
      /\ position \in [Tickers -> [status : {"NONE", "OPEN", "CLOSED"}, pnl : Int]]
  BY DEF Cycle, IInv, Typed
<1>1. CASE \E t \in Tickers : SaveFill(t)
  <2> PICK t \in Tickers : SaveFill(t)
    BY <1>1
  <2> DEFINE f == [ticker |-> t, cost |-> Costs[Len(fills) + 1], settled |-> FALSE]
  <2>1. /\ UNCHANGED <<position, rows, result, tool, attempts, kills>>
        /\ opening' = t /\ fills' = Append(fills, f)
        /\ result[t] = NotSettled /\ position[t].status # "OPEN"
    BY DEF SaveFill, WithFill
  <2>2. f \in Fill
    <3>1. Len(fills) + 1 \in DOMAIN Costs
      BY <1>0, BookAssumption DEF SaveFill, WithFill
    <3>2. Costs[Len(fills) + 1] \in Int
      BY <3>1, BookAssumption
    <3> QED BY <3>2 DEF Fill
  <2>3. Outside /\ Apart /\ ReportsInv' /\ ResultsInv'
    <3>1. Outside /\ ReportsInv' /\ ResultsInv'
      BY <1>0, <2>1 DEF Outside, IInv, ReportsInv, ResultsInv, Final
    <3>2. ~ f.settled /\ f.ticker = t
      OBVIOUS
    <3> HIDE DEF f
    <3> QED BY <2>1, <2>2, <3>1, <3>2 DEF Apart
  <2>4. position[t].status = "NONE"
    <3>1. position[t].status # "CLOSED"
      BY <2>1 DEF IInv, AccountInv
    <3> QED BY <1>0, <2>1, <3>1
  <2>5. (FillsOf(opening) # {})'
    <3>1. /\ Len(fills) + 1 \in DOMAIN fills' /\ fills'[Len(fills) + 1] = f
      BY <1>0, <2>1, <2>2
    <3> QED BY <2>1, <3>1 DEF FillsOf
  <2>6. AccountInv'
    <3> HIDE DEF f
    <3> QED BY <2>1, <2>3, <2>4, <2>5, AccountApart DEF IInv
  <2>7. Typed'
    <3>1. fills' \in Seq(Fill)
      BY <1>0, <2>1, <2>2
    <3> QED BY <1>0, <2>1, <3>1 DEF IInv, Typed
  <2> QED BY <2>1, <2>3, <2>6, <2>7, RowsKeep, ToolApart DEF IInv
<1>2. CASE SavePosition \/ CycleDies \/ \E t \in Tickers : DeletePosition(t)
  <2>1. UNCHANGED <<fills, rows, result, tool, attempts, kills>>
    BY <1>2 DEF SavePosition, CycleDies, DeletePosition
  <2>2. /\ position' \in [Tickers -> [status : {"NONE", "OPEN", "CLOSED"}, pnl : Int]]
        /\ \A t \in Tickers : \/ position'[t] = position[t]
                              \/ position[t].status = "NONE"
                                 /\ position'[t] = [status |-> "OPEN", pnl |-> 0]
                              \/ result[t] = NotSettled
                                 /\ position'[t] = [status |-> "NONE", pnl |-> 0]
    <3>1. CASE SavePosition
      <4>1. opening \in Tickers /\ position[opening].status = "NONE"
        BY <3>1 DEF SavePosition, IInv, Typed, AccountInv
      <4> QED BY <1>0, <3>1, <4>1 DEF SavePosition
    <3>2. CASE CycleDies
      BY <1>0, <3>2 DEF CycleDies
    <3>3. CASE \E t \in Tickers : DeletePosition(t)
      BY <1>0, <3>3 DEF DeletePosition, NoPosition
    <3> QED BY <1>2, <3>1, <3>2, <3>3
  <2>3. Outside /\ Apart /\ ReportsInv' /\ ResultsInv'
    <3>1. Outside /\ ReportsInv' /\ ResultsInv'
      BY <1>0, <2>1 DEF Outside, IInv, ReportsInv, ResultsInv, Final
    <3> QED BY <2>1, <2>2, <3>1 DEF Apart
  <2>4. opening' = NoTicker
    BY <1>2 DEF SavePosition, CycleDies, DeletePosition
  <2>5. AccountInv'
    BY <2>2, <2>3, <2>4, AccountApart DEF IInv
  <2>6. Typed'
    BY <1>0, <2>1, <2>2, <2>4 DEF IInv, Typed
  <2> QED BY <2>1, <2>3, <2>5, <2>6, RowsKeep, ToolApart DEF IInv
<1> QED BY <1>1, <1>2 DEF Cycle
-----------------------------------------------------------------------------
(* The invariant: steps of the tools *)

\* What a tool's step leaves alone.
Inside == UNCHANGED <<opening, result, now, published, arrived>>

LEMMA InsideKeeps ==
  ASSUME IInv, Inside
  PROVE  ReportsInv' /\ ResultsInv' /\ Outside
  BY DEF IInv, Inside, ReportsInv, ResultsInv, Outside, Final

LEMMA AccountInside ==
  ASSUME AccountInv, UNCHANGED <<opening, fills, position, result, attempts>>
  PROVE  AccountInv'
  BY DEF AccountInv, BooksBalance, UnsettledOf, FillsOf, TotalOf, Payouts

LEMMA CorpusIInv == ASSUME IInv, Corpus PROVE IInv'
<1> DEFINE entry == [t \in Tickers |->
                       EntryFor(Threshold[t], result[t], arrived, now, ProxyHigh, proxy)]
           settled == {t \in Tickers : result[t] # NotSettled}
<1>1. /\ ClearRows(entry) /\ Inside
      /\ UNCHANGED <<opening, fills, position, result, attempts, kills>>
      /\ rows' = [t \in Tickers |-> NoRow]
  BY DEF Corpus, ClearRows, dayVars, Inside
<1>2. /\ ReportsInv' /\ ResultsInv' /\ AccountInv' /\ RowsInv'
  BY <1>1, InsideKeeps, AccountInside DEF IInv, RowsInv
<1>3. Typed'
  BY <1>1 DEF IInv, Typed, Inside
<1>4. \A t \in settled : EntryOK(entry[t], t)
  BY EntryIs DEF IInv
<1>5. CASE settled = {}
  <2>1. tool' = ReconcileNext
    BY <1>1, <1>5 DEF ClearRows
  <2>2. ToolInv'
    BY <2>1 DEF ToolInv, Waiting, ReconcileNext
  <2> QED BY <1>2, <1>3, <2>2 DEF IInv
<1>6. CASE settled # {}
  <2>1. tool' = [name |-> "corpus", entry |-> entry, queue |-> settled]
    BY <1>1, <1>6 DEF ClearRows
  <2>2. \A e, t : EntryOK(e, t) => EntryOK(e, t)'
    BY <1>1 DEF EntryOK, Inside, Final
  <2>3. \A e : \A t \in settled : e = entry[t] => EntryOK(e, t)'
    BY <1>4, <2>2
  <2>4. Corpusing(tool)'
    <3> HIDE DEF entry
    <3>1. \A e : \A t \in tool'.queue : e = tool'.entry[t] => EntryOK(e, t)'
      BY <2>1, <2>3
    <3>2. \A t \in tool'.queue : EntryOK(tool.entry[t], t)'
      BY <3>1 DEF EntryOK
    <3> QED BY <2>1, <3>2 DEF Corpusing
  <2> QED BY <1>2, <1>3, <2>4 DEF IInv, ToolInv
<1> QED BY <1>5, <1>6

LEMMA WriteIInv == ASSUME IInv, Write PROVE IInv'
<1> PICK t \in Tickers : SaveRow(t)
  BY DEF Write
<1>1. /\ Inside /\ UNCHANGED <<opening, fills, position, result, attempts, kills>>
      /\ tool.name = "corpus" /\ t \in tool.queue
      /\ rows' = [rows EXCEPT ![t] = tool.entry[t]]
  BY DEF Write, SaveRow, dayVars, Inside
<1>2. /\ ReportsInv' /\ ResultsInv' /\ AccountInv'
  BY <1>1, InsideKeeps, AccountInside DEF IInv
<1>3. Typed'
  <2>1. rows' = [u \in Tickers |-> rows'[u]]
    BY <1>1 DEF IInv, Typed
  <2> QED BY <1>1, <2>1 DEF IInv, Typed, Inside
<1>4. Corpusing(tool)
  BY <1>1 DEF IInv, ToolInv, Waiting, Settling
<1>5. \A e, u : EntryOK(e, u) => EntryOK(e, u)'
  BY <1>1 DEF EntryOK, Inside, Final
<1>6. RowsInv'
  <2>1. \A u \in Tickers : rows'[u] = IF u = t THEN tool.entry[t] ELSE rows[u]
    BY <1>1 DEF IInv, Typed
  <2>2. EntryOK(tool.entry[t], t)
    BY <1>1, <1>4 DEF Corpusing
  <2>3. \A u \in Tickers : rows'[u] = NoRow \/ EntryOK(rows'[u], u)
    BY <2>1, <2>2 DEF IInv, RowsInv
  <2>4. \A e : \A u \in Tickers : e = rows'[u] => e = NoRow \/ EntryOK(e, u)'
    BY <1>5, <2>3
  <2> QED BY <2>4 DEF RowsInv, EntryOK
<1>7. ToolInv'
  <2>1. CASE tool.queue = {t}
    <3>1. tool' = ReconcileNext
      BY <2>1 DEF SaveRow
    <3> QED BY <3>1 DEF ToolInv, Waiting, ReconcileNext
  <2>2. CASE tool.queue # {t}
    <3> DEFINE q == tool.queue \ {t}
               left == [u \in q |-> tool.entry[u]]
    <3>1. tool' = [tool EXCEPT !.queue = q, !.entry = left]
      BY <2>2 DEF SaveRow
    <3>2. tool = [name |-> "corpus", entry |-> tool.entry, queue |-> tool.queue]
      BY <1>4 DEF Corpusing
    <3>3. tool' = [name |-> "corpus", entry |-> left, queue |-> q]
      <4> HIDE DEF q, left
      <4>1. \E e, d : tool = [name |-> "corpus", entry |-> e, queue |-> d]
        BY <3>2
      <4>2. PICK e, d : tool = [name |-> "corpus", entry |-> e, queue |-> d]
        BY <4>1
      <4> QED BY <3>1, <4>2
    <3>4. \A u \in q : EntryOK(left[u], u)
      BY <1>4 DEF Corpusing
    <3>5. \A e : \A u \in q : e = left[u] => EntryOK(e, u)'
      BY <1>5, <3>4
    <3>6. q \subseteq Tickers
      BY <1>4 DEF Corpusing
    <3> HIDE DEF q, left
    <3>7. \A u \in tool'.queue : EntryOK(tool'.entry[u], u)
      BY <1>5, <3>3, <3>4
    <3>8. \A e : \A u \in tool'.queue : e = tool'.entry[u] => EntryOK(e, u)'
      BY <1>5, <3>7
    <3>9. \A u \in tool'.queue : EntryOK(tool.entry[u], u)'
      BY <3>8 DEF EntryOK
    <3> QED BY <3>3, <3>6, <3>9 DEF Corpusing, ToolInv
  <2> QED BY <2>1, <2>2
<1> QED BY <1>2, <1>3, <1>6, <1>7 DEF IInv

\* A step that only turns the tool to other waiting work.
LEMMA WaitingIInv ==
  ASSUME IInv, Inside, UNCHANGED <<fills, position, rows, attempts>>,
         kills' \in 0 .. MaxKills, Waiting(tool')
  PROVE  IInv'
<1>1. ReportsInv' /\ ResultsInv' /\ AccountInv' /\ RowsInv'
  BY InsideKeeps, AccountInside, RowsKeep DEF IInv, Inside
<1>2. Typed'
  BY DEF IInv, Typed, Inside
<1>3. ToolInv'
  BY DEF ToolInv, Waiting
<1> QED BY <1>1, <1>2, <1>3 DEF IInv

LEMMA ListedWaits == ASSUME NEW q \in SUBSET Tickers PROVE Waiting(Listed(q))
  BY DEF Listed, Idle, Waiting

LEMMA KillIInv == ASSUME IInv, KillTool PROVE IInv'
<1>1. /\ Inside /\ UNCHANGED <<fills, position, rows, attempts>>
      /\ kills' = kills + 1 /\ kills < MaxKills
      /\ tool' \in {ReconcileNext, Idle}
  BY DEF KillTool, Kill, Inside, dayVars
<1>2. kills' \in 0 .. MaxKills
  <2>1. kills \in 0 .. MaxKills /\ MaxKills \in Nat
    BY BookAssumption DEF IInv, Typed
  <2> QED BY <1>1, <2>1
<1>3. Waiting(tool')
  BY <1>1 DEF Waiting, ReconcileNext, Idle
<1> QED BY <1>1, <1>2, <1>3, WaitingIInv

\* The position that the city's look-up finds is one of the city's.
LEMMA FirstOfType ==
  ASSUME NEW S \in SUBSET Tickers, S # {}
  PROVE  FirstOf(S) \in S
<1> DEFINE T == {i \in DOMAIN Order : Order[i] \in S}
<1>1. T # {} /\ T \subseteq Nat
  BY BookAssumption
<1>2. \E x \in T : \A y \in T : ~ (<<y, x>> \in OpToRel(<, Nat))
  BY <1>1, NatLessThanWellFounded, WFMin
<1>3. PICK x \in T : \A y \in T : ~ (y < x)
  BY <1>1, <1>2 DEF OpToRel
<1>4. \A y \in T : x <= y
  BY <1>1, <1>3
<1>5. Min(T) \in T
  <2> HIDE DEF T
  <2> QED BY <1>4 DEF Min
<1> QED BY <1>5 DEF FirstOf

\* The tool takes a result only from the exchange or from a row that has it.
LEMMA ResultIs ==
  ASSUME RowsInv, NEW p \in Tickers, NEW t \in Tickers, NEW answered \in BOOLEAN,
         answered => p = t, ResultFor(p, t, answered) # NotSettled
  PROVE  ResultFor(p, t, answered) = result[p]
<1>1. CASE answered /\ result[t] # NotSettled
  BY <1>1 DEF ResultFor
<1>2. CASE ~ (answered /\ result[t] # NotSettled)
  <2>1. rows[p].present /\ rows[p].resolved /\ ResultFor(p, t, answered) = rows[p].actual
    BY <1>2 DEF ResultFor
  <2>2. rows[p] # NoRow
    BY <2>1 DEF NoRow
  <2> QED BY <2>1, <2>2 DEF RowsInv, EntryOK
<1> QED BY <1>1, <1>2

LEMMA BeginIInv ==
  ASSUME IInv, NEW t \in Tickers, BeginSettlement(t), UNCHANGED dayVars
  PROVE  IInv'
<1>0. PICK p : p = PositionOfCity
  OBVIOUS
<1>1. PICK answered \in BOOLEAN :
        /\ MayReconcile(p, t, answered)
        /\ tool' = [name |-> "settle", ticker |-> p, acc |-> 0,
                    result |-> ResultFor(p, t, answered), todo |-> UnsettledOf(p),
                    queue |-> tool.queue \ {t}]
        /\ attempts' = [attempts EXCEPT ![p] = @ + 1]
  BY <1>0 DEF BeginSettlement
<1>2. /\ Inside /\ UNCHANGED <<fills, position, rows, kills>>
      /\ SomePositions # {} /\ tool.name = "reconcile"
  BY DEF BeginSettlement, Inside, dayVars
<1>3. p \in Tickers
  BY <1>0, <1>2, FirstOfType DEF PositionOfCity, SomePositions
<1>4. tool.queue \ {t} \subseteq Tickers
  BY <1>2 DEF IInv, ToolInv, Waiting, Corpusing, Settling
<1>5. /\ position[p].status = "OPEN" /\ ResultFor(p, t, answered) = result[p]
      /\ result[p] # NotSettled
  <2>1. position[p].status = "OPEN" /\ (answered => p = t) /\ ResultFor(p, t, answered) # NotSettled
    BY <1>1 DEF MayReconcile
  <2>2. ResultFor(p, t, answered) = result[p]
    BY <1>3, <2>1, ResultIs DEF IInv
  <2> QED BY <2>1, <2>2
<1>6. /\ attempts \in [Tickers -> Nat] /\ fills \in Seq(Fill)
      /\ attempts' \in [Tickers -> Nat] /\ attempts'[p] = attempts[p] + 1
      /\ attempts[p] \in Nat
      /\ \A u \in Tickers \ {p} : attempts'[u] = attempts[u]
  <2> QED BY <1>1, <1>3 DEF IInv, Typed
<1>7. ReportsInv' /\ ResultsInv' /\ RowsInv' /\ Typed'
  <2>1. ReportsInv' /\ ResultsInv' /\ RowsInv'
    BY <1>2, InsideKeeps, RowsKeep DEF IInv
  <2>2. Typed'
    BY <1>2, <1>6 DEF IInv, Typed, Inside
  <2> QED BY <2>1, <2>2
<1>8. AccountInv'
  <2>1. ASSUME NEW u \in Tickers
        PROVE  /\ attempts'[u] = 0 => attempts[u] = 0
               /\ attempts[u] > 0 => attempts'[u] > 0
               /\ position[u].status = "CLOSED" => attempts'[u] = attempts[u]
    <3>1. u = p \/ attempts'[u] = attempts[u]
      BY <1>6
    <3> QED BY <1>5, <1>6, <3>1
  <2>2. UNCHANGED <<opening, fills, position, result>>
    BY <1>2 DEF Inside
  <2> QED BY <2>1, <2>2
          DEF IInv, AccountInv, BooksBalance, UnsettledOf, FillsOf, TotalOf, Payouts
<1>9. Settling(tool)'
  <2>1. attempts[p] = 0 => FillsOf(p) \ UnsettledOf(p) = {}
    BY <1>3 DEF IInv, AccountInv
  <2>2. \A r : TotalOf({}, r) = 0
    BY <1>6, TotalOfNone
  <2>3. /\ tool'.ticker = p /\ tool'.acc = 0 /\ tool'.result = result[p]
        /\ tool'.todo = UnsettledOf(p) /\ tool'.name = "settle"
        /\ tool'.queue \subseteq Tickers
    BY <1>1, <1>4, <1>5
  <2>4. /\ UnsettledOf(p)' = UnsettledOf(p) /\ FillsOf(p)' = FillsOf(p)
        /\ \A r : TotalOf({}, r)' = 0
    BY <1>2, <2>2 DEF UnsettledOf, FillsOf, TotalOf, Payouts
  <2>5. AddedUp(tool)'
    <3>1. attempts'[p] = 1 => {} = FillsOf(p) \ UnsettledOf(p)
      BY <1>6, <2>1
    <3>2. TotalOf({}, tool.result)' = 0
      <4>1. \A r : r = tool'.result => TotalOf({}, r)' = 0
        BY <2>4
      <4> QED BY <4>1 DEF TotalOf, Payouts
    <3>3. FillsOf(tool.ticker)' = FillsOf(p)
      BY <2>3, <2>4 DEF FillsOf
    <3> QED BY <2>3, <3>1, <3>2, <3>3 DEF AddedUp
  <2>6. UnsettledOf(tool.ticker)' = UnsettledOf(p)
    BY <2>3, <2>4 DEF UnsettledOf, FillsOf
  <2>7. tool' = [name |-> "settle", ticker |-> tool'.ticker, acc |-> tool'.acc,
                 result |-> tool'.result, todo |-> tool'.todo, queue |-> tool'.queue]
    BY <1>1
  <2>8. /\ position'[p].status = "OPEN" /\ attempts'[p] > 0 /\ result'[p] = result[p]
    BY <1>2, <1>5, <1>6 DEF Inside
  <2> QED BY <1>3, <1>5, <2>3, <2>5, <2>6, <2>7, <2>8 DEF Settling
<1> QED BY <1>7, <1>8, <1>9 DEF IInv, ToolInv

LEMMA SettleFillIInv ==
  ASSUME IInv, NEW i \in DOMAIN fills, SettleFill(i), UNCHANGED dayVars
  PROVE  IInv'
<1> DEFINE t == tool.ticker
           r == tool.result
<1>1. /\ Inside /\ UNCHANGED <<position, rows, attempts, kills>>
      /\ tool.name = "settle" /\ i \in tool.todo
      /\ fills' = [fills EXCEPT ![i].settled = TRUE]
      /\ tool' = [tool EXCEPT !.todo = @ \ {i}, !.acc = @ + Payout(fills[i], tool.result)]
  BY DEF SettleFill, Inside, dayVars
<1>2. Settling(tool)
  BY <1>1 DEF IInv, ToolInv, Waiting, Corpusing
<1>3. /\ tool' = [name |-> "settle", ticker |-> t, acc |-> tool.acc + Payout(fills[i], r),
                  result |-> r, todo |-> tool.todo \ {i}, queue |-> tool.queue]
  <2>1. PICK a, b, c, d, e : tool = [name |-> "settle", ticker |-> a, acc |-> b,
                                     result |-> c, todo |-> d, queue |-> e]
    BY <1>2 DEF Settling
  <2> QED BY <1>1, <2>1
<1>4. /\ fills \in Seq(Fill) /\ t \in Tickers /\ tool.todo = UnsettledOf(t)
      /\ result[t] = r /\ r # NotSettled /\ position[t].status = "OPEN" /\ attempts[t] > 0
      /\ attempts \in [Tickers -> Nat]
  BY <1>2 DEF IInv, Typed, Settling
<1>5. /\ fills' \in Seq(Fill) /\ DOMAIN fills' = DOMAIN fills
      /\ \A j \in DOMAIN fills : /\ fills'[j].ticker = fills[j].ticker
                                 /\ fills'[j].settled = (j = i \/ fills[j].settled)
  <2>1. \A j \in DOMAIN fills : fills[j] \in Fill
    BY <1>4
  <2>2. [fills[i] EXCEPT !.settled = TRUE] \in Fill
    BY <2>1 DEF Fill
  <2>3. fills' = [fills EXCEPT ![i] = [fills[i] EXCEPT !.settled = TRUE]]
    BY <1>1
  <2>4. fills' \in Seq(Fill) /\ DOMAIN fills' = DOMAIN fills
    BY <1>4, <2>2, <2>3
  <2>5. \A j \in DOMAIN fills : fills'[j] = IF j = i THEN [fills[i] EXCEPT !.settled = TRUE]
                                            ELSE fills[j]
    BY <1>4, <2>3
  <2>6. \A j \in DOMAIN fills : /\ fills'[j].ticker = fills[j].ticker
                                /\ fills'[j].settled = (j = i \/ fills[j].settled)
    BY <2>1, <2>5 DEF Fill
  <2> QED BY <2>4, <2>6
<1>6. /\ \A u : FillsOf(u)' = FillsOf(u)
      /\ \A u : UnsettledOf(u)' = UnsettledOf(u) \ {i}
      /\ i \in UnsettledOf(t) /\ i \in FillsOf(t) /\ fills[i].ticker = t
      /\ \A S, x : TotalOf(S, x)' = TotalOf(S, x)
  <2>1. \A u : FillsOf(u)' = FillsOf(u)
    BY <1>5 DEF FillsOf
  <2>2. \A u : UnsettledOf(u)' = UnsettledOf(u) \ {i}
    <3>1. \A u : \A j \in FillsOf(u) : ~ fills'[j].settled <=> j # i /\ ~ fills[j].settled
      BY <1>5 DEF FillsOf
    <3> QED BY <2>1, <3>1 DEF UnsettledOf
  <2>3. i \in UnsettledOf(t) /\ i \in FillsOf(t) /\ fills[i].ticker = t
    BY <1>1, <1>4 DEF FillsOf, UnsettledOf
  <2>4. \A S, x : TotalOf(S, x)' = TotalOf(S, x)
    BY <1>1, <1>4, <2>3, TotalOfMarked DEF FillsOf
  <2> QED BY <2>1, <2>2, <2>3, <2>4
<1>7. ReportsInv' /\ ResultsInv' /\ RowsInv' /\ Typed'
  <2>1. ReportsInv' /\ ResultsInv' /\ RowsInv'
    BY <1>1, InsideKeeps, RowsKeep DEF IInv
  <2>2. Typed'
    BY <1>1, <1>5 DEF IInv, Typed, Inside
  <2> QED BY <2>1, <2>2
<1>8. AccountInv'
  <2>1. ASSUME NEW u \in Tickers, attempts[u] = 0 PROVE UnsettledOf(u)' = FillsOf(u)'
    <3>1. u # t
      BY <1>4, <2>1
    <3>2. i \notin UnsettledOf(u)
      BY <1>6, <3>1 DEF UnsettledOf, FillsOf
    <3> QED BY <1>6, <2>1, <3>2 DEF IInv, AccountInv
  <2>2. UNCHANGED <<opening, position, result, attempts>>
    BY <1>1 DEF Inside
  <2>3. BooksBalance'
    <3>1. ASSUME NEW u \in Tickers, position[u].status = "CLOSED", attempts[u] = 1
          PROVE  position'[u].pnl = TotalOf(FillsOf(u), result[u])'
      <4>1. position[u].pnl = TotalOf(FillsOf(u), result[u])
        BY <3>1 DEF IInv, AccountInv, BooksBalance
      <4>2. \A S, x : S = FillsOf(u)' /\ x = result'[u] =>
                        TotalOf(S, x)' = TotalOf(FillsOf(u), result[u])
        BY <1>6, <2>2
      <4>3. TotalOf(FillsOf(u), result[u])' = TotalOf(FillsOf(u), result[u])
        BY <4>2 DEF TotalOf, Payouts
      <4> QED BY <2>2, <4>1, <4>3
    <3> QED BY <2>2, <3>1 DEF BooksBalance
  <2>4. opening' # NoTicker => position'[opening'].status = "NONE" /\ FillsOf(opening)' # {}
    <3>1. FillsOf(opening)' = FillsOf(opening)
      BY <1>5, <2>2 DEF FillsOf
    <3> QED BY <2>2, <3>1 DEF IInv, AccountInv
  <2> QED BY <2>1, <2>2, <2>3, <2>4 DEF IInv, AccountInv
<1>9. Settling(tool)'
  <2>1. PICK S \in SUBSET (FillsOf(t) \ tool.todo) :
          /\ tool.acc = TotalOf(S, r)
          /\ attempts[t] = 1 => S = FillsOf(t) \ tool.todo
    BY <1>2 DEF Settling, AddedUp
  <2>2. /\ i \notin S /\ i \in FillsOf(t)
        /\ S \union {i} \in SUBSET (FillsOf(t) \ (tool.todo \ {i}))
        /\ attempts[t] = 1 => S \union {i} = FillsOf(t) \ (tool.todo \ {i})
    BY <1>1, <1>6, <2>1
  <2>3. TotalOf(S \union {i}, r) = tool.acc + Payout(fills[i], r)
    BY <1>4, <2>1, <2>2, TotalOfMore
  <2>4. /\ tool'.ticker = t /\ tool'.acc = tool.acc + Payout(fills[i], r) /\ tool'.result = r
        /\ tool'.todo = tool.todo \ {i} /\ tool'.name = "settle" /\ tool'.queue = tool.queue
    BY <1>3
  <2>5. AddedUp(tool)'
    <3> DEFINE Q == S \union {i}
    <3>1. \A x : x = tool'.result => TotalOf(Q, x)' = tool'.acc
      BY <1>6, <2>3, <2>4
    <3> HIDE DEF Q
    <3>2. TotalOf(Q, tool.result)' = tool'.acc
      BY <3>1 DEF TotalOf, Payouts
    <3>3. FillsOf(tool.ticker)' = FillsOf(t)
      BY <1>6, <2>4 DEF FillsOf
    <3>4. /\ Q \in SUBSET (FillsOf(t) \ tool'.todo)
          /\ attempts'[t] = 1 => Q = FillsOf(t) \ tool'.todo
      BY <1>1, <2>2, <2>4 DEF Q
    <3> QED BY <2>4, <3>2, <3>3, <3>4 DEF AddedUp
  <2>6. UnsettledOf(tool.ticker)' = tool'.todo
    <3>1. UnsettledOf(tool.ticker)' = UnsettledOf(t)'
      BY <2>4 DEF UnsettledOf, FillsOf
    <3> QED BY <1>4, <1>6, <2>4, <3>1
  <2>7. tool' = [name |-> "settle", ticker |-> tool'.ticker, acc |-> tool'.acc,
                 result |-> tool'.result, todo |-> tool'.todo, queue |-> tool'.queue]
    BY <1>3, <2>4
  <2>8. /\ position'[t].status = "OPEN" /\ attempts'[t] > 0 /\ result'[t] = r
        /\ tool.queue \subseteq Tickers
    BY <1>1, <1>2, <1>4 DEF Inside, Settling
  <2> HIDE DEF t, r
  <2> QED BY <1>4, <2>4, <2>5, <2>6, <2>7, <2>8 DEF Settling
<1> QED BY <1>7, <1>8, <1>9 DEF IInv, ToolInv

LEMMA CloseIInv ==
  ASSUME IInv, ClosePosition, UNCHANGED dayVars
  PROVE  IInv'
<1> DEFINE t == tool.ticker
           r == tool.result
<1>1. /\ Inside /\ UNCHANGED <<fills, rows, attempts, kills>>
      /\ tool.name = "settle" /\ tool.todo = {}
      /\ position' = [position EXCEPT ![t] = [status |-> "CLOSED", pnl |-> @.pnl + tool.acc]]
      /\ tool' = Listed(tool.queue)
  BY DEF ClosePosition, Inside, dayVars
<1>2. Settling(tool)
  BY <1>1 DEF IInv, ToolInv, Waiting, Corpusing
<1>3. /\ fills \in Seq(Fill) /\ t \in Tickers /\ tool.queue \subseteq Tickers
      /\ result[t] = r /\ r # NotSettled /\ position[t].status = "OPEN" /\ attempts[t] > 0
      /\ attempts \in [Tickers -> Nat]
      /\ position \in [Tickers -> [status : {"NONE", "OPEN", "CLOSED"}, pnl : Int]]
  BY <1>2 DEF IInv, Typed, Settling
<1>4. PICK S \in SUBSET FillsOf(t) :
        /\ tool.acc = TotalOf(S, r)
        /\ attempts[t] = 1 => S = FillsOf(t)
  BY <1>1, <1>2 DEF Settling, AddedUp
<1>5. tool.acc \in Int
  BY <1>3, <1>4, PayoutsType
<1>6. position[t].pnl = 0
  BY <1>3 DEF IInv, AccountInv
<1>7. /\ position'[t] = [status |-> "CLOSED", pnl |-> tool.acc]
      /\ \A u \in Tickers \ {t} : position'[u] = position[u]
      /\ position' \in [Tickers -> [status : {"NONE", "OPEN", "CLOSED"}, pnl : Int]]
  <2>1. position[t].pnl + tool.acc = tool.acc
    BY <1>5, <1>6
  <2>2. position' = [position EXCEPT ![t] = [status |-> "CLOSED", pnl |-> tool.acc]]
    BY <1>1, <2>1
  <2> HIDE DEF t
  <2> QED BY <1>3, <1>5, <2>2
<1>8. ReportsInv' /\ ResultsInv' /\ RowsInv' /\ Typed'
  <2>1. ReportsInv' /\ ResultsInv' /\ RowsInv'
    BY <1>1, InsideKeeps, RowsKeep DEF IInv
  <2>2. Typed'
    BY <1>1, <1>7 DEF IInv, Typed, Inside
  <2> QED BY <2>1, <2>2
<1>9. ToolInv'
  BY <1>1, <1>3, ListedWaits DEF ToolInv, Waiting
<1>10. /\ UNCHANGED <<opening, result, fills, attempts>>
       /\ \A u : FillsOf(u)' = FillsOf(u) /\ UnsettledOf(u)' = UnsettledOf(u)
       /\ \A Q, x : TotalOf(Q, x)' = TotalOf(Q, x)
  BY <1>1 DEF Inside, FillsOf, UnsettledOf, TotalOf, Payouts
<1> HIDE DEF t, r
<1>11. AccountInv'
  <2>1. opening' # NoTicker => position'[opening'].status = "NONE" /\ FillsOf(opening)' # {}
    <3> SUFFICES ASSUME opening # NoTicker
                 PROVE  position'[opening].status = "NONE" /\ FillsOf(opening) # {}
      BY <1>10 DEF FillsOf
    <3>1. position[opening].status = "NONE" /\ FillsOf(opening) # {} /\ opening \in Tickers
      BY DEF IInv, AccountInv, Typed
    <3> QED BY <1>3, <1>7, <3>1
  <2>2. ASSUME NEW u \in Tickers
        PROVE  /\ position'[u].status = "CLOSED" => result'[u] # NotSettled /\ attempts'[u] > 0
               /\ position'[u].status # "CLOSED" => position'[u].pnl = 0
               /\ attempts'[u] = 0 => UnsettledOf(u)' = FillsOf(u)'
    <3>1. CASE u = t
      BY <1>3, <1>7, <1>10, <3>1
    <3>2. CASE u # t
      BY <1>7, <1>10, <3>2 DEF IInv, AccountInv
    <3> QED BY <3>1, <3>2
  <2>3. ASSUME NEW u \in Tickers, position'[u].status = "CLOSED", attempts'[u] = 1
        PROVE  position'[u].pnl = TotalOf(FillsOf(u), result[u])'
    <3>1. position'[u].pnl = TotalOf(FillsOf(u), result[u])
      <4>1. CASE u = t
        BY <1>3, <1>4, <1>7, <1>10, <2>3, <4>1
      <4>2. CASE u # t
        BY <1>7, <1>10, <2>3, <4>2 DEF IInv, AccountInv, BooksBalance
      <4> QED BY <4>1, <4>2
    <3>2. TotalOf(FillsOf(u), result[u])' = TotalOf(FillsOf(u), result[u])
      BY <1>10 DEF TotalOf, Payouts, FillsOf
    <3> QED BY <3>1, <3>2
  <2>4. BooksBalance'
    BY <2>3 DEF BooksBalance
  <2> QED BY <2>1, <2>2, <2>4 DEF AccountInv
<1> QED BY <1>8, <1>9, <1>11 DEF IInv

LEMMA ReconcileIInv == ASSUME IInv, Reconcile PROVE IInv'
<1>1. CASE StartReconcile
  <2>1. /\ Inside /\ UNCHANGED <<fills, position, rows, attempts, kills>>
        /\ tool' = Listed(OpenPositions)
    BY <1>1 DEF Reconcile, StartReconcile, Inside, dayVars
  <2>2. Waiting(tool')
    BY <2>1, ListedWaits DEF OpenPositions
  <2> QED BY <2>1, <2>2, WaitingIInv DEF IInv, Typed
<1>2. CASE \E t \in Tickers : BeginSettlement(t)
  BY <1>2, BeginIInv DEF Reconcile
<1>3. CASE \E t \in Tickers : SkipPosition(t)
  <2> PICK t \in Tickers : SkipPosition(t)
    BY <1>3
  <2>1. /\ Inside /\ UNCHANGED <<fills, position, rows, attempts, kills>>
        /\ tool' = Listed(tool.queue \ {t}) /\ tool.name = "reconcile"
    BY DEF Reconcile, SkipPosition, Inside, dayVars
  <2>2. tool.queue \ {t} \in SUBSET Tickers
    BY <2>1 DEF IInv, ToolInv, Waiting, Corpusing, Settling
  <2>3. Waiting(tool')
    BY <2>1, <2>2, ListedWaits
  <2> QED BY <2>1, <2>3, WaitingIInv DEF IInv, Typed
<1>4. CASE \E i \in DOMAIN fills : SettleFill(i)
  BY <1>4, SettleFillIInv DEF Reconcile
<1>5. CASE ClosePosition
  BY <1>5, CloseIInv DEF Reconcile
<1> QED BY <1>1, <1>2, <1>3, <1>4, <1>5 DEF Reconcile

LEMMA NextIInv == IInv /\ [Next]_vars => IInv'
<1> SUFFICES ASSUME IInv, [Next]_vars PROVE IInv'
  OBVIOUS
<1>1. CASE Next
  BY <1>1, TickIInv, PublishIInv, CycleIInv, CorpusIInv, WriteIInv, ReconcileIInv,
     KillIInv, SettleMarketsIInv, ArchiveIInv DEF Next
<1>2. CASE UNCHANGED vars
  <2>1. /\ Inside /\ UNCHANGED <<fills, position, rows, attempts, kills, tool>>
    BY <1>2 DEF vars, bookVars, dayVars, Inside
  <2>2. Apart
    BY <2>1 DEF Apart, Outside, Inside
  <2>3. Typed' /\ AccountInv'
    BY <2>1, AccountInside DEF IInv, Typed, Inside
  <2> QED BY <2>1, <2>2, <2>3, InsideKeeps, RowsKeep, ToolApart DEF IInv
<1> QED BY <1>1, <1>2
LEMMA Invariant == Spec => []IInv
  BY InitIInv, NextIInv, PTL DEF Spec

-----------------------------------------------------------------------------
(* What follows *)

\* No more reports are in the archives than were issued.
LEMMA ArchiveBound == ReportsInv => Len(arrived) <= MaxReports
<1> SUFFICES ASSUME ReportsInv PROVE Len(arrived) <= MaxReports
  OBVIOUS
<1> DEFINE A == 1 .. Len(arrived)
           P == 1 .. Len(published)
           origin == [k \in A |-> CHOOSE i \in P : arrived[k] = published[i]]
<1>1. /\ Len(arrived) \in Nat /\ Len(published) \in Nat /\ Len(published) <= MaxReports
      /\ MaxReports \in Nat
      /\ A = DOMAIN arrived /\ P = DOMAIN published
  BY DayAssumption DEF ReportsInv
<1>2. \A k \in A : origin[k] \in P /\ arrived[k] = published[origin[k]]
  BY <1>1 DEF ReportsInv
<1>3. origin \in [A -> P] /\ \A k, l \in A : origin[k] = origin[l] => k = l
  <2> HIDE DEF A, P
  <2>1. origin \in [A -> P]
    BY <1>2
  <2> HIDE DEF origin
  <2> QED BY <1>1, <1>2, <2>1 DEF ReportsInv
<1>4. origin \in Injection(A, P)
  <2> HIDE DEF origin, A, P
  <2> QED BY <1>3 DEF Injection, IsInjective
<1>5. IsFiniteSet(P) /\ Cardinality(P) = Len(published) /\ Cardinality(A) = Len(arrived)
  <2>1. \A n \in Nat : IsFiniteSet(1 .. n) /\ Cardinality(1 .. n) = n
    <3> TAKE n \in Nat
    <3>1. IsFiniteSet(1 .. n) /\ Cardinality(1 .. n) = IF 1 > n THEN 0 ELSE n - 1 + 1
      BY FS_Interval
    <3> QED BY <3>1
  <2> QED BY <1>1, <2>1
<1>6. Cardinality(A) <= Cardinality(P)
  BY <1>4, <1>5, FS_Injection
<1> QED BY <1>1, <1>5, <1>6

\* Every variable keeps its type; in particular no tool is in a state that no
\* part of the program knows, and no more reports are read than were issued.
THEOREM TypeCorrect == Spec => []TypeOK
<1>1. IInv => TypeOK
  <2> SUFFICES ASSUME IInv PROVE TypeOK
    OBVIOUS
  <2>1. \A i \in DOMAIN fills : fills[i] \in [ticker : Tickers, cost : Int, settled : BOOLEAN]
    <3>1. \A i \in DOMAIN fills : fills[i] \in Fill
      BY DEF IInv, Typed
    <3> QED BY <3>1 DEF Fill
  <2>2. \A i \in DOMAIN published : published[i] \in [issue : Nat, version : Nat, high : Highs]
    <3>1. \A i \in DOMAIN published : published[i] \in Report
      BY DEF IInv, ReportsInv
    <3> QED BY <3>1 DEF Report
  <2>3. /\ tool.name \in {"none", "corpus", "next", "reconcile", "settle"}
        /\ tool.queue \subseteq Tickers
    BY DEF IInv, ToolInv, Waiting, Corpusing, Settling
  <2>4. Len(arrived) <= MaxReports
    BY ArchiveBound DEF IInv
  <2> QED BY <2>1, <2>2, <2>3, <2>4 DEF IInv, Typed, TypeOK, BookTypeOK
<1> QED BY <1>1, Invariant, PTL

\* A position whose settlement was begun once is closed with the pay-out of
\* every fill of its market, each counted once, whichever other tools were
\* killed and whatever was bought meanwhile.
THEOREM BooksAlwaysBalance == Spec => []BooksBalance
<1>1. IInv => BooksBalance
  BY DEF IInv, AccountInv
<1> QED BY <1>1, Invariant, PTL

\* A critical mismatch with a climate report means that two next-day reports
\* contradict each other about the market, for any reports in any order.
THEOREM MismatchIsCorrection == Spec => []MismatchMeansCorrection
<1>1. IInv => MismatchMeansCorrection
  <2> SUFFICES ASSUME IInv, NEW t \in Tickers, rows[t].mismatch, rows[t].source = "exact"
               PROVE  \E i, j \in DOMAIN published :
                        /\ ReportStatus(published[i]) = "CANDIDATE_FINAL"
                        /\ ReportStatus(published[j]) = "CANDIDATE_FINAL"
                        /\ Evaluate(Threshold[t], published[i].high)
                             # Evaluate(Threshold[t], published[j].high)
    BY DEF MismatchMeansCorrection
  <2>1. EntryOK(rows[t], t)
    BY DEF IInv, RowsInv, NoRow
  <2>2. PICK i \in DOMAIN published :
          Final(i) /\ Evaluate(Threshold[t], published[i].high) # result[t]
    BY <2>1 DEF EntryOK
  <2>3. PICK j \in DOMAIN published :
          Final(j) /\ result[t] = Evaluate(Threshold[t], published[j].high)
    BY <2>1 DEF EntryOK, IInv, ResultsInv
  <2> QED BY <2>2, <2>3 DEF Final
<1> QED BY <1>1, Invariant, PTL

-----------------------------------------------------------------------------
(* The account does what SettledOnce promises *)

\* The account as the abstract specification sees it.
Bought == [i \in DOMAIN fills |-> [ticker |-> fills[i].ticker, cost |-> fills[i].cost]]
Status == [t \in Tickers |-> position[t].status]
Booked == [t \in Tickers |-> position[t].pnl]

LEMMA AccountInit == Init => Account!Init
<1> SUFFICES ASSUME Init PROVE Account!Init
  OBVIOUS
<1>1. Bought = <<>>
  BY DEF Bought, Init, BookInit
<1>2. Status = [t \in Tickers |-> "NONE"] /\ Booked = [t \in Tickers |-> 0]
  BY DEF Status, Booked, Init, BookInit, NoPosition
<1> QED BY <1>1, <1>2 DEF Account!Init, Bought, Status, Booked, Init, BookInit

LEMMA AccountFills == \A t : Account!FillsOf(t) = FillsOf(t)
  BY DEF Account!FillsOf, FillsOf
\* One fill more, at the end.
LEMMA BoughtAppend ==
  ASSUME Typed, NEW f \in Fill, fills' = Append(fills, f)
  PROVE  /\ Bought' = Append(Bought, [ticker |-> f.ticker, cost |-> f.cost])
         /\ [ticker |-> f.ticker, cost |-> f.cost] \in Range(Bought')
<1> DEFINE n == Len(fills) + 1
           g == [ticker |-> f.ticker, cost |-> f.cost]
<1>1. /\ fills \in Seq(Fill) /\ Len(fills) \in Nat /\ DOMAIN fills = 1 .. Len(fills)
      /\ DOMAIN fills' = 1 .. n /\ fills'[n] = f
      /\ \A i \in 1 .. Len(fills) : fills'[i] = fills[i]
  BY DEF Typed
<1>2. Bought \in Seq([ticker : Tickers, cost : Int]) /\ Len(Bought) = Len(fills)
  <2>1. \A i \in 1 .. Len(fills) :
          [ticker |-> fills[i].ticker, cost |-> fills[i].cost] \in [ticker : Tickers, cost : Int]
    BY <1>1, FillFields
  <2> DEFINE R == [ticker : Tickers, cost : Int]
             b == Bought
  <2>2. b \in [1 .. Len(fills) -> R]
    BY <1>1, <2>1 DEF Bought
  <2> HIDE DEF R, b
  <2>3. b \in Seq(R) /\ Len(b) = Len(fills)
    BY <1>1, <2>2
  <2> QED BY <2>3 DEF R, b
<1>3. g \in [ticker : Tickers, cost : Int]
  BY DEF Fill
<1> DEFINE more == Append(Bought, g)
<1>4. /\ DOMAIN more = 1 .. n /\ more[n] = g
      /\ \A i \in 1 .. Len(fills) : more[i] = Bought[i]
      /\ more = [i \in 1 .. n |-> more[i]]
  BY <1>1, <1>2, <1>3
<1>5. /\ DOMAIN Bought' = 1 .. n /\ Bought'[n] = g
      /\ \A i \in 1 .. Len(fills) : Bought'[i] = Bought[i]
      /\ Bought' = [i \in 1 .. n |-> Bought'[i]]
  BY <1>1 DEF Bought
<1>6. \A i \in 1 .. n : more[i] = Bought'[i]
  BY <1>1, <1>4, <1>5
<1>7. Bought' = more
  <2> HIDE DEF more, n, g
  <2> QED BY <1>4, <1>5, <1>6
<1>8. g \in Range(Bought')
  BY <1>1, <1>5 DEF Range
<1> QED BY <1>7, <1>8

LEMMA BoughtKeeps ==
  ASSUME Typed, \/ fills' = fills
                \/ \E i \in DOMAIN fills : fills' = [fills EXCEPT ![i].settled = TRUE]
  PROVE  Bought' = Bought
<1>1. DOMAIN fills' = DOMAIN fills
  OBVIOUS
<1>2. \A i \in DOMAIN fills : fills'[i].ticker = fills[i].ticker /\ fills'[i].cost = fills[i].cost
  <2>1. \A i \in DOMAIN fills : fills[i] \in Fill
    BY DEF Typed
  <2> QED BY <2>1 DEF Fill
<1> QED BY <1>1, <1>2 DEF Bought

\* Every step of the program is a step of the promise or none.
LEMMA AccountStep == IInv /\ [Next]_vars => [Account!Next]_Account!vars
<1> SUFFICES ASSUME IInv, [Next]_vars, UNCHANGED Account!vars \/ TRUE
             PROVE  Account!Next \/ UNCHANGED Account!vars
  OBVIOUS
<1> USE DEF Bought, Status, Booked
<1>0. Typed /\ position \in [Tickers -> [status : {"NONE", "OPEN", "CLOSED"}, pnl : Int]]
  BY DEF IInv, Typed
<1>1. ASSUME UNCHANGED <<position, result>>, Bought' = Bought PROVE UNCHANGED Account!vars
  BY <1>1 DEF Account!vars
<1>2. CASE Tick \/ Corpus \/ Write \/ KillTool \/ Publish \/ \E i \in DOMAIN published : Archive(i)
  <2>1. UNCHANGED <<position, result, fills>>
    BY <1>2 DEF Tick, Corpus, ClearRows, Write, SaveRow, KillTool, Kill, Publish, Archive,
                bookVars
  <2> QED BY <1>0, <1>1, <2>1
<1>3. CASE SettleMarkets
  <2>1. /\ Bought' = Bought /\ position' = position
        /\ \A t \in Tickers : result[t] = NotSettled
        /\ result' \in [Tickers -> {"yes", "no"}]
    BY <1>3 DEF SettleMarkets, Evaluate
  <2> QED BY <2>1 DEF Account!Next, Account!Pay
<1>4. CASE Cycle
  <2>1. CASE \E t \in Tickers : SaveFill(t)
    <3> PICK t \in Tickers : SaveFill(t)
      BY <2>1
    <3> DEFINE f == [ticker |-> t, cost |-> Costs[Len(fills) + 1], settled |-> FALSE]
               g == [ticker |-> t, cost |-> Costs[Len(fills) + 1]]
    <3>1. /\ result[t] = NotSettled /\ position[t].status # "OPEN"
          /\ fills' = Append(fills, f) /\ UNCHANGED <<position, result>>
      BY DEF SaveFill, WithFill
    <3>2. f \in Fill
      <4>1. Len(fills) + 1 \in DOMAIN Costs
        BY <1>0, BookAssumption DEF SaveFill, WithFill, Typed
      <4>2. Costs[Len(fills) + 1] \in Int
        BY <4>1, BookAssumption
      <4> QED BY <4>2 DEF Fill
    <3>3. position[t].status = "NONE"
      BY <1>0, <3>1 DEF IInv, AccountInv
    <3>4. Bought' = Append(Bought, g) /\ g \in Range(Bought') /\ g.ticker = t
      <4>1. g = [ticker |-> f.ticker, cost |-> f.cost]
        OBVIOUS
      <4> HIDE DEF f, g, Bought
      <4>2. Bought' = Append(Bought, g) /\ g \in Range(Bought')
        BY <1>0, <3>1, <3>2, <4>1, BoughtAppend
      <4> QED BY <4>2 DEF g
    <3>5. Account!Buy(t)
      <4> HIDE DEF g
      <4>1. Status' = Status /\ Booked' = Booked /\ Status[t] = "NONE"
        BY <1>0, <3>1, <3>3
      <4>2. g \in Account!Range(Bought')
        BY <3>4 DEF Range, Account!Range
      <4>3. \E fill \in Account!Range(Bought') :
              fill.ticker = t /\ Bought' = Append(Bought, fill)
        <5> HIDE DEF Bought
        <5> QED BY <3>4, <4>2
      <4> QED BY <3>1, <4>1, <4>3 DEF Account!Buy
    <3> QED BY <3>5 DEF Account!Next
  <2>2. CASE SavePosition
    <3>1. /\ opening \in Tickers /\ position[opening].status = "NONE" /\ FillsOf(opening) # {}
      BY <2>2 DEF SavePosition, IInv, Typed, AccountInv
    <3>2. position[opening].pnl = 0
      BY <3>1 DEF IInv, AccountInv
    <3>3. /\ position' = [position EXCEPT ![opening] = [status |-> "OPEN", pnl |-> 0]]
          /\ UNCHANGED <<fills, result>>
      BY <2>2 DEF SavePosition
    <3>4. Status' = [Status EXCEPT ![opening] = "OPEN"] /\ Booked' = Booked
      BY <1>0, <3>1, <3>2, <3>3
    <3>5. PICK t \in Tickers : t = opening
      BY <3>1
    <3>6. Status[t] = "NONE" /\ Bought' = Bought
      BY <1>0, <3>1, <3>3, <3>5
    <3>7. Account!Open(t)
      BY <3>1, <3>3, <3>4, <3>5, <3>6, AccountFills DEF Account!Open
    <3> QED BY <3>7 DEF Account!Next
  <2>3. CASE CycleDies
    <3>1. UNCHANGED <<position, result, fills>>
      BY <2>3 DEF CycleDies
    <3> QED BY <1>0, <1>1, <3>1
  <2>4. CASE \E t \in Tickers : DeletePosition(t)
    <3> PICK t \in Tickers : DeletePosition(t)
      BY <2>4
    <3>1. /\ position[t].status = "OPEN" /\ result[t] = NotSettled
          /\ position' = [position EXCEPT ![t] = [status |-> "NONE", pnl |-> 0]]
          /\ UNCHANGED <<fills, result>>
      BY DEF DeletePosition, NoPosition
    <3>2. position[t].pnl = 0
      BY <3>1 DEF IInv, AccountInv
    <3>3. Status' = [Status EXCEPT ![t] = "NONE"] /\ Booked' = Booked
      BY <1>0, <3>1, <3>2
    <3>4. Account!Drop(t)
      BY <3>1, <3>3 DEF Account!Drop
    <3> QED BY <3>4 DEF Account!Next
  <2> QED BY <1>4, <2>1, <2>2, <2>3, <2>4 DEF Cycle
<1>5. CASE Reconcile
  <2>1. CASE StartReconcile \/ \E t \in Tickers : BeginSettlement(t) \/ SkipPosition(t)
    <3>1. UNCHANGED <<position, result, fills>>
      BY <2>1 DEF StartReconcile, BeginSettlement, SkipPosition
    <3> QED BY <1>0, <1>1, <3>1
  <2>2. CASE \E i \in DOMAIN fills : SettleFill(i)
    <3>1. /\ UNCHANGED <<position, result>>
          /\ \E i \in DOMAIN fills : fills' = [fills EXCEPT ![i].settled = TRUE]
      BY <2>2 DEF SettleFill
    <3>2. Bought' = Bought
      <4> HIDE DEF Bought
      <4> QED BY <1>0, <3>1, BoughtKeeps
    <3> QED BY <1>1, <3>1, <3>2
  <2>3. CASE ClosePosition
    <3>1. /\ tool.name = "settle" /\ tool.todo = {} /\ UNCHANGED <<fills, result>>
          /\ position' = [position EXCEPT ![tool.ticker] =
                            [status |-> "CLOSED", pnl |-> @.pnl + tool.acc]]
      BY <2>3 DEF ClosePosition
    <3>2. Settling(tool)
      BY <3>1 DEF IInv, ToolInv, Waiting, Corpusing
    <3>3. PICK t \in Tickers : t = tool.ticker
      BY <3>2 DEF Settling
    <3>4. /\ position[t].status = "OPEN" /\ result[t] # NotSettled
          /\ position[t].pnl = 0 /\ tool.result = result[t]
      BY <3>2, <3>3 DEF Settling, IInv, AccountInv
    <3>5. PICK S \in SUBSET FillsOf(t) : tool.acc = TotalOf(S, result[t])
      BY <3>1, <3>2, <3>3, <3>4 DEF Settling, AddedUp
    <3>6. tool.acc \in Int
      BY <1>0, <3>5, PayoutsType DEF Typed
    <3>7. position' = [position EXCEPT ![t] = [status |-> "CLOSED", pnl |-> tool.acc]]
      <4>1. position[t].pnl + tool.acc = tool.acc
        BY <3>4, <3>6
      <4>2. position' = [position EXCEPT ![t] =
                           [status |-> "CLOSED", pnl |-> position[t].pnl + tool.acc]]
        BY <3>1, <3>3
      <4> QED BY <4>1, <4>2
    <3>8. /\ Status' = [Status EXCEPT ![t] = "CLOSED"]
          /\ Booked' = [Booked EXCEPT ![t] = tool.acc]
      BY <1>0, <3>7
    <3>9. tool.acc = Total([i \in DOMAIN Bought |->
                              IF i \in S THEN Payout(Bought[i], result[t]) ELSE 0])
      BY <3>5 DEF TotalOf, Payouts, Payout
    <3>10. Status[t] = "OPEN" /\ Bought' = Bought /\ S \in SUBSET Account!FillsOf(t)
      BY <1>0, <3>1, <3>4, AccountFills
    <3>11. Booked' = [Booked EXCEPT ![t] =
             Account!Total([i \in DOMAIN Bought |->
                              IF i \in S THEN Payout(Bought[i], result[t]) ELSE 0])]
      <4> DEFINE a == [i \in DOMAIN Bought |->
                         IF i \in S THEN Payout(Bought[i], result[t]) ELSE 0]
      <4>1. Account!Total(a) = Total(a)
        <5> HIDE DEF a
        <5> QED BY DEF Total, Account!Total
      <4> HIDE DEF Bought, Booked
      <4> QED BY <3>8, <3>9, <4>1
    <3>12. Account!Settle(t)
      BY <3>1, <3>4, <3>8, <3>10, <3>11 DEF Account!Settle
    <3> QED BY <3>12 DEF Account!Next
  <2> QED BY <1>5, <2>1, <2>2, <2>3 DEF Reconcile
<1>6. CASE UNCHANGED vars
  BY <1>0, <1>1, <1>6 DEF vars, bookVars
<1> QED BY <1>2, <1>3, <1>4, <1>5, <1>6 DEF Next

\* The account does what SettledOnce promises: a position settles once, after
\* the exchange, for fills of its market, and then never changes, although
\* tools are killed, requests fail and rows are deleted and rewritten.
THEOREM ImplementsSettledOnce == Spec => SettlesOnce
<1>1. IInv /\ [Next]_vars => [Account!Next]_Account!vars
  BY AccountStep
<1> QED BY <1>1, AccountInit, Invariant, PTL DEF Spec, Account!Spec, SettlesOnce
=============================================================================
