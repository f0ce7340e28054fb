---------------------------- MODULE SettlementDay ----------------------------
(***************************************************************************)
(* One settlement date of one city, from the last purchases to the paper   *)
(* account's settlement: the weather service's reports, the exchange, and  *)
(* the corpus validation and the reconciliation of ShadowBook, as          *)
(* tools/refresh_empirical_blockers.py runs them.  No timer starts that    *)
(* tool: the operator does, when he likes.                                 *)
(***************************************************************************)
EXTENDS ShadowBook

CONSTANTS
  Highs,            \* the maxima a report may state
  MaxReports,       \* bound: reports the weather service issues for the date
  ProxyTime,        \* when the daily summary is out
  MaxTime,          \* bound of the clock
  Proxies           \* what the daily summaries may say of this date and others

ASSUME DayAssumption ==
  /\ Highs \subseteq Int /\ MaxReports \in Nat
  /\ ProxyTime \in Nat /\ MaxTime \in Nat

VARIABLES
  now,
  published,        \* external: the reports issued, in order
  arrived,          \* the reports in the archives the tools read, as they came
  proxy             \* external: what the daily summaries will say, fixed

dayVars == <<now, published, arrived, proxy>>
vars == <<bookVars, dayVars>>

Account == INSTANCE SettledOnce WITH
  bought <- [i \in DOMAIN fills |-> [ticker |-> fills[i].ticker, cost |-> fills[i].cost]],
  status <- [t \in Tickers |-> position[t].status],
  booked <- [t \in Tickers |-> position[t].pnl]

Init == /\ BookInit
        /\ now = 0 /\ published = <<>> /\ arrived = <<>> /\ proxy \in Proxies

Tick == /\ now < MaxTime /\ now' = now + 1
        /\ UNCHANGED <<bookVars, published, arrived, proxy>>

(***************************************************************************)
(* Outside the program.  The maximum of an unfinished day can only rise,   *)
(* a next-day report may be corrected either way; the exchange settles on  *)
(* the newest next-day report.                                             *)
(***************************************************************************)
Publish ==
  /\ Len(published) < MaxReports /\ now + Stable <= MaxTime
  /\ \E h \in Highs :
       /\ \A i \in DOMAIN published : published[i].issue < Midnight => published[i].high <= h
       /\ published' = Append(published,
                         [issue |-> now, version |-> Len(published) + 1, high |-> h])
  /\ UNCHANGED <<bookVars, now, arrived, proxy>>

\* The daily summary, days later.
ProxyHigh == IF now >= ProxyTime THEN proxy.high ELSE NoHigh

SettleMarkets ==
  /\ \A t \in Tickers : result[t] = NotSettled
  /\ published # <<>> /\ ReportStatus(Last(published)) = "CANDIDATE_FINAL"
  /\ result' = [t \in Tickers |-> Evaluate(Threshold[t], Last(published).high)]
  /\ UNCHANGED <<fills, position, rows, opening, tool, attempts, kills, dayVars>>

(***************************************************************************)
(* backfill_cli_archive and the API listing: the issued reports come in    *)
(* any order; the copies of one report are one key of _merge_reports.      *)
(***************************************************************************)
Archived(i) == \E k \in DOMAIN arrived : arrived[k] = published[i]

Archive(i) ==
  /\ ~ Archived(i) /\ arrived' = Append(arrived, published[i])
  /\ UNCHANGED <<bookVars, now, published, proxy>>

Trading == now < Midnight

Cycle == /\ \/ Trading /\ \E t \in Tickers : SaveFill(t)
            \/ SavePosition \/ CycleDies
            \/ Trading /\ \E t \in Tickers : DeletePosition(t)
         /\ UNCHANGED dayVars

Corpus == /\ ClearRows([t \in Tickers |->
                EntryFor(Threshold[t], result[t], arrived, now, ProxyHigh, proxy)])
          /\ UNCHANGED dayVars

Write == (\E t \in Tickers : SaveRow(t)) /\ UNCHANGED dayVars

Reconcile ==
  /\ \/ StartReconcile
     \/ \E t \in Tickers : BeginSettlement(t) \/ SkipPosition(t)
     \/ \E i \in DOMAIN fills : SettleFill(i)
     \/ ClosePosition
  /\ UNCHANGED dayVars

KillTool == Kill /\ UNCHANGED dayVars

Next == \/ Tick \/ Publish \/ Cycle \/ Corpus \/ Write
        \/ Reconcile \/ KillTool
        \/ SettleMarkets
        \/ \E i \in DOMAIN published : Archive(i)

(***************************************************************************)
(* A run that was started goes on, from one tool to the next, unless it is *)
(* killed.  Nothing makes the operator start another.                      *)
(***************************************************************************)
Fairness == WF_vars(Tick) /\ WF_vars(Write) /\ WF_vars(Reconcile)

Spec == Init /\ [][Next]_vars /\ Fairness

(***************************************************************************)
(*                               PROPERTIES                                *)
(***************************************************************************)
\* The types of the variables.
TypeOK ==
  /\ BookTypeOK /\ now \in 0 .. MaxTime
  /\ \A i \in DOMAIN published : published[i] \in [issue : Nat, version : Nat, high : Highs]
  /\ Len(arrived) <= MaxReports

\* A critical mismatch, which demotes the city, between the exchange and a
\* climate report is found only when two next-day reports contradict each other
\* about the market: never for want of the final report.
MismatchMeansCorrection ==
  \A t \in Tickers :
    rows[t].mismatch /\ rows[t].source = "exact" =>
      \E i, j \in DOMAIN published :
        /\ ReportStatus(published[i]) = "CANDIDATE_FINAL"
        /\ ReportStatus(published[j]) = "CANDIDATE_FINAL"
        /\ Evaluate(Threshold[t], published[i].high)
             # Evaluate(Threshold[t], published[j].high)

\* A position whose settlement was begun once is closed with the pay-out of
\* every fill of its market at the exchange's result, each counted once.
BooksBalance ==
  \A t \in Tickers :
    position[t].status = "CLOSED" /\ attempts[t] = 1 =>
      position[t].pnl = TotalOf(FillsOf(t), result[t])

\* Killed tools, failed requests and rewritten rows included, the account does
\* what SettledOnce promises.
SettlesOnce == Account!Spec

\* The operator starts the tool again and again, and each run first archives reports.
KeepsRefreshing ==
  /\ []<><<Corpus>>_vars
  /\ \A i \in 1 .. MaxReports : WF_vars(i \in DOMAIN published /\ Archive(i))

\* If the operator keeps running the tool, then once the exchange has settled its
\* market, the position that the city's look-up finds is settled in the end: no
\* unfinished report, killed run or failed request keeps it open for ever.
FirstPositionSettles ==
  KeepsRefreshing => \A t \in Tickers :
    (result[t] # NotSettled /\ t \in OpenPositions /\ opening = NoTicker /\ PositionOfCity = t)
      ~> position[t].status = "CLOSED"
=============================================================================
