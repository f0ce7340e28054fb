--------------------------- MODULE ClimateReports ---------------------------
(***************************************************************************)
(* The climate reports of one station and one settlement date, and what    *)
(* the program concludes from them (settlement/cli_parser.py,              *)
(* revision_monitor.py, validation.py, corpus.py).                         *)
(*                                                                         *)
(* A report carries its issue time, its version and the day's maximum.     *)
(* Text, stations and windows are abstracted: a report in this module has  *)
(* been parsed and is about the date.  Times are clock units that start on *)
(* the settlement date.                                                    *)
(***************************************************************************)
EXTENDS Integers, Sequences, FiniteSets, SequencesExt

CONSTANTS
  Midnight,         \* local midnight that ends the settlement date
  Deadline,         \* final_monitor_end, 05:15 of the next day
  Stable,           \* stable_minutes, 90
  MinOverlap        \* MIN_PROXY_OVERLAP_DAYS

ASSUME ReportsAssumption ==
  /\ Midnight \in Nat /\ Deadline \in Nat /\ Midnight <= Deadline
  /\ Stable \in Nat /\ MinOverlap \in Nat

Results == {"yes", "no"}
NotSettled == "unsettled"
NoReport == [issue |-> -1, version |-> 0, high |-> 0]
NoHigh == -100

\* _report_status: a report of the next day may be the final one.
ReportStatus(r) == IF r.issue >= Midnight THEN "CANDIDATE_FINAL" ELSE "PRELIMINARY"

\* Reports are ordered by issue time, then by version.
Earlier(a, b) == a.issue < b.issue \/ (a.issue = b.issue /\ a.version < b.version)

(***************************************************************************)
(* SettlementRevisionMonitor.record drops a report whose version and issue *)
(* time it has and keeps the rest sorted: the first arrival of each key is *)
(* kept, and since the key is unique the history is a set.  Reports arrive *)
(* as a sequence.                                                          *)
(***************************************************************************)
SameReport(a, b) == a.version = b.version /\ a.issue = b.issue

FirstArrival(arrived, i) == \A j \in 1 .. i - 1 : ~ SameReport(arrived[j], arrived[i])

History(arrived) == {arrived[i] : i \in {k \in DOMAIN arrived : FirstArrival(arrived, k)}}

Latest(arrived) ==
  IF arrived = <<>> THEN NoReport
  ELSE CHOOSE r \in History(arrived) : \A e \in History(arrived) : ~ Earlier(r, e)

(***************************************************************************)
(* build_report_index: a stable sort and a scan that replaces the entry    *)
(* only by a greater key keep the first arrival of the greatest key.  The  *)
(* report's status is part of the code's key and a function of its issue   *)
(* time, so it decides nothing.                                            *)
(***************************************************************************)
Indexed(arrived) ==
  IF arrived = <<>> THEN NoReport
  ELSE arrived[CHOOSE i \in DOMAIN arrived :
                 /\ \A j \in DOMAIN arrived : ~ Earlier(arrived[i], arrived[j])
                 /\ \A j \in 1 .. i - 1 : Earlier(arrived[j], arrived[i])]

\* Mutant: past the deadline any report will do.
ResolvedPastDeadline(arrived, asOf) ==
  IF arrived # <<>> /\ asOf >= Deadline THEN Latest(arrived) ELSE NoReport

\* Mutant: only a report marked FINALIZED resolves the date.
ResolvedIfFinalized(arrived, asOf) ==
  IF arrived # <<>> /\ ReportStatus(Latest(arrived)) = "FINALIZED"
  THEN Latest(arrived) ELSE NoReport

(***************************************************************************)
(* resolve_final: the report the date is settled by, NoReport while it is  *)
(* not resolved.  The parser never says FINALIZED, so the only way is a    *)
(* next-day report that has been out for stable_minutes; past the deadline *)
(* a preliminary report alone resolves nothing.                            *)
(***************************************************************************)
ResolveFinal(arrived, asOf) ==
  IF /\ arrived # <<>>
     /\ ReportStatus(Latest(arrived)) = "CANDIDATE_FINAL"
     /\ asOf >= Latest(arrived).issue + Stable
  THEN Latest(arrived) ELSE NoReport

\* evaluate_settlement_result for the operator ">" of the program's markets.
Evaluate(threshold, high) == IF high > threshold THEN "yes" ELSE "no"

(***************************************************************************)
(* summarize_proxy_overlap: the daily summaries may stand in for climate   *)
(* reports when they agree with them on enough other dates.  history has   *)
(* the maxima of the other dates from both sources.                        *)
(***************************************************************************)
ProxyEligible(history) ==
  LET overlap == DOMAIN history.exact \intersect DOMAIN history.proxy
  IN  /\ Cardinality(overlap) >= MinOverlap
      /\ \A d \in overlap : history.exact[d] = history.proxy[d]

NoRow == [present |-> FALSE, resolved |-> FALSE, expected |-> NotSettled,
          actual |-> NotSettled, source |-> "none", mismatch |-> FALSE]

Validated(high, threshold, actual, source) ==
  [present |-> TRUE, resolved |-> TRUE, expected |-> Evaluate(threshold, high),
   actual |-> actual, source |-> source,
   mismatch |-> Evaluate(threshold, high) # actual]

Unresolved(actual) == [NoRow EXCEPT !.present = TRUE, !.actual = actual]

(***************************************************************************)
(* The row validate_settlement_corpus writes for a settled market: the     *)
(* resolved report decides; without one the proxy may, unless a next-day   *)
(* report is still waiting for its stable_minutes.                         *)
(***************************************************************************)
EntryFor(threshold, actual, arrived, asOf, proxyHigh, history) ==
  LET final == ResolveFinal(arrived, asOf)
      waiting == Indexed(arrived)
      proxyMayDecide == /\ proxyHigh # NoHigh /\ ProxyEligible(history)
                        /\ \/ waiting = NoReport
                           \/ ReportStatus(waiting) = "PRELIMINARY"
  IN  IF final # NoReport THEN Validated(final.high, threshold, actual, "exact")
      ELSE IF proxyMayDecide THEN Validated(proxyHigh, threshold, actual, "proxy")
      ELSE Unresolved(actual)
=============================================================================
