-------------------------- MODULE MCSettlementDay ---------------------------
(* Instances of SettlementDay: two markets of one city and one date. *)
EXTENDS SettlementDay

CONSTANTS t1, t2

KeyOrder == <<t1, t2>>
Thresholds == (t1 :> 75 @@ t2 :> 65)
TwoFills == <<60, 85>>

\* The proxy agreed with the reports on enough other dates.
AgreeingProxy == {[high |-> 70, exact |-> (1 :> 70), proxy |-> (1 :> 70)]}
=============================================================================
