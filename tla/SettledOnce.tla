----------------------------- MODULE SettledOnce -----------------------------
(***************************************************************************)
(* What shadow reconciliation promises about the paper account, without    *)
(* saying how: a position is opened with a fill, may be dropped while it   *)
(* is open, and is settled at most once, after the exchange has settled    *)
(* its market, for the pay-out of fills of that market.  A settled         *)
(* position never changes again.                                           *)
(***************************************************************************)
EXTENDS Sums, SequencesExt

CONSTANTS Tickers, NotSettled, Payout(_, _)

VARIABLES
  bought,           \* the fills, in the order they were made
  status,           \* of each position: NONE, OPEN or CLOSED
  booked,           \* settled_pnl of each position
  result            \* the exchange's result of each market

vars == <<bought, status, booked, result>>

FillsOf(t) == {i \in DOMAIN bought : bought[i].ticker = t}

Init == /\ bought = <<>>
        /\ status = [t \in Tickers |-> "NONE"]
        /\ booked = [t \in Tickers |-> 0]
        /\ result = [t \in Tickers |-> NotSettled]

Buy(t) == /\ status[t] = "NONE" /\ result[t] = NotSettled
          /\ \E fill \in Range(bought') :
               fill.ticker = t /\ bought' = Append(bought, fill)
          /\ UNCHANGED <<status, booked, result>>

Open(t) == /\ status[t] = "NONE" /\ FillsOf(t) # {}
           /\ status' = [status EXCEPT ![t] = "OPEN"]
           /\ UNCHANGED <<bought, booked, result>>

Drop(t) == /\ status[t] = "OPEN" /\ result[t] = NotSettled
           /\ status' = [status EXCEPT ![t] = "NONE"]
           /\ UNCHANGED <<bought, booked, result>>

Pay == /\ \A t \in Tickers : result[t] = NotSettled
       /\ result' \in [Tickers -> {"yes", "no"}]
       /\ UNCHANGED <<bought, status, booked>>

Settle(t) == /\ status[t] = "OPEN" /\ result[t] # NotSettled
             /\ \E S \in SUBSET FillsOf(t) :
                  booked' = [booked EXCEPT ![t] =
                    Total([i \in DOMAIN bought |->
                             IF i \in S THEN Payout(bought[i], result[t]) ELSE 0])]
             /\ status' = [status EXCEPT ![t] = "CLOSED"]
             /\ UNCHANGED <<bought, result>>

Next == Pay \/ \E t \in Tickers : Buy(t) \/ Open(t) \/ Drop(t) \/ Settle(t)

Spec == Init /\ [][Next]_vars
=============================================================================
