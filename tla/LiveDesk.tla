------------------------------ MODULE LiveDesk ------------------------------
(***************************************************************************)
(* The order book stream and the manual order together: decisions are      *)
(* saved by the stream's loop and by the scheduled cycles, and the manual  *)
(* tool may pick any of them while both go on.                             *)
(***************************************************************************)
EXTENDS BookStream, ManualPlan

CONSTANTS
  Beliefs,          \* p_model of the yes side, in ticks
  MinEv,            \* floor of a taker's EV, in ticks
  MaxDecisions      \* bound: decisions saved

ASSUME DeskAssumption == MaxDecisions \in Nat /\ Beliefs \subseteq 0 .. Dollar

vars == <<streamVars, clock, decisions, planVars>>

Init == StreamInit /\ PlanInit

\* The taker side of a decision on a book, as far as the plan depends on it: the side's
\* EV at the cost of one contract clears the floor.
Belief(side, p) == IF side = "yes" THEN p ELSE Dollar - p

TakerOn(mk, book, true, side, p) ==
  LET cost == CostToBuy(ImpliedAsks(book, side), 1) IN
    [market |-> mk, at |-> clock, taker |-> TRUE, side |-> side, price |-> cost,
     ev |-> Belief(side, p) - cost,
     offered |-> BestAsk([x \in Prices |-> true[Other(side)][Dollar - x]])]

WatchOn(mk) ==
  [market |-> mk, at |-> clock, taker |-> FALSE, side |-> "yes", price |-> NoPrice,
   ev |-> 0, offered |-> NoPrice]

DecisionsOn(mk, book, true) ==
  {WatchOn(mk)} \union
    {d \in {TakerOn(mk, book, true, side, p) : side \in Outcomes, p \in Beliefs} :
       d.price # NoPrice /\ d.ev >= MinEv}

SaveDecision(choices) ==
  /\ Len(decisions) < MaxDecisions
  /\ \E d \in choices : decisions' = Append(decisions, d)

\* A message is applied, the book saved, and a decision made on it unless the market's
\* rules cannot be read.
Handle ==
  /\ Receive /\ UNCHANGED <<clock, planVars>>
  /\ LET mk == Head(channel).market IN
       \/ UNCHANGED decisions
       \/ /\ states'[mk] # NoBook
          /\ SaveDecision(DecisionsOn(mk, states'[mk].book,
                                      past[sidOf[mk]][states'[mk].seq][mk]))

\* A scheduled cycle decides on the book it asked for.
CycleDecides(mk) ==
  /\ SaveDecision(DecisionsOn(mk, truth[mk], truth[mk]))
  /\ UNCHANGED <<streamVars, clock, planVars>>

PositionOpens(c) ==
  /\ c \notin openCities /\ openCities' = openCities \union {c}
  /\ UNCHANGED <<streamVars, clock, decisions, plan, plans, orders, rows>>

Next ==
  \/ (Connect \/ Exchange \/ Disconnect) /\ UNCHANGED <<clock, decisions, planVars>>
  \/ Handle
  \/ \E mk \in Markets : CycleDecides(mk)
  \/ \E c \in {CityOf[mk] : mk \in Markets} : PositionOpens(c)
  \/ (PlanNext \/ Tick) /\ UNCHANGED streamVars

Spec == Init /\ [][Next]_vars

\* The types of the variables.
TypeOK ==
  /\ truth \in [Markets -> Books] /\ states \in [Markets -> States]
  /\ past \in [Sids -> Seq([Markets -> Books])]
  /\ clock \in 0 .. MaxTime /\ openCities \subseteq {CityOf[mk] : mk \in Markets}
  /\ plan.phase \in {"none", "selected", "sent", "waiting", "ok", "raised"}
  /\ plan.phase \in {"sent", "waiting"} => plan.attempt \in 1 .. MaxAttempts
  /\ \A i \in DOMAIN rows : rows[i].status \in {"SUBMITTED", "BLOCKED", "DRY_RUN"}
=============================================================================
