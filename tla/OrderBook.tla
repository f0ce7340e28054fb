------------------------------ MODULE OrderBook ------------------------------
(***************************************************************************)
(* Order book ladders (market/ws.py, market/orderbook.py).  A market has   *)
(* bids for yes and for no; an offer to sell one side is a bid for the     *)
(* other at the complement of a dollar.  A ladder maps every price to the  *)
(* size bid there: 0 is a level the code's tuple does not have.            *)
(***************************************************************************)
EXTENDS Sums, FiniteSets, FiniteSetsExt, Functions

CONSTANT Dollar                   \* ticks in a dollar

ASSUME DollarAssumption == Dollar \in Nat \ {0, 1}

Prices == 1 .. Dollar - 1
Ladders == [Prices -> Nat]
Outcomes == {"yes", "no"}
Books == [Outcomes -> Ladders]
Other(side) == IF side = "yes" THEN "no" ELSE "yes"
NoPrice == -1

\* _apply_delta_to_ladder: a level whose size is no longer positive goes.
ApplyDeltaToLadder(ladder, price, delta) ==
  [ladder EXCEPT ![price] = IF @ + delta <= 0 THEN 0 ELSE @ + delta]

ApplyToBook(book, side, price, delta) ==
  [book EXCEPT ![side] = ApplyDeltaToLadder(@, price, delta)]

\* Mutant: the side's own bids are taken for offers.
ImpliedAsksOwnBids(book, side) == book[side]

\* derive_implied_ask_ladders
ImpliedAsks(book, side) == [p \in Prices |-> book[Other(side)][Dollar - p]]

Levels(ladder) == {p \in Prices : ladder[p] > 0}

\* best_implied_ask_price
BestAsk(ladder) == IF Levels(ladder) = {} THEN NoPrice ELSE Min(Levels(ladder))

SizeUpTo(ladder, price) == SumOver([p \in {q \in Prices : q < price} |-> ladder[p]])

\* Mutant: every level is asked for the whole quantity.
TakenEverywhere(ladder, quantity, price) == Min({ladder[price], quantity})

\* What executable_wap_for_buy takes at a price: the cheaper levels come first.
Taken(ladder, quantity, price) ==
  Min({ladder[price], Max({0, quantity - SizeUpTo(ladder, price)})})

\* executable_wap_for_buy, times the quantity.
CostToBuy(ladder, quantity) ==
  IF quantity <= 0 \/ SizeUpTo(ladder, Dollar) < quantity THEN NoPrice
  ELSE SumOver([p \in Prices |-> p * Taken(ladder, quantity, p)])

\* The reference: the least any way of taking that much from the ladder costs.
LeastCost(ladder, quantity) ==
  LET Ways == {w \in [Prices -> 0 .. quantity] :
                 /\ \A p \in Prices : w[p] <= ladder[p]
                 /\ SumOver(w) = quantity}
  IN  IF Ways = {} THEN NoPrice
      ELSE Min({SumOver([p \in Prices |-> p * w[p]]) : w \in Ways})
=============================================================================
