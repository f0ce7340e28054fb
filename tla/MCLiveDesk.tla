----------------------------- MODULE MCLiveDesk -----------------------------
(* Instances of LiveDesk. *)
EXTENDS LiveDesk, TLC

CONSTANTS m1, m2, s1, s2

OneCityEach == (m1 :> "nyc" @@ m2 :> "mia")
OneDay == (m1 :> 1 @@ m2 :> 1)
NoOffset == [c \in {"nyc", "mia"} |-> 0]

\* A seller comes to two dimes or one, by one contract or two, and one goes.
Seller(mk, price, delta) == [market |-> mk, side |-> "no", price |-> price, delta |-> delta]
Sellers == {Seller(m1, 2, 2), Seller(m1, 2, -1), Seller(m2, 3, 1)}

\* The stream lasts twenty seconds, less than a unit of time; the steps of a manual order,
\* once it is prepared, read nothing that the stream writes.  Of the orders of steps that
\* differ only in this, those in which the stream comes first are explored.
Later == clock > 0 \/ plans > 0 \/ openCities # {}
StreamFirst == Later => ~ connected /\ updates = MaxUpdates /\ openCities \subseteq {Preferred}

SidsAlike == Permutations(Sids)
=============================================================================
