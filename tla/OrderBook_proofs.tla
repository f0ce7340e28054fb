-------------------------- MODULE OrderBook_proofs ---------------------------
(***************************************************************************)
(* What a ladder offers, for any ladder: a single contract costs the best  *)
(* price, and no way of taking a quantity costs less than the walk up.     *)
(***************************************************************************)
EXTENDS OrderBook, Sums_proofs

LEMMA MinIs ==
  ASSUME NEW S \in SUBSET Nat, S # {}
  PROVE  Min(S) \in S /\ \A x \in S : Min(S) <= x
<1>1. IsWellFoundedOn(OpToRel(<, Nat), Nat)
  BY NatLessThanWellFounded
<1>2. \E x \in S : \A y \in S : ~ (<<y, x>> \in OpToRel(<, Nat))
  BY <1>1, WFMin
<1>3. PICK x \in S : \A y \in S : ~ (y < x)
  BY <1>2 DEF OpToRel
<1>4. \A y \in S : x <= y
  BY <1>3
<1> QED BY <1>4 DEF Min

LEMMA PricesFinite ==
  /\ Prices \subseteq Nat /\ IsFiniteSet(Prices)
  /\ \A price \in 1 .. Dollar : IsFiniteSet({q \in Prices : q < price})
<1>1. Prices \subseteq Nat /\ IsFiniteSet(Prices)
  BY DollarAssumption, FS_Interval DEF Prices
<1>2. \A price : {q \in Prices : q < price} \in SUBSET Prices
  OBVIOUS
<1> QED BY <1>1, <1>2, FS_Subset

\* The offers of a side make a ladder.
LEMMA AsksAreLadder ==
  ASSUME NEW book \in Books, NEW side \in Outcomes
  PROVE  ImpliedAsks(book, side) \in Ladders
<1>1. Other(side) \in Outcomes
  BY DEF Other, Outcomes
<1>2. \A x \in Prices : Dollar - x \in Prices
  BY DollarAssumption DEF Prices
<1>3. [x \in Prices |-> book[Other(side)][Dollar - x]] \in Ladders
  BY <1>1, <1>2 DEF Books, Ladders
<1> QED BY <1>3 DEF ImpliedAsks

\* How much is on offer below a price.
LEMMA SizeUpToIs ==
  ASSUME NEW ladder \in Ladders, NEW price \in 1 .. Dollar
  PROVE  /\ SizeUpTo(ladder, price) \in Nat
         /\ (\A q \in Prices : q < price => ladder[q] = 0) => SizeUpTo(ladder, price) = 0
         /\ \A q \in Prices : q < price => ladder[q] <= SizeUpTo(ladder, price)
<1> DEFINE S == {q \in Prices : q < price}
           f == [p \in S |-> ladder[p]]
           z == [p \in S |-> 0]
<1>1. /\ IsFiniteSet(S) /\ f \in [S -> Nat] /\ z \in [S -> Nat]
      /\ f \in [S -> Int] /\ z \in [S -> Int]
      /\ \A q \in S : f[q] = ladder[q] /\ z[q] = 0
  <2>1. \A q \in S : ladder[q] \in Nat /\ ladder[q] \in Int
    BY DEF Ladders
  <2>2. IsFiniteSet(S)
    BY PricesFinite
  <2>3. f \in [S -> Nat] /\ f \in [S -> Int]
    BY <2>1
  <2>4. z \in [S -> Nat] /\ z \in [S -> Int]
    OBVIOUS
  <2> QED BY <2>2, <2>3, <2>4
<1>2. SizeUpTo(ladder, price) = SumOver(f)
  BY DEF SizeUpTo
<1>3. \A q \in Prices : q < price => q \in S
  OBVIOUS
<1> HIDE DEF S, f, z
<1>5. SumOver(f) \in Nat
  BY <1>1, SumNat
<1>6. ASSUME \A q \in S : f[q] = 0 PROVE SumOver(f) = 0
  <2>1. \A q \in S : f[q] <= z[q]
    BY <1>1, <1>6
  <2>2. SumOver(f) <= SumOver(z)
    BY <1>1, <2>1, SumsCompare
  <2>3. SumOver(z) <= 0
    <3>1. \A q \in S : z[q] <= z[q] * z[q] /\ z[q] = 0
      BY <1>1
    <3> DEFINE K == {<<0, 0>>}
    <3>2. \A a \in Int, b \in Int : <<a, b>> \in K => \A q \in S : <<z[q] + a, z[q] + b>> \in K
      BY <3>1
    <3>3. <<0, 0>> \in K
      OBVIOUS
    <3> HIDE DEF K
    <3>4. <<SumOver(z), SumOver(z)>> \in K
      BY <1>1, <3>2, <3>3, SumsStay
    <3> QED BY <3>4 DEF K
  <2>4. SumOver(z) = 0
    BY <1>1, <2>3, SumNat
  <2> QED BY <1>5, <2>2, <2>4
<1>7. ASSUME NEW q \in S PROVE f[q] <= SumOver(f)
  <2> DEFINE r == [y \in S \ {q} |-> f[y]]
  <2>1. DOMAIN f = S /\ DOMAIN r = S \ {q} /\ r \in [S \ {q} -> Nat]
        /\ \A y \in S \ {q} : r[y] = f[y]
    BY <1>1
  <2>2. IsFiniteSet(S \ {q})
    BY <1>1, FS_RemoveElement
  <2> HIDE DEF r
  <2>3. SumOver(r) \in Nat
    BY <2>1, <2>2, SumNat
  <2>4. SumOver(f) = f[q] + SumOver(r)
    BY <1>1, <2>1, SumSplits
  <2> QED BY <1>1, <2>3, <2>4
<1>8. \A q \in S : q \in Prices /\ q < price
  BY DEF S
<1> QED BY <1>1, <1>2, <1>3, <1>5, <1>6, <1>7, <1>8

\* One contract costs the best price on offer.
LEMMA OneContract ==
  ASSUME NEW asks \in Ladders
  PROVE  CostToBuy(asks, 1) = BestAsk(asks)
<1>0. Dollar \in 1 .. Dollar /\ \A q \in Prices : q \in 1 .. Dollar /\ q < Dollar /\ q \in Nat
  BY DollarAssumption DEF Prices
<1>00. \A q \in Prices : asks[q] \in Nat
  BY DEF Ladders
<1>1. CASE Levels(asks) = {}
  <2>1. \A q \in Prices : asks[q] = 0
    BY <1>00, <1>1 DEF Levels
  <2>2. SizeUpTo(asks, Dollar) = 0
    BY <1>0, <2>1, SizeUpToIs
  <2> QED BY <1>1, <2>2 DEF CostToBuy, BestAsk
<1>2. CASE Levels(asks) # {}
  <2>1. PICK p \in Prices : /\ p = Min(Levels(asks)) /\ asks[p] > 0
                            /\ \A q \in Prices : asks[q] > 0 => p <= q
    <3>1. Levels(asks) \in SUBSET Nat
      BY <1>0 DEF Levels
    <3> QED BY <1>2, <3>1, MinIs DEF Levels
  <2>2. ~ (SizeUpTo(asks, Dollar) < 1)
    BY <1>0, <1>00, <2>1, SizeUpToIs
  <2>3. \A q \in Prices : Taken(asks, 1, q) = IF q = p THEN 1 ELSE 0
    <3> TAKE q \in Prices
    <3>1. q \in Nat /\ p \in Nat /\ asks[q] \in Nat /\ SizeUpTo(asks, q) \in Nat
      BY <1>0, <1>00, SizeUpToIs
    <3>2. Taken(asks, 1, q) =
            LET left == IF 0 >= 1 - SizeUpTo(asks, q) THEN 0 ELSE 1 - SizeUpTo(asks, q)
            IN  IF asks[q] <= left THEN asks[q] ELSE left
      <4>1. PICK n \in Nat : n = SizeUpTo(asks, q)
        BY <3>1
      <4>2. Max({0, 1 - n}) = IF 0 >= 1 - n THEN 0 ELSE 1 - n
        <5>1. 1 - n \in Int /\ 0 \in Int
          OBVIOUS
        <5> QED BY <5>1, MinOfTwo
      <4>3. \A l \in Int : Min({asks[q], l}) = IF asks[q] <= l THEN asks[q] ELSE l
        BY <3>1, MinOfTwo
      <4> QED BY <4>1, <4>2, <4>3 DEF Taken
    <3>3. CASE q < p
      <4>1. asks[q] = 0
        BY <2>1, <3>1, <3>3
      <4> QED BY <3>1, <3>2, <3>3, <4>1
    <3>4. CASE q = p
      <4>1. SizeUpTo(asks, q) = 0
        <5>1. \A x \in Prices : x < q => asks[x] = 0
          BY <1>0, <1>00, <2>1, <3>4
        <5> QED BY <1>0, <5>1, SizeUpToIs
      <4> QED BY <2>1, <3>1, <3>2, <3>4, <4>1
    <3>5. CASE q > p
      <4>1. SizeUpTo(asks, q) >= 1
        BY <1>0, <1>00, <2>1, <3>1, <3>5, SizeUpToIs
      <4> QED BY <3>1, <3>2, <3>5, <4>1
    <3> QED BY <3>1, <3>3, <3>4, <3>5
  <2> DEFINE f == [q \in Prices |-> q * Taken(asks, 1, q)]
             r == [q \in Prices \ {p} |-> 0]
  <2>4. \A q \in Prices : f[q] = IF q = p THEN p ELSE 0
    BY <1>0, <2>3
  <2>5. f \in [Prices -> Int] /\ r \in [Prices \ {p} -> Int] /\ IsFiniteSet(Prices)
        /\ IsFiniteSet(Prices \ {p}) /\ \A q \in Prices \ {p} : r[q] = 0
    <3>1. \A q \in Prices : f[q] \in Int
      BY <1>0, <2>4
    <3> QED BY <3>1, PricesFinite, FS_RemoveElement
  <2>6. CostToBuy(asks, 1) = SumOver(f)
    BY <2>2 DEF CostToBuy
  <2> HIDE DEF f, r
  <2>7. SumOver(f) = p + SumOver(r)
    BY <2>4, <2>5, SumSplits
  <2>8. SumOver(r) = 0
    <3> DEFINE K == {<<0, 0>>}
    <3>1. \A a \in Int, b \in Int : <<a, b>> \in K =>
            \A q \in Prices \ {p} : <<r[q] + a, r[q] + b>> \in K
      BY <2>5
    <3>2. <<0, 0>> \in K
      OBVIOUS
    <3> HIDE DEF K
    <3>3. <<SumOver(r), SumOver(r)>> \in K
      BY <2>5, <3>1, <3>2, SumsStay
    <3> QED BY <3>3 DEF K
  <2> QED BY <1>0, <1>2, <2>1, <2>6, <2>7, <2>8 DEF BestAsk
<1> QED BY <1>1, <1>2

-----------------------------------------------------------------------------
(* No way of taking a quantity costs less *)

\* What holds below the first price, and below the next whenever below the last, holds
\* up to the dollar.
LEMMA PriceInduction ==
  ASSUME NEW S, 1 \in S, \A n \in Prices : n \in S => n + 1 \in S
  PROVE  1 .. Dollar \subseteq S
<1> DEFINE T == {n \in Nat : n + 1 > Dollar \/ n + 1 \in S}
<1>1. 0 \in T
  OBVIOUS
<1>2. ASSUME NEW n \in Nat, n \in T PROVE n + 1 \in T
  <2>1. CASE n + 2 > Dollar
    BY <2>1
  <2>2. CASE ~ (n + 2 > Dollar)
    <3>1. n + 1 \in Prices /\ n + 1 \in S
      BY <1>2, <2>2, DollarAssumption DEF Prices
    <3>2. (n + 1) + 1 \in S
      BY <3>1
    <3> QED BY <3>2
  <2> QED BY <2>1, <2>2
<1>3. Nat \subseteq T
  <2> HIDE DEF T
  <2> QED BY <1>1, <1>2, SetInduction
<1>4. ASSUME NEW p \in 1 .. Dollar PROVE p \in S
  <2>1. p - 1 \in Nat /\ (p - 1) + 1 = p /\ p <= Dollar /\ Dollar \in Nat
    BY DollarAssumption
  <2>2. p - 1 \in T
    BY <1>3, <2>1
  <2> QED BY <2>1, <2>2
<1> QED BY <1>4

\* Sums below a price grow price by price, to the whole sum.
LEMMA BelowStarts == ASSUME NEW f PROVE SizeUpTo(f, 1) = 0
<1> DEFINE S == {q \in Prices : q < 1}
           g == [p \in S |-> f[p]]
<1>1. DOMAIN g = {}
  BY PricesFinite DEF Prices
<1> HIDE DEF g
<1>2. SumOver(g) = 0
  BY <1>1, SumEmpty
<1> QED BY <1>2 DEF SizeUpTo, g

LEMMA BelowType ==
  ASSUME NEW f \in [Prices -> Int], NEW n \in 1 .. Dollar
  PROVE  SizeUpTo(f, n) \in Int
<1> DEFINE g == [p \in {q \in Prices : q < n} |-> f[p]]
<1>1. IsFiniteSet(DOMAIN g) /\ \A x \in DOMAIN g : g[x] \in Int
  BY PricesFinite
<1> HIDE DEF g
<1>2. SumOver(g) \in Int
  BY <1>1, SumType
<1> QED BY <1>2 DEF SizeUpTo, g

LEMMA BelowSteps ==
  ASSUME NEW f \in [Prices -> Int], NEW n \in Prices
  PROVE  SizeUpTo(f, n + 1) = SizeUpTo(f, n) + f[n]
<1> DEFINE S == {q \in Prices : q < n}
           T == {q \in Prices : q < n + 1}
           g == [p \in S |-> f[p]]
           h == [p \in T |-> f[p]]
<1>1. n \in Nat /\ n \in 1 .. Dollar /\ n \notin S /\ T = S \union {n}
  BY PricesFinite, DollarAssumption DEF Prices
<1>2. IsFiniteSet(S) /\ g \in [S -> Int] /\ h \in [T -> Int]
  BY <1>1, PricesFinite
<1>3. h[n] = f[n] /\ \A y \in S : h[y] = g[y]
  BY <1>1
<1>4. SizeUpTo(f, n) = SumOver(g) /\ SizeUpTo(f, n + 1) = SumOver(h)
  BY DEF SizeUpTo
<1> HIDE DEF S, T, g, h
<1>5. SumOver(h) = h[n] + SumOver(g)
  BY <1>1, <1>2, <1>3, SumAdds
<1>6. SumOver(g) \in Int /\ f[n] \in Int
  BY <1>1, <1>4, BelowType
<1> QED BY <1>3, <1>4, <1>5, <1>6

LEMMA BelowAll ==
  ASSUME NEW f \in [Prices -> Int]
  PROVE  SizeUpTo(f, Dollar) = SumOver(f)
<1>1. {q \in Prices : q < Dollar} = Prices
  BY DollarAssumption DEF Prices
<1>2. [p \in {q \in Prices : q < Dollar} |-> f[p]] = f
  BY <1>1
<1> QED BY <1>2 DEF SizeUpTo

LEMMA AllPrices ==
  /\ 1 \in 1 .. Dollar /\ Dollar \in 1 .. Dollar /\ Dollar \in Nat
  /\ \A n \in Prices : n \in Nat /\ n \in 1 .. Dollar /\ n + 1 \in 1 .. Dollar
  BY DollarAssumption DEF Prices

\* Less at every price is less below every price.
LEMMA BelowCompares ==
  ASSUME NEW f \in [Prices -> Int], NEW g \in [Prices -> Int],
         \A p \in Prices : f[p] <= g[p], NEW n \in 1 .. Dollar
  PROVE  SizeUpTo(f, n) <= SizeUpTo(g, n)
<1> DEFINE S == {k \in 1 .. Dollar : SizeUpTo(f, k) <= SizeUpTo(g, k)}
<1>1. 1 \in S
  BY AllPrices, BelowStarts
<1>2. ASSUME NEW k \in Prices, k \in S PROVE k + 1 \in S
  <2>1. SizeUpTo(f, k) \in Int /\ SizeUpTo(g, k) \in Int /\ f[k] \in Int /\ g[k] \in Int
    BY AllPrices, BelowType
  <2>2. /\ SizeUpTo(f, k + 1) = SizeUpTo(f, k) + f[k]
        /\ SizeUpTo(g, k + 1) = SizeUpTo(g, k) + g[k]
    BY BelowSteps
  <2>3. SizeUpTo(f, k) <= SizeUpTo(g, k) /\ f[k] <= g[k]
    BY <1>2
  <2>4. SizeUpTo(f, k + 1) <= SizeUpTo(g, k + 1)
    BY <2>1, <2>2, <2>3
  <2> QED BY <2>4, AllPrices
<1>3. 1 .. Dollar \subseteq S
  <2> HIDE DEF S
  <2> QED BY <1>1, <1>2, PriceInduction
<1> QED BY <1>3

\* And what is below a price is no more than the whole.
LEMMA BelowIsPart ==
  ASSUME NEW f \in [Prices -> Nat], NEW n \in 1 .. Dollar
  PROVE  SizeUpTo(f, n) <= SumOver(f)
<1>1. f \in [Prices -> Int]
  OBVIOUS
<1> DEFINE S == {k \in 1 .. Dollar : k < n \/ SizeUpTo(f, n) <= SizeUpTo(f, k)}
<1>2. 1 \in S
  <2>1. CASE n = 1
    BY <1>1, <2>1, AllPrices, BelowType
  <2>2. CASE n # 1
    BY <2>2, AllPrices
  <2> QED BY <2>1, <2>2
<1>3. ASSUME NEW k \in Prices, k \in S PROVE k + 1 \in S
  <2>1. /\ SizeUpTo(f, k + 1) = SizeUpTo(f, k) + f[k] /\ SizeUpTo(f, k) \in Int
        /\ SizeUpTo(f, n) \in Int /\ f[k] \in Nat
    BY <1>1, AllPrices, BelowSteps, BelowType
  <2>2. k \in Nat /\ n \in Nat /\ k + 1 \in 1 .. Dollar
    BY AllPrices
  <2>3. CASE k + 1 < n
    BY <2>2, <2>3
  <2>4. CASE k + 1 = n
    BY <2>1, <2>2, <2>4
  <2>5. CASE ~ (k < n)
    <3>1. SizeUpTo(f, n) <= SizeUpTo(f, k)
      BY <1>3, <2>5
    <3>2. SizeUpTo(f, n) <= SizeUpTo(f, k + 1)
      BY <2>1, <3>1
    <3> QED BY <2>2, <3>2
  <2> QED BY <2>2, <2>3, <2>4, <2>5
<1>4. 1 .. Dollar \subseteq S
  <2> HIDE DEF S
  <2> QED BY <1>2, <1>3, PriceInduction
<1>5. Dollar \in S /\ ~ (Dollar < n)
  BY <1>4, AllPrices
<1> QED BY <1>1, <1>5, BelowAll

\* What is taken at a price is there, and no more than asked for.
LEMMA TakenIs ==
  ASSUME NEW ladder \in Ladders, NEW quantity \in Nat, NEW p \in Prices
  PROVE  /\ Taken(ladder, quantity, p) \in 0 .. quantity
         /\ Taken(ladder, quantity, p) <= ladder[p]
         /\ Taken(ladder, quantity, p) =
              LET left == IF 0 >= quantity - SizeUpTo(ladder, p) THEN 0
                          ELSE quantity - SizeUpTo(ladder, p)
              IN  IF ladder[p] <= left THEN ladder[p] ELSE left
<1>1. PICK n \in Nat : n = SizeUpTo(ladder, p)
  BY AllPrices, SizeUpToIs
<1>2. ladder[p] \in Nat
  BY DEF Ladders
<1>3. Max({0, quantity - n}) = IF 0 >= quantity - n THEN 0 ELSE quantity - n
  <2>1. quantity - n \in Int /\ 0 \in Int
    OBVIOUS
  <2> QED BY <2>1, MinOfTwo
<1>4. \A l \in Int : Min({ladder[p], l}) = IF ladder[p] <= l THEN ladder[p] ELSE l
  BY <1>2, MinOfTwo
<1>5. PICK left \in Int : left = (IF 0 >= quantity - n THEN 0 ELSE quantity - n)
  OBVIOUS
<1>6. Taken(ladder, quantity, p) = IF ladder[p] <= left THEN ladder[p] ELSE left
  <2>1. Max({0, quantity - SizeUpTo(ladder, p)}) = left
    BY <1>1, <1>3, <1>5
  <2>2. Taken(ladder, quantity, p) = Min({ladder[p], left})
    BY <2>1 DEF Taken
  <2> QED BY <1>4, <1>5, <2>2
<1> QED BY <1>1, <1>2, <1>5, <1>6

\* Below every price the walk has taken all there is, or all that was asked for.
LEMMA TakenBelow ==
  ASSUME NEW ladder \in Ladders, NEW quantity \in Nat, NEW g,
         g = [p \in Prices |-> Taken(ladder, quantity, p)], NEW n \in 1 .. Dollar
  PROVE  SizeUpTo(g, n) = IF SizeUpTo(ladder, n) <= quantity
                          THEN SizeUpTo(ladder, n) ELSE quantity
<1>0. /\ g \in [Prices -> Int] /\ ladder \in [Prices -> Int]
      /\ \A p \in Prices : g[p] = Taken(ladder, quantity, p) /\ ladder[p] \in Nat
  BY TakenIs DEF Ladders
<1> DEFINE Rest(k) == IF SizeUpTo(ladder, k) <= quantity THEN SizeUpTo(ladder, k) ELSE quantity
           S == {k \in 1 .. Dollar : SizeUpTo(g, k) = Rest(k)}
<1>1. 1 \in S
  BY AllPrices, BelowStarts
<1>2. ASSUME NEW k \in Prices, k \in S PROVE k + 1 \in S
  <2>1. PICK a \in Nat : a = SizeUpTo(ladder, k)
    BY AllPrices, SizeUpToIs
  <2>2. PICK l \in Nat : l = ladder[k]
    BY <1>0
  <2>3. SizeUpTo(ladder, k + 1) = a + l /\ SizeUpTo(g, k + 1) = SizeUpTo(g, k) + g[k]
    BY <1>0, <2>1, <2>2, BelowSteps
  <2>4. g[k] = LET left == IF 0 >= quantity - a THEN 0 ELSE quantity - a
               IN  IF l <= left THEN l ELSE left
    BY <1>0, <2>1, <2>2, TakenIs
  <2>5. SizeUpTo(g, k) = IF a <= quantity THEN a ELSE quantity
    BY <1>2, <2>1
  <2>6. SizeUpTo(g, k + 1) = IF a + l <= quantity THEN a + l ELSE quantity
    BY <2>3, <2>4, <2>5
  <2> QED BY <2>3, <2>6, AllPrices
<1>3. 1 .. Dollar \subseteq S
  <2> HIDE DEF S
  <2> QED BY <1>1, <1>2, PriceInduction
<1> QED BY <1>3

\* Two ways of taking as much, of which the first is never behind the second: a contract
\* it takes earlier it takes at a lower price.
LEMMA EarlierIsCheaper ==
  ASSUME NEW g \in [Prices -> Nat], NEW w \in [Prices -> Nat], SumOver(g) = SumOver(w),
         \A n \in 1 .. Dollar : SizeUpTo(w, n) <= SizeUpTo(g, n)
  PROVE  SumOver([p \in Prices |-> p * g[p]]) <= SumOver([p \in Prices |-> p * w[p]])
<1> DEFINE cg == [p \in Prices |-> p * g[p]]
           cw == [p \in Prices |-> p * w[p]]
           S == {n \in 1 .. Dollar :
                   SizeUpTo(cg, n) - SizeUpTo(cw, n) <= n * (SizeUpTo(g, n) - SizeUpTo(w, n))}
<1>1. /\ g \in [Prices -> Int] /\ w \in [Prices -> Int]
      /\ cg \in [Prices -> Int] /\ cw \in [Prices -> Int]
      /\ \A p \in Prices : cg[p] = p * g[p] /\ cw[p] = p * w[p]
  <2>1. \A p \in Prices : p * g[p] \in Int /\ p * w[p] \in Int
    BY AllPrices
  <2> QED BY <2>1
<1> HIDE DEF cg, cw
<1>2. 1 \in S
  BY AllPrices, BelowStarts
<1>3. ASSUME NEW n \in Prices, n \in S PROVE n + 1 \in S
  <2>1. PICK a \in Int, b \in Int : a = SizeUpTo(cg, n) /\ b = SizeUpTo(cw, n)
    BY <1>1, AllPrices, BelowType
  <2>2. PICK u \in Int, v \in Int : u = SizeUpTo(g, n) /\ v = SizeUpTo(w, n)
    BY <1>1, AllPrices, BelowType
  <2>3. PICK x \in Int, y \in Int : x = g[n] /\ y = w[n]
    OBVIOUS
  <2>4. /\ SizeUpTo(cg, n + 1) = a + n * x /\ SizeUpTo(cw, n + 1) = b + n * y
        /\ SizeUpTo(g, n + 1) = u + x /\ SizeUpTo(w, n + 1) = v + y
    BY <1>1, <2>1, <2>2, <2>3, BelowSteps
  <2>5. a - b <= n * (u - v) /\ v + y <= u + x /\ n \in Nat
    BY <1>3, <2>1, <2>2, <2>4, AllPrices
  <2> DEFINE d == (u + x) - (v + y)
  <2>6. d \in Nat /\ n * d = n * (u - v) + (n * x - n * y)
    BY <2>5
  <2>7. (n + 1) * d = n * d + d /\ n * d \in Int /\ n * x \in Int /\ n * y \in Int
        /\ n * (u - v) \in Int
    BY <2>5, <2>6
  <2> HIDE DEF d
  <2>8. (a + n * x) - (b + n * y) <= (n + 1) * d
    BY <2>5, <2>6, <2>7
  <2> QED BY <2>4, <2>8, AllPrices DEF d
<1>4. Dollar \in S
  <2> HIDE DEF S
  <2> QED BY <1>2, <1>3, PriceInduction, AllPrices
<1>5. SizeUpTo(g, Dollar) = SizeUpTo(w, Dollar) /\ SizeUpTo(g, Dollar) \in Int
  BY <1>1, BelowAll, BelowType, AllPrices
<1>6. Dollar * (SizeUpTo(g, Dollar) - SizeUpTo(w, Dollar)) = 0
  BY <1>5, AllPrices
<1>7. SizeUpTo(cg, Dollar) \in Int /\ SizeUpTo(cw, Dollar) \in Int
  BY <1>1, BelowType, AllPrices
<1>8. SizeUpTo(cg, Dollar) <= SizeUpTo(cw, Dollar)
  BY <1>4, <1>6, <1>7
<1>9. SumOver(cg) <= SumOver(cw)
  BY <1>1, <1>8, BelowAll
<1> QED BY <1>9 DEF cg, cw

\* executable_wap_for_buy costs the least that any way of taking the quantity costs, and
\* gives up only when there is no way: for every ladder and quantity.
THEOREM WalkIsCheapest ==
  ASSUME NEW ladder \in Ladders, NEW quantity \in Nat \ {0}
  PROVE  CostToBuy(ladder, quantity) = LeastCost(ladder, quantity)
<1> DEFINE Ways == {w \in [Prices -> 0 .. quantity] :
                      /\ \A p \in Prices : w[p] <= ladder[p]
                      /\ SumOver(w) = quantity}
           Cost(w) == SumOver([p \in Prices |-> p * w[p]])
           g == [p \in Prices |-> Taken(ladder, quantity, p)]
<1>0. quantity \in Nat /\ ladder \in [Prices -> Nat] /\ ladder \in [Prices -> Int]
  BY DEF Ladders
<1>1. \A w \in Ways : /\ w \in [Prices -> Nat] /\ w \in [Prices -> Int] /\ SumOver(w) = quantity
                      /\ \A p \in Prices : w[p] <= ladder[p]
  OBVIOUS
<1>2. LeastCost(ladder, quantity) =
        IF Ways = {} THEN NoPrice ELSE Min({Cost(w) : w \in Ways})
  BY DEF LeastCost
<1>3. \A w \in Ways : Cost(w) \in Nat
  <2> TAKE w \in Ways
  <2> DEFINE c == [p \in Prices |-> p * w[p]]
  <2>1. c \in [Prices -> Nat] /\ IsFiniteSet(Prices)
    <3>1. \A p \in Prices : p * w[p] \in Nat
      BY <1>1, AllPrices
    <3> QED BY <3>1, PricesFinite
  <2> HIDE DEF c, Ways
  <2>2. SumOver(c) \in Nat
    BY <2>1, SumNat
  <2> QED BY <2>2 DEF c
<1>4. /\ g \in [Prices -> 0 .. quantity] /\ g \in [Prices -> Nat] /\ g \in [Prices -> Int]
      /\ \A p \in Prices : g[p] = Taken(ladder, quantity, p) /\ g[p] <= ladder[p]
  BY <1>0, TakenIs
<1>5. SizeUpTo(ladder, Dollar) \in Nat
  BY SizeUpToIs, AllPrices
<1>6. CASE SizeUpTo(ladder, Dollar) < quantity
  <2>1. Ways = {}
    <3> SUFFICES ASSUME NEW w \in Ways PROVE FALSE
      OBVIOUS
    <3>1. SizeUpTo(w, Dollar) <= SizeUpTo(ladder, Dollar)
      BY <1>0, <1>1, BelowCompares, AllPrices
    <3>2. SizeUpTo(w, Dollar) = quantity
      BY <1>1, BelowAll
    <3> QED BY <1>0, <1>5, <1>6, <3>1, <3>2
  <2> QED BY <1>2, <1>6, <2>1 DEF CostToBuy
<1>7. CASE ~ (SizeUpTo(ladder, Dollar) < quantity)
  <2>1. \A n \in 1 .. Dollar : SizeUpTo(g, n) = IF SizeUpTo(ladder, n) <= quantity
                                                THEN SizeUpTo(ladder, n) ELSE quantity
    BY <1>0, TakenBelow
  <2>2. SumOver(g) = quantity
    <3>1. SizeUpTo(g, Dollar) = quantity
      BY <1>0, <1>5, <1>7, <2>1, AllPrices
    <3> HIDE DEF g
    <3> QED BY <1>4, <3>1, BelowAll
  <2>3. g \in Ways
    <3> HIDE DEF g
    <3> QED BY <1>4, <2>2
  <2>4. ASSUME NEW w \in Ways PROVE Cost(g) <= Cost(w)
    <3>1. ASSUME NEW n \in 1 .. Dollar PROVE SizeUpTo(w, n) <= SizeUpTo(g, n)
      <4>1. SizeUpTo(w, n) <= SizeUpTo(ladder, n)
        BY <1>0, <1>1, BelowCompares
      <4>2. SizeUpTo(w, n) <= quantity
        BY <1>1, BelowIsPart
      <4> QED BY <2>1, <4>1, <4>2
    <3> HIDE DEF g, Ways
    <3> QED BY <1>1, <1>4, <2>2, <3>1, EarlierIsCheaper
  <2>5. CostToBuy(ladder, quantity) = Cost(g)
    <3>1. CostToBuy(ladder, quantity) = SumOver([p \in Prices |-> p * Taken(ladder, quantity, p)])
      BY <1>0, <1>7 DEF CostToBuy
    <3>2. [p \in Prices |-> p * Taken(ladder, quantity, p)] = [p \in Prices |-> p * g[p]]
      BY <1>4
    <3> QED BY <3>1, <3>2
  <2> DEFINE C == {Cost(w) : w \in Ways}
  <2>6. C \in SUBSET Nat /\ C # {} /\ Cost(g) \in C /\ \A c \in C : Cost(g) <= c
    <3> HIDE DEF Ways, Cost, g
    <3> QED BY <1>3, <2>3, <2>4
  <2>7. Min(C) \in C /\ \A c \in C : Min(C) <= c
    <3> HIDE DEF C
    <3> QED BY <2>6, MinIs
  <2>8. Min(C) = Cost(g)
    <3> HIDE DEF C, Cost
    <3>1. Min(C) <= Cost(g) /\ Cost(g) <= Min(C) /\ Min(C) \in Nat /\ Cost(g) \in Nat
      BY <2>6, <2>7
    <3> QED BY <3>1
  <2>9. Ways # {}
    BY <2>3
  <2> QED BY <1>2, <2>5, <2>8, <2>9
<1> QED BY <1>6, <1>7
=============================================================================
