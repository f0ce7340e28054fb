----------------------------- MODULE Sums_proofs -----------------------------
(***************************************************************************)
(* What a total of any number of amounts amounts to.  A recursive function *)
(* is a CHOOSE of a function with the right equations, so the lemmas first *)
(* build one, amount by amount.  Induction over the number of amounts is   *)
(* about a set of numbers that has 0 and every successor (SetInduction).   *)
(***************************************************************************)
EXTENDS Sums, FiniteSetsExt, WellFoundedInduction, FiniteSetTheorems, TLAPS

\* A set with 0 and every successor of its numbers has every number: else it
\* would miss a least one.
LEMMA SetInduction ==
  ASSUME NEW S, 0 \in S, \A n \in Nat : n \in S => n + 1 \in S
  PROVE  Nat \subseteq S
<1> DEFINE T == Nat \ S
<1> SUFFICES ASSUME T # {} PROVE FALSE
  OBVIOUS
<1>1. \E x \in T : \A y \in T : ~ (<<y, x>> \in OpToRel(<, Nat))
  BY NatLessThanWellFounded, WFMin
<1>2. PICK x \in T : \A y \in T : ~ (y < x)
  BY <1>1 DEF OpToRel
<1>3. x - 1 \in Nat /\ x - 1 \notin T
  BY <1>2
<1> QED BY <1>2, <1>3

-----------------------------------------------------------------------------
(* The loop *)

\* f[n] is the loop's total after n amounts.
IsTotal(f, amounts) ==
  f = [n \in 0 .. Len(amounts) |-> IF n = 0 THEN 0 ELSE f[n - 1] + amounts[n]]

LEMMA TotalExists ==
  ASSUME NEW amounts \in Seq(Int)
  PROVE  \E f : IsTotal(f, amounts)
<1> DEFINE N == Len(amounts)
           Upto(f, m) ==
             f = [n \in 0 .. m |-> IF n = 0 THEN 0 ELSE f[n - 1] + amounts[n]]
           S == {m \in Nat : m > N \/ \E f : Upto(f, m)}
<1>1. N \in Nat
  OBVIOUS
<1>2. 0 \in S
  <2>1. Upto([n \in 0 .. 0 |-> 0], 0)
    OBVIOUS
  <2> QED BY <2>1
<1>3. ASSUME NEW m \in Nat, m \in S PROVE m + 1 \in S
  <2>1. CASE m + 1 > N
    BY <2>1
  <2>2. CASE m + 1 <= N
    <3> PICK f : Upto(f, m)
      BY <1>1, <1>3, <2>2
    <3> DEFINE g == [n \in 0 .. m + 1 |->
                       IF n = m + 1 THEN f[m] + amounts[m + 1] ELSE f[n]]
    <3>1. \A n \in 0 .. m + 1 : g[n] = IF n = 0 THEN 0 ELSE g[n - 1] + amounts[n]
      <4> TAKE n \in 0 .. m + 1
      <4>1. CASE n = m + 1
        <5>1. g[m] = f[m]
          OBVIOUS
        <5> QED BY <4>1, <5>1
      <4>2. CASE n \in 0 .. m
        <5>1. f[n] = IF n = 0 THEN 0 ELSE f[n - 1] + amounts[n]
          BY <4>2
        <5>2. g[n] = f[n] /\ (n # 0 => g[n - 1] = f[n - 1])
          BY <4>2
        <5> QED BY <5>1, <5>2
      <4> QED BY <4>1, <4>2
    <3>2. Upto(g, m + 1)
      BY <3>1
    <3> HIDE DEF g, Upto
    <3>3. \E h : Upto(h, m + 1)
      BY <3>2
    <3> QED BY <1>1, <3>3
  <2> QED BY <1>1, <2>1, <2>2
<1> HIDE DEF S
<1>4. Nat \subseteq S
  BY <1>2, <1>3, SetInduction
<1>5. N \in S
  BY <1>1, <1>4
<1> QED BY <1>5 DEF S, IsTotal

LEMMA TotalIs ==
  ASSUME NEW amounts \in Seq(Int)
  PROVE  \E f : IsTotal(f, amounts) /\ Total(amounts) = f[Len(amounts)]
<1> DEFINE f == CHOOSE f : IsTotal(f, amounts)
<1>1. IsTotal(f, amounts)
  BY TotalExists
<1>2. Total(amounts) = f[Len(amounts)]
  BY DEF Total, IsTotal
<1> QED BY <1>1, <1>2

LEMMA TotalStarts ==
  ASSUME NEW a \in Seq(Int), NEW f, IsTotal(f, a)
  PROVE  f[0] = 0
<1>1. 0 \in 0 .. Len(a)
  OBVIOUS
<1> QED BY <1>1 DEF IsTotal

LEMMA TotalSteps ==
  ASSUME NEW a \in Seq(Int), NEW f, IsTotal(f, a), NEW n \in Nat, n + 1 <= Len(a)
  PROVE  f[n + 1] = f[n] + a[n + 1] /\ n + 1 \in DOMAIN a /\ a[n + 1] \in Int
<1>1. n + 1 \in 0 .. Len(a) /\ n + 1 # 0 /\ n + 1 - 1 = n
  OBVIOUS
<1>2. f[n + 1] = f[n] + a[n + 1]
  BY <1>1 DEF IsTotal
<1> QED BY <1>1, <1>2

-----------------------------------------------------------------------------
(* Totals *)

\* A set that has 0 and that no amount leads out of has every partial total.
LEMMA PartialStays ==
  ASSUME NEW a \in Seq(Int), NEW f, IsTotal(f, a), NEW K, 0 \in K,
         \A k \in K, n \in DOMAIN a : k + a[n] \in K
  PROVE  \A n \in 0 .. Len(a) : f[n] \in K
<1>0. Len(a) \in Nat
  OBVIOUS
<1> DEFINE S == {n \in Nat : n > Len(a) \/ f[n] \in K}
<1>1. 0 \in S
  BY TotalStarts
<1>2. ASSUME NEW n \in Nat, n \in S PROVE n + 1 \in S
  <2>1. CASE n + 1 > Len(a)
    BY <2>1
  <2>2. CASE n + 1 <= Len(a)
    <3>1. f[n] \in K
      BY <1>0, <1>2, <2>2
    <3>2. f[n + 1] = f[n] + a[n + 1] /\ n + 1 \in DOMAIN a
      BY <2>2, TotalSteps
    <3>3. f[n + 1] \in K
      BY <3>1, <3>2
    <3> QED BY <3>3
  <2> QED BY <1>0, <2>1, <2>2
<1> HIDE DEF S
<1>3. Nat \subseteq S
  BY <1>1, <1>2, SetInduction
<1> QED BY <1>0, <1>3 DEF S

LEMMA TotalStays ==
  ASSUME NEW a \in Seq(Int), NEW K, 0 \in K,
         \A k \in K, n \in DOMAIN a : k + a[n] \in K
  PROVE  Total(a) \in K
<1>1. PICK f : IsTotal(f, a) /\ Total(a) = f[Len(a)]
  BY TotalIs
<1>2. Len(a) \in 0 .. Len(a)
  OBVIOUS
<1> QED BY <1>1, <1>2, PartialStays

LEMMA TotalType == ASSUME NEW a \in Seq(Int) PROVE Total(a) \in Int
<1>1. \A k \in Int, n \in DOMAIN a : k + a[n] \in Int
  OBVIOUS
<1> QED BY <1>1, TotalStays

\* Amounts that begin alike have the same total so far.
LEMMA TotalsAgree ==
  ASSUME NEW a \in Seq(Int), NEW b \in Seq(Int), NEW f, NEW g,
         IsTotal(f, a), IsTotal(g, b),
         NEW m \in Nat, m <= Len(a), m <= Len(b),
         \A n \in 1 .. m : a[n] = b[n]
  PROVE  f[m] = g[m]
<1> DEFINE S == {n \in Nat : n > m \/ f[n] = g[n]}
<1>0. Len(a) \in Nat /\ Len(b) \in Nat
  OBVIOUS
<1>1. 0 \in S
  BY TotalStarts
<1>2. ASSUME NEW n \in Nat, n \in S PROVE n + 1 \in S
  <2>1. CASE n + 1 > m
    BY <2>1
  <2>2. CASE n + 1 <= m
    <3>1. f[n] = g[n] /\ n + 1 <= Len(a) /\ n + 1 <= Len(b)
      BY <1>0, <1>2, <2>2
    <3>2. f[n + 1] = f[n] + a[n + 1] /\ g[n + 1] = g[n] + b[n + 1]
      BY <3>1, TotalSteps
    <3>3. f[n + 1] = g[n + 1]
      BY <3>1, <3>2, <2>2
    <3> QED BY <3>3
  <2> QED BY <2>1, <2>2
<1> HIDE DEF S
<1>3. Nat \subseteq S
  BY <1>1, <1>2, SetInduction
<1>4. m \in S
  BY <1>3
<1> QED BY <1>4 DEF S

\* One more amount adds itself.
LEMMA TotalAppend ==
  ASSUME NEW a \in Seq(Int), NEW b \in Seq(Int), Len(b) = Len(a) + 1,
         \A n \in 1 .. Len(a) : a[n] = b[n]
  PROVE  Total(b) = Total(a) + b[Len(b)]
<1>1. Len(a) \in Nat
  OBVIOUS
<1>2. PICK f : IsTotal(f, a) /\ Total(a) = f[Len(a)]
  BY TotalIs
<1>3. PICK g : IsTotal(g, b) /\ Total(b) = g[Len(b)]
  BY TotalIs
<1>4. f[Len(a)] = g[Len(a)]
  <2> DEFINE m == Len(a)
  <2>1. m \in Nat /\ m <= Len(a) /\ m <= Len(b)
    BY <1>1
  <2>2. \A n \in 1 .. m : a[n] = b[n]
    OBVIOUS
  <2> HIDE DEF m
  <2>3. f[m] = g[m]
    BY <1>2, <1>3, <2>1, <2>2, TotalsAgree
  <2> QED BY <2>3 DEF m
<1>5. g[Len(a) + 1] = g[Len(a)] + b[Len(a) + 1]
  BY <1>1, <1>3, TotalSteps
<1> QED BY <1>1, <1>2, <1>3, <1>4, <1>5

\* An amount that changes changes the total by as much.
LEMMA TotalUpdate ==
  ASSUME NEW a \in Seq(Int), NEW b \in Seq(Int), Len(b) = Len(a),
         NEW k \in DOMAIN a, \A n \in DOMAIN a \ {k} : a[n] = b[n]
  PROVE  Total(b) = Total(a) + (b[k] - a[k])
<1>1. Len(a) \in Nat /\ k \in 1 .. Len(a) /\ DOMAIN b = 1 .. Len(a) /\ a[k] \in Int /\ b[k] \in Int
  OBVIOUS
<1>2. PICK f : IsTotal(f, a) /\ Total(a) = f[Len(a)]
  BY TotalIs
<1>3. PICK g : IsTotal(g, b) /\ Total(b) = g[Len(b)]
  BY TotalIs
<1>4. \A n \in 0 .. Len(a) : f[n] \in Int
  <2> DEFINE K == Int
  <2>1. 0 \in K /\ \A x \in K, n \in DOMAIN a : x + a[n] \in K
    OBVIOUS
  <2> HIDE DEF K
  <2>2. \A n \in 0 .. Len(a) : f[n] \in K
    BY <1>2, <2>1, PartialStays
  <2> QED BY <2>2 DEF K
<1> DEFINE S == {n \in Nat : n > Len(a) \/ g[n] = f[n] + (IF n >= k THEN b[k] - a[k] ELSE 0)}
<1>5. 0 \in S
  BY <1>1, <1>2, <1>3, TotalStarts
<1>6. ASSUME NEW n \in Nat, n \in S PROVE n + 1 \in S
  <2>1. CASE n + 1 > Len(a)
    BY <2>1
  <2>2. CASE n + 1 <= Len(a)
    <3>1. g[n] = f[n] + (IF n >= k THEN b[k] - a[k] ELSE 0) /\ f[n] \in Int
      BY <1>1, <1>4, <1>6, <2>2
    <3>2. /\ f[n + 1] = f[n] + a[n + 1] /\ a[n + 1] \in Int
          /\ g[n + 1] = g[n] + b[n + 1] /\ b[n + 1] \in Int
          /\ n + 1 \in DOMAIN a
      BY <1>2, <1>3, <2>2, TotalSteps
    <3>3. n + 1 # k => a[n + 1] = b[n + 1]
      BY <3>2
    <3>4. g[n + 1] = f[n + 1] + (IF n + 1 >= k THEN b[k] - a[k] ELSE 0)
      <4>1. CASE n + 1 = k
        <5>1. ~ (n >= k) /\ n + 1 >= k
          BY <1>1, <4>1
        <5> QED BY <1>1, <3>1, <3>2, <4>1, <5>1
      <4>2. CASE n + 1 # k
        <5>1. (n >= k) <=> (n + 1 >= k)
          BY <1>1, <4>2
        <5> QED BY <1>1, <3>1, <3>2, <3>3, <4>2, <5>1
      <4> QED BY <4>1, <4>2
    <3> QED BY <3>4
  <2> QED BY <1>1, <2>1, <2>2
<1> HIDE DEF S
<1>7. Nat \subseteq S
  BY <1>5, <1>6, SetInduction
<1>8. g[Len(a)] = f[Len(a)] + (IF Len(a) >= k THEN b[k] - a[k] ELSE 0)
  BY <1>1, <1>7 DEF S
<1> QED BY <1>1, <1>2, <1>3, <1>8

-----------------------------------------------------------------------------
(* Sums over a set *)

\* A set of sets that has every subset of S whose subsets with an element less
\* it has, has every subset of S.
LEMMA SubsetInduction ==
  ASSUME NEW S, IsFiniteSet(S), NEW F,
         \A T \in SUBSET S : (\A x \in T : T \ {x} \in F) => T \in F
  PROVE  SUBSET S \subseteq F
<1> DEFINE K == {n \in Nat : \A T \in SUBSET S : Cardinality(T) = n => T \in F}
<1>0. \A T \in SUBSET S : IsFiniteSet(T) /\ Cardinality(T) \in Nat
  BY FS_Subset, FS_CardinalityType
<1>1. 0 \in K
  <2>1. \A T \in SUBSET S : Cardinality(T) = 0 => T = {}
    BY <1>0, FS_EmptySet
  <2> QED BY <2>1
<1>2. ASSUME NEW n \in Nat, n \in K PROVE n + 1 \in K
  <2> SUFFICES ASSUME NEW T \in SUBSET S, Cardinality(T) = n + 1 PROVE T \in F
    OBVIOUS
  <2>1. \A x \in T : Cardinality(T \ {x}) = n /\ T \ {x} \in SUBSET S
    <3> TAKE x \in T
    <3>1. Cardinality(T \ {x}) = Cardinality(T) - 1
      BY <1>0, FS_RemoveElement
    <3> QED BY <3>1
  <2> QED BY <1>2, <2>1
<1> HIDE DEF K
<1>3. Nat \subseteq K
  BY <1>1, <1>2, SetInduction
<1> QED BY <1>0, <1>3 DEF K

Pick(T) == CHOOSE x \in T : TRUE

\* g[T] is the fold's result on T.
IsFold(g, f, S) ==
  g = [T \in SUBSET S |-> IF T = {} THEN 0 ELSE f[Pick(T)] + g[T \ {Pick(T)}]]

LEMMA PickIn == ASSUME NEW T, T # {} PROVE Pick(T) \in T
  BY DEF Pick

LEMMA FoldExists ==
  ASSUME NEW S, IsFiniteSet(S), NEW f
  PROVE  \E g : IsFold(g, f, S)
<1> DEFINE Upto(m) == {T \in SUBSET S : Cardinality(T) <= m}
           Right(g, m) == g = [T \in Upto(m) |->
                                 IF T = {} THEN 0 ELSE f[Pick(T)] + g[T \ {Pick(T)}]]
           K == {m \in Nat : \E g : Right(g, m)}
<1>0. \A T \in SUBSET S : /\ IsFiniteSet(T) /\ Cardinality(T) \in Nat
                          /\ Cardinality(T) <= Cardinality(S)
                          /\ (Cardinality(T) = 0 <=> T = {})
  BY FS_Subset, FS_CardinalityType, FS_EmptySet
<1>00. \A T \in SUBSET S : T # {} =>
         Cardinality(T \ {Pick(T)}) = Cardinality(T) - 1 /\ T \ {Pick(T)} \in SUBSET S
  BY <1>0, PickIn, FS_RemoveElement
<1>1. 0 \in K
  <2>1. Upto(0) = {{}}
    <3>1. {} \in SUBSET S /\ Cardinality({}) = 0
      BY FS_EmptySet
    <3> QED BY <1>0, <3>1
  <2>2. Right([T \in Upto(0) |-> 0], 0)
    BY <2>1
  <2> QED BY <2>2
<1>2. ASSUME NEW m \in Nat, m \in K PROVE m + 1 \in K
  <2> PICK g : Right(g, m)
    BY <1>2
  <2> DEFINE h == [T \in Upto(m + 1) |->
                     IF T = {} THEN 0 ELSE f[Pick(T)] + g[T \ {Pick(T)}]]
  <2>1. \A T \in Upto(m) : T \in Upto(m + 1) /\ h[T] = g[T]
    <3> TAKE T \in Upto(m)
    <3>1. T \in Upto(m + 1)
      BY <1>0
    <3>2. g[T] = IF T = {} THEN 0 ELSE f[Pick(T)] + g[T \ {Pick(T)}]
      OBVIOUS
    <3> HIDE DEF Upto
    <3> QED BY <3>1, <3>2
  <2>2. \A T \in Upto(m + 1) : T # {} => T \ {Pick(T)} \in Upto(m)
    <3> SUFFICES ASSUME NEW T \in Upto(m + 1), T # {} PROVE T \ {Pick(T)} \in Upto(m)
      OBVIOUS
    <3>1. Cardinality(T \ {Pick(T)}) = Cardinality(T) - 1 /\ T \ {Pick(T)} \in SUBSET S
      BY <1>00
    <3>2. Cardinality(T) \in Nat /\ Cardinality(T) <= m + 1
      BY <1>0
    <3> QED BY <3>1, <3>2
  <2>3. Right(h, m + 1)
    <3> HIDE DEF Upto
    <3>1. \A T \in Upto(m + 1) :
            h[T] = IF T = {} THEN 0 ELSE f[Pick(T)] + h[T \ {Pick(T)}]
      BY <2>1, <2>2
    <3> QED BY <3>1
  <2> HIDE DEF h, Right
  <2> QED BY <2>3
<1> HIDE DEF K
<1>3. Nat \subseteq K
  BY <1>1, <1>2, SetInduction
<1>4. Cardinality(S) \in Nat /\ Upto(Cardinality(S)) = SUBSET S
  BY <1>0, FS_CardinalityType
<1> HIDE DEF Upto
<1> QED BY <1>3, <1>4 DEF K, IsFold

LEMMA SumIsFold ==
  ASSUME NEW f, IsFiniteSet(DOMAIN f)
  PROVE  \E g : IsFold(g, f, DOMAIN f) /\ SumOver(f) = g[DOMAIN f]
<1> DEFINE g == CHOOSE g : IsFold(g, f, DOMAIN f)
<1>1. IsFold(g, f, DOMAIN f)
  BY FoldExists
<1>2. SumOver(f) = g[DOMAIN f]
  BY DEF SumOver, MapThenFoldSet, IsFold, Pick
<1> QED BY <1>1, <1>2

LEMMA FoldType ==
  ASSUME NEW S, IsFiniteSet(S), NEW f, \A x \in S : f[x] \in Int, NEW g, IsFold(g, f, S)
  PROVE  \A T \in SUBSET S : g[T] \in Int
<1> DEFINE F == {T \in SUBSET S : g[T] \in Int}
<1>1. ASSUME NEW T \in SUBSET S, \A x \in T : T \ {x} \in F PROVE T \in F
  <2>1. g[T] = IF T = {} THEN 0 ELSE f[Pick(T)] + g[T \ {Pick(T)}]
    BY DEF IsFold
  <2>2. CASE T = {}
    BY <2>1, <2>2
  <2>3. CASE T # {}
    BY <1>1, <2>1, <2>3, PickIn
  <2> QED BY <2>2, <2>3
<1> HIDE DEF F
<1>2. SUBSET S \subseteq F
  BY <1>1, SubsetInduction
<1> QED BY <1>2 DEF F

\* Any element may be taken out first.
LEMMA FoldRemoves ==
  ASSUME NEW S, IsFiniteSet(S), NEW f, \A x \in S : f[x] \in Int, NEW g, IsFold(g, f, S)
  PROVE  \A T \in SUBSET S : \A x \in T : g[T] = f[x] + g[T \ {x}]
<1> DEFINE F == {T \in SUBSET S : \A x \in T : g[T] = f[x] + g[T \ {x}]}
<1>0. \A T \in SUBSET S : g[T] \in Int
  BY FoldType
<1>1. ASSUME NEW T \in SUBSET S, \A x \in T : T \ {x} \in F PROVE T \in F
  <2> SUFFICES ASSUME NEW x \in T PROVE g[T] = f[x] + g[T \ {x}]
    OBVIOUS
  <2> PICK y \in T : y = Pick(T)
    BY PickIn
  <2>1. g[T] = f[y] + g[T \ {y}]
    BY DEF IsFold
  <2>2. CASE x = y
    BY <2>1, <2>2
  <2>3. CASE x # y
    <3>1. g[T \ {y}] = f[x] + g[(T \ {y}) \ {x}]
      BY <1>1, <2>3
    <3>2. g[T \ {x}] = f[y] + g[(T \ {x}) \ {y}]
      BY <1>1, <2>3
    <3>3. PICK U \in SUBSET S : U = (T \ {y}) \ {x} /\ U = (T \ {x}) \ {y}
      <4>1. (T \ {y}) \ {x} = (T \ {x}) \ {y} /\ (T \ {x}) \ {y} \in SUBSET S
        OBVIOUS
      <4> QED BY <4>1
    <3>4. g[T \ {y}] = f[x] + g[U] /\ g[T \ {x}] = f[y] + g[U]
      BY <3>1, <3>2, <3>3
    <3>5. f[x] \in Int /\ f[y] \in Int /\ g[U] \in Int
      BY <1>0
    <3>6. g[T] = f[y] + (f[x] + g[U])
      BY <2>1, <3>4
    <3>7. f[y] + (f[x] + g[U]) = f[x] + (f[y] + g[U])
      BY <3>5
    <3> QED BY <3>4, <3>6, <3>7
  <2> QED BY <2>2, <2>3
<1> HIDE DEF F
<1>2. SUBSET S \subseteq F
  BY <1>1, SubsetInduction
<1> QED BY <1>2 DEF F

\* The folds of functions that agree on a set agree.
LEMMA FoldsAgree ==
  ASSUME NEW S, IsFiniteSet(S), NEW f, NEW g, IsFold(g, f, S),
         NEW R, NEW e, NEW h, IsFold(h, e, R), S \subseteq R, \A x \in S : e[x] = f[x]
  PROVE  \A T \in SUBSET S : g[T] = h[T]
<1> DEFINE F == {T \in SUBSET S : g[T] = h[T]}
<1>1. ASSUME NEW T \in SUBSET S, \A x \in T : T \ {x} \in F PROVE T \in F
  <2>1. /\ g[T] = IF T = {} THEN 0 ELSE f[Pick(T)] + g[T \ {Pick(T)}]
        /\ h[T] = IF T = {} THEN 0 ELSE e[Pick(T)] + h[T \ {Pick(T)}]
    BY DEF IsFold
  <2>2. CASE T = {}
    BY <2>1, <2>2
  <2>3. CASE T # {}
    <3>1. Pick(T) \in T /\ g[T \ {Pick(T)}] = h[T \ {Pick(T)}] /\ e[Pick(T)] = f[Pick(T)]
      BY <1>1, <2>3, PickIn
    <3> QED BY <2>1, <2>3, <3>1
  <2> QED BY <2>2, <2>3
<1> HIDE DEF F
<1>2. SUBSET S \subseteq F
  BY <1>1, SubsetInduction
<1> QED BY <1>2 DEF F

-----------------------------------------------------------------------------
LEMMA SumType ==
  ASSUME NEW f, IsFiniteSet(DOMAIN f), \A x \in DOMAIN f : f[x] \in Int
  PROVE  SumOver(f) \in Int
  BY SumIsFold, FoldType

LEMMA SumEmpty == ASSUME NEW f, DOMAIN f = {} PROVE SumOver(f) = 0
<1>1. PICK g : IsFold(g, f, DOMAIN f) /\ SumOver(f) = g[DOMAIN f]
  BY SumIsFold, FS_EmptySet
<1> QED BY <1>1 DEF IsFold

\* A sum is one value and the sum of the others.
LEMMA SumSplits ==
  ASSUME NEW f, IsFiniteSet(DOMAIN f), \A x \in DOMAIN f : f[x] \in Int,
         NEW x \in DOMAIN f, NEW e, DOMAIN e = DOMAIN f \ {x},
         \A y \in DOMAIN e : e[y] = f[y]
  PROVE  SumOver(f) = f[x] + SumOver(e)
<1>1. PICK g : IsFold(g, f, DOMAIN f) /\ SumOver(f) = g[DOMAIN f]
  BY SumIsFold
<1>2. IsFiniteSet(DOMAIN e)
  BY FS_RemoveElement
<1>3. PICK h : IsFold(h, e, DOMAIN e) /\ SumOver(e) = h[DOMAIN e]
  BY <1>2, SumIsFold
<1>4. h[DOMAIN e] = g[DOMAIN e]
  BY <1>1, <1>2, <1>3, FoldsAgree
<1>5. g[DOMAIN f] = f[x] + g[DOMAIN f \ {x}]
  BY <1>1, FoldRemoves
<1> QED BY <1>1, <1>3, <1>4, <1>5

\* A relation that holds of 0 and 0, and that no element leads out of, holds of
\* the two sums.
LEMMA SumsStay ==
  ASSUME NEW S, IsFiniteSet(S), NEW f \in [S -> Int], NEW e \in [S -> Int],
         NEW K, <<0, 0>> \in K,
         \A a \in Int, b \in Int : <<a, b>> \in K =>
           \A x \in S : <<f[x] + a, e[x] + b>> \in K
  PROVE  <<SumOver(f), SumOver(e)>> \in K
<1> DEFINE On(h, T) == [x \in T |-> h[x]]
           F == {T \in SUBSET S : <<SumOver(On(f, T)), SumOver(On(e, T))>> \in K}
<1>1. ASSUME NEW T \in SUBSET S, \A x \in T : T \ {x} \in F PROVE T \in F
  <2>1. CASE T = {}
    <3>1. DOMAIN On(f, T) = {} /\ DOMAIN On(e, T) = {}
      BY <2>1
    <3> HIDE DEF On
    <3>2. SumOver(On(f, T)) = 0 /\ SumOver(On(e, T)) = 0
      BY <3>1, SumEmpty
    <3> QED BY <3>2
  <2>2. CASE T # {}
    <3> PICK x \in T : TRUE
      BY <2>2
    <3> DEFINE R == T \ {x}
    <3>1. IsFiniteSet(T) /\ IsFiniteSet(R) /\ R \in SUBSET S
      BY FS_Subset
    <3>2. \A h : (\A y \in S : h[y] \in Int) =>
            /\ SumOver(On(h, T)) = h[x] + SumOver(On(h, R))
            /\ SumOver(On(h, R)) \in Int
      <4> SUFFICES ASSUME NEW h, \A y \in S : h[y] \in Int
                   PROVE  /\ SumOver(On(h, T)) = h[x] + SumOver(On(h, R))
                          /\ SumOver(On(h, R)) \in Int
        OBVIOUS
      <4>1. PICK p : p = On(h, T)
        OBVIOUS
      <4>2. PICK q : q = On(h, R)
        OBVIOUS
      <4>3. /\ IsFiniteSet(DOMAIN p) /\ IsFiniteSet(DOMAIN q) /\ x \in DOMAIN p
            /\ DOMAIN q = DOMAIN p \ {x} /\ p[x] = h[x]
            /\ \A y \in DOMAIN p : p[y] \in Int
            /\ \A y \in DOMAIN q : q[y] = p[y]
            /\ \A y \in DOMAIN q : q[y] \in Int
        BY <3>1, <4>1, <4>2
      <4> HIDE DEF On, R, F
      <4>4. SumOver(p) = p[x] + SumOver(q)
        BY <4>3, SumSplits
      <4>5. SumOver(q) \in Int
        BY <4>3, SumType
      <4> QED BY <4>1, <4>2, <4>3, <4>4, <4>5
    <3>3. <<SumOver(On(f, R)), SumOver(On(e, R))>> \in K
      BY <1>1
    <3> HIDE DEF On, R
    <3>4. <<f[x] + SumOver(On(f, R)), e[x] + SumOver(On(e, R))>> \in K
      BY <3>2, <3>3
    <3> QED BY <3>2, <3>4
  <2> QED BY <2>1, <2>2
<1>2. On(f, S) = f /\ On(e, S) = e
  OBVIOUS
<1> HIDE DEF F
<1>3. SUBSET S \subseteq F
  BY <1>1, SubsetInduction
<1>4. S \in F
  BY <1>3
<1> QED BY <1>2, <1>4 DEF F

LEMMA SumsCompare ==
  ASSUME NEW S, IsFiniteSet(S), NEW f \in [S -> Int], NEW e \in [S -> Int],
         \A x \in S : f[x] <= e[x]
  PROVE  SumOver(f) <= SumOver(e)
<1> DEFINE K == {p \in Int \X Int : p[1] <= p[2]}
<1>1. <<0, 0>> \in K
  OBVIOUS
<1>2. \A a \in Int, b \in Int : <<a, b>> \in K => \A x \in S : <<f[x] + a, e[x] + b>> \in K
  <2> TAKE a \in Int, b \in Int
  <2> HAVE <<a, b>> \in K
  <2> TAKE x \in S
  <2>1. f[x] \in Int /\ e[x] \in Int /\ f[x] <= e[x] /\ a <= b
    OBVIOUS
  <2>2. f[x] + a \in Int /\ e[x] + b \in Int /\ f[x] + a <= e[x] + b
    BY <2>1
  <2> QED BY <2>2
<1> HIDE DEF K
<1>3. <<SumOver(f), SumOver(e)>> \in K
  BY <1>1, <1>2, SumsStay
<1> QED BY <1>3 DEF K

LEMMA SumNat ==
  ASSUME NEW S, IsFiniteSet(S), NEW f \in [S -> Nat]
  PROVE  SumOver(f) \in Nat
<1> DEFINE K == Nat \X Nat
<1>1. <<0, 0>> \in K
  OBVIOUS
<1>2. \A a \in Int, b \in Int : <<a, b>> \in K => \A x \in S : <<f[x] + a, f[x] + b>> \in K
  <2> TAKE a \in Int, b \in Int
  <2> HAVE <<a, b>> \in K
  <2> TAKE x \in S
  <2>1. f[x] + a \in Nat /\ f[x] + b \in Nat
    OBVIOUS
  <2> QED BY <2>1
<1>3. f \in [S -> Int]
  OBVIOUS
<1> HIDE DEF K
<1>4. <<SumOver(f), SumOver(f)>> \in K
  BY <1>1, <1>2, <1>3, SumsStay
<1> QED BY <1>4 DEF K

\* The sum of squares is at most the square of the sum.
LEMMA SumOfSquares ==
  ASSUME NEW S, IsFiniteSet(S), NEW f \in [S -> Nat], NEW e \in [S -> Int],
         \A x \in S : e[x] <= f[x] * f[x]
  PROVE  SumOver(e) <= SumOver(f) * SumOver(f)
<1> DEFINE K == {p \in Nat \X Int : p[2] <= p[1] * p[1]}
<1>1. <<0, 0>> \in K
  OBVIOUS
<1>2. \A a \in Int, b \in Int : <<a, b>> \in K => \A x \in S : <<f[x] + a, e[x] + b>> \in K
  <2> TAKE a \in Int, b \in Int
  <2> HAVE <<a, b>> \in K
  <2> TAKE x \in S
  <2>1. PICK c \in Nat, d \in Int : c = f[x] /\ d = e[x] /\ d <= c * c
    OBVIOUS
  <2>2. a \in Nat /\ b <= a * a
    OBVIOUS
  <2>3. (c + a) * (c + a) = c * c + a * a + 2 * (c * a) /\ c * a \in Nat
    BY <2>2
  <2>4. d + b <= (c + a) * (c + a)
    BY <2>1, <2>2, <2>3
  <2>5. c + a \in Nat /\ d + b \in Int
    BY <2>2
  <2> HIDE DEF K
  <2>6. <<c + a, d + b>> \in K
    BY <2>4, <2>5 DEF K
  <2> QED BY <2>1, <2>6
<1>3. f \in [S -> Int]
  OBVIOUS
<1> HIDE DEF K
<1>4. <<SumOver(f), SumOver(e)>> \in K
  BY <1>1, <1>2, <1>3, SumsStay
<1> QED BY <1>4 DEF K

\* A value that changes changes the sum by as much; a new one adds itself.
LEMMA SumUpdate ==
  ASSUME NEW S, IsFiniteSet(S), NEW f \in [S -> Int], NEW e \in [S -> Int], NEW x \in S,
         \A y \in S \ {x} : e[y] = f[y]
  PROVE  SumOver(e) = SumOver(f) + (e[x] - f[x])
<1> DEFINE r == [y \in S \ {x} |-> f[y]]
<1>1. DOMAIN r = S \ {x} /\ \A y \in S \ {x} : r[y] = f[y] /\ r[y] = e[y] /\ r[y] \in Int
  OBVIOUS
<1>2. IsFiniteSet(S \ {x})
  BY FS_RemoveElement
<1> HIDE DEF r
<1>3. SumOver(f) = f[x] + SumOver(r)
  BY <1>1, SumSplits
<1>4. SumOver(e) = e[x] + SumOver(r)
  BY <1>1, SumSplits
<1>5. SumOver(r) \in Int /\ f[x] \in Int /\ e[x] \in Int
  BY <1>1, <1>2, SumType
<1> QED BY <1>3, <1>4, <1>5

LEMMA SumAdds ==
  ASSUME NEW S, IsFiniteSet(S), NEW f \in [S -> Int], NEW x, x \notin S,
         NEW e \in [S \union {x} -> Int], \A y \in S : e[y] = f[y]
  PROVE  SumOver(e) = e[x] + SumOver(f)
<1>1. DOMAIN f = DOMAIN e \ {x} /\ IsFiniteSet(DOMAIN e)
  BY FS_AddElement
<1> QED BY <1>1, SumSplits

\* One more of an element.
LEMMA SumOneMore ==
  ASSUME NEW S, IsFiniteSet(S), NEW f \in [S -> Int], NEW d, NEW e \in [S \union {d} -> Int],
         e[d] = (IF d \in S THEN f[d] ELSE 0) + 1, \A y \in S \ {d} : e[y] = f[y]
  PROVE  SumOver(e) = SumOver(f) + 1
<1>0. SumOver(f) \in Int
  BY SumType
<1>1. CASE d \in S
  <2>1. S \union {d} = S /\ e[d] = f[d] + 1 /\ f[d] \in Int
    BY <1>1
  <2>2. SumOver(e) = SumOver(f) + (e[d] - f[d])
    BY <1>1, <2>1, SumUpdate
  <2> QED BY <1>0, <2>1, <2>2
<1>2. CASE d \notin S
  <2>1. e[d] = 1 /\ \A y \in S : e[y] = f[y]
    BY <1>2
  <2>2. SumOver(e) = e[d] + SumOver(f)
    BY <1>2, <2>1, SumAdds
  <2> QED BY <1>0, <2>1, <2>2
<1> QED BY <1>1, <1>2

\* No value that is not negative is more than the sum.
LEMMA SumCovers ==
  ASSUME NEW S, IsFiniteSet(S), NEW f \in [S -> Nat], NEW x \in S
  PROVE  SumOver(f) \in Nat /\ f[x] <= SumOver(f)
<1> DEFINE r == [y \in S \ {x} |-> f[y]]
<1>1. DOMAIN f = S /\ DOMAIN r = S \ {x} /\ r \in [S \ {x} -> Nat]
      /\ (\A y \in S \ {x} : r[y] = f[y]) /\ \A y \in S : f[y] \in Int
  OBVIOUS
<1>2. IsFiniteSet(S \ {x})
  BY FS_RemoveElement
<1> HIDE DEF r
<1>3. SumOver(r) \in Nat
  BY <1>1, <1>2, SumNat
<1>4. SumOver(f) = f[x] + SumOver(r)
  BY <1>1, SumSplits
<1>5. f[x] \in Nat
  OBVIOUS
<1> QED BY <1>3, <1>4, <1>5

-----------------------------------------------------------------------------
(* The least and the greatest *)

LEMMA Divides == ASSUME NEW a \in Int, NEW n \in Nat \ {0} PROVE a \div n \in Int
  OBVIOUS

LEMMA MinOfTwo ==
  ASSUME NEW a \in Int, NEW b \in Int
  PROVE  /\ Min({a, b}) = IF a <= b THEN a ELSE b
         /\ Max({a, b}) = IF a >= b THEN a ELSE b
  BY DEF Min, Max

\* The values of a function on a finite set have a least and a greatest.
LEMMA Extremes ==
  ASSUME NEW S, IsFiniteSet(S), S # {}, NEW f \in [S -> Int],
         NEW T, T = {f[x] : x \in S}
  PROVE  /\ Min(T) \in T /\ \A y \in T : Min(T) <= y
         /\ Max(T) \in T /\ \A y \in T : Max(T) >= y
<1> DEFINE F == {R \in SUBSET S : R # {} =>
                   /\ \E x \in R : \A y \in R : f[x] <= f[y]
                   /\ \E x \in R : \A y \in R : f[x] >= f[y]}
<1>1. ASSUME NEW R \in SUBSET S, \A x \in R : R \ {x} \in F PROVE R \in F
  <2>1. CASE R = {}
    BY <2>1
  <2>2. CASE R # {}
    <3>1. PICK z \in R : TRUE
      BY <2>2
    <3>2. R \ {z} \in F /\ \A x \in R : f[x] \in Int
      BY <1>1
    <3>3. CASE R \ {z} = {}
      <4>1. \A y \in R : y = z
        BY <3>3
      <4>2. f[z] <= f[z] /\ f[z] >= f[z]
        BY <3>2
      <4> QED BY <2>2, <4>1, <4>2
    <3>4. CASE R \ {z} # {}
      <4>1. PICK x \in R \ {z} : \A y \in R \ {z} : f[x] <= f[y]
        BY <3>2, <3>4
      <4>2. PICK w \in R \ {z} : \A y \in R \ {z} : f[w] >= f[y]
        BY <3>2, <3>4
      <4>3. \E a \in R : \A y \in R : f[a] <= f[y]
        <5>1. CASE f[x] <= f[z]
          BY <3>2, <4>1, <5>1
        <5>2. CASE f[z] <= f[x]
          BY <3>1, <3>2, <4>1, <5>2
        <5> QED BY <3>2, <5>1, <5>2
      <4>4. \E a \in R : \A y \in R : f[a] >= f[y]
        <5>1. CASE f[w] >= f[z]
          BY <3>2, <4>2, <5>1
        <5>2. CASE f[z] >= f[w]
          BY <3>1, <3>2, <4>2, <5>2
        <5> QED BY <3>2, <5>1, <5>2
      <4> QED BY <4>3, <4>4
    <3> QED BY <3>3, <3>4
  <2> QED BY <2>1, <2>2
<1> HIDE DEF F
<1>2. S \in F
  BY <1>1, SubsetInduction
<1>3. PICK x \in S : \A y \in S : f[x] <= f[y]
  BY <1>2 DEF F
<1>4. PICK w \in S : \A y \in S : f[w] >= f[y]
  BY <1>2 DEF F
<1>5. f[x] \in T /\ \A y \in T : f[x] <= y
  BY <1>3
<1>6. f[w] \in T /\ \A y \in T : f[w] >= y
  BY <1>4
<1> QED BY <1>5, <1>6 DEF Min, Max
=============================================================================
