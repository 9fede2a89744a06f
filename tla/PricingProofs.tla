---------------------------- MODULE PricingProofs ----------------------------
(***************************************************************************)
(* Why apportion and allocate are right, whatever the total, the weights   *)
(* and the precision.  Apportion loses nothing: the shares and the         *)
(* leftover add up to the total from the truncation on, each pass moves    *)
(* one minor unit between them, and the last assignment puts what is left  *)
(* on a share.  Each share follows its usage: it is the truncated          *)
(* fraction, topped up where the truncation cut most.  Allocate answers    *)
(* the largest-remainder split and overflows on finer totals only; and     *)
(* as there is one such split, the two rules bill alike.                   *)
(***************************************************************************)
EXTENDS CostSharing, SumProofs

-----------------------------------------------------------------------------
(* Sums of shares. *)

\* The fold behind Sum adds up.
LEMMA SumAddsUp ==
  ASSUME NEW f, IsFiniteSet(DOMAIN f)
  PROVE  \E g : AddsUp(g, f, DOMAIN f) /\ Sum(f) = g[DOMAIN f]
<1>1. PICK S, ch : S = DOMAIN f /\ ch = [s \in SUBSET S |-> First(s)]
  OBVIOUS
<1>2. Choice(ch, S)
  BY <1>1, FirstIsChoice
<1>3. ASSUME NEW g
      PROVE  Unfold(f, ch, SUBSET S, g) =
               [s \in SUBSET S |-> IF s = {} THEN 0 ELSE f[First(s)] + g[s \ {First(s)}]]
  BY <1>1 DEF Unfold
<1>4. Sums(f, ch, S) =
        (CHOOSE g : g = [s \in SUBSET S |-> IF s = {} THEN 0 ELSE f[First(s)] + g[s \ {First(s)}]])
  BY <1>3, Zenon DEF Sums
<1>5. Sum(f) = Sums(f, ch, S)[S]
  BY <1>1, <1>4, Zenon DEF First, Sum, FoldSeq, FoldFunction, FoldFunctionOnSet, MapThenFoldSet
<1> QED BY <1>1, <1>2, <1>5, SumsAddUp

LEMMA SumType ==
  ASSUME NEW S, IsFiniteSet(S), NEW f \in [S -> Int]
  PROVE  Sum(f) \in Int
<1>1. PICK g : AddsUp(g, f, S) /\ Sum(f) = g[S]
  BY SumAddsUp
<1>2. Valued(f, S)
  BY DEF Valued
<1> QED BY <1>1, <1>2, SumsType

\* Changing one share changes the sum by as much.
LEMMA SumBump ==
  ASSUME NEW S, IsFiniteSet(S), NEW f \in [S -> Int], NEW k \in S, NEW d \in Int,
         NEW h \in [S -> Int], h[k] = f[k] + d, \A i \in S \ {k} : f[i] = h[i]
  PROVE  Sum(h) = Sum(f) + d
<1>1. h \in [S -> Int] /\ h[k] = f[k] + d /\ f[k] \in Int /\ \A i \in S \ {k} : f[i] = h[i]
  OBVIOUS
<1>2. Valued(f, S) /\ Valued(h, S)
  BY <1>1 DEF Valued
<1>3. PICK g : AddsUp(g, f, S) /\ Sum(f) = g[S]
  BY SumAddsUp
<1>4. PICK e : AddsUp(e, h, S) /\ Sum(h) = e[S]
  BY <1>1, SumAddsUp
<1>5. PICK R : R = S \ {k}
  OBVIOUS
<1>6. g[S] = f[k] + g[R]
  BY <1>2, <1>3, <1>5, SumsRemove
<1>7. e[S] = h[k] + e[R]
  BY <1>2, <1>4, <1>5, SumsRemove
<1>8. g[R] = e[R]
  BY <1>1, <1>2, <1>3, <1>4, <1>5, SumsAgree
<1>9. g[R] \in Int
  BY <1>2, <1>3, <1>5, SumsType
<1> QED BY <1>1, <1>3, <1>4, <1>6, <1>7, <1>8, <1>9

LEMMA BumpShare ==
  ASSUME NEW S, IsFiniteSet(S), NEW f \in [S -> Int], NEW k \in S, NEW d \in Int
  PROVE  /\ [f EXCEPT ![k] = @ + d] \in [S -> Int]
         /\ Sum([f EXCEPT ![k] = @ + d]) = Sum(f) + d
         /\ Sum(f) \in Int
<1>1. PICK h : h = [f EXCEPT ![k] = @ + d]
  OBVIOUS
<1>2. h \in [S -> Int] /\ h[k] = f[k] + d /\ \A i \in S \ {k} : f[i] = h[i]
  BY <1>1
<1>3. Sum(h) = Sum(f) + d /\ Sum(f) \in Int
  BY <1>2, SumBump, SumType
<1> QED BY <1>1, <1>2, <1>3

\* The sum of a list of shares, and the sum of its values over its positions.
LEMMA SumIsTotal ==
  ASSUME NEW S, IsFiniteSet(S), NEW f \in [S -> Int]
  PROVE  Sum(f) = Total(f, S) /\ Valued(f, S)
<1>1. Valued(f, S)
  BY DEF Valued
<1>2. DOMAIN f = S
  OBVIOUS
<1>3. PICK g : AddsUp(g, f, S) /\ Sum(f) = g[S]
  BY <1>2, SumAddsUp
<1>4. Total(f, S) = g[S]
  BY <1>1, <1>3, TotalIs
<1> QED BY <1>1, <1>3, <1>4

-----------------------------------------------------------------------------
(* The sort. *)

\* Lt orders any two elements of D.
TotalOrder(Lt, D) ==
    /\ \A x, y \in D : x # y => <<x, y>> \in Lt \/ <<y, x>> \in Lt
    /\ \A x, y, z \in D : <<x, y>> \in Lt /\ <<y, z>> \in Lt => <<x, z>> \in Lt

LEMMA LeaderExists ==
  ASSUME NEW D, IsFiniteSet(D), NEW Lt, TotalOrder(Lt, D), NEW s \in SUBSET D, s # {}
  PROVE  \E x \in s : \A y \in s \ {x} : <<x, y>> \in Lt
<1> DEFINE Leads(q) == \E x \in q : \A y \in q \ {x} : <<x, y>> \in Lt
           T == {m \in Nat : \A q \in SUBSET D : Cardinality(q) = m /\ q # {} => Leads(q)}
<1>1. 0 \in T
  <2> SUFFICES ASSUME NEW q \in SUBSET D, Cardinality(q) = 0 PROVE q = {}
    OBVIOUS
  <2> QED BY FS_Subset, FS_EmptySet
<1>2. ASSUME NEW m \in Nat, m \in T PROVE m + 1 \in T
  <2> SUFFICES ASSUME NEW q \in SUBSET D, Cardinality(q) = m + 1, q # {} PROVE Leads(q)
    OBVIOUS
  <2>1. PICK x : x \in q
    OBVIOUS
  <2>2. PICK p : p = q \ {x}
    OBVIOUS
  <2>3. p \in SUBSET D /\ Cardinality(p) = m
    BY <2>1, <2>2, RemoveOne
  <2>4. CASE p = {}
    BY <2>1, <2>2, <2>4
  <2>5. CASE p # {}
    <3>1. PICK z \in p : \A y \in p \ {z} : <<z, y>> \in Lt
      BY <1>2, <2>3, <2>5
    <3>2. CASE <<z, x>> \in Lt
      <4>1. z \in q /\ \A y \in q \ {z} : <<z, y>> \in Lt
        BY <2>2, <3>1, <3>2
      <4> QED BY <4>1
    <3>3. CASE <<z, x>> \notin Lt
      <4>1. <<x, z>> \in Lt /\ x \in D /\ z \in D
        BY <2>1, <2>2, <3>1, <3>3 DEF TotalOrder
      <4>2. ASSUME NEW y \in q \ {x} PROVE <<x, y>> \in Lt
        <5>1. y \in D /\ (y = z \/ <<z, y>> \in Lt)
          BY <2>2, <3>1
        <5> QED BY <4>1, <5>1 DEF TotalOrder
      <4> QED BY <2>1, <4>2
    <3> QED BY <3>2, <3>3
  <2> QED BY <2>4, <2>5
<1>3. Nat \subseteq T
  <2> HIDE DEF T
  <2> QED BY <1>1, <1>2, SetInduction
<1>4. Cardinality(s) \in Nat
  BY FS_Subset, FS_CardinalityType
<1> QED BY <1>3, <1>4

LEMMA SortExists ==
  ASSUME NEW D, IsFiniteSet(D), NEW Lt, TotalOrder(Lt, D)
  PROVE  \E f \in [1..Cardinality(D) -> D] :
            \A i, j \in 1..Cardinality(D) : i < j => <<f[i], f[j]>> \in Lt
<1> DEFINE InOrder(f, m) == \A i, j \in 1..m : i < j => <<f[i], f[j]>> \in Lt
           T == {m \in Nat : \A q \in SUBSET D : Cardinality(q) = m => \E f \in [1..m -> q] : InOrder(f, m)}
<1>1. 0 \in T
  <2> SUFFICES ASSUME NEW q \in SUBSET D PROVE \E f \in [1..0 -> q] : InOrder(f, 0)
    OBVIOUS
  <2>1. 1..0 = {}
    OBVIOUS
  <2>2. [i \in 1..0 |-> i] \in [1..0 -> q]
    BY <2>1
  <2> QED BY <2>1, <2>2
<1>2. ASSUME NEW m \in Nat, m \in T PROVE m + 1 \in T
  <2> SUFFICES ASSUME NEW q \in SUBSET D, Cardinality(q) = m + 1
               PROVE  \E f \in [1..(m + 1) -> q] : InOrder(f, m + 1)
    OBVIOUS
  <2>1. PICK x \in q : \A y \in q \ {x} : <<x, y>> \in Lt
    <3>1. q # {}
      BY FS_EmptySet
    <3> QED BY <3>1, LeaderExists
  <2>2. PICK p : p = q \ {x}
    OBVIOUS
  <2>3. p \in SUBSET D /\ Cardinality(p) = m
    <3>1. p \in SUBSET D /\ Cardinality(p) = Cardinality(q) - 1
      BY <2>1, <2>2, RemoveOne
    <3> QED BY <3>1
  <2>4. PICK e \in [1..m -> p] : InOrder(e, m)
    BY <1>2, <2>3
  <2>5. PICK f : f = [i \in 1..(m + 1) |-> IF i = 1 THEN x ELSE e[i - 1]]
    OBVIOUS
  <2>6. \A i \in 1..(m + 1) : i # 1 => i - 1 \in 1..m /\ f[i] = e[i - 1] /\ f[i] \in p
    BY <2>4, <2>5
  <2>7. f \in [1..(m + 1) -> q] /\ f[1] = x
    BY <2>1, <2>2, <2>5, <2>6
  <2>8. ASSUME NEW i \in 1..(m + 1), NEW j \in 1..(m + 1), i < j
        PROVE  <<f[i], f[j]>> \in Lt
    <3>1. CASE i = 1
      BY <2>1, <2>2, <2>6, <2>7, <2>8, <3>1
    <3>2. CASE i # 1
      <4>1. i - 1 \in 1..m /\ j - 1 \in 1..m /\ i - 1 < j - 1
            /\ f[i] = e[i - 1] /\ f[j] = e[j - 1]
        BY <2>6, <2>8, <3>2
      <4> QED BY <2>4, <4>1
    <3> QED BY <3>1, <3>2
  <2> QED BY <2>7, <2>8
<1>3. Cardinality(D) \in Nat
  BY FS_CardinalityType
<1>4. Cardinality(D) \in T
  <2> HIDE DEF T
  <2> QED BY <1>1, <1>2, <1>3, SetInduction
<1> QED BY <1>4

Sorts(order, r, n) ==
    /\ order \in [1..n -> 1..n]
    /\ \A i, j \in 1..n : i < j => Before(r, order[i], order[j])

\* Ranked sorts: any remainders can be put in order, and it returns such an order.
LEMMA RankedSorts ==
  ASSUME NEW n \in Nat, NEW r \in [1..n -> Int]
  PROVE  Sorts(Ranked(r), r, n)
<1>1. PICK D, Lt : D = 1..n /\ Lt = {p \in D \X D : Before(r, p[1], p[2])}
  OBVIOUS
<1>2. \A x, y \in D : <<x, y>> \in Lt <=> Before(r, x, y)
  BY <1>1
<1>3. \A x \in D : x \in Int /\ r[x] \in Int
  BY <1>1
<1>4. TotalOrder(Lt, D)
  <2>1. \A x, y \in D : x # y => Before(r, x, y) \/ Before(r, y, x)
    BY <1>3 DEF Before
  <2>2. \A x, y, z \in D : Before(r, x, y) /\ Before(r, y, z) => Before(r, x, z)
    BY <1>3 DEF Before
  <2> QED BY <1>2, <2>1, <2>2 DEF TotalOrder
<1>5. IsFiniteSet(D) /\ Cardinality(D) = n
  BY <1>1, FS_Interval
<1>6. \E f \in [D -> D] : \A i, j \in D : i < j => Before(r, f[i], f[j])
  <2>1. PICK f \in [1..n -> D] : \A i, j \in 1..n : i < j => <<f[i], f[j]>> \in Lt
    BY <1>4, <1>5, SortExists
  <2>2. f \in [D -> D] /\ \A i, j \in D : i < j => Before(r, f[i], f[j])
    BY <1>1, <1>2, <2>1
  <2> QED BY <2>2
<1>7. Ranked(r) = CHOOSE f \in [D -> D] : \A i, j \in D : i < j => Before(r, f[i], f[j])
  <2>1. DOMAIN r = D
    BY <1>1
  <2> QED BY <2>1, Zenon DEF Ranked
<1> QED BY <1>1, <1>6, <1>7 DEF Sorts

-----------------------------------------------------------------------------
(* Whole numbers of minor units. *)

LEMMA MultiplesAddUp ==
  ASSUME NEW x \in Int, NEW y \in Int, Multiple(x), Multiple(y)
  PROVE  Multiple(x + y) /\ Multiple(x - y) /\ Multiple(-x)
<1>1. PICK k \in Int : x = k * Step
  BY DEF Multiple
<1>2. PICK m \in Int : y = m * Step
  BY DEF Multiple
<1>3. Step \in Int
  BY SharesAssumption
<1>4. x + y = (k + m) * Step /\ x - y = (k - m) * Step /\ -x = (-k) * Step
  BY <1>1, <1>2, <1>3
<1>5. k + m \in Int /\ k - m \in Int /\ -k \in Int
  OBVIOUS
<1> QED BY <1>4, <1>5, Zenon DEF Multiple

LEMMA MinorUnitIsMultiple ==
  Step \in Int /\ Step > 0 /\ Multiple(Step) /\ Multiple(0)
<1>1. Step \in Int /\ Step > 0
  BY SharesAssumption
<1>2. Step = 1 * Step /\ 0 = 0 * Step
  BY <1>1
<1>3. 0 \in Int /\ 1 \in Int
  OBVIOUS
<1> QED BY <1>1, <1>2, <1>3, Zenon DEF Multiple

\* A whole number of minor units short of one is none.
LEMMA SmallMultiple ==
  ASSUME NEW x \in Int, Multiple(x), x >= 0, x < Step
  PROVE  x = 0
<1>1. PICK k \in Int : x = k * Step
  BY DEF Multiple
<1>2. PICK u \in Int : u = Step /\ u > 0
  BY MinorUnitIsMultiple
<1>3. x = k * u /\ x >= 0 /\ x < u
  BY <1>1, <1>2
<1>4. ~(k >= 1)
  <2> SUFFICES ASSUME k >= 1 PROVE FALSE
    OBVIOUS
  <2>1. k * u >= u
    BY <1>2
  <2> QED BY <1>3, <2>1
<1>5. ~(k <= -1)
  <2> SUFFICES ASSUME k <= -1 PROVE FALSE
    OBVIOUS
  <2>1. k * u <= -u
    BY <1>2
  <2> QED BY <1>2, <1>3, <2>1
<1>6. k = 0
  BY <1>4, <1>5
<1> QED BY <1>2, <1>3, <1>6

LEMMA MultiplesDivide ==
  ASSUME NEW x \in Int
  PROVE  x % Step = 0 <=> Multiple(x)
<1>1. PICK u \in Int : u = Step /\ u > 0
  BY MinorUnitIsMultiple
<1>2. PICK q \in Int, m \in Int : q = x \div u /\ m = x % u
  BY <1>1
<1>3. x = u * q + m /\ 0 <= m /\ m < u
  BY <1>1, <1>2
<1>4. x % Step = m /\ u * q = q * Step
  BY <1>1, <1>2
<1>5. ASSUME m = 0 PROVE Multiple(x)
  <2>1. x = q * Step
    BY <1>3, <1>4, <1>5, <1>1
  <2> QED BY <2>1 DEF Multiple
<1>6. ASSUME Multiple(x) PROVE m = 0
  <2>1. Multiple(q * Step)
    BY DEF Multiple
  <2>2. q * Step \in Int /\ x - q * Step = m
    BY <1>1, <1>3, <1>4
  <2>3. Multiple(m)
    BY <1>6, <2>1, <2>2, MultiplesAddUp
  <2> QED BY <1>1, <1>3, <2>3, SmallMultiple
<1> QED BY <1>4, <1>5, <1>6

-----------------------------------------------------------------------------
(* What truncation cuts. *)

\* Truncation to the precision takes less than a minor unit off, towards zero.
LEMMA RoundsTowardZero ==
  ASSUME NEW x \in Int, NEW d \in Int, d > 0
  PROVE  /\ ToZero(x, d) \in Int /\ Multiple(ToZero(x, d))
         /\ x >= 0 => 0 <= x - ToZero(x, d) * d /\ x - ToZero(x, d) * d < Step * d
         /\ x <= 0 => x - ToZero(x, d) * d <= 0 /\ -(Step * d) < x - ToZero(x, d) * d
         /\ x = 0 => ToZero(x, d) = 0
<1>1. PICK st \in Int : st = Step /\ st > 0
  BY MinorUnitIsMultiple
<1>2. PICK u \in Int : u = d * st /\ u > 0
  BY <1>1
<1>3. PICK y \in Int : y = Magnitude(x) /\ y >= 0 /\ (x < 0 => x = -y) /\ (x >= 0 => x = y)
  BY DEF Magnitude
<1>4. PICK q \in Int, m \in Int : q = y \div u /\ m = y % u
  BY <1>2
<1>5. y = u * q + m /\ 0 <= m /\ m < u
  BY <1>2, <1>4
<1>6. PICK z \in Int : z = q * st
  BY <1>1
<1>7. ToZero(x, d) = IF x < 0 THEN -z ELSE z
  BY <1>1, <1>2, <1>3, <1>4, <1>6, Zenon DEF ToZero
<1>8. u * q = z * d /\ (-z) * d = -(z * d) /\ Step * d = u
  BY <1>1, <1>2, <1>6
<1>9. z * d \in Int /\ y - z * d = m
  BY <1>5, <1>8
<1>10. Multiple(z) /\ Multiple(-z)
  <2>1. Multiple(z)
    BY <1>1, <1>6 DEF Multiple
  <2> QED BY <2>1, MultiplesAddUp
<1>11. CASE x < 0
  <2>1. ToZero(x, d) = -z
    BY <1>7, <1>11
  <2>2. x - ToZero(x, d) * d = -m
    BY <1>3, <1>8, <1>9, <1>11, <2>1
  <2> QED BY <1>5, <1>8, <1>10, <1>11, <2>1, <2>2
<1>12. CASE x >= 0
  <2>1. ToZero(x, d) = z
    BY <1>7, <1>12
  <2>2. x - ToZero(x, d) * d = m
    BY <1>3, <1>9, <1>12, <2>1
  <2>3. x = 0 => z = 0
    <3> SUFFICES ASSUME x = 0 PROVE z = 0
      OBVIOUS
    <3>1. y = 0
      BY <1>3
    <3>2. q = 0
      BY <1>2, <1>4, <3>1
    <3> QED BY <1>1, <1>6, <3>2
  <2>4. x = 0 => m = 0
    <3> SUFFICES ASSUME x = 0 PROVE m = 0
      OBVIOUS
    <3>1. z * d = 0 /\ y = 0
      BY <1>3, <2>3
    <3> QED BY <1>9, <3>1
  <2> QED BY <1>5, <1>8, <1>10, <1>12, <2>1, <2>2, <2>3, <2>4
<1> QED BY <1>11, <1>12

LEMMA TruncatedType ==
  ASSUME NEW t \in Int, NEW w \in Seq(Int), Sum(w) > 0
  PROVE  /\ Truncated(t, w) \in [1..Len(w) -> Int]
         /\ Discarded(t, w) \in [1..Len(w) -> Int]
<1>1. PICK n \in Nat : n = Len(w)
  OBVIOUS
<1>2. w \in [1..n -> Int] /\ DOMAIN w = 1..n /\ IsFiniteSet(1..n)
  BY <1>1, FS_Interval
<1>3. PICK d : d = Sum(w)
  OBVIOUS
<1>4. d \in Int /\ d > 0
  BY <1>2, <1>3, SumType
<1>5. ASSUME NEW x \in Int PROVE ToZero(x, d) \in Int
  <2>1. d * Step \in Int /\ d * Step > 0
    <3>1. Step \in Int /\ Step > 0
      BY SharesAssumption
    <3> QED BY <1>4, <3>1
  <2>2. PICK u : u = d * Step
    OBVIOUS
  <2>3. Magnitude(x) \in Int
    BY DEF Magnitude
  <2>4. Magnitude(x) \div u \in Int
    BY <2>1, <2>2, <2>3
  <2>5. (Magnitude(x) \div u) * Step \in Int
    BY <2>4, SharesAssumption
  <2> QED BY <2>2, <2>5 DEF ToZero
<1>6. Truncated(t, w) = [i \in 1..n |-> ToZero(t * w[i], d)]
  BY <1>2, <1>3 DEF Truncated
<1>7. Truncated(t, w) \in [1..n -> Int]
  <2>1. \A i \in 1..n : t * w[i] \in Int
    BY <1>2
  <2> QED BY <1>5, <1>6, <2>1
<1>8. PICK f : f = Truncated(t, w)
  OBVIOUS
<1>9. Discarded(t, w) = [i \in 1..n |-> t * w[i] - f[i] * d]
  BY <1>2, <1>3, <1>8 DEF Discarded
<1>10. ASSUME NEW i \in 1..n PROVE t * w[i] - f[i] * d \in Int
  <2>1. f[i] \in Int /\ w[i] \in Int
    BY <1>2, <1>7, <1>8
  <2>2. t * w[i] \in Int /\ f[i] * d \in Int
    BY <1>4, <2>1
  <2> QED BY <2>2
<1> QED BY <1>1, <1>7, <1>9, <1>10

\* The shares truncated to the precision, and what each lost, in shares of the sum
\* of the weights.
LEMMA Cuts ==
  ASSUME NEW t \in Int, NEW w \in Seq(Int), Divisible(w)
  PROVE  /\ Truncated(t, w) \in [1..Len(w) -> Int]
         /\ Discarded(t, w) \in [1..Len(w) -> Int]
         /\ Sum(w) \in Int /\ Sum(w) > 0 /\ Step * Sum(w) \in Int /\ Step * Sum(w) > 0
         /\ Len(w) \in Nat \ {0} /\ w \in [1..Len(w) -> Int] /\ DOMAIN w = 1..Len(w)
         /\ IsFiniteSet(1..Len(w))
<1>1. PICK n \in Nat : n = Len(w)
  OBVIOUS
<1>2. w \in [1..n -> Int] /\ DOMAIN w = 1..n /\ IsFiniteSet(1..n)
  BY <1>1, FS_Interval
<1>3. Sum(w) \in Int /\ Sum(w) > 0
  BY <1>2, SumType DEF Divisible
<1>4. Step * Sum(w) \in Int /\ Step * Sum(w) > 0
  BY <1>3, MinorUnitIsMultiple
<1>5. n # 0
  <2> SUFFICES ASSUME n = 0 PROVE FALSE
    OBVIOUS
  <2>1. 1..n = {}
    OBVIOUS
  <2>2. Sum(w) = Total(w, 1..n)
    BY <1>2, SumIsTotal
  <2> QED BY <1>3, <2>1, <2>2, TotalEmpty
<1> QED BY <1>1, <1>2, <1>3, <1>4, <1>5, TruncatedType

LEMMA CutIsWhatIsMissing ==
  ASSUME NEW t \in Int, NEW w \in Seq(Int), Divisible(w), NEW i \in 1..Len(w)
  PROVE  /\ Truncated(t, w)[i] = ToZero(t * w[i], Sum(w))
         /\ Discarded(t, w)[i] = t * w[i] - Truncated(t, w)[i] * Sum(w)
<1>1. i \in DOMAIN w
  BY Cuts
<1> QED BY <1>1 DEF Truncated, Discarded

\* Every share loses less than a minor unit, towards zero, and an idle one nothing.
LEMMA CutBounds ==
  ASSUME NEW t \in Int, NEW w \in Seq(Int), Divisible(w), NEW i \in 1..Len(w)
  PROVE  /\ Multiple(Truncated(t, w)[i])
         /\ t >= 0 => 0 <= Discarded(t, w)[i] /\ Discarded(t, w)[i] < Step * Sum(w)
         /\ t < 0 => Discarded(t, w)[i] <= 0 /\ -(Step * Sum(w)) < Discarded(t, w)[i]
         /\ w[i] = 0 => Truncated(t, w)[i] = 0 /\ Discarded(t, w)[i] = 0
<1>1. PICK a \in Int : a = w[i] /\ a >= 0
  BY Cuts DEF Divisible
<1>2. PICK W \in Int : W = Sum(w) /\ W > 0
  BY Cuts
<1>3. PICK x \in Int : x = t * a
  BY <1>1
<1>4. PICK z : z = ToZero(x, W)
  OBVIOUS
<1>5. Truncated(t, w)[i] = z /\ Discarded(t, w)[i] = x - z * W
  BY <1>1, <1>2, <1>3, <1>4, CutIsWhatIsMissing
<1>6. /\ z \in Int /\ Multiple(z)
      /\ x >= 0 => 0 <= x - z * W /\ x - z * W < Step * W
      /\ x <= 0 => x - z * W <= 0 /\ -(Step * W) < x - z * W
      /\ x = 0 => z = 0
  BY <1>2, <1>4, RoundsTowardZero
<1>7. /\ t >= 0 => x >= 0
      /\ t < 0 => x <= 0
      /\ a = 0 => x = 0
  BY <1>1, <1>3
<1>8. a = 0 => z = 0 /\ x - z * W = 0
  <2> SUFFICES ASSUME a = 0 PROVE z = 0 /\ x - z * W = 0
    OBVIOUS
  <2>1. x = 0 /\ z = 0
    BY <1>6, <1>7
  <2>2. z * W = 0
    BY <1>2, <2>1
  <2> QED BY <2>1, <2>2
<1> QED BY <1>1, <1>2, <1>5, <1>6, <1>7, <1>8, Zenon

\* The truncated shares are whole numbers of minor units together, too.
LEMMA TruncatedIsMultiple ==
  ASSUME NEW t \in Int, NEW w \in Seq(Int), Divisible(w)
  PROVE  Sum(Truncated(t, w)) \in Int /\ Multiple(Sum(Truncated(t, w)))
<1>1. PICK S : S = 1..Len(w)
  OBVIOUS
<1>2. PICK f : f = Truncated(t, w)
  OBVIOUS
<1>3. f \in [S -> Int] /\ IsFiniteSet(S)
  BY <1>1, <1>2, Cuts
<1>4. \A i \in S : \E k \in Int : f[i] = k * Step
  BY <1>1, <1>2, CutBounds DEF Multiple
<1>5. PICK q : q = [i \in S |-> CHOOSE k \in Int : f[i] = k * Step]
  OBVIOUS
<1>6. \A i \in S : q[i] \in Int /\ f[i] = q[i] * Step
  BY <1>4, <1>5
<1>7. PICK u \in Int : u = Step
  BY MinorUnitIsMultiple
<1>8. Valued(q, S) /\ Valued(f, S) /\ Times(f, u, q, S)
  <2>1. Valued(q, S) /\ Valued(f, S)
    BY <1>3, <1>6 DEF Valued
  <2>2. ASSUME NEW i \in S PROVE f[i] = u * q[i]
    BY <1>6, <1>7
  <2> QED BY <2>1, <2>2 DEF Times
<1>9. Total(f, S) = u * Total(q, S) /\ Total(q, S) \in Int
  BY <1>3, <1>8, TotalTimes, TotalType
<1>10. Sum(f) = Total(f, S)
  BY <1>3, SumIsTotal
<1>11. PICK k \in Int : k = Total(q, S)
  BY <1>9
<1>12. Sum(f) = k * Step /\ Sum(f) \in Int
  BY <1>7, <1>9, <1>10, <1>11
<1> QED BY <1>2, <1>12 DEF Multiple

\* What is missing from share i, times the sum of the weights.
Gap(t, w, f) == [i \in 1..Len(w) |-> t * w[i] - f[i] * Sum(w)]

IsGap(gap, t, w, f, S) == \A i \in S : gap[i] = t * w[i] - f[i] * Sum(w)

\* What the shares leave of the total, times the sum of the weights.
IsMissing(x, t, w, f) == x = Sum(w) * (t - Sum(f))

\* What is missing from every share together is what the shares leave of the total.
LEMMA GapTotal ==
  ASSUME NEW S, IsFiniteSet(S), NEW t \in Int, NEW w \in [S -> Int], NEW f \in [S -> Int],
         NEW gap \in [S -> Int], IsGap(gap, t, w, f, S)
  PROVE  /\ IsMissing(Total(gap, S), t, w, f) /\ Valued(gap, S)
         /\ Sum(w) \in Int /\ Sum(f) \in Int
<1>1. PICK W \in Int : W = Sum(w)
  BY SumType
<1>2. PICK F \in Int : F = Sum(f)
  BY SumType
<1>3. W = Total(w, S) /\ F = Total(f, S) /\ Valued(w, S) /\ Valued(f, S)
  BY <1>1, <1>2, SumIsTotal
<1>4. PICK a : a = [i \in S |-> t * w[i]]
  OBVIOUS
<1>5. PICK b : b = [i \in S |-> W * f[i]]
  OBVIOUS
<1>6. /\ Valued(a, S) /\ Times(a, t, w, S)
      /\ Valued(b, S) /\ Times(b, W, f, S)
  <2>1. ASSUME NEW i \in S PROVE a[i] \in Int /\ a[i] = t * w[i] /\ b[i] \in Int /\ b[i] = W * f[i]
    BY <1>4, <1>5
  <2> QED BY <2>1, Zenon DEF Valued, Times
<1>7. Valued(gap, S) /\ Together(a, gap, b, S)
  <2>1. ASSUME NEW i \in S PROVE gap[i] \in Int /\ a[i] = gap[i] + b[i]
    <3>1. gap[i] = t * w[i] - f[i] * W
      BY <1>1 DEF IsGap
    <3>2. PICK x \in Int, y \in Int : x = w[i] /\ y = f[i]
      OBVIOUS
    <3>3. a[i] = t * x /\ b[i] = W * y /\ gap[i] = t * x - y * W
      BY <1>4, <1>5, <3>1, <3>2
    <3> QED BY <3>3
  <2> QED BY <2>1, Zenon DEF Valued, Together
<1>8. Total(a, S) = t * W /\ Total(b, S) = W * F
  BY <1>3, <1>6, TotalTimes
<1>9. Total(a, S) = Total(gap, S) + Total(b, S) /\ Total(gap, S) \in Int
  BY <1>6, <1>7, TotalPlus, TotalType
<1>10. W * (t - F) = t * W - W * F
  OBVIOUS
<1>11. Total(gap, S) = W * (t - F)
  BY <1>8, <1>9, <1>10
<1>12. IsMissing(Total(gap, S), t, w, f)
  BY <1>1, <1>2, <1>11, Zenon DEF IsMissing
<1> QED BY <1>1, <1>2, <1>7, <1>12

\* When no share has more than its due, nothing is left of the total, and so on.
LEMMA GapSign ==
  ASSUME NEW S, IsFiniteSet(S), S # {}, NEW gap, Valued(gap, S),
         NEW W \in Int, W > 0, NEW d \in Int, Total(gap, S) = W * d
  PROVE  /\ (\A i \in S : gap[i] <= 0) => d <= 0
         /\ (\A i \in S : gap[i] < 0)  => d < 0
         /\ (\A i \in S : gap[i] >= 0) => d >= 0
         /\ (\A i \in S : gap[i] > 0)  => d > 0
<1>1. PICK z : z = [i \in S |-> 0]
  OBVIOUS
<1>2. Valued(z, S) /\ Total(z, S) = 0
  <2>1. \A i \in S : z[i] = 0 /\ 0 \in Int
    BY <1>1
  <2> QED BY <2>1, TotalOfZeros DEF Valued
<1>3. \A i \in S : gap[i] \in Int /\ z[i] = 0
  BY <1>1 DEF Valued
<1>4. PICK x \in S : TRUE
  OBVIOUS
<1>5. PICK g \in Int : g = Total(gap, S)
  BY TotalType
<1>6. g = W * d
  BY <1>5
<1>7. (g <= 0 => d <= 0) /\ (g < 0 => d < 0) /\ (g >= 0 => d >= 0) /\ (g > 0 => d > 0)
  <2>1. d >= 1 => W * d > 0
    OBVIOUS
  <2>2. d <= -1 => W * d < 0
    OBVIOUS
  <2>3. d = 0 => W * d = 0
    OBVIOUS
  <2> QED BY <1>6, <2>1, <2>2, <2>3
<1>8. ASSUME \A i \in S : gap[i] <= 0
      PROVE  g <= 0 /\ (gap[x] < 0 => g < 0)
  <2>1. NeverAbove(gap, z, S)
    BY <1>3, <1>8 DEF NeverAbove
  <2>2. Total(gap, S) <= Total(z, S) /\ ((\E i \in S : gap[i] < z[i]) => Total(gap, S) < Total(z, S))
    BY <1>2, <2>1, TotalMonotone
  <2> QED BY <1>2, <1>3, <1>5, <2>2
<1>9. ASSUME \A i \in S : gap[i] >= 0
      PROVE  g >= 0 /\ (gap[x] > 0 => g > 0)
  <2>1. NeverAbove(z, gap, S)
    BY <1>3, <1>9 DEF NeverAbove
  <2>2. Total(z, S) <= Total(gap, S) /\ ((\E i \in S : z[i] < gap[i]) => Total(z, S) < Total(gap, S))
    BY <1>2, <2>1, TotalMonotone
  <2> QED BY <1>2, <1>3, <1>5, <2>2
<1>10. (\A i \in S : gap[i] < 0) => (\A i \in S : gap[i] <= 0) /\ gap[x] < 0
  BY <1>3
<1>11. (\A i \in S : gap[i] > 0) => (\A i \in S : gap[i] >= 0) /\ gap[x] > 0
  BY <1>3
<1> QED BY <1>7, <1>8, <1>9, <1>10, <1>11

\* A share that was topped up lacks a minor unit less than was cut.
LEMMA ToppedGap ==
  ASSUME NEW t \in Int, NEW w \in Seq(Int), Divisible(w), NEW f, NEW K, ToppedUp(t, w, f, K)
  PROVE  /\ Gap(t, w, f) \in [1..Len(w) -> Int]
         /\ Total(Gap(t, w, f), 1..Len(w)) = Sum(w) * (t - Sum(f))
         /\ Valued(Gap(t, w, f), 1..Len(w)) /\ Sum(f) \in Int
         /\ \A i \in 1..Len(w) :
              /\ Gap(t, w, f)[i] = t * w[i] - f[i] * Sum(w)
              /\ Gap(t, w, f)[i] = Discarded(t, w)[i]
                                   - (IF i \in K THEN Toward(t, Step * Sum(w)) ELSE 0)
<1>1. PICK S : S = 1..Len(w)
  OBVIOUS
<1>2. PICK W \in Int : W = Sum(w)
  BY Cuts
<1>3. w \in [S -> Int] /\ f \in [S -> Int] /\ IsFiniteSet(S)
  BY <1>1, Cuts DEF ToppedUp
<1>4. PICK gap : gap = Gap(t, w, f)
  OBVIOUS
<1>5. \A i \in S : gap[i] = t * w[i] - f[i] * W
  BY <1>1, <1>2, <1>4 DEF Gap
<1>6. gap \in [S -> Int]
  <2>1. ASSUME NEW i \in S PROVE t * w[i] - f[i] * W \in Int
    BY <1>3
  <2> QED BY <1>1, <1>2, <1>4, <2>1 DEF Gap
<1>7. Total(gap, S) = W * (t - Sum(f)) /\ Valued(gap, S) /\ Sum(f) \in Int
  <2>1. \A i \in S : gap[i] = t * w[i] - f[i] * Sum(w)
    BY <1>1, <1>4 DEF Gap
  <2>2. Total(gap, S) = Sum(w) * (t - Sum(f)) /\ Valued(gap, S) /\ Sum(f) \in Int
    <3>1. IsGap(gap, t, w, f, S)
      BY <2>1 DEF IsGap
    <3>2. IsFiniteSet(S) /\ t \in Int /\ w \in [S -> Int] /\ f \in [S -> Int] /\ gap \in [S -> Int]
      BY <1>3, <1>6
    <3>3. IsMissing(Total(gap, S), t, w, f)
      BY <3>1, <3>2, GapTotal, Zenon
    <3>4. Valued(gap, S)
      BY <3>1, <3>2, GapTotal, Zenon
    <3>5. Sum(f) \in Int
      BY <3>1, <3>2, GapTotal, Zenon
    <3> QED BY <3>3, <3>4, <3>5, Zenon DEF IsMissing
  <2> QED BY <1>2, <2>2
<1>8. ASSUME NEW i \in S
      PROVE  gap[i] = Discarded(t, w)[i] - (IF i \in K THEN Toward(t, Step * W) ELSE 0)
  <2>1. PICK a \in Int : a = Truncated(t, w)[i]
    BY <1>1, Cuts
  <2>2. PICK x \in Int : x = t * w[i]
    BY <1>3
  <2>3. PICK u \in Int : u = Step
    BY MinorUnitIsMultiple
  <2>4. Discarded(t, w)[i] = x - a * W
    BY <1>1, <1>2, <2>1, <2>2, CutIsWhatIsMissing
  <2>5. f[i] = a + (IF i \in K THEN Toward(t, u) ELSE 0)
    BY <1>1, <2>1, <2>3 DEF ToppedUp
  <2>6. gap[i] = x - f[i] * W
    BY <1>5, <2>2
  <2>7. /\ (a + u) * W = a * W + u * W /\ (a + (-u)) * W = a * W - u * W
        /\ (a + 0) * W = a * W
    OBVIOUS
  <2>8. a * W \in Int /\ u * W \in Int
    OBVIOUS
  <2>9. Toward(t, u) = (IF t < 0 THEN -u ELSE u) /\ Toward(t, u * W) = IF t < 0 THEN -(u * W) ELSE u * W
    BY DEF Toward
  <2>10. CASE i \in K /\ t < 0
    BY <2>3, <2>4, <2>5, <2>6, <2>7, <2>8, <2>9, <2>10
  <2>11. CASE i \in K /\ ~(t < 0)
    BY <2>3, <2>4, <2>5, <2>6, <2>7, <2>8, <2>9, <2>11
  <2>12. CASE i \notin K
    BY <2>4, <2>5, <2>6, <2>7, <2>8, <2>12
  <2> QED BY <2>10, <2>11, <2>12
<1> QED BY <1>1, <1>2, <1>4, <1>5, <1>6, <1>7, <1>8, Zenon

\* What is left when the shares in K have been topped up: nothing more to hand out
\* once every share that was cut has had its minor unit, too little when all have.
LEMMA ToppedLeftover ==
  ASSUME NEW t \in Int, NEW w \in Seq(Int), Divisible(w), NEW f, NEW K, ToppedUp(t, w, f, K)
  PROVE  /\ (\A i \in 1..Len(w) : i \notin K => Discarded(t, w)[i] = 0) => Toward(t, t - Sum(f)) <= 0
         /\ (\A i \in 1..Len(w) : i \in K) => Toward(t, t - Sum(f)) < 0
         /\ (\A i \in 1..Len(w) : i \notin K) => Toward(t, t - Sum(f)) >= 0
         /\ Toward(t, t - Sum(f)) \in Int
<1>1. PICK S : S = 1..Len(w)
  OBVIOUS
<1>2. PICK W \in Int : W = Sum(w) /\ W > 0
  BY Cuts
<1>3. PICK U \in Int : U = Step * W /\ U > 0
  BY <1>2, Cuts
<1>4. PICK gap : gap = Gap(t, w, f)
  OBVIOUS
<1>5. PICK r : r = Discarded(t, w)
  OBVIOUS
<1>6. PICK d \in Int : d = t - Sum(f)
  <2>1. Sum(f) \in Int
    BY ToppedGap
  <2> QED BY <2>1
<1>7. /\ IsFiniteSet(S) /\ S # {} /\ Valued(gap, S) /\ Total(gap, S) = W * d
      /\ r \in [S -> Int]
  <2>1. Len(w) \in Nat \ {0} /\ IsFiniteSet(S)
    BY <1>1, Cuts
  <2>2. 1 \in S
    BY <1>1, <2>1
  <2>3. Valued(gap, S) /\ Total(gap, S) = W * d
    BY <1>1, <1>2, <1>4, <1>6, ToppedGap
  <2> QED BY <1>1, <1>5, <2>1, <2>2, <2>3, Cuts
<1>8. \A i \in S : gap[i] = r[i] - (IF i \in K THEN Toward(t, U) ELSE 0)
  BY <1>1, <1>2, <1>3, <1>4, <1>5, ToppedGap
<1>9. \A i \in S : /\ t >= 0 => 0 <= r[i] /\ r[i] < U
                   /\ t < 0 => r[i] <= 0 /\ -U < r[i]
  BY <1>1, <1>2, <1>3, <1>5, CutBounds
<1>10. Toward(t, U) = (IF t < 0 THEN -U ELSE U) /\ Toward(t, d) = IF t < 0 THEN -d ELSE d
  BY DEF Toward
<1>11. ASSUME NEW i \in S
       PROVE  /\ i \in K => gap[i] = r[i] - (IF t < 0 THEN -U ELSE U)
              /\ i \notin K => gap[i] = r[i]
              /\ r[i] \in Int
  BY <1>7, <1>8, <1>10
<1>12. /\ (\A i \in S : gap[i] <= 0) => d <= 0
       /\ (\A i \in S : gap[i] < 0)  => d < 0
       /\ (\A i \in S : gap[i] >= 0) => d >= 0
       /\ (\A i \in S : gap[i] > 0)  => d > 0
  BY <1>2, <1>7, GapSign
<1>13. CASE t >= 0
  <2>1. Toward(t, d) = d
    BY <1>10, <1>13
  <2>2. ASSUME NEW i \in S
        PROVE  /\ i \in K => gap[i] < 0
               /\ i \notin K => gap[i] >= 0 /\ (r[i] = 0 => gap[i] <= 0)
    BY <1>9, <1>11, <1>13
  <2>3. ASSUME \A i \in S : i \notin K => r[i] = 0 PROVE d <= 0
    <3>1. ASSUME NEW i \in S PROVE gap[i] <= 0
      BY <1>9, <1>11, <1>13, <2>3
    <3> QED BY <1>12, <3>1
  <2>4. (\A i \in S : i \in K) => d < 0
    BY <1>12, <2>2
  <2>5. (\A i \in S : i \notin K) => d >= 0
    BY <1>12, <2>2
  <2> QED BY <1>1, <1>5, <1>6, <2>1, <2>3, <2>4, <2>5
<1>14. CASE t < 0
  <2>1. Toward(t, d) = -d
    BY <1>10, <1>14
  <2>2. ASSUME NEW i \in S
        PROVE  /\ i \in K => gap[i] > 0
               /\ i \notin K => gap[i] <= 0 /\ (r[i] = 0 => gap[i] >= 0)
    BY <1>3, <1>9, <1>11, <1>14
  <2>3. ASSUME \A i \in S : i \notin K => r[i] = 0 PROVE d >= 0
    <3>1. ASSUME NEW i \in S PROVE gap[i] >= 0
      BY <1>3, <1>9, <1>11, <1>14, <2>3
    <3> QED BY <1>12, <3>1
  <2>4. (\A i \in S : i \in K) => d > 0
    BY <1>12, <2>2
  <2>5. (\A i \in S : i \notin K) => d <= 0
    BY <1>12, <2>2
  <2> QED BY <1>1, <1>5, <1>6, <2>1, <2>3, <2>4, <2>5
<1> QED BY <1>13, <1>14

-----------------------------------------------------------------------------
(* Topping up. *)

\* order goes through every index once, in the order of r.
Orders(order, r, n) ==
    /\ Sorts(order, r, n)
    /\ \A i \in 1..n : \E j \in 1..n : i = order[j]
    /\ \A i, j \in 1..n : order[i] = order[j] => i = j

LEMMA RankedOrders ==
  ASSUME NEW n \in Nat, NEW r \in [1..n -> Int]
  PROVE  Orders(Ranked(r), r, n)
<1>1. PICK o, S : o = Ranked(r) /\ S = 1..n
  OBVIOUS
<1>2. Sorts(o, r, n) /\ IsFiniteSet(S)
  BY <1>1, RankedSorts, FS_Interval
<1>3. o \in [S -> S] /\ \A i, j \in S : i < j => Before(r, o[i], o[j])
  BY <1>1, <1>2 DEF Sorts
<1>4. \A i \in S : ~Before(r, i, i)
  <2>1. \A i \in S : r[i] \in Int /\ i \in Int
    BY <1>1
  <2> QED BY <2>1 DEF Before
<1>5. ASSUME NEW i \in S, NEW j \in S, o[i] = o[j] PROVE i = j
  <2>1. i \in Int /\ j \in Int /\ o[i] \in S
    BY <1>1, <1>3
  <2>2. ~(i < j) /\ ~(j < i)
    BY <1>3, <1>4, <1>5, <2>1
  <2> QED BY <2>1, <2>2
<1>6. o \in Injection(S, S)
  BY <1>3, <1>5 DEF Injection, IsInjective
<1>7. o \in Surjection(S, S)
  BY <1>2, <1>6, FS_Injection
<1>8. \A i \in S : \E j \in S : i = o[j]
  BY <1>7 DEF Surjection
<1> QED BY <1>1, <1>2, <1>5, <1>8 DEF Orders

\* The indices in K come before all others.
Leads(K, r, n) ==
    /\ K \subseteq 1..n
    /\ \A i \in K, j \in 1..n : j \notin K => Before(r, i, j)

\* The first m indices of an order do; all of them are all indices.
LEMMA ForemostLead ==
  ASSUME NEW n \in Nat, NEW r, NEW o, Orders(o, r, n), NEW m \in 0..n
  PROVE  /\ Leads(Foremost(o, m), r, n)
         /\ m = n => 1..n \subseteq Foremost(o, m)
         /\ m = 0 => Foremost(o, m) = {}
<1>1. /\ o \in [1..n -> 1..n]
      /\ \A i \in 1..n : \E j \in 1..n : i = o[j]
      /\ \A i, j \in 1..n : i < j => Before(r, o[i], o[j])
  BY DEF Orders, Sorts
<1>2. PICK K : K = Foremost(o, m)
  OBVIOUS
<1>3. K = {o[j] : j \in 1..m} /\ \A j \in 1..m : j \in 1..n
  BY <1>2 DEF Foremost
<1>4. K \subseteq 1..n
  BY <1>1, <1>3
<1>5. ASSUME NEW i \in K, NEW j \in 1..n, j \notin K
      PROVE  Before(r, i, j)
  <2>1. PICK p \in 1..m : i = o[p]
    BY <1>3
  <2>2. PICK q \in 1..n : j = o[q]
    BY <1>1
  <2>3. q \notin 1..m
    BY <1>3, <1>5, <2>2
  <2>4. p \in 1..n /\ p < q
    BY <2>1, <2>2, <2>3
  <2> QED BY <1>1, <2>1, <2>2, <2>4
<1>6. m = n => 1..n \subseteq K
  BY <1>1, <1>3
<1>7. m = 0 => K = {}
  BY <1>3
<1> QED BY <1>2, <1>4, <1>5, <1>6, <1>7 DEF Leads

\* The next index is a new one, and comes before those that are left then.
LEMMA ForemostGrows ==
  ASSUME NEW n \in Nat, NEW r, NEW o, Orders(o, r, n), NEW m \in 0..n, m < n
  PROVE  /\ o[m + 1] \in 1..n /\ o[m + 1] \notin Foremost(o, m)
         /\ Foremost(o, m + 1) = Foremost(o, m) \union {o[m + 1]}
         /\ m + 1 \in 0..n
<1>1. o \in [1..n -> 1..n] /\ \A i, j \in 1..n : o[i] = o[j] => i = j
  BY DEF Orders, Sorts
<1>2. m + 1 \in 1..n /\ \A j \in 1..m : j \in 1..n /\ j # m + 1
  OBVIOUS
<1>3. o[m + 1] \notin Foremost(o, m)
  BY <1>1, <1>2 DEF Foremost
<1>4. 1..(m + 1) = 1..m \union {m + 1}
  OBVIOUS
<1>5. Foremost(o, m + 1) = Foremost(o, m) \union {o[m + 1]}
  BY <1>4 DEF Foremost
<1> QED BY <1>1, <1>2, <1>3, <1>5

\* Topping up one share more.
LEMMA TopUpOne ==
  ASSUME NEW t \in Int, NEW w \in Seq(Int), Divisible(w), NEW f, NEW K, ToppedUp(t, w, f, K),
         NEW k \in 1..Len(w), k \notin K
  PROVE  /\ ToppedUp(t, w, [f EXCEPT ![k] = @ + Toward(t, Step)], K \union {k})
         /\ Sum([f EXCEPT ![k] = @ + Toward(t, Step)]) = Sum(f) + Toward(t, Step)
         /\ Sum(f) \in Int /\ Toward(t, Step) \in Int
<1>1. PICK S : S = 1..Len(w)
  OBVIOUS
<1>2. PICK u \in Int : u = Toward(t, Step)
  BY MinorUnitIsMultiple DEF Toward
<1>3. f \in [S -> Int] /\ IsFiniteSet(S) /\ k \in S
  BY <1>1, Cuts DEF ToppedUp
<1>4. PICK h : h = [f EXCEPT ![k] = @ + u]
  OBVIOUS
<1>5. h \in [S -> Int] /\ Sum(h) = Sum(f) + u /\ Sum(f) \in Int
  <2>1. /\ [f EXCEPT ![k] = @ + u] \in [S -> Int]
        /\ Sum([f EXCEPT ![k] = @ + u]) = Sum(f) + u
        /\ Sum(f) \in Int
    BY <1>3, BumpShare
  <2> QED BY <1>4, <2>1
<1>6. ASSUME NEW i \in S
      PROVE  h[i] = Truncated(t, w)[i] + (IF i \in K \union {k} THEN u ELSE 0)
  <2>1. f[i] = Truncated(t, w)[i] + (IF i \in K THEN u ELSE 0) /\ Truncated(t, w)[i] \in Int
    BY <1>1, <1>2, Cuts DEF ToppedUp
  <2>2. CASE i = k
    <3>1. h[i] = f[i] + u /\ f[i] = Truncated(t, w)[i] + 0
      BY <1>3, <1>4, <2>1, <2>2
    <3> QED BY <2>1, <2>2, <3>1
  <2>3. CASE i # k
    BY <1>3, <1>4, <2>1, <2>3
  <2> QED BY <2>2, <2>3
<1>7. ToppedUp(t, w, h, K \union {k})
  BY <1>1, <1>2, <1>5, <1>6 DEF ToppedUp
<1> QED BY <1>2, <1>4, <1>5, <1>7

\* The size of what was cut from every share.
CutSizes(t, w) == [i \in DOMAIN w |-> Magnitude(Discarded(t, w)[i])]

LEMMA CutSizeBounds ==
  ASSUME NEW t \in Int, NEW w \in Seq(Int), Divisible(w)
  PROVE  /\ CutSizes(t, w) \in [1..Len(w) -> Int]
         /\ \A i \in 1..Len(w) : /\ CutSizes(t, w)[i] >= 0
                                 /\ CutSizes(t, w)[i] = 0 => Discarded(t, w)[i] = 0
         /\ t >= 0 => CutSizes(t, w) = Discarded(t, w)
<1>1. PICK S, r, c : S = 1..Len(w) /\ r = Discarded(t, w) /\ c = CutSizes(t, w)
  OBVIOUS
<1>2. r \in [S -> Int] /\ DOMAIN w = S
  BY <1>1, Cuts
<1>3. c = [i \in S |-> Magnitude(r[i])]
  BY <1>1, <1>2 DEF CutSizes
<1>4. ASSUME NEW i \in S
      PROVE  c[i] = (IF r[i] < 0 THEN -r[i] ELSE r[i]) /\ r[i] \in Int /\ (t >= 0 => r[i] >= 0)
  BY <1>1, <1>2, <1>3, CutBounds DEF Magnitude
<1>5. c \in [S -> Int] /\ \A i \in S : c[i] >= 0 /\ (c[i] = 0 => r[i] = 0)
  BY <1>3, <1>4
<1>6. ASSUME t >= 0 PROVE c = r
  <2>1. \A i \in S : c[i] = r[i]
    BY <1>4, <1>6
  <2> QED BY <1>2, <1>3, <2>1
<1> QED BY <1>1, <1>5, <1>6

\* Truncated shares of which the hardest cut were topped up, until nothing was
\* left: that is the largest-remainder split.
LEMMA ToppedUpIsLargestRemainder ==
  ASSUME NEW t \in Int, NEW w \in Seq(Int), Divisible(w), NEW m \in 0..Len(w), NEW f,
         ToppedUp(t, w, f, Foremost(Ranked(CutSizes(t, w)), m)), Sum(f) = t
  PROVE  LargestRemainder(t, w, f)
<1>1. PICK S, K, u, d, c :
         /\ S = 1..Len(w) /\ c = CutSizes(t, w) /\ d = Truncated(t, w)
         /\ K = Foremost(Ranked(c), m) /\ u = Toward(t, Step)
  OBVIOUS
<1>2. DOMAIN w = S /\ d \in [S -> Int] /\ u \in Int /\ u # 0 /\ u = IF t < 0 THEN -Step ELSE Step
  BY <1>1, Cuts, MinorUnitIsMultiple DEF Toward
<1>3. f \in [S -> Int] /\ \A i \in S : f[i] = d[i] + (IF i \in K THEN u ELSE 0)
  BY <1>1 DEF ToppedUp
<1>4. K \subseteq S /\ \A i \in K, j \in S : j \notin K => Before(c, i, j)
  <2>1. Len(w) \in Nat /\ c \in [1..Len(w) -> Int]
    BY <1>1, Cuts, CutSizeBounds
  <2>2. Orders(Ranked(c), c, Len(w))
    BY <2>1, RankedOrders
  <2>3. Leads(K, c, Len(w))
    BY <1>1, <2>1, <2>2, ForemostLead
  <2> QED BY <1>1, <2>3 DEF Leads
<1>5. K = {i \in S : f[i] = d[i] + u}
  <2>1. ASSUME NEW i \in S PROVE i \in K <=> f[i] = d[i] + u
    <3>1. d[i] \in Int /\ f[i] = d[i] + (IF i \in K THEN u ELSE 0)
      BY <1>2, <1>3
    <3> QED BY <1>2, <3>1
  <2> QED BY <1>4, <2>1
<1>6. \A i \in S \ K : f[i] = d[i]
  BY <1>2, <1>3
<1>7. \A i \in K, j \in S \ K : c[i] > c[j] \/ (c[i] = c[j] /\ i < j)
  BY <1>4 DEF Before
<1>8. DOMAIN f = DOMAIN w
  BY <1>2, <1>3
<1>9. K = {i \in DOMAIN w : f[i] = Truncated(t, w)[i] + (IF t < 0 THEN -Step ELSE Step)}
  BY <1>1, <1>2, <1>5, Zenon
<1>10. \A i \in DOMAIN w \ K : f[i] = Truncated(t, w)[i]
  BY <1>1, <1>2, <1>6, Zenon
<1>11. \A i \in K, j \in DOMAIN w \ K :
          CutSizes(t, w)[i] > CutSizes(t, w)[j] \/ (CutSizes(t, w)[i] = CutSizes(t, w)[j] /\ i < j)
  <2> SUFFICES ASSUME NEW i \in K, NEW j \in DOMAIN w \ K
               PROVE  CutSizes(t, w)[i] > CutSizes(t, w)[j]
                      \/ (CutSizes(t, w)[i] = CutSizes(t, w)[j] /\ i < j)
    OBVIOUS
  <2> QED BY <1>1, <1>2, <1>7
<1> QED BY <1>8, <1>9, <1>10, <1>11, Zenon DEF LargestRemainder, CutSizes

\* There is one largest-remainder split: two of them topped up one the shares of the
\* other and perhaps more, and add up to the same.
Split(f, K, t, w) ==
    /\ f \in [1..Len(w) -> Int] /\ Sum(f) = t
    /\ Leads(K, CutSizes(t, w), Len(w))
    /\ ToppedUp(t, w, f, K)

LEMMA LargestRemainderSplits ==
  ASSUME NEW t \in Int, NEW w \in Seq(Int), Divisible(w), NEW f \in [1..Len(w) -> Int],
         LargestRemainder(t, w, f)
  PROVE  \E K : Split(f, K, t, w)
<1>1. PICK S : S = 1..Len(w)
  OBVIOUS
<1>2. DOMAIN w = S /\ Truncated(t, w) \in [S -> Int]
  BY <1>1, Cuts
<1>3. PICK u : u = IF t < 0 THEN -Step ELSE Step
  OBVIOUS
<1>4. u = Toward(t, Step) /\ u \in Int
  BY <1>3, MinorUnitIsMultiple DEF Toward
<1>5. PICK K : K = {i \in DOMAIN w : f[i] = Truncated(t, w)[i] + u}
  OBVIOUS
<1>6. /\ \A i \in DOMAIN w \ K : f[i] = Truncated(t, w)[i]
      /\ \A i \in K, j \in DOMAIN w \ K :
            CutSizes(t, w)[i] > CutSizes(t, w)[j] \/ (CutSizes(t, w)[i] = CutSizes(t, w)[j] /\ i < j)
      /\ Sum(f) = t
  BY <1>3, <1>5, Zenon DEF LargestRemainder, CutSizes
<1>7. Leads(K, CutSizes(t, w), Len(w))
  <2>1. K \subseteq 1..Len(w)
    BY <1>1, <1>2, <1>5
  <2>2. ASSUME NEW i \in K, NEW j \in 1..Len(w), j \notin K
        PROVE  Before(CutSizes(t, w), i, j)
    BY <1>1, <1>2, <1>6, <2>2 DEF Before
  <2> QED BY <2>1, <2>2 DEF Leads
<1>8. ToppedUp(t, w, f, K)
  <2>1. ASSUME NEW i \in 1..Len(w)
        PROVE  f[i] = Truncated(t, w)[i] + (IF i \in K THEN Toward(t, Step) ELSE 0)
    BY <1>1, <1>2, <1>4, <1>5, <1>6
  <2> QED BY <2>1 DEF ToppedUp
<1> QED BY <1>6, <1>7, <1>8 DEF Split

LEMMA NestedSplits ==
  ASSUME NEW t \in Int, NEW w \in Seq(Int), Divisible(w), NEW f, NEW h, NEW K, NEW L,
         Split(f, K, t, w), Split(h, L, t, w), K \subseteq L
  PROVE  f = h
<1>1. PICK S : S = 1..Len(w)
  OBVIOUS
<1>2. PICK d : d = Truncated(t, w)
  OBVIOUS
<1>3. PICK u \in Int : u = Toward(t, Step) /\ (t >= 0 => u > 0) /\ (t < 0 => u < 0)
  BY MinorUnitIsMultiple DEF Toward
<1>4. /\ IsFiniteSet(S) /\ d \in [S -> Int] /\ f \in [S -> Int] /\ h \in [S -> Int]
      /\ Sum(f) = t /\ Sum(h) = t
  BY <1>1, <1>2, Cuts DEF Split
<1>5. \A i \in S : /\ f[i] = d[i] + (IF i \in K THEN u ELSE 0)
                   /\ h[i] = d[i] + (IF i \in L THEN u ELSE 0)
  BY <1>1, <1>2, <1>3 DEF Split, ToppedUp
<1>6. ASSUME NEW i \in S
      PROVE  /\ t >= 0 => f[i] <= h[i]
             /\ t < 0 => h[i] <= f[i]
  <2>1. f[i] \in Int /\ h[i] \in Int /\ (h[i] = f[i] \/ h[i] = f[i] + u)
    <3>1. f[i] \in Int /\ h[i] \in Int /\ d[i] \in Int
      BY <1>4
    <3>2. CASE i \in K
      <4>1. f[i] = d[i] + u /\ h[i] = d[i] + u
        BY <1>5, <3>2
      <4> QED BY <3>1, <4>1
    <3>3. CASE i \notin K /\ i \in L
      <4>1. f[i] = d[i] + 0 /\ h[i] = d[i] + u
        BY <1>5, <3>3
      <4> QED BY <3>1, <4>1
    <3>4. CASE i \notin K /\ i \notin L
      <4>1. f[i] = d[i] + 0 /\ h[i] = d[i] + 0
        BY <1>5, <3>4
      <4> QED BY <3>1, <4>1
    <3> QED BY <3>2, <3>3, <3>4
  <2> QED BY <1>3, <2>1
<1>7. Total(f, S) = t /\ Total(h, S) = t /\ Valued(f, S) /\ Valued(h, S)
  BY <1>4, SumIsTotal
<1>8. ASSUME NEW i \in S PROVE f[i] = h[i]
  <2>1. f[i] \in Int /\ h[i] \in Int
    BY <1>4
  <2>2. CASE t >= 0
    <3>1. NeverAbove(f, h, S)
      BY <1>6, <2>2 DEF NeverAbove
    <3>2. (\E x \in S : f[x] < h[x]) => Total(f, S) < Total(h, S)
      BY <1>4, <1>7, <3>1, TotalMonotone
    <3>3. ~(f[i] < h[i])
      BY <1>7, <3>2
    <3> QED BY <1>6, <2>1, <2>2, <3>3
  <2>3. CASE t < 0
    <3>1. NeverAbove(h, f, S)
      BY <1>6, <2>3 DEF NeverAbove
    <3>2. (\E x \in S : h[x] < f[x]) => Total(h, S) < Total(f, S)
      BY <1>4, <1>7, <3>1, TotalMonotone
    <3>3. ~(h[i] < f[i])
      BY <1>7, <3>2
    <3> QED BY <1>6, <2>1, <2>3, <3>3
  <2> QED BY <2>2, <2>3
<1> QED BY <1>4, <1>8

LEMMA LargestRemainderIsUnique ==
  ASSUME NEW t \in Int, NEW w \in Seq(Int), Divisible(w),
         NEW f \in [1..Len(w) -> Int], LargestRemainder(t, w, f),
         NEW h \in [1..Len(w) -> Int], LargestRemainder(t, w, h)
  PROVE  f = h
<1>1. PICK K : Split(f, K, t, w)
  BY LargestRemainderSplits
<1>2. PICK L : Split(h, L, t, w)
  BY LargestRemainderSplits
<1>3. PICK c : c = CutSizes(t, w)
  OBVIOUS
<1>4. Leads(K, c, Len(w)) /\ Leads(L, c, Len(w)) /\ c \in [1..Len(w) -> Int]
  BY <1>1, <1>2, <1>3, CutSizeBounds DEF Split
<1>5. K \subseteq L \/ L \subseteq K
  <2> SUFFICES ASSUME NEW i \in K, i \notin L, NEW j \in L, j \notin K PROVE FALSE
    OBVIOUS
  <2>1. Before(c, i, j) /\ Before(c, j, i) /\ i \in 1..Len(w) /\ j \in 1..Len(w)
    BY <1>4 DEF Leads
  <2>2. c[i] \in Int /\ c[j] \in Int /\ i \in Int /\ j \in Int
    <3>1. PICK n \in Nat : n = Len(w)
      BY Cuts
    <3>2. i \in 1..n /\ j \in 1..n /\ c \in [1..n -> Int]
      BY <1>4, <2>1, <3>1
    <3> QED BY <3>2
  <2> QED BY <2>1, <2>2 DEF Before
<1>6. CASE K \subseteq L
  BY <1>1, <1>2, <1>6, NestedSplits
<1>7. CASE L \subseteq K
  <2>1. h = f
    BY <1>1, <1>2, <1>7, NestedSplits
  <2> QED BY <2>1
<1> QED BY <1>5, <1>6, <1>7

-----------------------------------------------------------------------------
(* How far the shares are from usage. *)

LEMMA Positions ==
  ASSUME NEW n \in Nat
  PROVE  Cardinality(1..n) = n
BY FS_Interval

\* h puts what is left on the share k of f.
Settled(h, f, k, l, t, w) ==
    /\ l \in Int /\ l = t - Sum(f)
    /\ k \in 1..Len(w)
    /\ h = [f EXCEPT ![k] = @ + l]

\* The distance from usage of every share but k is its gap, that of k the gap
\* less what was left.
LEMMA SettledGap ==
  ASSUME NEW t \in Int, NEW w \in Seq(Int), Divisible(w), NEW f, NEW K, ToppedUp(t, w, f, K),
         NEW h, NEW k, NEW l, Settled(h, f, k, l, t, w), NEW i \in 1..Len(w)
  PROVE  /\ Gap(t, w, f)[i] \in Int /\ h[i] \in Int
         /\ i # k => h[i] = f[i] /\ h[i] * Sum(w) - t * w[i] = -(Gap(t, w, f)[i])
         /\ i = k => /\ h[i] = f[i] + l
                     /\ h[i] * Sum(w) - t * w[i] = l * Sum(w) - Gap(t, w, f)[i]
<1>1. PICK W \in Int : W = Sum(w)
  BY Cuts
<1>2. f \in [1..Len(w) -> Int] /\ w \in [1..Len(w) -> Int]
  BY Cuts DEF ToppedUp
<1>3. PICK a \in Int : a = f[i]
  BY <1>2
<1>4. PICK x \in Int : x = t * w[i]
  BY <1>2
<1>5. l \in Int /\ (i # k => h[i] = a) /\ (i = k => h[i] = a + l)
  BY <1>2, <1>3 DEF Settled
<1>6. PICK g : g = Gap(t, w, f)[i]
  OBVIOUS
<1>7. g = x - a * W
  BY <1>1, <1>3, <1>4, <1>6 DEF Gap
<1>8. (a + l) * W = a * W + l * W /\ a * W \in Int /\ l * W \in Int
  BY <1>5
<1>9. ASSUME i # k PROVE h[i] = a /\ h[i] * W - x = -g /\ g \in Int
  BY <1>5, <1>7, <1>8, <1>9
<1>10. ASSUME i = k PROVE h[i] = a + l /\ h[i] * W - x = l * W - g /\ g \in Int
  BY <1>5, <1>7, <1>8, <1>10
<1>11. CASE i # k
  BY <1>1, <1>3, <1>4, <1>6, <1>9, <1>11
<1>12. CASE i = k
  <2>1. a + l \in Int
    BY <1>5
  <2> QED BY <1>1, <1>3, <1>4, <1>6, <1>10, <1>12, <2>1
<1> QED BY <1>11, <1>12

\* Every share in K was cut; k is a share that was cut hardest.
OnlyCut(t, w, K)    == \A j \in 1..Len(w) : j \in K => Discarded(t, w)[j] > 0
CutHardest(t, w, k) == \A j \in 1..Len(w) : Discarded(t, w)[k] >= Discarded(t, w)[j]

\* How far share i of h is from usage, times the sum of the weights.
Distance(h, t, w, i) == Magnitude(h[i] * Sum(w) - t * w[i])

\* Of a charge, no share is a minor unit off but perhaps the one cut hardest.
LEMMA UsageOfCharge ==
  ASSUME NEW t \in Int, t >= 0, NEW w \in Seq(Int), Divisible(w), NEW f, NEW K, ToppedUp(t, w, f, K),
         OnlyCut(t, w, K), NEW h, NEW k, NEW l, Settled(h, f, k, l, t, w), 0 <= l, l < Step,
         CutHardest(t, w, k), NEW i \in 1..Len(w)
  PROVE  /\ Distance(h, t, w, i) < Step * Sum(w) \/ i = k
         /\ l = 0 => Distance(h, t, w, i) < Step * Sum(w)
         /\ Distance(h, t, w, i) < 2 * (Step * Sum(w))
         /\ w[i] = 0 => h[i] = 0
<1>1. PICK W \in Int : W = Sum(w) /\ W > 0
  BY Cuts
<1>2. PICK st \in Int : st = Step /\ st > 0
  BY MinorUnitIsMultiple
<1>3. PICK U \in Int : U = Step * W /\ U = st * W /\ U > 0
  BY <1>1, <1>2, Cuts
<1>4. PICK g \in Int : g = Gap(t, w, f)[i]
  BY SettledGap
<1>5. PICK r \in Int : r = Discarded(t, w)[i]
  BY Cuts
<1>6. l \in Int /\ k \in 1..Len(w) /\ l = t - Sum(f)
  BY DEF Settled
<1>7. 0 <= r /\ r < U /\ (i \in K => r > 0)
  BY <1>1, <1>3, <1>5, CutBounds DEF OnlyCut
<1>8. Toward(t, U) = U
  BY DEF Toward
<1>9. g = r - (IF i \in K THEN U ELSE 0)
  <2>1. Gap(t, w, f)[i] = Discarded(t, w)[i] - (IF i \in K THEN Toward(t, Step * Sum(w)) ELSE 0)
    BY ToppedGap
  <2>2. Toward(t, Step * Sum(w)) = U
    BY <1>1, <1>3, <1>8
  <2> QED BY <1>4, <1>5, <2>1, <2>2
<1>10. -U < g /\ g < U
  BY <1>3, <1>7, <1>9
<1>11. PICK y \in Int : y = l * W
  BY <1>6
<1>12. 0 <= y /\ y < U /\ (l = 0 => y = 0)
  <2>1. l = 0 \/ l >= 1
    BY <1>6
  <2>2. l >= 1 => l * W >= 0
    BY <1>1, <1>6
  <2>3. PICK e \in Int : e = st - l /\ e >= 1
    BY <1>2, <1>6
  <2>4. e * W > 0
    BY <1>1, <2>3
  <2>5. st = l + e /\ st * W = l * W + e * W
    BY <1>2, <1>6, <2>3
  <2>6. l = 0 => l * W = 0
    BY <1>1
  <2>7. e * W \in Int
    BY <2>3
  <2> QED BY <1>3, <1>11, <2>1, <2>2, <2>4, <2>5, <2>6, <2>7
<1>13. PICK o \in Int : o = h[i] * W - t * w[i] /\ (i # k => o = -g) /\ (i = k => o = y - g)
  <2>1. /\ i # k => h[i] * W - t * w[i] = -g
        /\ i = k => h[i] * W - t * w[i] = y - g
    BY <1>1, <1>4, <1>11, SettledGap
  <2>2. h[i] * W - t * w[i] \in Int
    BY <1>4, <1>11, <2>1
  <2> QED BY <2>1, <2>2
<1>14. Magnitude(o) = IF o < 0 THEN -o ELSE o
  BY DEF Magnitude
<1>15. /\ i # k => Magnitude(o) < U
       /\ l = 0 => Magnitude(o) < U
       /\ Magnitude(o) < 2 * U
  BY <1>10, <1>12, <1>13, <1>14
<1>16. ASSUME w[i] = 0 PROVE h[i] = 0
  <2>1. Truncated(t, w)[i] = 0 /\ r = 0
    BY <1>5, <1>16, CutBounds
  <2>2. i \notin K
    BY <1>7, <2>1
  <2>3. f[i] = 0
    BY <2>1, <2>2 DEF ToppedUp
  <2>4. CASE i # k
    BY <2>3, <2>4, SettledGap
  <2>5. CASE i = k
    <3>1. ASSUME NEW j \in 1..Len(w), j \notin K PROVE Discarded(t, w)[j] = 0
      <4>1. Discarded(t, w)[j] >= 0 /\ Discarded(t, w)[j] <= 0
        BY <1>5, <2>1, <2>5, CutBounds DEF CutHardest
      <4>2. Discarded(t, w)[j] \in Int
        <5>1. Discarded(t, w) \in [1..Len(w) -> Int]
          BY Cuts, Zenon
        <5> QED BY <5>1, Zenon
      <4> QED BY <4>1, <4>2
    <3>2. Toward(t, t - Sum(f)) <= 0
      BY <3>1, ToppedLeftover
    <3>3. l <= 0
      BY <1>6, <3>2 DEF Toward
    <3>4. l = 0
      BY <1>6, <3>3
    <3> QED BY <2>3, <2>5, <3>4, SettledGap
  <2> QED BY <2>4, <2>5
<1>17. Distance(h, t, w, i) = Magnitude(o)
  BY <1>1, <1>13 DEF Distance
<1> QED BY <1>1, <1>3, <1>13, <1>15, <1>16, <1>17

\* Of a credit, the share cut least takes all that is left: no more than a minor
\* unit for every share.
LEMMA UsageOfCredit ==
  ASSUME NEW t \in Int, t < 0, NEW w \in Seq(Int), Divisible(w), NEW f, NEW K, ToppedUp(t, w, f, K),
         K = {}, NEW h, NEW k, NEW l, Settled(h, f, k, l, t, w), NEW i \in 1..Len(w)
  PROVE  /\ Distance(h, t, w, i) < Step * Sum(w) \/ i = k
         /\ Distance(h, t, w, i) < Len(w) * (Step * Sum(w))
<1>1. PICK W \in Int : W = Sum(w) /\ W > 0
  BY Cuts
<1>2. PICK U \in Int : U = Step * W /\ U > 0
  BY <1>1, Cuts
<1>3. PICK S : S = 1..Len(w)
  OBVIOUS
<1>4. PICK n \in Nat : n = Len(w) /\ n >= 1
  BY Cuts
<1>5. PICK gap : gap = Gap(t, w, f)
  OBVIOUS
<1>6. l \in Int /\ k \in S /\ l = t - Sum(f)
  BY <1>3 DEF Settled
<1>7. Total(gap, S) = W * l /\ Valued(gap, S) /\ IsFiniteSet(S)
  BY <1>1, <1>3, <1>5, <1>6, ToppedGap, Cuts
<1>8. ASSUME NEW j \in S PROVE gap[j] \in Int /\ gap[j] <= 0 /\ -U < gap[j]
  <2>1. gap[j] = Discarded(t, w)[j] - 0
    BY <1>1, <1>2, <1>3, <1>5, ToppedGap
  <2>2. Discarded(t, w)[j] \in Int
    BY <1>3, Cuts
  <2>3. Discarded(t, w)[j] <= 0 /\ -U < Discarded(t, w)[j]
    BY <1>1, <1>2, <1>3, CutBounds
  <2> QED BY <2>1, <2>2, <2>3
<1>9. PICK z : z = [j \in S |-> -U]
  OBVIOUS
<1>10. Total(z, S) = (-U) * n /\ Valued(z, S)
  <2>0. PICK v \in Int : v = -U
    OBVIOUS
  <2>1. Everywhere(z, v, S) /\ Valued(z, S)
    BY <1>9, <2>0 DEF Everywhere, Valued
  <2>2. Cardinality(S) = n
    BY <1>3, <1>4, Positions
  <2>3. Total(z, S) = v * Cardinality(S)
    BY <1>7, <2>1, TotalOfEqual
  <2> QED BY <2>0, <2>1, <2>2, <2>3
<1>11. PICK o : o = [j \in S |-> 0]
  OBVIOUS
<1>12. Total(o, S) = 0 /\ Valued(o, S)
  <2>1. \A j \in S : o[j] = 0 /\ 0 \in Int
    BY <1>11
  <2> QED BY <1>7, <2>1, TotalOfZeros DEF Valued
<1>13. PICK y \in Int : y = l * W /\ y = Total(gap, S)
  BY <1>6, <1>7
<1>14. y <= 0
  <2>1. NeverAbove(gap, o, S)
    BY <1>8, <1>11 DEF NeverAbove
  <2>2. Total(gap, S) <= Total(o, S)
    BY <1>7, <1>12, <2>1, TotalMonotone
  <2> QED BY <1>12, <1>13, <2>2
<1>15. PICK m \in Int : m = n * U /\ m >= U
  <2>1. PICK e \in Int : e = n - 1 /\ e >= 0
    BY <1>4
  <2>2. e * U >= 0 /\ e * U \in Int
    BY <1>2, <2>1
  <2>3. n = e + 1 /\ n * U = e * U + U
    BY <1>2, <2>1
  <2> QED BY <2>2, <2>3
<1>16. -m < y
  <2>1. NeverAbove(z, gap, S)
    <3>1. ASSUME NEW j \in S PROVE z[j] <= gap[j]
      BY <1>8, <1>9
    <3> QED BY <3>1 DEF NeverAbove
  <2>2. z[k] < gap[k] /\ k \in S
    BY <1>6, <1>8, <1>9
  <2>3. Total(z, S) < Total(gap, S)
    BY <1>7, <1>10, <2>1, <2>2, TotalMonotone
  <2>4. (-U) * n = -m
    BY <1>2, <1>15
  <2> QED BY <1>10, <1>13, <2>3, <2>4
<1>17. PICK g \in Int : g = gap[i] /\ g <= 0 /\ -U < g
  BY <1>3, <1>8
<1>18. PICK x \in Int : x = h[i] * W - t * w[i] /\ (i # k => x = -g) /\ (i = k => x = y - g)
  <2>1. /\ i # k => h[i] * W - t * w[i] = -g
        /\ i = k => h[i] * W - t * w[i] = y - g
    BY <1>1, <1>5, <1>13, <1>17, SettledGap
  <2>2. h[i] * W - t * w[i] \in Int
    BY <1>13, <1>17, <2>1
  <2> QED BY <2>1, <2>2
<1>19. Magnitude(x) = IF x < 0 THEN -x ELSE x
  BY DEF Magnitude
<1>20. (i # k => Magnitude(x) < U) /\ Magnitude(x) < m
  <2>0. m >= U /\ (i # k => x = -g) /\ (i = k => x = y - g)
    BY <1>15, <1>18
  <2>1. CASE i # k
    BY <1>17, <1>19, <2>0, <2>1
  <2>2. CASE i = k
    BY <1>14, <1>16, <1>17, <1>19, <2>0, <2>2
  <2> QED BY <2>1, <2>2
<1>21. Distance(h, t, w, i) = Magnitude(x)
  BY <1>1, <1>18 DEF Distance
<1> QED BY <1>1, <1>2, <1>4, <1>15, <1>18, <1>20, <1>21

-----------------------------------------------------------------------------
(* The invariant and the theorem. *)

LEMMA FloorKeepsTotal ==
  ASSUME ShareInv, Floor
  PROVE  ShareInv'
<1>1. PICK n \in Nat : n = Len(weights)
  BY DEF ShareInv
<1>2. /\ total \in Int /\ weights \in Seq(Int) /\ Sum(weights) > 0 /\ n # 0
      /\ total' = total /\ weights' = weights /\ idx' = idx /\ result' = "running"
      /\ floored' = Truncated(total, weights) /\ leftover' = total - Sum(floored')
      /\ remainders' = Ranked(Discarded(total, weights))
  BY <1>1 DEF ShareInv, Floor
<1>3. /\ floored' \in [1..n -> Int]
      /\ remainders' \in [1..n -> 1..n]
  BY <1>1, <1>2, TruncatedType, RankedSorts DEF Sorts
<1>4. Sum(floored') \in Int
  BY <1>3, SumType, FS_Interval
<1>5. leftover' \in Int /\ Sum(floored') + leftover' = total
  BY <1>2, <1>4
<1> QED BY <1>1, <1>2, <1>3, <1>5 DEF ShareInv

\* A pass moves one minor unit from the leftover to a share.
LEMMA TopUpKeepsTotal ==
  ASSUME ShareInv, TopUp
  PROVE  ShareInv'
<1>1. PICK n \in Nat : n = Len(weights)
  BY DEF ShareInv
<1>2. /\ remainders # <<>> /\ result = "running" /\ idx \in Nat
      /\ floored \in [1..n -> Int] /\ remainders \in [1..n -> 1..n] /\ leftover \in Int
      /\ Sum(floored) + leftover = total /\ total \in Int /\ idx < Len(remainders)
  BY <1>1 DEF ShareInv, TopUp
<1>3. idx + 1 \in 1..n
  <2>1. Len(remainders) = n
    BY <1>2
  <2> QED BY <1>2, <2>1
<1>4. PICK k : k = remainders[idx + 1]
  OBVIOUS
<1>5. k \in 1..n /\ Step \in Int
  BY <1>2, <1>3, <1>4, SharesAssumption
<1>6. /\ floored' = [floored EXCEPT ![k] = @ + Step] /\ leftover' = leftover - Step
      /\ total' = total /\ weights' = weights /\ idx' = idx + 1
      /\ remainders' = remainders /\ result' = result
  BY <1>4 DEF TopUp
<1>7. floored' \in [1..n -> Int] /\ Sum(floored') = Sum(floored) + Step /\ Sum(floored) \in Int
  <2>1. PICK S : S = 1..n
    OBVIOUS
  <2>2. IsFiniteSet(S)
    BY <2>1, FS_Interval
  <2>3. floored \in [S -> Int] /\ k \in S
    BY <1>2, <1>5, <2>1
  <2>4. /\ [floored EXCEPT ![k] = @ + Step] \in [S -> Int]
        /\ Sum([floored EXCEPT ![k] = @ + Step]) = Sum(floored) + Step
        /\ Sum(floored) \in Int
    BY <1>5, <2>2, <2>3, BumpShare
  <2> QED BY <1>6, <2>1, <2>4
<1>8. leftover' \in Int /\ Sum(floored') + leftover' = total
  BY <1>2, <1>5, <1>6, <1>7
<1> QED BY <1>1, <1>2, <1>6, <1>7, <1>8 DEF ShareInv

LEMMA FinishKeepsTotal ==
  ASSUME ShareInv, Finish
  PROVE  ShareInv'
<1>1. PICK n \in Nat : n = Len(weights)
  BY DEF ShareInv
<1>2. /\ remainders # <<>> /\ result = "running"
      /\ floored \in [1..n -> Int] /\ remainders \in [1..n -> 1..n] /\ leftover \in Int
      /\ Sum(floored) + leftover = total /\ total \in Int
  BY <1>1 DEF ShareInv, Finish
<1>3. PICK k : k = remainders[1]
  OBVIOUS
<1>4. k \in 1..n
  <2>1. n # 0
    <3> SUFFICES ASSUME n = 0 PROVE FALSE
      OBVIOUS
    <3>1. remainders = <<>>
      BY <1>2
    <3> QED BY <1>2, <3>1
  <2> QED BY <1>2, <1>3, <2>1
<1>5. /\ floored' = [floored EXCEPT ![k] = @ + leftover] /\ leftover' = leftover
      /\ total' = total /\ weights' = weights /\ idx' = idx
      /\ remainders' = remainders /\ result' = "ok"
  BY <1>3 DEF Finish
<1>6. floored' \in [1..n -> Int] /\ Sum(floored') = total
  <2>1. PICK S : S = 1..n
    OBVIOUS
  <2>2. IsFiniteSet(S)
    BY <2>1, FS_Interval
  <2>3. floored \in [S -> Int] /\ k \in S
    BY <1>2, <1>4, <2>1
  <2>4. PICK d \in Int : d = leftover
    BY <1>2
  <2>5. /\ [floored EXCEPT ![k] = @ + d] \in [S -> Int]
        /\ Sum([floored EXCEPT ![k] = @ + d]) = Sum(floored) + d
        /\ Sum(floored) \in Int
    BY <2>2, <2>3, BumpShare
  <2> QED BY <1>2, <1>5, <2>1, <2>4, <2>5
<1> QED BY <1>1, <1>2, <1>5, <1>6 DEF ShareInv

\* apportion promises that "the sum of the result equals `total` exactly, always":
\* of every total, credits and totals finer than the precision included, every
\* number of weights and every minor unit.
THEOREM NothingIsLost ==
  Spec => []SharesConserveTheTotal
<1>1. Init => ShareInv
  <2> SUFFICES ASSUME Init PROVE ShareInv
    OBVIOUS
  <2>1. weights \in Seq(Int)
    <3>1. PICK m \in 0..MaxShares : weights \in [1..m -> Weights]
      BY DEF Init, BoundedSeq, SeqOf
    <3>2. \A i \in 1..m : weights[i] \in Int
      BY <3>1, SharesAssumption
    <3>3. weights \in [1..m -> Int] /\ m \in Nat
      BY <3>1, <3>2, SharesAssumption
    <3> QED BY <3>3
  <2> QED BY <2>1, SharesAssumption DEF Init, ShareInv
<1>2. ShareInv /\ [Next]_vars => ShareInv'
  <2> SUFFICES ASSUME ShareInv, [Next]_vars PROVE ShareInv'
    OBVIOUS
  <2>1. CASE Reject
    <3>1. result' # "ok" /\ remainders = <<>> /\ UNCHANGED <<total, weights, remainders, idx>>
      BY <2>1 DEF Reject
    <3> QED BY <3>1 DEF ShareInv
  <2>2. CASE UNCHANGED vars
    BY <2>2 DEF vars, ShareInv
  <2> QED BY <2>1, <2>2, FloorKeepsTotal, TopUpKeepsTotal, FinishKeepsTotal DEF Next
<1>3. ShareInv => SharesConserveTheTotal
  BY DEF ShareInv, SharesConserveTheTotal
<1> QED BY <1>1, <1>2, <1>3, PTL DEF Spec

-----------------------------------------------------------------------------
(* What apportion goes through. *)

LEMMA NothingIsNotDivisible ==
  ~Divisible(<<>>)
<1>1. PICK w : w = <<>>
  OBVIOUS
<1>2. w \in [{} -> Int] /\ IsFiniteSet({})
  BY <1>1, FS_EmptySet
<1>3. Sum(w) = 0
  BY <1>2, SumIsTotal, TotalEmpty
<1> QED BY <1>1, <1>3 DEF Divisible

\* Only shares in K were cut.
NothingElseCut(t, w, K) == \A i \in 1..Len(w) : i \notin K => Discarded(t, w)[i] = 0

\* The leftover of a charge lies between what the shares in K need and nothing.
LEMMA LeftoverOfCharge ==
  ASSUME NEW t \in Int, t >= 0, NEW w \in Seq(Int), Divisible(w), NEW f, NEW K, ToppedUp(t, w, f, K),
         NEW l \in Int, Sum(f) + l = t
  PROVE  /\ K = {} => l >= 0
         /\ 1..Len(w) \subseteq K => l < 0
         /\ NothingElseCut(t, w, K) => l <= 0
<1>1. Sum(f) \in Int
  BY ToppedGap
<1>2. Toward(t, t - Sum(f)) = l
  BY <1>1 DEF Toward
<1> QED BY <1>2, ToppedLeftover DEF NothingElseCut

LEMMA FloorKeepsLoop ==
  ASSUME ShareInv, RanksInv, Floor
  PROVE  RanksInv' /\ LoopInv'
<1>1. PICK t, w : t = total /\ w = weights
  OBVIOUS
<1>2. t \in Int /\ w \in Seq(Int) /\ Divisible(w) /\ idx = 0
  BY <1>1 DEF ShareInv, RanksInv, Floor, Divisible
<1>3. PICK f : f = Truncated(t, w)
  OBVIOUS
<1>4. PICK F \in Int : F = Sum(f) /\ Multiple(F)
  BY <1>2, <1>3, TruncatedIsMultiple
<1>5. /\ floored' = f /\ leftover' = t - F /\ remainders' = Ranked(Discarded(t, w))
      /\ total' = t /\ weights' = w /\ idx' = 0 /\ result' = "running"
  BY <1>1, <1>2, <1>3, <1>4 DEF Floor
<1>6. PICK n \in Nat : n = Len(w)
  BY <1>2
<1>7. RanksInv'
  <2>1. 0 \in 0..n
    BY <1>6
  <2> QED BY <1>2, <1>5, <1>6, <2>1 DEF RanksInv
<1>8. Foremost(remainders', 0) = {}
  BY DEF Foremost
<1>9. ToppedUp(t, w, f, {})
  <2>1. ASSUME NEW i \in 1..Len(w) PROVE f[i] = Truncated(t, w)[i] + 0
    <3>1. f[i] \in Int
      BY <1>2, <1>3, Cuts
    <3> QED BY <1>3, <3>1
  <2>2. f \in [1..Len(w) -> Int]
    BY <1>2, <1>3, Cuts
  <2> QED BY <2>1, <2>2 DEF ToppedUp
<1>10. leftover' \in Int /\ total' - leftover' = F /\ Sum(f) + leftover' = t
  BY <1>2, <1>4, <1>5
<1>11. t >= 0 => leftover' >= 0
  BY <1>2, <1>9, <1>10, LeftoverOfCharge
<1>12. ~(t < 0) => t >= 0
  BY <1>2
<1> QED BY <1>4, <1>5, <1>7, <1>8, <1>9, <1>10, <1>11, <1>12 DEF LoopInv

\* What the loop knows before a pass, and before it ends, of a charge.
LEMMA LoopFacts ==
  ASSUME ShareInv, RanksInv, LoopInv, remainders # <<>>, result = "running"
  PROVE  /\ total \in Int /\ weights \in Seq(Int) /\ Divisible(weights)
         /\ Len(weights) \in Nat \ {0} /\ Discarded(total, weights) \in [1..Len(weights) -> Int]
         /\ Len(remainders) = Len(weights) /\ idx \in 0..Len(weights)
         /\ Orders(remainders, Discarded(total, weights), Len(weights))
         /\ leftover \in Int /\ Sum(floored) \in Int /\ Sum(floored) + leftover = total
         /\ total >= 0 => idx < Len(weights)
         /\ total < 0 => leftover <= 0 /\ idx = 0 /\ Foremost(remainders, idx) = {}
<1>1. PICK t, w, n, r : t = total /\ w = weights /\ n = Len(w) /\ r = Discarded(t, w)
  OBVIOUS
<1>2. /\ t \in Int /\ w \in Seq(Int) /\ Divisible(w) /\ leftover \in Int
      /\ Sum(floored) + leftover = t /\ idx \in 0..n /\ remainders = Ranked(r)
      /\ ToppedUp(t, w, floored, Foremost(remainders, idx))
      /\ remainders \in [1..n -> 1..n]
  BY <1>1 DEF ShareInv, RanksInv, LoopInv
<1>3. n \in Nat \ {0} /\ r \in [1..n -> Int]
  BY <1>1, <1>2, Cuts
<1>4. Orders(remainders, r, n)
  BY <1>2, <1>3, RankedOrders
<1>5. Len(remainders) = n
  BY <1>2, <1>3
<1>6. Sum(floored) \in Int
  BY <1>2, ToppedGap
<1>7. t >= 0 => idx < n
  <2> SUFFICES ASSUME t >= 0, ~(idx < n) PROVE FALSE
    OBVIOUS
  <2>1. idx = n
    BY <1>2, <1>3
  <2>2. 1..n \subseteq Foremost(remainders, idx)
    BY <1>2, <1>3, <1>4, <2>1, ForemostLead
  <2>3. leftover < 0
    BY <1>1, <1>2, <2>2, LeftoverOfCharge
  <2>4. leftover >= 0
    BY <1>1, <1>2 DEF LoopInv
  <2> QED BY <1>2, <2>3, <2>4
<1>8. t < 0 => leftover <= 0 /\ idx = 0 /\ Foremost(remainders, idx) = {}
  <2> SUFFICES ASSUME t < 0 PROVE leftover <= 0 /\ idx = 0 /\ Foremost(remainders, idx) = {}
    OBVIOUS
  <2>1. idx = 0
    BY <1>1 DEF LoopInv
  <2>2. Foremost(remainders, idx) = {}
    BY <2>1 DEF Foremost
  <2>3. Toward(t, t - Sum(floored)) >= 0
    BY <1>2, <2>2, ToppedLeftover
  <2>4. t - Sum(floored) = leftover
    BY <1>2, <1>6
  <2> QED BY <1>2, <2>1, <2>2, <2>3, <2>4 DEF Toward
<1> QED BY <1>1, <1>2, <1>3, <1>4, <1>5, <1>6, <1>7, <1>8

\* The loop never tops up a share that was not cut: what is left then was cut from
\* shares that come later, and less hard.
LEMMA TopUpKeepsLoop ==
  ASSUME ShareInv, RanksInv, LoopInv, TopUp
  PROVE  RanksInv' /\ LoopInv'
<1>1. PICK t, w, n, r, o : t = total /\ w = weights /\ n = Len(w) /\ r = Discarded(t, w) /\ o = remainders
  OBVIOUS
<1>2. /\ remainders # <<>> /\ result = "running" /\ leftover >= Step
      /\ floored' = [floored EXCEPT ![o[idx + 1]] = @ + Step] /\ leftover' = leftover - Step
      /\ idx' = idx + 1 /\ total' = t /\ weights' = w /\ remainders' = o /\ result' = "running"
  BY <1>1 DEF TopUp
<1>3. /\ t \in Int /\ w \in Seq(Int) /\ Divisible(w) /\ n \in Nat \ {0} /\ r \in [1..n -> Int]
      /\ idx \in 0..n /\ Orders(o, r, n) /\ leftover \in Int /\ Sum(floored) + leftover = t
      /\ (t >= 0 => idx < n) /\ (t < 0 => leftover <= 0)
  BY <1>1, <1>2, LoopFacts
<1>4. PICK K : K = Foremost(o, idx)
  OBVIOUS
<1>5. ToppedUp(t, w, floored, K) /\ Multiple(t - leftover)
  BY <1>1, <1>2, <1>4 DEF LoopInv
<1>6. Step \in Int /\ Step > 0
  BY MinorUnitIsMultiple
<1>7. t >= 0 /\ idx < n /\ leftover > 0
  BY <1>2, <1>3, <1>6
<1>8. PICK k : k = o[idx + 1]
  OBVIOUS
<1>9. k \in 1..n /\ k \notin K /\ Foremost(o, idx + 1) = K \union {k} /\ idx + 1 \in 0..n
  BY <1>3, <1>4, <1>7, <1>8, ForemostGrows
<1>10. ToppedUp(t, w, floored', Foremost(o, idx + 1))
  <2>1. Toward(t, Step) = Step
    BY <1>3, <1>7 DEF Toward
  <2>2. ToppedUp(t, w, [floored EXCEPT ![k] = @ + Toward(t, Step)], K \union {k})
    BY <1>1, <1>3, <1>5, <1>9, TopUpOne
  <2> QED BY <1>2, <1>8, <1>9, <2>1, <2>2
<1>11. leftover' >= 0 /\ leftover' \in Int /\ t - leftover' = (t - leftover) + Step
  BY <1>2, <1>3, <1>6
<1>12. Multiple(t - leftover')
  <2>1. PICK x \in Int : x = t - leftover
    BY <1>3
  <2>2. Multiple(x + Step)
    BY <1>5, <2>1, MinorUnitIsMultiple, MultiplesAddUp
  <2> QED BY <1>11, <2>1, <2>2
<1>13. \A i \in K : r[i] > 0
  <2>1. ~(total < 0)
    BY <1>1, <1>3, <1>7
  <2> QED BY <1>1, <1>2, <1>4, <2>1 DEF LoopInv
<1>14. r[k] > 0
  <2>1. PICK j \in 1..n : j \notin K /\ r[j] # 0
    <3>1. ~NothingElseCut(t, w, K)
      BY <1>3, <1>5, <1>7, LeftoverOfCharge
    <3> QED BY <1>1, <3>1 DEF NothingElseCut
  <2>2. r[j] > 0 /\ r[j] \in Int
    <3>1. j \in 1..Len(w) /\ r[j] \in Int
      BY <1>1, <1>3
    <3>2. 0 <= Discarded(t, w)[j]
      BY <1>3, <1>7, <3>1, CutBounds
    <3> QED BY <1>1, <2>1, <3>1, <3>2
  <2>3. CASE j = k
    BY <2>2, <2>3
  <2>4. CASE j # k
    <3>1. Leads(Foremost(o, idx + 1), r, n)
      BY <1>3, <1>9, ForemostLead
    <3>2. Before(r, k, j)
      BY <1>9, <2>1, <2>4, <3>1 DEF Leads
    <3>3. r[k] \in Int
      BY <1>3, <1>9
    <3> QED BY <2>2, <3>2, <3>3 DEF Before
  <2> QED BY <2>3, <2>4
<1>15. \A i \in Foremost(o, idx + 1) : r[i] > 0
  BY <1>9, <1>13, <1>14
<1>16. RanksInv'
  <2>1. o = Ranked(r)
    BY <1>1, <1>2 DEF RanksInv
  <2> QED BY <1>1, <1>2, <1>3, <1>9, <2>1 DEF RanksInv
<1>17. ~(t < 0)
  BY <1>3, <1>7
<1> QED BY <1>1, <1>2, <1>10, <1>11, <1>12, <1>15, <1>16, <1>17 DEF LoopInv

\* Less than a minor unit is left of a charge, and nothing of one that fits the
\* precision, when the loop ends.
LEMMA ResidueOfCharge ==
  ASSUME ShareInv, RanksInv, LoopInv, Finish, total >= 0
  PROVE  /\ 0 <= leftover /\ leftover < Step
         /\ total % Step = 0 => leftover = 0
<1>1. remainders # <<>> /\ result = "running" /\ ~(leftover >= Step /\ idx < Len(remainders))
  BY DEF Finish
<1>2. PICK l \in Int, t \in Int : l = leftover /\ t = total
  BY <1>1, LoopFacts
<1>3. Step \in Int
  BY MinorUnitIsMultiple
<1>4. l < Step
  <2>1. idx < Len(remainders)
    BY <1>1, LoopFacts
  <2> QED BY <1>1, <1>2, <1>3, <2>1
<1>5. 0 <= l /\ Multiple(t - l)
  <2>1. ~(total < 0)
    BY <1>2
  <2> QED BY <1>1, <1>2, <2>1 DEF LoopInv
<1>6. ASSUME t % Step = 0 PROVE l = 0
  <2>1. Multiple(t)
    BY <1>6, MultiplesDivide
  <2>2. PICK x \in Int : x = t - l
    OBVIOUS
  <2>3. Multiple(t - x)
    BY <1>5, <2>1, <2>2, MultiplesAddUp
  <2>4. t - x = l
    BY <2>2
  <2> QED BY <1>4, <1>5, <2>3, <2>4, SmallMultiple
<1> QED BY <1>2, <1>4, <1>5, <1>6

\* The last assignment leaves the shares as far from usage as SharesFollowUsage
\* says, and those of a charge that fits the precision as they are.
LEMMA FinishKeepsUsage ==
  ASSUME ShareInv, RanksInv, LoopInv, Finish
  PROVE  SharesFollowUsage' /\ OutcomeInv'
<1>1. PICK t, w, n, r, o, f, l :
         /\ t = total /\ w = weights /\ n = Len(w) /\ r = Discarded(t, w) /\ o = remainders
         /\ f = floored /\ l = leftover
  OBVIOUS
<1>2. PICK k : k = o[1]
  OBVIOUS
<1>3. /\ o # <<>> /\ result = "running"
      /\ floored' = [f EXCEPT ![k] = @ + l] /\ result' = "ok"
      /\ total' = t /\ weights' = w /\ remainders' = o
  BY <1>1, <1>2 DEF Finish
<1>4. /\ t \in Int /\ w \in Seq(Int) /\ Divisible(w) /\ n \in Nat \ {0} /\ r \in [1..n -> Int]
      /\ idx \in 0..n /\ Orders(o, r, n) /\ l \in Int /\ Sum(f) \in Int /\ Sum(f) + l = t
      /\ (t < 0 => Foremost(o, idx) = {})
  BY <1>1, <1>3, LoopFacts
<1>5. PICK K : K = Foremost(o, idx)
  OBVIOUS
<1>6. ToppedUp(t, w, f, K)
  BY <1>1, <1>3, <1>5 DEF LoopInv
<1>7. k \in 1..n /\ CutHardest(t, w, k)
  <2>1. o \in [1..n -> 1..n] /\ (\A i, j \in 1..n : i < j => Before(r, o[i], o[j]))
        /\ (\A i \in 1..n : \E j \in 1..n : i = o[j]) /\ 1 \in 1..n
    <3>1. 1 \in 1..n
      BY <1>4
    <3> QED BY <1>4, <3>1, Zenon DEF Orders, Sorts
  <2>2. ASSUME NEW i \in 1..n PROVE r[k] >= r[i]
    <3>1. PICK j \in 1..n : i = o[j]
      BY <2>1
    <3>2. r[k] \in Int /\ r[i] \in Int
      BY <1>2, <1>4, <2>1
    <3>3. CASE j = 1
      BY <1>2, <3>1, <3>2, <3>3
    <3>4. CASE j # 1
      <4>1. 1 < j
        BY <3>4
      <4>2. Before(r, k, i)
        BY <1>2, <2>1, <3>1, <4>1
      <4> QED BY <3>2, <4>2 DEF Before
    <3> QED BY <3>3, <3>4
  <2> QED BY <1>1, <1>2, <2>1, <2>2 DEF CutHardest
<1>8. PICK h : h = [f EXCEPT ![k] = @ + l]
  OBVIOUS
<1>9. Settled(h, f, k, l, t, w)
  <2>1. l = t - Sum(f)
    BY <1>4
  <2> QED BY <1>1, <1>4, <1>7, <1>8, <2>1 DEF Settled
<1>10. PICK U \in Int : U = Step * Sum(w)
  BY <1>4, Cuts
<1>11. ASSUME t >= 0
       PROVE  /\ 0 <= l /\ l < Step /\ (t % Step = 0 => l = 0)
              /\ OnlyCut(t, w, K)
  <2>1. ~(t < 0)
    BY <1>4, <1>11
  <2>2. \A i \in K : r[i] > 0
    BY <1>1, <1>3, <1>5, <2>1 DEF LoopInv
  <2>3. OnlyCut(t, w, K)
    BY <1>1, <2>2 DEF OnlyCut
  <2> QED BY <1>1, <1>11, <2>3, ResidueOfCharge
<1>12. ASSUME NEW i \in 1..n
       PROVE  /\ Distance(h, t, w, i) < U \/ i = o[1]
              /\ t < 0  => Distance(h, t, w, i) < n * U
              /\ t >= 0 => /\ w[i] = 0 => h[i] = 0
                           /\ Distance(h, t, w, i) < (IF t % Step = 0 THEN U ELSE 2 * U)
  <2>1. PICK x : x = Distance(h, t, w, i)
    OBVIOUS
  <2>2. i \in 1..Len(w)
    BY <1>1
  <2>3. CASE t >= 0
    <3>1. /\ x < U \/ i = k
          /\ l = 0 => x < U
          /\ x < 2 * U
          /\ w[i] = 0 => h[i] = 0
      <4>1. /\ t \in Int /\ w \in Seq(Int) /\ Divisible(w) /\ l \in Int
            /\ OnlyCut(t, w, K) /\ CutHardest(t, w, k) /\ 0 <= l /\ l < Step
        BY <1>4, <1>7, <1>11, <2>3
      <4>2. /\ Distance(h, t, w, i) < Step * Sum(w) \/ i = k
            /\ l = 0 => Distance(h, t, w, i) < Step * Sum(w)
            /\ Distance(h, t, w, i) < 2 * (Step * Sum(w))
            /\ w[i] = 0 => h[i] = 0
        BY <1>6, <1>9, <2>2, <2>3, <4>1, UsageOfCharge
      <4> QED BY <1>10, <2>1, <4>2
    <3>2. ~(t < 0)
      BY <1>4, <2>3
    <3> QED BY <1>2, <1>11, <2>1, <2>3, <3>1, <3>2
  <2>4. CASE t < 0
    <3>1. (x < U \/ i = k) /\ x < n * U
      BY <1>1, <1>4, <1>5, <1>6, <1>9, <1>10, <2>1, <2>2, <2>4, UsageOfCredit
    <3>2. ~(t >= 0)
      BY <1>4, <2>4
    <3> QED BY <1>2, <2>1, <2>4, <3>1, <3>2
  <2> QED BY <1>4, <2>3, <2>4
<1>13. SharesFollowUsage'
  <2>1. DOMAIN w = 1..n
    BY <1>1, <1>4
  <2>2. floored' = h
    BY <1>3, <1>8
  <2> QED BY <1>1, <1>3, <1>10, <1>12, <2>1, <2>2 DEF SharesFollowUsage, Off, Distance
<1>14. ASSUME t >= 0, t % Step = 0 PROVE LargestRemainder(t, w, h)
  <2>1. l = 0
    BY <1>11, <1>14
  <2>2. f \in [1..Len(w) -> Int]
    BY <1>6 DEF ToppedUp
  <2>3. h = f
    <3>1. ASSUME NEW i \in 1..Len(w) PROVE h[i] = f[i]
      <4>1. f[i] \in Int
        BY <2>2
      <4>2. h[i] = IF i = k THEN f[i] + 0 ELSE f[i]
        BY <1>8, <2>1, <2>2
      <4> QED BY <4>1, <4>2
    <3>2. h = [i \in 1..Len(w) |-> h[i]] /\ f = [i \in 1..Len(w) |-> f[i]]
      BY <1>8, <2>2
    <3> QED BY <3>1, <3>2
  <2>4. Sum(f) = t
    BY <1>4, <2>1
  <2>5. ToppedUp(t, w, f, Foremost(Ranked(CutSizes(t, w)), idx))
    <3>1. CutSizes(t, w) = r
      BY <1>1, <1>4, <1>14, CutSizeBounds
    <3>2. o = Ranked(r)
      BY <1>1, <1>3 DEF RanksInv
    <3> QED BY <1>5, <1>6, <3>1, <3>2
  <2>6. LargestRemainder(t, w, f)
    BY <1>1, <1>4, <2>4, <2>5, ToppedUpIsLargestRemainder
  <2> QED BY <2>3, <2>6
<1>15. OutcomeInv'
  BY <1>3, <1>4, <1>8, <1>14 DEF OutcomeInv, Errors
<1> QED BY <1>13, <1>15

LEMMA ApportionStarts ==
  ASSUME total \in Int, weights \in Seq(Int), remainders = <<>>, idx = 0,
         result = "running" \/ (result = "NoWeights" /\ weights = <<>>)
  PROVE  ApportionInv
<1>1. result # "ok"
  OBVIOUS
<1>2. result \in Errors => ~Divisible(weights)
  BY NothingIsNotDivisible DEF Errors
<1>3. result \in Errors \union {"running", "ok"}
  BY DEF Errors
<1> QED BY <1>1, <1>2, <1>3
        DEF ApportionInv, ShareInv, RanksInv, LoopInv, OutcomeInv, SharesFollowUsage

LEMMA ApportionKeeps ==
  ASSUME ApportionInv, [Next]_vars
  PROVE  ApportionInv'
<1>1. /\ ShareInv /\ RanksInv /\ LoopInv /\ OutcomeInv /\ SharesFollowUsage
  BY DEF ApportionInv
<1>2. CASE Reject
  <2>1. /\ remainders = <<>> /\ result' \in Errors /\ result' # "ok"
        /\ UNCHANGED <<total, weights, floored, remainders, leftover, idx>>
    BY <1>2 DEF Reject, Errors
  <2>2. ~Divisible(weights)
    <3>1. CASE weights = <<>>
      BY <3>1, NothingIsNotDivisible
    <3>2. CASE weights # <<>>
      <4>1. (\E i \in DOMAIN weights : weights[i] < 0) \/ Sum(weights) <= 0
        BY <1>2, <3>2 DEF Reject
      <4>2. CASE \E i \in DOMAIN weights : weights[i] < 0
        <5>1. PICK i \in DOMAIN weights : weights[i] < 0
          BY <4>2
        <5>2. weights[i] \in Int
          BY <1>1, <5>1 DEF ShareInv
        <5>3. ~(weights[i] >= 0)
          BY <5>1, <5>2
        <5> QED BY <5>3 DEF Divisible
      <4>3. CASE Sum(weights) <= 0
        <5> SUFFICES ASSUME Divisible(weights) PROVE FALSE
          OBVIOUS
        <5>1. Sum(weights) \in Int /\ Sum(weights) > 0
          BY <1>1, Cuts DEF ShareInv
        <5> QED BY <4>3, <5>1
      <4> QED BY <4>1, <4>2, <4>3
    <3> QED BY <3>1, <3>2
  <2> QED BY <1>1, <2>1, <2>2
          DEF ApportionInv, ShareInv, RanksInv, LoopInv, OutcomeInv, SharesFollowUsage, Errors
<1>3. CASE Floor
  <2>1. ShareInv' /\ RanksInv' /\ LoopInv'
    BY <1>1, <1>3, FloorKeepsTotal, FloorKeepsLoop
  <2>2. result' = "running"
    BY <1>3 DEF Floor
  <2> QED BY <2>1, <2>2 DEF ApportionInv, OutcomeInv, SharesFollowUsage, Errors
<1>4. CASE TopUp
  <2>1. ShareInv' /\ RanksInv' /\ LoopInv'
    BY <1>1, <1>4, TopUpKeepsTotal, TopUpKeepsLoop
  <2>2. result' = "running"
    BY <1>4 DEF TopUp
  <2> QED BY <2>1, <2>2 DEF ApportionInv, OutcomeInv, SharesFollowUsage, Errors
<1>5. CASE Finish
  <2>1. ShareInv' /\ SharesFollowUsage' /\ OutcomeInv'
    BY <1>1, <1>5, FinishKeepsTotal, FinishKeepsUsage
  <2>2. result' = "ok" /\ UNCHANGED <<total, weights, remainders, idx>>
    BY <1>5 DEF Finish
  <2> QED BY <1>1, <2>1, <2>2 DEF ApportionInv, RanksInv, LoopInv
<1>6. CASE UNCHANGED vars
  BY <1>1, <1>6 DEF vars, ApportionInv, ShareInv, RanksInv, LoopInv, OutcomeInv, SharesFollowUsage, Off
<1> QED BY <1>2, <1>3, <1>4, <1>5, <1>6 DEF Next

LEMMA WeightsAreIntegers ==
  ASSUME NEW w \in BoundedSeq(Weights, MaxShares)
  PROVE  w \in Seq(Int)
<1>1. PICK m \in 0..MaxShares : w \in [1..m -> Weights]
  BY DEF BoundedSeq, SeqOf
<1>2. \A i \in 1..m : w[i] \in Int
  BY <1>1, SharesAssumption
<1>3. w \in [1..m -> Int] /\ m \in Nat
  BY <1>1, <1>2, SharesAssumption
<1> QED BY <1>3

\* What apportion bills is what usage says, to less than one minor unit a share; an
\* idle workload pays nothing; the error a credit or a total finer than the
\* precision leaves stays on one share, and is bounded: for every total, all
\* weights, any number of them and every minor unit.
THEOREM UsageIsBilled ==
  Spec => []SharesFollowUsage
<1>1. Init => ApportionInv
  <2> SUFFICES ASSUME Init PROVE ApportionInv
    OBVIOUS
  <2>1. total \in Int /\ weights \in Seq(Int)
    BY SharesAssumption, WeightsAreIntegers DEF Init
  <2> QED BY <2>1, ApportionStarts DEF Init
<1>2. ApportionInv /\ [Next]_vars => ApportionInv'
  BY ApportionKeeps
<1>3. ApportionInv => SharesFollowUsage
  BY DEF ApportionInv
<1> QED BY <1>1, <1>2, <1>3, PTL DEF Spec

-----------------------------------------------------------------------------
(* allocate: its arithmetic is apportion's, but for the order of the shares. *)

LEMMA SameSum ==
  ASSUME NEW w
  PROVE  Reference!Sum(w) = Sum(w)
BY Zenon DEF Reference!Sum, Sum, Reference!FoldSeq, FoldSeq, Reference!FoldFunction, FoldFunction,
   Reference!FoldFunctionOnSet, FoldFunctionOnSet, Reference!MapThenFoldSet, MapThenFoldSet

LEMMA SameTruncated ==
  ASSUME NEW t, NEW w
  PROVE  Reference!Truncated(t, w) = Truncated(t, w)
BY SameSum, Zenon DEF Reference!Truncated, Truncated, Reference!ToZero, ToZero,
   Reference!Magnitude, Magnitude

LEMMA SameDiscarded ==
  ASSUME NEW t, NEW w
  PROVE  Reference!Discarded(t, w) = Discarded(t, w)
BY SameSum, SameTruncated, Zenon DEF Reference!Discarded, Discarded

LEMMA SameRanking ==
  ASSUME NEW t, NEW w
  PROVE  Reference!RankedBySize(t, w) = Ranked(CutSizes(t, w))
<1>1. PICK d : d = Discarded(t, w)
  OBVIOUS
<1>2. PICK c : c = [i \in DOMAIN w |-> Magnitude(d[i])]
  OBVIOUS
<1>3. CutSizes(t, w) = c
  BY <1>1, <1>2, Zenon DEF CutSizes
<1>4. Reference!Discarded(t, w) = d
  BY <1>1, SameDiscarded
<1>5. Reference!RankedBySize(t, w) = Reference!Ranked([i \in DOMAIN w |-> Reference!Magnitude(d[i])])
  BY <1>4, Zenon DEF Reference!RankedBySize
<1>6. [i \in DOMAIN w |-> Reference!Magnitude(d[i])] = c
  BY <1>2, Zenon DEF Reference!Magnitude, Magnitude
<1>7. Reference!Ranked(c) = Ranked(c)
  BY Zenon DEF Reference!Ranked, Ranked, Reference!Before, Before
<1> QED BY <1>3, <1>5, <1>6, <1>7

\* The actions of allocate in apportion's arithmetic.
LEMMA TruncateIs ==
  ASSUME Reference!Truncate
  PROVE  /\ answer = "running" /\ ranking = <<>>
         /\ (\A i \in DOMAIN weights : weights[i] >= 0) /\ Sum(weights) # 0
         /\ parts' = Truncated(total, weights) /\ rest' = total - Sum(Truncated(total, weights))
         /\ ranking' = Reference!RankedBySize(total, weights)
         /\ answer' = (IF rest' = 0 THEN "ok" ELSE "running")
         /\ UNCHANGED <<total, weights, cursor>>
<1>1. parts' = Truncated(total, weights)
  BY SameTruncated DEF Reference!Truncate
<1>2. rest' = total - Reference!Sum(parts') /\ Sum(weights) = Reference!Sum(weights)
  BY SameSum DEF Reference!Truncate
<1>3. rest' = total - Sum(Truncated(total, weights))
  BY <1>1, <1>2, SameSum
<1> QED BY <1>1, <1>2, <1>3 DEF Reference!Truncate

LEMMA HandOutIs ==
  ASSUME Reference!HandOut, NEW u, u = Toward(total, Step),
         NEW k, k = ranking[(cursor % Len(ranking)) + 1]
  PROVE  /\ answer = "running" /\ ranking # <<>>
         /\ parts' = [parts EXCEPT ![k] = @ + u] /\ rest' = rest - u /\ cursor' = cursor + 1
         /\ answer' = (CASE cursor' > 2 * Len(ranking) -> "Overflow"
                         [] cursor' <= 2 * Len(ranking) /\ rest' = 0 -> "ok"
                         [] OTHER -> "running")
         /\ UNCHANGED <<total, weights, ranking>>
BY DEF Reference!HandOut, Toward

LEMMA RejectIs ==
  ASSUME Reference!Reject
  PROVE  /\ ranking = <<>> /\ answer' \in {"NoWeights", "NegativeWeight", "ZeroWeight"}
         /\ \/ weights = <<>>
            \/ \E i \in DOMAIN weights : weights[i] < 0
            \/ \A i \in DOMAIN weights : weights[i] = 0
         /\ UNCHANGED <<total, weights, parts, ranking, rest, cursor>>
BY DEF Reference!Reject

LEMMA IdleIsNotDivisible ==
  ASSUME NEW w \in Seq(Int), \A i \in DOMAIN w : w[i] = 0
  PROVE  ~Divisible(w)
<1>1. PICK n \in Nat : n = Len(w)
  OBVIOUS
<1>2. w \in [1..n -> Int] /\ IsFiniteSet(1..n) /\ DOMAIN w = 1..n
  BY <1>1, FS_Interval
<1>3. Sum(w) = Total(w, 1..n)
  BY <1>2, SumIsTotal
<1>4. Sum(w) = 0
  BY <1>2, <1>3, TotalOfZeros
<1> QED BY <1>4 DEF Divisible

\* The indices of allocate are sorted by the size of what was cut.
LEMMA RankingOrders ==
  ASSUME total \in Int, weights \in Seq(Int), PartsInv, ranking # <<>>
  PROVE  /\ Divisible(weights) /\ Len(weights) \in Nat \ {0}
         /\ ranking = Ranked(CutSizes(total, weights))
         /\ Orders(ranking, CutSizes(total, weights), Len(weights))
         /\ Len(ranking) = Len(weights)
         /\ ranking \in [1..Len(weights) -> 1..Len(weights)]
<1>1. Divisible(weights) /\ ranking = Ranked(CutSizes(total, weights))
  BY SameRanking DEF PartsInv
<1>2. PICK n \in Nat \ {0} : n = Len(weights)
  BY <1>1, Cuts
<1>3. Orders(ranking, CutSizes(total, weights), n)
  BY <1>1, <1>2, CutSizeBounds, RankedOrders
<1>4. ranking \in [1..n -> 1..n]
  BY <1>3 DEF Orders, Sorts
<1>5. Len(ranking) = n
  BY <1>2, <1>4
<1> QED BY <1>1, <1>2, <1>3, <1>4, <1>5

LEMMA RemainderIsBelow ==
  ASSUME NEW a \in Nat, NEW n \in Nat \ {0}
  PROVE  a % n \in 0..(n - 1) /\ (a < n => a % n = a)
OBVIOUS

LEMMA TruncateKeeps ==
  ASSUME AllocateInv, Reference!Truncate, result # "running", result' = result
  PROVE  AllocateInv'
<1>1. PICK t, w : t = total /\ w = weights
  OBVIOUS
<1>2. /\ ranking = <<>> /\ rest' = t - Sum(Truncated(t, w)) /\ parts' = Truncated(t, w)
      /\ ranking' = Reference!RankedBySize(t, w)
      /\ answer' = (IF rest' = 0 THEN "ok" ELSE "running")
      /\ total' = t /\ weights' = w /\ cursor' = cursor
      /\ (\A i \in DOMAIN w : w[i] >= 0) /\ Sum(w) # 0
  BY <1>1, TruncateIs
<1>3. t \in Int /\ w \in Seq(Int) /\ cursor = 0
  BY <1>1, <1>2 DEF AllocateInv, PartsInv
<1>4. Divisible(w)
  <2>1. PICK n \in Nat : n = Len(w)
    BY <1>3
  <2>2. w \in [1..n -> Int] /\ IsFiniteSet(1..n) /\ DOMAIN w = 1..n
    BY <1>3, <2>1, FS_Interval
  <2>3. Sum(w) = Total(w, 1..n) /\ Valued(w, 1..n) /\ Sum(w) \in Int
    BY <2>2, SumIsTotal, SumType
  <2>4. PICK z : z = [i \in 1..n |-> 0]
    OBVIOUS
  <2>5. Total(z, 1..n) = 0 /\ Valued(z, 1..n)
    <3>1. \A i \in 1..n : z[i] = 0 /\ 0 \in Int
      BY <2>4
    <3> QED BY <2>2, <3>1, TotalOfZeros DEF Valued
  <2>6. NeverAbove(z, w, 1..n)
    BY <1>2, <2>2, <2>4 DEF NeverAbove
  <2>7. Total(z, 1..n) <= Total(w, 1..n)
    BY <2>2, <2>3, <2>5, <2>6, TotalMonotone
  <2>8. Sum(w) > 0
    BY <1>2, <2>3, <2>5, <2>7
  <2> QED BY <1>2, <2>8 DEF Divisible
<1>5. PICK f : f = Truncated(t, w)
  OBVIOUS
<1>6. f \in [1..Len(w) -> Int] /\ Sum(f) \in Int /\ Multiple(Sum(f))
  BY <1>3, <1>4, <1>5, Cuts, TruncatedIsMultiple
<1>7. ToppedUp(t, w, f, {})
  <2>1. ASSUME NEW i \in 1..Len(w) PROVE f[i] = Truncated(t, w)[i] + 0
    <3>1. f[i] \in Int
      BY <1>6
    <3> QED BY <1>5, <3>1
  <2> QED BY <1>6, <2>1 DEF ToppedUp
<1>8. rest' = t - Sum(f) /\ rest' \in Int
  BY <1>2, <1>3, <1>5, <1>6
<1>9. PICK n \in Nat \ {0} : n = Len(w)
  BY <1>3, <1>4, Cuts
<1>10. PICK o : o = Ranked(CutSizes(t, w))
  OBVIOUS
<1>11. ranking' = o /\ o # <<>> /\ Foremost(o, 0) = {}
  <2>1. CutSizes(t, w) \in [1..n -> Int]
    BY <1>3, <1>4, <1>9, CutSizeBounds
  <2>2. o \in [1..n -> 1..n]
    BY <1>9, <1>10, <2>1, RankedSorts DEF Sorts
  <2>3. Len(o) = n /\ Len(<<>>) = 0
    BY <1>9, <2>2
  <2> QED BY <1>2, <1>9, <1>10, <2>3, SameRanking DEF Foremost
<1>12. Toward(t, rest') >= 0
  <2>1. PICK K : K = {}
    OBVIOUS
  <2>2. ToppedUp(t, w, f, K) /\ \A i \in 1..Len(w) : i \notin K
    BY <1>7, <2>1
  <2>3. Toward(t, t - Sum(f)) >= 0
    BY <1>3, <1>4, <2>2, ToppedLeftover
  <2> QED BY <1>8, <2>3
<1>13. PartsInv'
  BY <1>2, <1>4, <1>5, <1>6, <1>8, <1>11 DEF PartsInv
<1>14. PassesInv'
  <2> SUFFICES ASSUME answer' = "running"
               PROVE  /\ cursor' \in 0..(Len(w) - 1)
                      /\ ToppedUp(t, w, f, Foremost(o, 0))
                      /\ Toward(t, rest') > 0
    BY <1>2, <1>3, <1>5, <1>11 DEF PassesInv
  <2>1. rest' # 0
    BY <1>2
  <2>2. Toward(t, rest') > 0
    BY <1>8, <1>12, <2>1 DEF Toward
  <2>3. cursor' \in 0..(Len(w) - 1)
    BY <1>2, <1>3, <1>9
  <2> QED BY <1>7, <1>11, <2>2, <2>3
<1>15. ASSUME answer' = "ok"
       PROVE  t % Step = 0 /\ LargestRemainder(t, w, f)
  <2>1. rest' = 0
    BY <1>2, <1>15
  <2>2. Sum(f) = t
    BY <1>3, <1>6, <1>8, <2>1
  <2>3. t % Step = 0
    BY <1>3, <1>6, <2>2, MultiplesDivide
  <2>4. 0 \in 0..Len(w)
    BY <1>9
  <2>5. LargestRemainder(t, w, f)
    BY <1>3, <1>4, <1>7, <1>10, <1>11, <2>2, <2>4, ToppedUpIsLargestRemainder
  <2> QED BY <2>3, <2>5
<1>16. AnswerInv'
  <2>1. answer' \in {"ok", "running"}
    BY <1>2
  <2> QED BY <1>2, <1>5, <1>11, <1>15, <2>1
          DEF AnswerInv, PartsAreLargestRemainder, OverflowsOnlyWhenTooPrecise
<1>17. total' \in Int /\ weights' \in Seq(Int) /\ cursor' \in Nat
  BY <1>2, <1>3
<1> QED BY <1>13, <1>14, <1>16, <1>17 DEF AllocateInv

\* A pass hands one minor unit out.  Of a total that fits the precision there is at
\* least one, and it goes to the share cut hardest of those that have none yet.
LEMMA HandOutKeeps ==
  ASSUME AllocateInv, Reference!HandOut, result # "running", result' = result
  PROVE  AllocateInv'
<1>1. PICK t, w, n, u, k, o, c :
         /\ t = total /\ w = weights /\ n = Len(w) /\ u = Toward(total, Step) /\ o = ranking
         /\ k = ranking[(cursor % Len(ranking)) + 1] /\ c = CutSizes(t, w)
  OBVIOUS
<1>2. /\ answer = "running" /\ o # <<>>
      /\ parts' = [parts EXCEPT ![k] = @ + u] /\ rest' = rest - u /\ cursor' = cursor + 1
      /\ answer' = (CASE cursor' > 2 * Len(o) -> "Overflow"
                      [] cursor' <= 2 * Len(o) /\ rest' = 0 -> "ok"
                      [] OTHER -> "running")
      /\ total' = t /\ weights' = w /\ ranking' = o
  BY <1>1, HandOutIs
<1>3. /\ t \in Int /\ w \in Seq(Int) /\ cursor \in Nat /\ PartsInv
      /\ parts \in [1..n -> Int] /\ rest = t - Sum(parts) /\ Multiple(Sum(parts))
  BY <1>1, <1>2 DEF AllocateInv, PartsInv
<1>4. /\ Divisible(w) /\ n \in Nat \ {0} /\ o = Ranked(c) /\ Orders(o, c, n) /\ Len(o) = n
      /\ o \in [1..n -> 1..n]
  BY <1>1, <1>2, <1>3, RankingOrders
<1>5. /\ u \in Int /\ Multiple(u) /\ Step \in Int /\ Step > 0
      /\ (t < 0 => u = -Step) /\ (~(t < 0) => u = Step)
  <2>1. Step \in Int /\ Step > 0 /\ Multiple(Step)
    BY MinorUnitIsMultiple
  <2>2. Multiple(-Step)
    BY <2>1, MultiplesAddUp
  <2> QED BY <1>1, <1>3, <2>1, <2>2 DEF Toward
<1>6. k \in 1..n
  <2>1. PICK m \in Nat : m = cursor % n /\ m < n
    <3>1. cursor % n \in 0..(n - 1)
      BY <1>3, <1>4, RemainderIsBelow
    <3> QED BY <1>4, <3>1
  <2>2. m + 1 \in 1..n /\ k = o[m + 1]
    BY <1>1, <1>4, <2>1
  <2> QED BY <1>4, <2>2
<1>7. PICK h : h = [parts EXCEPT ![k] = @ + u]
  OBVIOUS
<1>8. h \in [1..n -> Int] /\ Sum(h) = Sum(parts) + u /\ Sum(parts) \in Int
  <2>1. PICK S, f : S = 1..n /\ f = parts
    OBVIOUS
  <2>2. IsFiniteSet(S) /\ f \in [S -> Int] /\ k \in S /\ u \in Int
    BY <1>3, <1>4, <1>5, <1>6, <2>1, FS_Interval
  <2>3. /\ [f EXCEPT ![k] = @ + u] \in [S -> Int]
        /\ Sum([f EXCEPT ![k] = @ + u]) = Sum(f) + u
        /\ Sum(f) \in Int
    BY <2>2, BumpShare
  <2> QED BY <1>7, <2>1, <2>3
<1>9. rest \in Int /\ rest' \in Int /\ rest' = t - Sum(h) /\ Multiple(Sum(h))
  <2>1. Multiple(Sum(h))
    BY <1>3, <1>5, <1>8, MultiplesAddUp
  <2> QED BY <1>2, <1>3, <1>5, <1>8, <2>1
<1>10. PartsInv'
  <2>1. ranking = Reference!RankedBySize(t, w)
    BY <1>1, <1>2 DEF AllocateInv, PartsInv
  <2> QED BY <1>1, <1>2, <1>4, <1>7, <1>8, <1>9, <2>1 DEF PartsInv
<1>11. ASSUME t % Step = 0
       PROVE  /\ cursor \in 0..(n - 1) /\ cursor + 1 \in 0..n
              /\ ToppedUp(t, w, h, Foremost(o, cursor + 1))
              /\ Toward(t, rest') >= 0
              /\ cursor + 1 # n
                 \/ 1..n \subseteq Foremost(o, cursor + 1)
  <2>1. /\ cursor \in 0..(n - 1) /\ ToppedUp(t, w, parts, Foremost(o, cursor))
        /\ Toward(t, rest) > 0
    BY <1>1, <1>2, <1>11 DEF AllocateInv, PassesInv
  <2>2. cursor \in 0..n /\ cursor < n
    BY <1>4, <2>1
  <2>3. cursor % n = cursor
    BY <1>3, <1>4, <2>2, RemainderIsBelow
  <2>4. k = o[cursor + 1]
    BY <1>1, <1>4, <2>3
  <2>5. /\ k \notin Foremost(o, cursor) /\ cursor + 1 \in 0..n
        /\ Foremost(o, cursor + 1) = Foremost(o, cursor) \union {k}
    BY <1>4, <2>2, <2>4, ForemostGrows
  <2>6. ToppedUp(t, w, h, Foremost(o, cursor + 1))
    <3>1. ToppedUp(t, w, [parts EXCEPT ![k] = @ + Toward(t, Step)], Foremost(o, cursor) \union {k})
      BY <1>1, <1>3, <1>4, <1>6, <2>1, <2>5, TopUpOne
    <3> QED BY <1>1, <1>7, <2>5, <3>1
  <2>7. Toward(t, rest') >= 0
    <3>1. PICK z \in Int : z = Toward(t, rest) /\ z > 0
      BY <1>9, <2>1 DEF Toward
    <3>2. Multiple(t)
      BY <1>3, <1>11, MultiplesDivide
    <3>3. Multiple(rest) /\ Multiple(-rest)
      <4>1. Multiple(rest)
        BY <1>3, <1>8, <3>2, MultiplesAddUp
      <4> QED BY <1>9, <4>1, MultiplesAddUp
    <3>4. Multiple(z)
      BY <3>1, <3>3 DEF Toward
    <3>5. z >= Step
      BY <1>5, <3>1, <3>4, SmallMultiple
    <3>6. Toward(t, rest') = z - Step
      BY <1>2, <1>3, <1>5, <1>9, <3>1 DEF Toward
    <3> QED BY <1>5, <3>1, <3>5, <3>6
  <2>8. cursor + 1 = n => 1..n \subseteq Foremost(o, cursor + 1)
    BY <1>4, <2>5, ForemostLead
  <2> QED BY <2>1, <2>5, <2>6, <2>7, <2>8
<1>12. ASSUME t % Step = 0 PROVE cursor + 1 # n
  <2> SUFFICES ASSUME cursor + 1 = n PROVE FALSE
    OBVIOUS
  <2>1. 1..n \subseteq Foremost(o, cursor + 1) /\ ToppedUp(t, w, h, Foremost(o, cursor + 1))
        /\ Toward(t, rest') >= 0
    BY <1>11, <1>12
  <2>2. \A i \in 1..Len(w) : i \in Foremost(o, cursor + 1)
    BY <1>1, <2>1
  <2>3. Toward(t, t - Sum(h)) < 0 /\ Toward(t, t - Sum(h)) \in Int
    BY <1>3, <1>4, <2>1, <2>2, ToppedLeftover
  <2> QED BY <1>9, <2>1, <2>3
<1>13. PassesInv'
  <2> SUFFICES ASSUME answer' = "running", t % Step = 0
               PROVE  /\ cursor' \in 0..(n - 1)
                      /\ ToppedUp(t, w, h, Foremost(o, cursor'))
                      /\ Toward(t, rest') > 0
    BY <1>1, <1>2, <1>7 DEF PassesInv
  <2>1. cursor' \in 0..(n - 1) /\ cursor' < n
    BY <1>2, <1>3, <1>4, <1>11, <1>12
  <2>2. cursor' <= 2 * Len(o) /\ ~(cursor' > 2 * Len(o))
    BY <1>4, <2>1
  <2>3. rest' # 0
    BY <1>2, <2>2
  <2>4. Toward(t, rest') > 0
    BY <1>9, <1>11, <2>3 DEF Toward
  <2> QED BY <1>2, <1>11, <2>1, <2>4
<1>14. ASSUME answer' = "ok" PROVE t % Step = 0 /\ LargestRemainder(t, w, h)
  <2>1. rest' = 0
    BY <1>2, <1>14
  <2>2. Sum(h) = t
    BY <1>3, <1>5, <1>8, <1>9, <2>1
  <2>3. t % Step = 0
    BY <1>3, <1>9, <2>2, MultiplesDivide
  <2>4. cursor + 1 \in 0..Len(w) /\ ToppedUp(t, w, h, Foremost(Ranked(CutSizes(t, w)), cursor + 1))
    BY <1>1, <1>4, <1>11, <2>3
  <2> QED BY <1>3, <1>4, <2>2, <2>3, <2>4, ToppedUpIsLargestRemainder
<1>15. ASSUME answer' = "Overflow" PROVE t % Step # 0
  <2> SUFFICES ASSUME t % Step = 0 PROVE FALSE
    OBVIOUS
  <2>1. cursor + 1 \in 0..n
    BY <1>11
  <2>2. ~(cursor' > 2 * Len(o))
    BY <1>2, <1>4, <2>1
  <2> QED BY <1>2, <1>15, <2>2
<1>16. AnswerInv'
  <2>1. answer' \in {"ok", "running", "Overflow"}
    BY <1>2
  <2> QED BY <1>2, <1>7, <1>14, <1>15, <2>1
          DEF AnswerInv, PartsAreLargestRemainder, OverflowsOnlyWhenTooPrecise
<1>17. total' \in Int /\ weights' \in Seq(Int) /\ cursor' \in Nat
  BY <1>2, <1>3
<1> QED BY <1>10, <1>13, <1>16, <1>17 DEF AllocateInv

LEMMA RejectKeeps ==
  ASSUME AllocateInv, Reference!Reject, result # "running", result' = result
  PROVE  AllocateInv'
<1>1. /\ total \in Int /\ weights \in Seq(Int) /\ ranking = <<>>
      /\ answer' \in {"NoWeights", "NegativeWeight", "ZeroWeight"}
      /\ UNCHANGED <<total, weights, parts, ranking, rest, cursor>>
  BY RejectIs DEF AllocateInv
<1>2. ~Divisible(weights)
  <2>1. CASE weights = <<>>
    BY <2>1, NothingIsNotDivisible
  <2>2. CASE \E i \in DOMAIN weights : weights[i] < 0
    <3>1. PICK i \in DOMAIN weights : weights[i] < 0
      BY <2>2
    <3>2. weights[i] \in Int
      BY <1>1, <3>1
    <3>3. ~(weights[i] >= 0)
      BY <3>1, <3>2
    <3> QED BY <3>3 DEF Divisible
  <2>3. CASE \A i \in DOMAIN weights : weights[i] = 0
    BY <1>1, <2>3, IdleIsNotDivisible
  <2> QED BY <2>1, <2>2, <2>3, RejectIs
<1>3. answer' # "ok" /\ answer' # "Overflow" /\ answer' # "running"
  BY <1>1
<1>4. AnswerInv'
  BY <1>1, <1>2, <1>3 DEF AnswerInv, PartsAreLargestRemainder, OverflowsOnlyWhenTooPrecise
<1>5. PartsInv' /\ PassesInv'
  BY <1>1, <1>3 DEF AllocateInv, PartsInv, PassesInv
<1> QED BY <1>1, <1>4, <1>5 DEF AllocateInv

\* Neither apportion nor the pricing of a line touches what allocate works on.
LEMMA OthersKeep ==
  ASSUME AllocateInv, UNCHANGED <<total, weights, parts, ranking, rest, cursor, answer>>,
         result' = "running" => result = "running"
  PROVE  AllocateInv'
<1>1. AnswerInv'
  BY DEF AllocateInv, AnswerInv, PartsAreLargestRemainder, OverflowsOnlyWhenTooPrecise
<1>2. PartsInv' /\ PassesInv'
  BY DEF AllocateInv, PartsInv, PassesInv
<1> QED BY <1>1, <1>2 DEF AllocateInv

SharingInv == ApportionInv /\ AllocateInv

LEMMA SharingStarts ==
  ASSUME AllInit
  PROVE  SharingInv
<1>1. /\ total \in Int /\ weights \in Seq(Int) /\ remainders = <<>> /\ idx = 0
      /\ \/ result = "running" /\ answer = "running"
         \/ result = "NoWeights" /\ answer = "NoWeights" /\ weights = <<>>
      /\ ranking = <<>> /\ cursor = 0
  <2>1. CASE Init /\ Reference!Init
    BY <2>1, SharesAssumption, WeightsAreIntegers DEF Init, Reference!Init
  <2>2. CASE ~(Init /\ Reference!Init)
    <3>1. /\ total = 0 /\ weights = <<>> /\ remainders = <<>> /\ idx = 0
          /\ result = "NoWeights" /\ answer = "NoWeights"
          /\ ranking = <<>> /\ cursor = 0
      BY <2>2 DEF AllInit
    <3>2. 0 \in Int /\ <<>> \in Seq(Int)
      OBVIOUS
    <3> QED BY <3>1, <3>2
  <2> QED BY <2>1, <2>2
<1>2. ApportionInv
  BY <1>1, ApportionStarts
<1>3. answer # "ok" /\ answer # "Overflow"
  BY <1>1
<1>4. AnswerInv
  <2>1. answer = "NoWeights" => ~Divisible(weights)
    BY <1>1, NothingIsNotDivisible
  <2> QED BY <1>1, <1>3, <2>1 DEF AnswerInv, PartsAreLargestRemainder, OverflowsOnlyWhenTooPrecise
<1>5. AllocateInv
  BY <1>1, <1>4 DEF AllocateInv, PartsInv, PassesInv
<1> QED BY <1>2, <1>5 DEF SharingInv

LEMMA SharingKeeps ==
  ASSUME SharingInv, [ApportionStep \/ AllocateStep \/ PriceStep]_allVars
  PROVE  SharingInv'
<1>1. ApportionInv /\ AllocateInv
  BY DEF SharingInv
<1>2. CASE ApportionStep
  <2>1. Next /\ UNCHANGED <<parts, ranking, rest, cursor, answer>>
    BY <1>2 DEF ApportionStep
  <2>2. UNCHANGED <<total, weights>> /\ result = "running"
    BY <2>1 DEF Next, Reject, Floor, TopUp, Finish
  <2>3. ApportionInv'
    BY <1>1, <2>1, ApportionKeeps
  <2>4. AllocateInv'
    BY <1>1, <2>1, <2>2, OthersKeep
  <2> QED BY <2>3, <2>4 DEF SharingInv
<1>3. CASE AllocateStep
  <2>1. /\ result # "running" /\ result' = result
        /\ Reference!Reject \/ Reference!Truncate \/ Reference!HandOut
        /\ UNCHANGED <<floored, remainders, leftover, idx, result>>
    BY <1>3 DEF AllocateStep, Reference!Next
  <2>2. UNCHANGED <<total, weights>>
    BY <2>1 DEF Reference!Reject, Reference!Truncate, Reference!HandOut
  <2>3. ApportionInv'
    <3>1. UNCHANGED vars
      BY <2>1, <2>2 DEF vars
    <3> QED BY <1>1, <3>1, ApportionKeeps
  <2>4. AllocateInv'
    BY <1>1, <2>1, RejectKeeps, TruncateKeeps, HandOutKeeps
  <2> QED BY <2>3, <2>4 DEF SharingInv
<1>4. CASE PriceStep \/ UNCHANGED allVars
  <2>1. UNCHANGED vars /\ UNCHANGED <<parts, ranking, rest, cursor, answer>>
    BY <1>4 DEF PriceStep, allVars, Reference!vars, vars
  <2>2. UNCHANGED <<total, weights, result>>
    BY <2>1 DEF vars
  <2>3. ApportionInv'
    BY <1>1, <2>1, ApportionKeeps
  <2>4. AllocateInv'
    BY <1>1, <2>1, <2>2, OthersKeep
  <2> QED BY <2>3, <2>4 DEF SharingInv
<1> QED BY <1>2, <1>3, <1>4

\* On a charge that fits the precision, each rule returns the one largest-remainder
\* split when the weights can be divided among, and refuses them otherwise.
LEMMA RulesAgree ==
  ASSUME SharingInv
  PROVE  RulesAgreeOnCharges
<1> SUFFICES ASSUME answer # "running", total >= 0, total % Step = 0
             PROVE  /\ result = "ok" <=> answer = "ok"
                    /\ result = "ok" => floored = parts
  BY DEF RulesAgreeOnCharges
<1>1. /\ ShareInv /\ RanksInv /\ OutcomeInv /\ AnswerInv /\ PartsInv
      /\ total \in Int /\ weights \in Seq(Int)
  BY DEF SharingInv, ApportionInv, AllocateInv
<1>2. result # "running" /\ (answer = "ok" => ranking # <<>>)
  BY <1>1 DEF AnswerInv
<1>3. answer \in {"ok", "NoWeights", "NegativeWeight", "ZeroWeight"}
  BY <1>1 DEF AnswerInv, OverflowsOnlyWhenTooPrecise
<1>4. answer # "ok" => ~Divisible(weights)
  BY <1>1, <1>3 DEF AnswerInv
<1>5. answer = "ok" => /\ Divisible(weights) /\ LargestRemainder(total, weights, parts)
                       /\ parts \in [1..Len(weights) -> Int]
  BY <1>1, <1>2 DEF AnswerInv, PartsInv, PartsAreLargestRemainder
<1>6. result = "ok" => /\ Divisible(weights) /\ LargestRemainder(total, weights, floored)
                       /\ floored \in [1..Len(weights) -> Int]
  BY <1>1 DEF OutcomeInv, RanksInv, ShareInv
<1>7. result # "ok" => ~Divisible(weights)
  BY <1>1, <1>2 DEF OutcomeInv
<1>8. result = "ok" <=> answer = "ok"
  BY <1>4, <1>5, <1>6, <1>7
<1>9. ASSUME result = "ok" PROVE floored = parts
  BY <1>1, <1>5, <1>6, <1>8, <1>9, LargestRemainderIsUnique
<1> QED BY <1>8, <1>9

LEMMA SharingIsInvariant ==
  SharingSpec => []SharingInv
BY SharingStarts, SharingKeeps, PTL DEF SharingSpec

\* Whenever allocate returns parts they are the largest-remainder split of the
\* total, of either sign.
THEOREM AllocatesByLargestRemainder ==
  SharingSpec => []PartsAreLargestRemainder
<1>1. SharingInv => PartsAreLargestRemainder
  BY DEF SharingInv, AllocateInv, AnswerInv
<1> QED BY <1>1, SharingIsInvariant, PTL

\* The limit on the passes of allocate refuses a total only when it has more
\* precision than the scale, and every one that has: a total that fits leaves fewer
\* minor units than there are shares.
THEOREM OnlyFineTotalsOverflow ==
  SharingSpec => []OverflowsOnlyWhenTooPrecise
<1>1. SharingInv => OverflowsOnlyWhenTooPrecise
  BY DEF SharingInv, AllocateInv, AnswerInv
<1> QED BY <1>1, SharingIsInvariant, PTL

\* What is billed for shared infrastructure is what the corpus's reference would
\* allocate, for every charge that fits the precision and whatever the weights.
THEOREM BilledIsAllocated ==
  SharingSpec => []RulesAgreeOnCharges
<1>1. SharingInv => RulesAgreeOnCharges
  BY RulesAgree
<1> QED BY <1>1, SharingIsInvariant, PTL

-----------------------------------------------------------------------------
(* compute: products of what the discounts keep of a price. *)

\* One unfolding of the fold behind Retained, over the sets of discounts in D.
Keep(rates, ch, D, g) ==
    [s \in D |-> IF s = {} THEN 1 ELSE g[s \ {ch[s]}] * (Whole - rates[ch[s]])]

Products(rates, ch, S) == CHOOSE g : g = Keep(rates, ch, SUBSET S, g)

LEMMA ProductsDef ==
  ASSUME NEW rates, NEW S, IsFiniteSet(S), NEW ch, Choice(ch, S)
  PROVE  Products(rates, ch, S) = Keep(rates, ch, SUBSET S, Products(rates, ch, S))
<1> DEFINE T == {n \in Nat : \E g : g = Keep(rates, ch, Small(S, n), g)}
<1>1. 0 \in T
  <2>1. \A s \in Small(S, 0) : s = {}
    <3> SUFFICES ASSUME NEW s \in Small(S, 0), s # {} PROVE FALSE
      OBVIOUS
    <3>1. PICK x : x \in s
      OBVIOUS
    <3>2. Cardinality(s) \in Nat \ {0} /\ Cardinality(s) <= 0
      BY <3>1, RemoveOne DEF Small
    <3> QED BY <3>2
  <2> DEFINE g == [s \in Small(S, 0) |-> 1]
  <2>2. g = Keep(rates, ch, Small(S, 0), g)
    BY <2>1 DEF Keep
  <2> QED BY <2>2
<1>2. ASSUME NEW n \in Nat, n \in T PROVE n + 1 \in T
  <2>1. PICK g : g = Keep(rates, ch, Small(S, n), g)
    BY <1>2
  <2> DEFINE h == [s \in Small(S, n + 1) |->
                     IF s \in Small(S, n) THEN g[s]
                                          ELSE g[s \ {ch[s]}] * (Whole - rates[ch[s]])]
  <2>2. ASSUME NEW s \in Small(S, n + 1), s # {}
        PROVE  s \ {ch[s]} \in Small(S, n) /\ s \ {ch[s]} \in Small(S, n + 1)
    <3>0. PICK x : x = ch[s]
      OBVIOUS
    <3>1. x \in s /\ s \in SUBSET S /\ Cardinality(s) <= n + 1
      BY <2>2, <3>0 DEF Choice, Small
    <3>2. /\ s \ {x} \in SUBSET S /\ Cardinality(s) \in Nat
          /\ Cardinality(s \ {x}) = Cardinality(s) - 1
      BY <3>1, RemoveOne
    <3>3. Cardinality(s) - 1 <= n /\ Cardinality(s) - 1 <= n + 1
      BY <3>1, <3>2
    <3> QED BY <3>0, <3>2, <3>3 DEF Small
  <2>3. {} \in Small(S, n)
    <3>1. Cardinality({}) <= n
      BY FS_EmptySet
    <3> QED BY <3>1 DEF Small
  <2>4. ASSUME NEW s \in Small(S, n + 1)
        PROVE  h[s] = IF s = {} THEN 1 ELSE h[s \ {ch[s]}] * (Whole - rates[ch[s]])
    <3>1. CASE s = {}
      BY <2>1, <2>3, <3>1 DEF Keep
    <3>2. CASE s # {} /\ s \in Small(S, n)
      <4>1. h[s] = g[s] /\ g[s] = g[s \ {ch[s]}] * (Whole - rates[ch[s]])
        BY <2>1, <3>2 DEF Keep
      <4>2. s \ {ch[s]} \in Small(S, n) /\ s \ {ch[s]} \in Small(S, n + 1)
        BY <2>2, <3>2
      <4>3. h[s \ {ch[s]}] = g[s \ {ch[s]}]
        BY <4>2
      <4> QED BY <3>2, <4>1, <4>3
    <3>3. CASE s # {} /\ s \notin Small(S, n)
      <4>1. h[s] = g[s \ {ch[s]}] * (Whole - rates[ch[s]])
        BY <3>3
      <4>2. s \ {ch[s]} \in Small(S, n) /\ s \ {ch[s]} \in Small(S, n + 1)
        BY <2>2, <3>3
      <4>3. h[s \ {ch[s]}] = g[s \ {ch[s]}]
        BY <4>2
      <4> QED BY <3>3, <4>1, <4>3
    <3> QED BY <3>1, <3>2, <3>3
  <2>5. h = Keep(rates, ch, Small(S, n + 1), h)
    BY <2>4 DEF Keep
  <2>6. \E f : f = Keep(rates, ch, Small(S, n + 1), f)
    <3> HIDE DEF h
    <3> QED BY <2>5
  <2> QED BY <2>6
<1>3. Cardinality(S) \in T
  <2>1. Cardinality(S) \in Nat
    BY FS_CardinalityType
  <2> HIDE DEF T
  <2> QED BY <1>1, <1>2, <2>1, SetInduction
<1>4. Small(S, Cardinality(S)) = SUBSET S
  BY FS_Subset DEF Small
<1>5. \E g : g = Keep(rates, ch, SUBSET S, g)
  BY <1>3, <1>4
<1> QED BY <1>5 DEF Products

\* g multiplies what the rates keep, over the sets of discounts in S, in some order.
Multiplies(g, rates, S) ==
    /\ g[{}] = 1
    /\ \A s \in SUBSET S : s # {} => \E x \in s : g[s] = g[s \ {x}] * (Whole - rates[x])

LEMMA RetainedMultiplies ==
  ASSUME NEW rates, IsFiniteSet(DOMAIN rates)
  PROVE  \E g : Multiplies(g, rates, DOMAIN rates) /\ Retained(rates) = g[DOMAIN rates]
<1>1. PICK S, ch : S = DOMAIN rates /\ ch = [s \in SUBSET S |-> First(s)]
  OBVIOUS
<1>2. Choice(ch, S)
  BY <1>1, FirstIsChoice
<1>3. ASSUME NEW g
      PROVE  Keep(rates, ch, SUBSET S, g) =
               [s \in SUBSET S |-> IF s = {} THEN 1
                                   ELSE g[s \ {First(s)}] * (Whole - rates[First(s)])]
  BY <1>1 DEF Keep
<1>4. Products(rates, ch, S) =
        (CHOOSE g : g = [s \in SUBSET S |-> IF s = {} THEN 1
                                            ELSE g[s \ {First(s)}] * (Whole - rates[First(s)])])
  BY <1>3, Zenon DEF Products
<1>5. Retained(rates) = Products(rates, ch, S)[S]
  BY <1>1, <1>4, Zenon DEF First, Retained, FoldSeq, FoldFunction, FoldFunctionOnSet, MapThenFoldSet
<1>6. PICK g : g = Products(rates, ch, S)
  OBVIOUS
<1>7. g = Keep(rates, ch, SUBSET S, g)
  BY <1>1, <1>2, <1>6, ProductsDef
<1>8. \A s \in SUBSET S :
         g[s] = IF s = {} THEN 1 ELSE g[s \ {ch[s]}] * (Whole - rates[ch[s]])
  BY <1>7 DEF Keep
<1>9. ASSUME NEW s \in SUBSET S, s # {}
      PROVE  \E x \in s : g[s] = g[s \ {x}] * (Whole - rates[x])
  <2>1. ch[s] \in s /\ g[s] = g[s \ {ch[s]}] * (Whole - rates[ch[s]])
    BY <1>2, <1>8, <1>9 DEF Choice
  <2> QED BY <2>1
<1>10. g[{}] = 1
  BY <1>8
<1>11. Multiplies(g, rates, S)
  BY <1>9, <1>10 DEF Multiplies
<1> QED BY <1>1, <1>5, <1>6, <1>11

LEMMA ProductsType ==
  ASSUME NEW rates, NEW S, IsFiniteSet(S), Valued(rates, S), NEW g, Multiplies(g, rates, S)
  PROVE  \A s \in SUBSET S : g[s] \in Int
<1> DEFINE T == {n \in Nat : \A s \in SUBSET S : Cardinality(s) = n => g[s] \in Int}
<1>1. 0 \in T
  <2> SUFFICES ASSUME NEW s \in SUBSET S, Cardinality(s) = 0 PROVE g[s] \in Int
    OBVIOUS
  <2>1. s = {}
    BY FS_Subset, FS_EmptySet
  <2> QED BY <2>1 DEF Multiplies
<1>2. ASSUME NEW n \in Nat, n \in T PROVE n + 1 \in T
  <2> SUFFICES ASSUME NEW s \in SUBSET S, Cardinality(s) = n + 1 PROVE g[s] \in Int
    OBVIOUS
  <2>1. s # {}
    BY FS_EmptySet
  <2>2. PICK x \in s : g[s] = g[s \ {x}] * (Whole - rates[x])
    BY <2>1 DEF Multiplies
  <2>3. s \ {x} \in SUBSET S /\ Cardinality(s \ {x}) = Cardinality(s) - 1
    BY RemoveOne
  <2>4. g[s \ {x}] \in Int
    BY <1>2, <2>3
  <2>5. Whole - rates[x] \in Int
    BY CostMeasuresAssumption DEF Valued
  <2>6. PICK a \in Int, b \in Int : a = g[s \ {x}] /\ b = Whole - rates[x]
    BY <2>4, <2>5
  <2> QED BY <2>2, <2>6
<1>3. Nat \subseteq T
  <2> HIDE DEF T
  <2> QED BY <1>1, <1>2, SetInduction
<1> SUFFICES ASSUME NEW s \in SUBSET S PROVE g[s] \in Int
  OBVIOUS
<1>4. Cardinality(s) \in Nat
  BY FS_Subset, FS_CardinalityType
<1> QED BY <1>3, <1>4

\* g multiplies what the rates keep, in every order.
Factors(g, rates, S) ==
    /\ g[{}] = 1
    /\ \A s \in SUBSET S : g[s] \in Int
    /\ \A s \in SUBSET S : \A y \in s : g[s] = g[s \ {y}] * (Whole - rates[y])

\* "Discounts compose multiplicatively": any of them may be taken last.
LEMMA ProductsFactor ==
  ASSUME NEW rates, NEW S, IsFiniteSet(S), Valued(rates, S), NEW g, Multiplies(g, rates, S)
  PROVE  Factors(g, rates, S)
<1>1. \A s \in SUBSET S : g[s] \in Int
  BY ProductsType
<1>2. \A x \in S : Whole - rates[x] \in Int
  BY CostMeasuresAssumption DEF Valued
<1> DEFINE Good(s) == \A y \in s : g[s] = g[s \ {y}] * (Whole - rates[y])
           T == {n \in Nat : \A s \in SUBSET S : Cardinality(s) = n => Good(s)}
<1>3. 0 \in T
  <2> SUFFICES ASSUME NEW s \in SUBSET S, Cardinality(s) = 0 PROVE Good(s)
    OBVIOUS
  <2>1. s = {}
    BY FS_Subset, FS_EmptySet
  <2> QED BY <2>1
<1>4. ASSUME NEW n \in Nat, n \in T PROVE n + 1 \in T
  <2> SUFFICES ASSUME NEW s \in SUBSET S, Cardinality(s) = n + 1, NEW y \in s
               PROVE  g[s] = g[s \ {y}] * (Whole - rates[y])
    OBVIOUS
  <2>1. ASSUME NEW z \in s PROVE s \ {z} \in SUBSET S /\ Good(s \ {z})
    <3>1. s \ {z} \in SUBSET S /\ Cardinality(s \ {z}) = Cardinality(s) - 1
      BY RemoveOne
    <3>2. Cardinality(s \ {z}) = n
      BY <3>1
    <3>3. Good(s \ {z})
      BY <1>4, <3>1, <3>2
    <3> HIDE DEF Good
    <3> QED BY <3>1, <3>3
  <2>2. PICK x \in s : g[s] = g[s \ {x}] * (Whole - rates[x])
    BY DEF Multiplies
  <2>3. CASE y = x
    BY <2>2, <2>3
  <2>4. CASE y # x
    <3>1. g[s \ {x}] = g[(s \ {x}) \ {y}] * (Whole - rates[y])
      BY <2>1, <2>2, <2>4
    <3>2. g[s \ {y}] = g[(s \ {y}) \ {x}] * (Whole - rates[x])
      BY <2>1, <2>2, <2>4
    <3>3. (s \ {y}) \ {x} = (s \ {x}) \ {y} /\ (s \ {x}) \ {y} \in SUBSET S
      OBVIOUS
    <3>4. PICK a \in Int, b \in Int, c \in Int :
            a = g[(s \ {x}) \ {y}] /\ b = Whole - rates[x] /\ c = Whole - rates[y]
      BY <1>1, <1>2, <2>2, <3>3
    <3>5. (a * c) * b = (a * b) * c
      OBVIOUS
    <3> QED BY <2>2, <3>1, <3>2, <3>3, <3>4, <3>5
  <2> QED BY <2>3, <2>4
<1>5. Nat \subseteq T
  <2> HIDE DEF T
  <2> QED BY <1>3, <1>4, SetInduction
<1>6. \A s \in SUBSET S : Cardinality(s) \in Nat
  BY FS_Subset, FS_CardinalityType
<1>7. \A s \in SUBSET S : Good(s)
  <2> HIDE DEF Good
  <2> QED BY <1>5, <1>6
<1>8. g[{}] = 1
  BY DEF Multiplies
<1> QED BY <1>1, <1>7, <1>8, Zenon DEF Factors

LEMMA RetainedFactors ==
  ASSUME NEW rates, NEW S, IsFiniteSet(S), DOMAIN rates = S, Valued(rates, S)
  PROVE  \E g : Factors(g, rates, S) /\ Retained(rates) = g[S]
<1>1. PICK g : Multiplies(g, rates, S) /\ Retained(rates) = g[S]
  BY RetainedMultiplies
<1>2. Factors(g, rates, S)
  BY <1>1, ProductsFactor
<1> QED BY <1>1, <1>2

\* The positions of s, counted from the end of a list of n.
FromEnd(s, n) == {i \in 1..n : n + 1 - i \in s}

LEMMA RetainedReverses ==
  ASSUME NEW rates \in Seq(Int)
  PROVE  Retained(Reverse(rates)) = Retained(rates) /\ Retained(rates) \in Int
<1>1. PICK n \in Nat : n = Len(rates)
  OBVIOUS
<1>2. PICK S : S = 1..n
  OBVIOUS
<1>3. PICK back : back = Reverse(rates)
  OBVIOUS
<1>4. /\ back \in [S -> Int] /\ rates \in [S -> Int]
      /\ \A i \in S : n + 1 - i \in S /\ back[n + 1 - i] = rates[i]
  <2>1. back = [i \in S |-> rates[n - i + 1]]
    BY <1>1, <1>2, <1>3 DEF Reverse
  <2>2. rates \in [S -> Int]
    BY <1>1, <1>2
  <2>3. \A i \in S : n - i + 1 \in S /\ n + 1 - i \in S /\ n - (n + 1 - i) + 1 = i
    BY <1>2
  <2> QED BY <2>1, <2>2, <2>3
<1>5. IsFiniteSet(S) /\ DOMAIN rates = S /\ DOMAIN back = S
  BY <1>2, <1>4, FS_Interval
<1>6. Valued(rates, S) /\ Valued(back, S)
  BY <1>4 DEF Valued
<1>7. PICK g : Factors(g, rates, S) /\ Retained(rates) = g[S]
  BY <1>5, <1>6, RetainedFactors
<1>8. PICK h : Factors(h, back, S) /\ Retained(back) = h[S]
  BY <1>5, <1>6, RetainedFactors
<1> DEFINE Q == {s \in SUBSET S : g[s] = h[FromEnd(s, n)]}
<1>9. {} \in Q
  <2>1. FromEnd({}, n) = {}
    BY DEF FromEnd
  <2> QED BY <1>7, <1>8, <2>1 DEF Factors
<1>10. ASSUME NEW s \in SUBSET S, NEW x \in s, s \ {x} \in Q PROVE s \in Q
  <2>1. g[s] = g[s \ {x}] * (Whole - rates[x])
    BY <1>7 DEF Factors
  <2>2. PICK y : y = n + 1 - x
    OBVIOUS
  <2>3. /\ y \in FromEnd(s, n) /\ FromEnd(s, n) \in SUBSET S
        /\ FromEnd(s, n) \ {y} = FromEnd(s \ {x}, n)
    <3>1. x \in 1..n /\ y \in 1..n /\ n + 1 - y = x
      BY <1>2, <2>2
    <3>2. \A i \in 1..n : n + 1 - i = x <=> i = y
      BY <2>2, <3>1
    <3> QED BY <1>2, <3>1, <3>2 DEF FromEnd
  <2>4. h[FromEnd(s, n)] = h[FromEnd(s, n) \ {y}] * (Whole - back[y])
    BY <1>8, <2>3 DEF Factors
  <2>5. back[y] = rates[x]
    BY <1>4, <2>2
  <2>6. g[s \ {x}] = h[FromEnd(s \ {x}, n)]
    BY <1>10
  <2>7. g[s] = h[FromEnd(s, n)]
    BY <2>1, <2>3, <2>4, <2>5, <2>6
  <2> QED BY <2>7
<1>11. S \in Q
  <2> HIDE DEF Q
  <2>1. \A s \in SUBSET S : \A x \in s : s \ {x} \in Q => s \in Q
    BY <1>10, Zenon
  <2>2. \A s \in SUBSET S : s \in Q
    BY <1>5, <1>9, <2>1, SubsetInduction, Zenon
  <2> QED BY <2>2
<1>12. FromEnd(S, n) = S
  BY <1>2 DEF FromEnd
<1>13. g[S] \in Int
  BY <1>7 DEF Factors
<1> QED BY <1>3, <1>7, <1>8, <1>11, <1>12, <1>13

\* Rates between none and the whole keep something between nothing and what rates
\* of zero keep.
LEMMA RetainedBounds ==
  ASSUME NEW rates \in Seq(Int), \A i \in DOMAIN rates : rates[i] \in 0..Whole
  PROVE  /\ Retained([i \in DOMAIN rates |-> 0]) \in Int
         /\ 0 <= Retained(rates) /\ Retained(rates) <= Retained([i \in DOMAIN rates |-> 0])
<1>1. PICK S, none : S = DOMAIN rates /\ none = [i \in DOMAIN rates |-> 0]
  OBVIOUS
<1>2. IsFiniteSet(S) /\ DOMAIN none = S
  <2>1. S = 1..Len(rates) /\ Len(rates) \in Nat
    BY <1>1
  <2> QED BY <1>1, <2>1, FS_Interval
<1>3. Valued(rates, S) /\ Valued(none, S)
  BY <1>1 DEF Valued
<1>4. PICK g : Factors(g, rates, S) /\ Retained(rates) = g[S]
  BY <1>1, <1>2, <1>3, RetainedFactors
<1>5. PICK h : Factors(h, none, S) /\ Retained(none) = h[S]
  BY <1>2, <1>3, RetainedFactors
<1> DEFINE Q == {s \in SUBSET S : 0 <= g[s] /\ g[s] <= h[s]}
<1>6. {} \in Q
  BY <1>4, <1>5 DEF Factors
<1>7. ASSUME NEW s \in SUBSET S, NEW x \in s, s \ {x} \in Q PROVE s \in Q
  <2>1. g[s] = g[s \ {x}] * (Whole - rates[x]) /\ h[s] = h[s \ {x}] * (Whole - none[x])
    BY <1>4, <1>5 DEF Factors
  <2>2. g[s \ {x}] \in Int /\ h[s \ {x}] \in Int
    BY <1>4, <1>5 DEF Factors
  <2>3. rates[x] \in 0..Whole /\ none[x] = 0
    BY <1>1
  <2>4. PICK a \in Int, b \in Int, c \in Int :
          a = g[s \ {x}] /\ b = h[s \ {x}] /\ c = Whole - rates[x]
    <3>1. Whole - rates[x] \in Int
      BY <2>3, CostMeasuresAssumption
    <3> QED BY <2>2, <3>1
  <2>5. 0 <= a /\ a <= b /\ 0 <= c /\ c <= Whole
    BY <1>7, <2>3, <2>4, CostMeasuresAssumption
  <2>6. 0 <= a * c /\ a * c <= b * Whole
    <3>1. Whole \in Int
      BY CostMeasuresAssumption
    <3>2. 0 <= a * c
      BY <2>5
    <3>3. a * c <= b * c
      BY <2>5
    <3>4. b * c <= b * Whole
      BY <2>5, <3>1
    <3> QED BY <3>1, <3>2, <3>3, <3>4
  <2>7. g[s] = a * c /\ h[s] = b * Whole
    BY <2>1, <2>3, <2>4, CostMeasuresAssumption
  <2> QED BY <2>6, <2>7
<1>8. S \in Q
  <2> HIDE DEF Q
  <2>1. \A s \in SUBSET S : \A x \in s : s \ {x} \in Q => s \in Q
    BY <1>7, Zenon
  <2>2. \A s \in SUBSET S : s \in Q
    BY <1>2, <1>6, <2>1, SubsetInduction, Zenon
  <2> QED BY <2>2
<1>9. h[S] \in Int
  BY <1>5 DEF Factors
<1> QED BY <1>1, <1>4, <1>5, <1>8, <1>9

-----------------------------------------------------------------------------
(* compute: the measures of a line and of its parts. *)

LEMMA CoveredIs ==
  ASSUME NEW line \in Lines
  PROVE  Covered(line) = IF line.commitment.covered_quantity <= line.quantity
                         THEN line.commitment.covered_quantity ELSE line.quantity
<1>1. PICK a \in Int, b \in Int : a = line.commitment.covered_quantity /\ b = line.quantity
  BY DEF Lines
<1>2. Min({a, b}) = IF a <= b THEN a ELSE b
  BY DEF Min
<1> QED BY <1>1, <1>2 DEF Covered

\* What compute multiplies out.
OnDemand(line) ==
    (line.quantity - Covered(line)) * line.list_unit_price * Retained(line.discounts)

Unit(line) == Retained([i \in DOMAIN line.discounts |-> 0])

Committed(line) == Covered(line) * line.commitment.committed_unit_price * Unit(line)

LEMMA MeasuresAre ==
  ASSUME NEW line
  PROVE  Measures(line) =
           [list_cost      |-> line.list_unit_price * line.quantity * Unit(line),
            billed_cost    |-> OnDemand(line)
                                 + (IF line.commitment.prepaid THEN 0 ELSE Committed(line)),
            effective_cost |-> OnDemand(line) + Committed(line)]
BY Zenon DEF Measures, OnDemand, Committed, Unit

LEMMA RetainedType ==
  ASSUME NEW line \in Lines, Accepts(line)
  PROVE  /\ Retained(line.discounts) \in Int /\ Unit(line) \in Int
         /\ 0 <= Retained(line.discounts) /\ Retained(line.discounts) <= Unit(line)
<1>1. PICK rates \in Seq(Int) : rates = line.discounts
  BY DEF Lines
<1>2. \A i \in DOMAIN rates : rates[i] \in 0..Whole
  BY <1>1 DEF Accepts
<1>3. Retained(rates) \in Int
  BY RetainedReverses
<1>4. /\ Retained([i \in DOMAIN rates |-> 0]) \in Int
      /\ 0 <= Retained(rates) /\ Retained(rates) <= Retained([i \in DOMAIN rates |-> 0])
  BY <1>2, RetainedBounds
<1> QED BY <1>1, <1>3, <1>4 DEF Unit

LEMMA CutProduct ==
  ASSUME NEW a \in Int, NEW b \in Int, NEW c \in Int, NEW x \in Int, NEW y \in Int, a + b = c
  PROVE  a * x * y + b * x * y = c * x * y
<1>1. a * x + b * x = c * x
  OBVIOUS
<1>2. PICK d \in Int, e \in Int, f \in Int : d = a * x /\ e = b * x /\ f = c * x
  OBVIOUS
<1>3. d + e = f
  BY <1>1, <1>2
<1>4. d * y + e * y = (d + e) * y
  OBVIOUS
<1> QED BY <1>2, <1>3, <1>4

\* A line cut in two costs what the whole does.
LEMMA CutsAreFair ==
  ASSUME NEW line \in Lines, Accepts(line), NEW q \in 0..line.quantity,
         NEW m \in DOMAIN Measures(line)
  PROVE  Measures(FirstPart(line, q))[m] + Measures(SecondPart(line, q))[m] = Measures(line)[m]
<1>1. PICK first, second : first = FirstPart(line, q) /\ second = SecondPart(line, q)
  OBVIOUS
<1>2. PICK quantity \in Int, cov \in Int, price \in Int, committed \in Int :
        /\ quantity = line.quantity /\ cov = line.commitment.covered_quantity
        /\ price = line.list_unit_price /\ committed = line.commitment.committed_unit_price
  BY DEF Lines
<1>3. PICK kept \in Int, unit \in Int : kept = Retained(line.discounts) /\ unit = Unit(line)
  BY RetainedType
<1>4. q \in Int /\ 0 <= q /\ q <= quantity /\ 0 <= cov
  BY <1>2 DEF Accepts
<1>5. /\ first \in Lines /\ first.quantity = q
      /\ first.list_unit_price = price /\ first.discounts = line.discounts
      /\ first.commitment = line.commitment
  BY <1>1, <1>2, <1>4 DEF FirstPart, Lines
<1>6. PICK c1 \in Int : c1 = Covered(first) /\ c1 = IF cov <= q THEN cov ELSE q
  BY <1>2, <1>4, <1>5, CoveredIs
<1>7. /\ second \in Lines /\ second.quantity = quantity - q
      /\ second.list_unit_price = price /\ second.discounts = line.discounts
      /\ second.commitment.covered_quantity = cov - c1
      /\ second.commitment.committed_unit_price = committed
      /\ second.commitment.prepaid = line.commitment.prepaid
  <2>1. PICK old \in [covered_quantity : Int, committed_unit_price : Int, prepaid : BOOLEAN] :
          old = line.commitment
    BY DEF Lines
  <2>2. PICK later \in Int, uncovered \in Int : later = quantity - q /\ uncovered = cov - c1
    BY <1>4
  <2>3. PICK r : r = [old EXCEPT !.covered_quantity = uncovered]
    OBVIOUS
  <2>4. r \in [covered_quantity : Int, committed_unit_price : Int, prepaid : BOOLEAN]
    BY <2>3
  <2>5. /\ r.covered_quantity = uncovered /\ r.committed_unit_price = committed
        /\ r.prepaid = line.commitment.prepaid
    BY <1>2, <2>1, <2>3
  <2>6. second = [line EXCEPT !.quantity = line.quantity - q,
                              !.commitment.covered_quantity =
                                  line.commitment.covered_quantity - Covered(first)]
    BY <1>1 DEF SecondPart
  <2>7. second = [line EXCEPT !.quantity = later, !.commitment = r]
    BY <1>2, <1>6, <2>1, <2>2, <2>3, <2>6
  <2>8. second \in Lines
    BY <2>4, <2>7 DEF Lines
  <2>9. /\ second.quantity = later /\ second.list_unit_price = price
        /\ second.discounts = line.discounts /\ second.commitment = r
    BY <1>2, <2>7 DEF Lines
  <2> QED BY <2>2, <2>5, <2>8, <2>9
<1>8. PICK c2 \in Int : c2 = Covered(second) /\ c2 = IF cov - c1 <= quantity - q THEN cov - c1
                                                                             ELSE quantity - q
  BY <1>2, <1>4, <1>6, <1>7, CoveredIs
<1>9. PICK c \in Int : c = Covered(line) /\ c = IF cov <= quantity THEN cov ELSE quantity
  BY <1>2, CoveredIs
<1>10. c1 + c2 = c /\ (q - c1) + ((quantity - q) - c2) = quantity - c /\ q + (quantity - q) = quantity
  BY <1>4, <1>6, <1>8, <1>9
<1>11. /\ Unit(first) = unit /\ Unit(second) = unit
       /\ Retained(first.discounts) = kept /\ Retained(second.discounts) = kept
  BY <1>3, <1>5, <1>7 DEF Unit
<1>12. /\ OnDemand(line) = (quantity - c) * price * kept
       /\ OnDemand(first) = (q - c1) * price * kept
       /\ OnDemand(second) = ((quantity - q) - c2) * price * kept
  BY <1>2, <1>3, <1>5, <1>6, <1>7, <1>8, <1>9, <1>11, Zenon DEF OnDemand
<1>13. /\ Committed(line) = c * committed * unit
       /\ Committed(first) = c1 * committed * unit
       /\ Committed(second) = c2 * committed * unit
  BY <1>2, <1>3, <1>5, <1>6, <1>7, <1>8, <1>9, <1>11, Zenon DEF Committed
<1>14. OnDemand(first) + OnDemand(second) = OnDemand(line)
  <2>1. q - c1 \in Int /\ (quantity - q) - c2 \in Int /\ quantity - c \in Int
    OBVIOUS
  <2> QED BY <1>10, <1>12, <2>1, CutProduct
<1>15. Committed(first) + Committed(second) = Committed(line)
  BY <1>10, <1>13, CutProduct
<1>16. price * q * unit + price * (quantity - q) * unit = price * quantity * unit
  <2>1. price * q = q * price /\ price * (quantity - q) = (quantity - q) * price
        /\ price * quantity = quantity * price
    OBVIOUS
  <2>2. q * price * unit + (quantity - q) * price * unit = quantity * price * unit
    BY <1>10, CutProduct
  <2> QED BY <2>1, <2>2
<1>17. PICK o \in Int, o1 \in Int, o2 \in Int, d \in Int, d1 \in Int, d2 \in Int :
         /\ o = OnDemand(line) /\ o1 = OnDemand(first) /\ o2 = OnDemand(second)
         /\ d = Committed(line) /\ d1 = Committed(first) /\ d2 = Committed(second)
  BY <1>12, <1>13
<1>18. o1 + o2 = o /\ d1 + d2 = d
  BY <1>14, <1>15, <1>17
<1>19. m \in {"list_cost", "billed_cost", "effective_cost"}
  BY MeasuresAre
<1>20. Measures(first).list_cost + Measures(second).list_cost = Measures(line).list_cost
  BY <1>2, <1>3, <1>5, <1>7, <1>11, <1>16, MeasuresAre
<1>21. Measures(first).billed_cost + Measures(second).billed_cost = Measures(line).billed_cost
  <2>1. /\ Measures(first).billed_cost = o1 + (IF line.commitment.prepaid THEN 0 ELSE d1)
        /\ Measures(second).billed_cost = o2 + (IF line.commitment.prepaid THEN 0 ELSE d2)
        /\ Measures(line).billed_cost = o + (IF line.commitment.prepaid THEN 0 ELSE d)
    BY <1>5, <1>7, <1>17, MeasuresAre
  <2> QED BY <1>18, <2>1
<1>22. Measures(first).effective_cost + Measures(second).effective_cost = Measures(line).effective_cost
  <2>1. /\ Measures(first).effective_cost = o1 + d1 /\ Measures(second).effective_cost = o2 + d2
        /\ Measures(line).effective_cost = o + d
    BY <1>17, MeasuresAre
  <2> QED BY <1>18, <2>1
<1> QED BY <1>1, <1>19, <1>20, <1>21, <1>22

\* The order of the discounts does not matter.
LEMMA OrderIsIrrelevant ==
  ASSUME NEW line \in Lines
  PROVE  Measures([line EXCEPT !.discounts = Reverse(@)]) = Measures(line)
<1>1. PICK rates \in Seq(Int) : rates = line.discounts
  BY DEF Lines
<1>2. PICK back \in Seq(Int) : back = Reverse(rates)
  <2>1. PICK n \in Nat : n = Len(rates)
    OBVIOUS
  <2>2. rates \in [1..n -> Int]
    BY <2>1
  <2>3. Reverse(rates) = [i \in 1..n |-> rates[(n - i) + 1]]
    BY <2>1 DEF Reverse
  <2>4. \A i \in 1..n : (n - i) + 1 \in 1..n
    OBVIOUS
  <2>5. Reverse(rates) \in [1..n -> Int]
    BY <2>2, <2>3, <2>4
  <2> QED BY <2>5
<1>3. DOMAIN back = DOMAIN rates
  <2>1. DOMAIN back = 1..Len(rates) /\ DOMAIN rates = 1..Len(rates)
    BY <1>2 DEF Reverse
  <2> QED BY <2>1
<1>4. Retained(back) = Retained(rates)
  BY <1>2, RetainedReverses
<1>5. PICK turned : turned = [line EXCEPT !.discounts = Reverse(@)]
  OBVIOUS
<1>6. /\ turned.quantity = line.quantity /\ turned.list_unit_price = line.list_unit_price
      /\ turned.commitment = line.commitment /\ turned.discounts = back
  BY <1>1, <1>2, <1>5 DEF Lines
<1>7. Covered(turned) = Covered(line)
  BY <1>6, Zenon DEF Covered
<1>8. Unit(turned) = Unit(line) /\ Retained(turned.discounts) = Retained(line.discounts)
  BY <1>1, <1>3, <1>4, <1>6 DEF Unit
<1>9. OnDemand(turned) = OnDemand(line) /\ Committed(turned) = Committed(line)
  BY <1>6, <1>7, <1>8, Zenon DEF OnDemand, Committed
<1>10. Measures(turned) = Measures(line)
  BY <1>6, <1>8, <1>9, MeasuresAre, Zenon
<1> QED BY <1>5, <1>10

\* A committed price between nothing and the list price keeps every measure there.
LEMMA CostsAreBounded ==
  ASSUME NEW line \in Lines, Accepts(line),
         line.commitment.committed_unit_price \in 0..line.list_unit_price
  PROVE  /\ 0 <= Measures(line).billed_cost
         /\ Measures(line).billed_cost <= Measures(line).effective_cost
         /\ Measures(line).effective_cost <= Measures(line).list_cost
<1>1. PICK quantity \in Int, cov \in Int, price \in Int, committed \in Int :
        /\ quantity = line.quantity /\ cov = line.commitment.covered_quantity
        /\ price = line.list_unit_price /\ committed = line.commitment.committed_unit_price
  BY DEF Lines
<1>2. PICK kept \in Int, unit \in Int : kept = Retained(line.discounts) /\ unit = Unit(line)
  BY RetainedType
<1>3. 0 <= kept /\ kept <= unit
  BY <1>2, RetainedType
<1>4. PICK c \in Int : c = Covered(line) /\ c = IF cov <= quantity THEN cov ELSE quantity
  BY <1>1, CoveredIs
<1>5. 0 <= c /\ c <= quantity /\ 0 <= price /\ 0 <= committed /\ committed <= price
  BY <1>1, <1>4 DEF Accepts
<1>6. PICK a \in Int, b \in Int, e \in Int :
        a = (quantity - c) * price /\ b = c * committed /\ e = c * price
  OBVIOUS
<1>7. 0 <= a /\ 0 <= b /\ b <= e /\ price * quantity = a + e
  <2>1. 0 <= a
    BY <1>5, <1>6
  <2>2. 0 <= b
    BY <1>5, <1>6
  <2>3. b <= e
    BY <1>5, <1>6
  <2>4. (quantity - c) * price + c * price = price * quantity
    OBVIOUS
  <2> QED BY <1>6, <2>1, <2>2, <2>3, <2>4
<1>8. /\ OnDemand(line) = a * kept /\ Committed(line) = b * unit
      /\ line.list_unit_price * line.quantity * Unit(line) = (a + e) * unit
  <2>1. OnDemand(line) = a * kept
    BY <1>1, <1>2, <1>4, <1>6 DEF OnDemand
  <2>2. Committed(line) = b * unit
    BY <1>1, <1>2, <1>4, <1>6 DEF Committed
  <2>3. line.list_unit_price * line.quantity * Unit(line) = (a + e) * unit
    BY <1>1, <1>2, <1>7
  <2> QED BY <2>1, <2>2, <2>3
<1>9. PICK o \in Int, d \in Int, l \in Int : o = a * kept /\ d = b * unit /\ l = (a + e) * unit
  OBVIOUS
<1>10. 0 <= o /\ 0 <= d /\ o + d <= l
  <2>1. 0 <= o
    BY <1>3, <1>7, <1>9
  <2>2. 0 <= d
    BY <1>3, <1>7, <1>9
  <2>3. a * kept <= a * unit
    BY <1>3, <1>7
  <2>4. b * unit <= e * unit
    BY <1>3, <1>7
  <2>5. (a + e) * unit = a * unit + e * unit
    OBVIOUS
  <2>6. PICK r \in Int, t \in Int : r = a * unit /\ t = e * unit
    OBVIOUS
  <2> QED BY <1>9, <2>1, <2>2, <2>3, <2>4, <2>5, <2>6
<1>11. /\ Measures(line).billed_cost = o + (IF line.commitment.prepaid THEN 0 ELSE d)
       /\ Measures(line).effective_cost = o + d
       /\ Measures(line).list_cost = l
  BY <1>8, <1>9, MeasuresAre
<1> QED BY <1>10, <1>11

LEMMA MeasuresHold ==
  ASSUME MeasuresInv
  PROVE  MeasuresAreConsistent
<1> SUFFICES ASSUME outcome = "ok" PROVE MeasuresAreConsistent
  BY DEF MeasuresAreConsistent
<1>1. inputs \in Lines /\ amounts = Measures(inputs) /\ Accepts(inputs)
  BY DEF MeasuresInv
<1>2. \A q \in 0..inputs.quantity, m \in DOMAIN amounts :
         Measures(FirstPart(inputs, q))[m] + Measures(SecondPart(inputs, q))[m] = amounts[m]
  BY <1>1, CutsAreFair
<1>3. Measures([inputs EXCEPT !.discounts = Reverse(@)]) = amounts
  BY <1>1, OrderIsIrrelevant
<1>4. inputs.commitment.prepaid \/ amounts.billed_cost = amounts.effective_cost
  BY <1>1, MeasuresAre
<1>5. inputs.commitment.committed_unit_price \in 0..inputs.list_unit_price =>
         /\ 0 <= amounts.billed_cost
         /\ amounts.billed_cost <= amounts.effective_cost
         /\ amounts.effective_cost <= amounts.list_cost
  BY <1>1, CostsAreBounded
<1> QED BY <1>2, <1>3, <1>4, <1>5 DEF MeasuresAreConsistent

LEMMA LinesAreTyped ==
  ASSUME NEW line \in PricingInputs \union {NoLine}
  PROVE  line \in Lines
<1>1. \A d \in BoundedSeq(Rates, MaxDiscounts) : d \in Seq(Int)
  <2> SUFFICES ASSUME NEW d \in BoundedSeq(Rates, MaxDiscounts) PROVE d \in Seq(Int)
    OBVIOUS
  <2>1. PICK m \in 0..MaxDiscounts : d \in [1..m -> Rates]
    BY DEF BoundedSeq, SeqOf
  <2>2. \A i \in 1..m : d[i] \in Int
    BY <2>1, CostMeasuresAssumption
  <2>3. d \in [1..m -> Int] /\ m \in Nat
    BY <2>1, <2>2, CostMeasuresAssumption
  <2> QED BY <2>3
<1>2. Prices \subseteq Int /\ Quantities \subseteq Int
  BY CostMeasuresAssumption
<1>3. ASSUME NEW c \in CommitmentCoverage \union {NoCommitment}
      PROVE  c \in [covered_quantity : Int, committed_unit_price : Int, prepaid : BOOLEAN]
  <2>1. CASE c \in CommitmentCoverage
    BY <1>2, <2>1 DEF CommitmentCoverage
  <2>2. CASE c = NoCommitment
    BY <2>2 DEF NoCommitment
  <2> QED BY <2>1, <2>2
<1>4. CASE line \in PricingInputs
  BY <1>1, <1>2, <1>3, <1>4 DEF PricingInputs, Lines
<1>5. CASE line = NoLine
  BY <1>5 DEF NoLine, NoCommitment, Lines
<1> QED BY <1>4, <1>5

LEMMA PricingStarts ==
  ASSUME AllInit
  PROVE  MeasuresInv
<1>1. CASE inputs = NoLine /\ amounts = Measures(NoLine)
  <2>1. Accepts(NoLine)
    BY DEF Accepts, NoLine, NoCommitment
  <2> QED BY <1>1, <2>1, LinesAreTyped DEF MeasuresInv
<1>2. CASE LineInit
  BY <1>2, LinesAreTyped DEF LineInit, MeasuresInv
<1> QED BY <1>1, <1>2 DEF AllInit

\* compute prices a line that none of its checks refused, and no other.
LEMMA PricingKeeps ==
  ASSUME MeasuresInv, [ApportionStep \/ AllocateStep \/ PriceStep]_allVars
  PROVE  MeasuresInv'
<1>1. CASE UNCHANGED <<inputs, outcome, amounts>>
  BY <1>1 DEF MeasuresInv, Accepts
<1>2. CASE PriceStep
  <2>1. /\ inputs' = inputs
        /\ \E i \in DOMAIN Refusals(inputs) :
              /\ Refusals(inputs)[i].holds
              /\ \A j \in 1..(i - 1) : ~Refusals(inputs)[j].holds
              /\ outcome' = Refusals(inputs)[i].error
        /\ amounts' = IF outcome' = "ok" THEN Measures(inputs) ELSE amounts
    BY <1>2 DEF PriceStep, Compute
  <2>2. ASSUME outcome' = "ok" PROVE Accepts(inputs)
    <3>1. PICK i \in 1..5 : /\ \A j \in 1..(i - 1) : ~Refusals(inputs)[j].holds
                            /\ Refusals(inputs)[i].error = "ok"
      BY <2>1, <2>2 DEF Refusals
    <3>2. i = 5
      BY <3>1 DEF Refusals
    <3>3. \A j \in 1..4 : ~Refusals(inputs)[j].holds
      BY <3>1, <3>2
    <3>4. /\ ~(inputs.quantity < 0) /\ ~(inputs.list_unit_price < 0)
          /\ ToSet(inputs.discounts) \subseteq 0..Whole
          /\ ~(inputs.commitment.covered_quantity < 0)
      <4>1. /\ ~Refusals(inputs)[1].holds /\ ~Refusals(inputs)[2].holds
            /\ ~Refusals(inputs)[3].holds /\ ~Refusals(inputs)[4].holds
        BY <3>3
      <4>2. ~(inputs.quantity < 0)
        BY <4>1 DEF Refusals
      <4>3. ~(inputs.list_unit_price < 0)
        BY <4>1 DEF Refusals
      <4>4. ToSet(inputs.discounts) \subseteq 0..Whole
        BY <4>1, Zenon DEF Refusals
      <4>5. ~(inputs.commitment.covered_quantity < 0)
        BY <4>1 DEF Refusals
      <4> QED BY <4>2, <4>3, <4>4, <4>5
    <3>5. /\ inputs.quantity \in Int /\ inputs.list_unit_price \in Int
          /\ inputs.commitment.covered_quantity \in Int
      BY DEF MeasuresInv, Lines
    <3> QED BY <3>4, <3>5 DEF Accepts, ToSet
  <2> QED BY <2>1, <2>2 DEF MeasuresInv, Accepts
<1> QED BY <1>1, <1>2 DEF ApportionStep, AllocateStep, allVars

\* The three measures of a line do not depend on how the provider cuts it or orders
\* its discounts, part on prepaid coverage alone, and stay between nothing and list
\* where the committed price does, for all lines and any number of discounts.
THEOREM PricesAreConsistent ==
  SharingSpec => []MeasuresAreConsistent
<1>1. MeasuresInv => MeasuresAreConsistent
  BY MeasuresHold
<1> QED BY <1>1, PricingStarts, PricingKeeps, PTL DEF SharingSpec

=============================================================================
