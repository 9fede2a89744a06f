------------------------------- MODULE SumProofs -------------------------------
(***************************************************************************)
(* Induction over the naturals, and sums over finite sets.  The code adds  *)
(* amounts up in loops and iterators; the models do with the folds of the  *)
(* community modules, each of which takes the elements in an order of its  *)
(* own.  A function that AddsUp is any of them.                            *)
(***************************************************************************)
EXTENDS Integers, Sequences, FiniteSets, FiniteSetsExt, FiniteSetTheorems, WellFoundedInduction, TLAPS

(***************************************************************************)
(* Induction over the naturals with the property given as a set, derived   *)
(* from the well-foundedness of < on Nat.                                  *)
(***************************************************************************)
LEMMA SetInduction ==
  ASSUME NEW S, 0 \in S, \A n \in Nat : n \in S => n + 1 \in S
  PROVE  Nat \subseteq S
<1> DEFINE T == Nat \ S
           R == {ss \in Nat \X Nat : ss[1] < ss[2]}
<1>1. SUFFICES ASSUME T # {} PROVE FALSE
  OBVIOUS
<1>2. IsWellFoundedOn(R, Nat)
  BY NatLessThanWellFounded DEF OpToRel
<1>3. PICK x \in T : \A y \in T : ~ (<<y, x>> \in R)
  <2>1. T \subseteq Nat
    OBVIOUS
  <2> HIDE DEF T, R
  <2> QED BY <1>1, <1>2, <2>1, WFMin
<1>4. \A y \in T : ~(y < x)
  BY <1>3
<1>5. x # 0 /\ x \in Nat
  OBVIOUS
<1>6. x - 1 \in Nat /\ x - 1 < x
  BY <1>5
<1>7. x - 1 \in S
  BY <1>4, <1>6
<1>8. (x - 1) + 1 \in S
  BY <1>6, <1>7
<1> QED BY <1>5, <1>8

\* A non-empty set of positions has a first and a last.
LEMMA BoundsExist ==
  ASSUME NEW n \in Nat, NEW s \in SUBSET (1..n), s # {}
  PROVE  /\ Max(s) \in s /\ \A y \in s : Max(s) >= y
         /\ Min(s) \in s /\ \A y \in s : Min(s) =< y
<1> DEFINE Bounded(r) == (\E x \in r : \A y \in r : x >= y) /\ (\E x \in r : \A y \in r : x =< y)
           T == {m \in Nat : \A r \in SUBSET (1..m) : r # {} => Bounded(r)}
<1>1. 0 \in T
  <2>1. 1..0 = {}
    OBVIOUS
  <2> HIDE DEF Bounded
  <2> QED BY <2>1
<1>2. ASSUME NEW m \in Nat, m \in T PROVE m + 1 \in T
  <2> SUFFICES ASSUME NEW r \in SUBSET (1..(m + 1)), r # {} PROVE Bounded(r)
    OBVIOUS
  <2>1. CASE m + 1 \notin r
    <3>1. r \in SUBSET (1..m)
      BY <2>1
    <3> HIDE DEF Bounded
    <3> QED BY <1>2, <3>1
  <2>2. CASE r = {m + 1}
    BY <2>2
  <2>3. CASE m + 1 \in r /\ r # {m + 1}
    <3>1. PICK q : q = r \ {m + 1}
      OBVIOUS
    <3>2. q \in SUBSET (1..m) /\ q # {} /\ r = q \union {m + 1}
      BY <2>3, <3>1
    <3>3. Bounded(q)
      <4> HIDE DEF Bounded
      <4> QED BY <1>2, <3>2
    <3>4. PICK x \in q : \A y \in q : x =< y
      BY <3>3
    <3>5. x \in r /\ \A y \in r : x =< y
      BY <3>2, <3>4
    <3>6. m + 1 \in r /\ \A y \in r : m + 1 >= y
      BY <3>2
    <3> QED BY <3>5, <3>6
  <2> QED BY <2>1, <2>2, <2>3
<1>3. Nat \subseteq T
  <2> HIDE DEF T
  <2> QED BY <1>1, <1>2, SetInduction
<1>4. Bounded(s)
  <2> HIDE DEF Bounded
  <2> QED BY <1>3
<1> QED BY <1>4 DEF Max, Min

\* The last and the first element of a set of integers are what they look like.
LEMMA MaxIs ==
  ASSUME NEW s \in SUBSET Int, NEW n \in s, \A y \in s : n >= y
  PROVE  Max(s) = n
<1>1. PICK m : m = Max(s)
  OBVIOUS
<1>2. \E x \in s : \A y \in s : x >= y
  OBVIOUS
<1>3. m \in s /\ \A y \in s : m >= y
  BY <1>1, <1>2 DEF Max
<1> QED BY <1>1, <1>3

LEMMA MinIs ==
  ASSUME NEW s \in SUBSET Int, NEW n \in s, \A y \in s : n =< y
  PROVE  Min(s) = n
<1>1. PICK m : m = Min(s)
  OBVIOUS
<1>2. \E x \in s : \A y \in s : x =< y
  OBVIOUS
<1>3. m \in s /\ \A y \in s : m =< y
  BY <1>1, <1>2 DEF Min
<1> QED BY <1>1, <1>3

-----------------------------------------------------------------------------
(* Sums over finite sets, whatever order the elements are taken in. *)

\* ch names an element of every non-empty subset of S.
Choice(ch, S) == \A s \in SUBSET S : s # {} => ch[s] \in s

\* One unfolding of a sum of the values v, over the subsets of S in D.
Unfold(v, ch, D, g) == [s \in D |-> IF s = {} THEN 0 ELSE v[ch[s]] + g[s \ {ch[s]}]]

\* The function that a fold over S computes the sums of its subsets with.
Sums(v, ch, S) == CHOOSE g : g = Unfold(v, ch, SUBSET S, g)

\* The subsets of S with at most n elements.
Small(S, n) == {s \in SUBSET S : Cardinality(s) <= n}

LEMMA RemoveOne ==
  ASSUME NEW S, IsFiniteSet(S), NEW s \in SUBSET S, NEW x \in s
  PROVE  /\ IsFiniteSet(s) /\ Cardinality(s) \in Nat \ {0}
         /\ s \ {x} \in SUBSET S /\ Cardinality(s \ {x}) = Cardinality(s) - 1
<1>1. IsFiniteSet(s)
  BY FS_Subset
<1>2. Cardinality(s) \in Nat /\ Cardinality(s) # 0
  BY <1>1, FS_CardinalityType, FS_EmptySet
<1>3. Cardinality(s \ {x}) = Cardinality(s) - 1
  BY <1>1, FS_RemoveElement
<1> QED BY <1>1, <1>2, <1>3

\* Induction over the subsets of a finite set, with the property given as a set of them.
LEMMA SubsetInduction ==
  ASSUME NEW S, IsFiniteSet(S), NEW Q, {} \in Q,
         \A s \in SUBSET S : \A x \in s : s \ {x} \in Q => s \in Q
  PROVE  \A s \in SUBSET S : s \in Q
<1> DEFINE T == {n \in Nat : \A s \in SUBSET S : Cardinality(s) = n => s \in Q}
<1>1. 0 \in T
  BY FS_Subset, FS_EmptySet
<1>2. ASSUME NEW n \in Nat, n \in T PROVE n + 1 \in T
  <2> SUFFICES ASSUME NEW s \in SUBSET S, Cardinality(s) = n + 1 PROVE s \in Q
    OBVIOUS
  <2>0. s # {}
    <3>1. Cardinality({}) = 0 /\ n + 1 # 0
      BY FS_EmptySet
    <3> HIDE DEF T
    <3> QED BY <3>1
  <2>1. PICK x : x \in s
    BY <2>0
  <2>2. s \ {x} \in SUBSET S /\ Cardinality(s \ {x}) = Cardinality(s) - 1
    BY <2>1, RemoveOne
  <2>3. Cardinality(s \ {x}) = n
    BY <2>2
  <2>4. s \ {x} \in Q
    BY <1>2, <2>2, <2>3
  <2> QED BY <2>1, <2>4
<1>3. Nat \subseteq T
  <2> HIDE DEF T
  <2> QED BY <1>1, <1>2, SetInduction
<1> SUFFICES ASSUME NEW s \in SUBSET S PROVE s \in Q
  OBVIOUS
<1>4. Cardinality(s) \in Nat
  BY FS_Subset, FS_CardinalityType
<1> QED BY <1>3, <1>4

LEMMA SumsDef ==
  ASSUME NEW v, NEW S, IsFiniteSet(S), NEW ch, Choice(ch, S)
  PROVE  Sums(v, ch, S) = Unfold(v, ch, SUBSET S, Sums(v, ch, S))
<1> DEFINE T == {n \in Nat : \E g : g = Unfold(v, ch, Small(S, n), g)}
<1>1. 0 \in T
  <2>1. \A s \in Small(S, 0) : s = {}
    <3> SUFFICES ASSUME NEW s \in Small(S, 0), s # {} PROVE FALSE
      OBVIOUS
    <3>1. PICK x : x \in s
      OBVIOUS
    <3>2. Cardinality(s) \in Nat \ {0} /\ Cardinality(s) <= 0
      BY <3>1, RemoveOne DEF Small
    <3> QED BY <3>2
  <2> DEFINE g == [s \in Small(S, 0) |-> 0]
  <2>2. g = Unfold(v, ch, Small(S, 0), g)
    BY <2>1 DEF Unfold
  <2> QED BY <2>2
<1>2. ASSUME NEW n \in Nat, n \in T PROVE n + 1 \in T
  <2>1. PICK g : g = Unfold(v, ch, Small(S, n), g)
    BY <1>2
  <2> DEFINE h == [s \in Small(S, n + 1) |->
                     IF s \in Small(S, n) THEN g[s] ELSE v[ch[s]] + g[s \ {ch[s]}]]
  <2>2. ASSUME NEW s \in Small(S, n + 1), s # {}
        PROVE  s \ {ch[s]} \in Small(S, n) /\ s \ {ch[s]} \in Small(S, n + 1)
    <3>0. PICK x : x = ch[s]
      OBVIOUS
    <3>1. x \in s /\ s \in SUBSET S /\ Cardinality(s) <= n + 1
      BY <2>2, <3>0 DEF Choice, Small
    <3>2. /\ s \ {x} \in SUBSET S /\ Cardinality(s) \in Nat
          /\ Cardinality(s \ {x}) = Cardinality(s) - 1
      BY <3>1, RemoveOne
    <3>3. Cardinality(s) - 1 <= n /\ Cardinality(s) - 1 <= n + 1
      BY <3>1, <3>2
    <3> QED BY <3>0, <3>2, <3>3 DEF Small
  <2>3. {} \in Small(S, n)
    <3>1. Cardinality({}) <= n
      BY FS_EmptySet
    <3> QED BY <3>1 DEF Small
  <2>4. ASSUME NEW s \in Small(S, n + 1)
        PROVE  h[s] = IF s = {} THEN 0 ELSE v[ch[s]] + h[s \ {ch[s]}]
    <3>1. CASE s = {}
      BY <2>1, <2>3, <3>1 DEF Unfold
    <3>2. CASE s # {} /\ s \in Small(S, n)
      <4>1. h[s] = g[s] /\ g[s] = v[ch[s]] + g[s \ {ch[s]}]
        BY <2>1, <3>2 DEF Unfold
      <4>2. s \ {ch[s]} \in Small(S, n) /\ s \ {ch[s]} \in Small(S, n + 1)
        BY <2>2, <3>2
      <4>3. h[s \ {ch[s]}] = g[s \ {ch[s]}]
        BY <4>2
      <4> QED BY <3>2, <4>1, <4>3
    <3>3. CASE s # {} /\ s \notin Small(S, n)
      <4>1. h[s] = v[ch[s]] + g[s \ {ch[s]}]
        BY <3>3
      <4>2. s \ {ch[s]} \in Small(S, n) /\ s \ {ch[s]} \in Small(S, n + 1)
        BY <2>2, <3>3
      <4>3. h[s \ {ch[s]}] = g[s \ {ch[s]}]
        BY <4>2
      <4> QED BY <3>3, <4>1, <4>3
    <3> QED BY <3>1, <3>2, <3>3
  <2>5. h = Unfold(v, ch, Small(S, n + 1), h)
    BY <2>4 DEF Unfold
  <2>6. \E f : f = Unfold(v, ch, Small(S, n + 1), f)
    <3> HIDE DEF h
    <3> QED BY <2>5
  <2> QED BY <2>6
<1>3. Cardinality(S) \in T
  <2>1. Cardinality(S) \in Nat
    BY FS_CardinalityType
  <2> HIDE DEF T
  <2> QED BY <1>1, <1>2, <2>1, SetInduction
<1>4. Small(S, Cardinality(S)) = SUBSET S
  BY FS_Subset DEF Small
<1>5. \E g : g = Unfold(v, ch, SUBSET S, g)
  BY <1>3, <1>4
<1> QED BY <1>5 DEF Sums

Valued(v, S) == \A x \in S : v[x] \in Int

\* g sums the values v over the subsets of S: in some order, skipping some zeros.
AddsUp(g, v, S) ==
    /\ g[{}] = 0
    /\ \A s \in SUBSET S : s # {} => \E x \in s : \/ g[s] = v[x] + g[s \ {x}]
                                                  \/ g[s] = g[s \ {x}] + v[x]
                                                  \/ v[x] = 0 /\ g[s] = g[s \ {x}]

LEMMA SumsAddUp ==
  ASSUME NEW v, NEW S, IsFiniteSet(S), NEW ch, Choice(ch, S)
  PROVE  AddsUp(Sums(v, ch, S), v, S)
<1>1. PICK g : g = Sums(v, ch, S)
  OBVIOUS
<1>2. g = Unfold(v, ch, SUBSET S, g)
  BY <1>1, SumsDef
<1>3. \A s \in SUBSET S : g[s] = IF s = {} THEN 0 ELSE v[ch[s]] + g[s \ {ch[s]}]
  BY <1>2 DEF Unfold
<1>4. ASSUME NEW s \in SUBSET S, s # {}
      PROVE  \E x \in s : \/ g[s] = v[x] + g[s \ {x}]
                          \/ g[s] = g[s \ {x}] + v[x]
                          \/ v[x] = 0 /\ g[s] = g[s \ {x}]
  <2>1. ch[s] \in s /\ g[s] = v[ch[s]] + g[s \ {ch[s]}]
    BY <1>3, <1>4 DEF Choice
  <2> QED BY <2>1
<1>5. g[{}] = 0
  BY <1>3
<1>6. AddsUp(g, v, S)
  BY <1>4, <1>5 DEF AddsUp
<1> QED BY <1>1, <1>6

LEMMA SumsType ==
  ASSUME NEW v, NEW S, IsFiniteSet(S), Valued(v, S), NEW g, AddsUp(g, v, S)
  PROVE  \A s \in SUBSET S : g[s] \in Int
<1>1. /\ g[{}] = 0
      /\ \A s \in SUBSET S : s # {} => \E x \in s : \/ g[s] = v[x] + g[s \ {x}]
                                                    \/ g[s] = g[s \ {x}] + v[x]
                                                    \/ v[x] = 0 /\ g[s] = g[s \ {x}]
  BY DEF AddsUp
<1> DEFINE T == {n \in Nat : \A s \in SUBSET S : Cardinality(s) = n => g[s] \in Int}
<1>2. 0 \in T
  <2> SUFFICES ASSUME NEW s \in SUBSET S, Cardinality(s) = 0 PROVE g[s] \in Int
    OBVIOUS
  <2>1. s = {}
    BY FS_Subset, FS_EmptySet
  <2> QED BY <1>1, <2>1
<1>3. ASSUME NEW n \in Nat, n \in T PROVE n + 1 \in T
  <2> SUFFICES ASSUME NEW s \in SUBSET S, Cardinality(s) = n + 1 PROVE g[s] \in Int
    OBVIOUS
  <2>1. s # {}
    BY FS_EmptySet
  <2>2. PICK x \in s : g[s] = v[x] + g[s \ {x}] \/ g[s] = g[s \ {x}] + v[x] \/ g[s] = g[s \ {x}]
    BY <1>1, <2>1
  <2>3. v[x] \in Int
    BY DEF Valued
  <2>4. s \ {x} \in SUBSET S /\ Cardinality(s \ {x}) = n
    <3>1. s \ {x} \in SUBSET S /\ Cardinality(s \ {x}) = Cardinality(s) - 1
      BY RemoveOne
    <3> QED BY <3>1
  <2>5. g[s \ {x}] \in Int
    BY <1>3, <2>4
  <2> QED BY <2>2, <2>3, <2>5
<1>4. Nat \subseteq T
  <2> HIDE DEF T
  <2> QED BY <1>2, <1>3, SetInduction
<1> SUFFICES ASSUME NEW s \in SUBSET S PROVE g[s] \in Int
  OBVIOUS
<1>5. Cardinality(s) \in Nat
  BY FS_Subset, FS_CardinalityType
<1> QED BY <1>4, <1>5

\* Any element may be taken out of a sum first.
LEMMA SumsRemove ==
  ASSUME NEW v, NEW S, IsFiniteSet(S), Valued(v, S), NEW g, AddsUp(g, v, S)
  PROVE  \A s \in SUBSET S : \A y \in s : g[s] = v[y] + g[s \ {y}]
<1>1. \A s \in SUBSET S : s # {} => \E x \in s : \/ g[s] = v[x] + g[s \ {x}]
                                                 \/ g[s] = g[s \ {x}] + v[x]
                                                 \/ v[x] = 0 /\ g[s] = g[s \ {x}]
  BY DEF AddsUp
<1>2. \A s \in SUBSET S : g[s] \in Int
  BY SumsType
<1> DEFINE Good(s) == \A y \in s : g[s] = v[y] + g[s \ {y}]
           T == {n \in Nat : \A s \in SUBSET S : Cardinality(s) = n => Good(s)}
<1>3. 0 \in T
  <2> SUFFICES ASSUME NEW s \in SUBSET S, Cardinality(s) = 0 PROVE Good(s)
    OBVIOUS
  <2>1. s = {}
    BY FS_Subset, FS_EmptySet
  <2> QED BY <2>1
<1>4. ASSUME NEW n \in Nat, n \in T PROVE n + 1 \in T
  <2> SUFFICES ASSUME NEW s \in SUBSET S, Cardinality(s) = n + 1, NEW y \in s
               PROVE  g[s] = v[y] + g[s \ {y}]
    OBVIOUS
  <2>1. ASSUME NEW z \in s PROVE s \ {z} \in SUBSET S /\ Good(s \ {z}) /\ v[z] \in Int
    <3>1. s \ {z} \in SUBSET S /\ Cardinality(s \ {z}) = Cardinality(s) - 1
      BY RemoveOne
    <3>2. Cardinality(s \ {z}) = n
      BY <3>1
    <3>3. Good(s \ {z})
      BY <1>4, <3>1, <3>2
    <3> HIDE DEF Good
    <3> QED BY <3>1, <3>3 DEF Valued
  <2>2. PICK x \in s : \/ g[s] = v[x] + g[s \ {x}]
                       \/ g[s] = g[s \ {x}] + v[x]
                       \/ v[x] = 0 /\ g[s] = g[s \ {x}]
    BY <1>1
  <2>3. x \in s /\ g[s] = v[x] + g[s \ {x}]
    <3>1. PICK r : r = s \ {x}
      OBVIOUS
    <3>2. g[r] \in Int /\ v[x] \in Int
      BY <1>2, <2>1, <3>1
    <3>3. g[s] = v[x] + g[r] \/ g[s] = g[r] + v[x] \/ (v[x] = 0 /\ g[s] = g[r])
      BY <2>2, <3>1
    <3> QED BY <3>1, <3>2, <3>3
  <2>4. CASE y = x
    BY <2>3, <2>4
  <2>5. CASE y # x
    <3>1. g[s \ {x}] = v[y] + g[(s \ {x}) \ {y}]
      BY <2>1, <2>3, <2>5
    <3>2. g[s \ {y}] = v[x] + g[(s \ {y}) \ {x}]
      BY <2>1, <2>3, <2>5
    <3>3. PICK r : r = (s \ {x}) \ {y}
      OBVIOUS
    <3>4. (s \ {y}) \ {x} = r /\ r \in SUBSET S
      BY <3>3
    <3>5. g[r] \in Int /\ v[x] \in Int /\ v[y] \in Int
      BY <1>2, <2>1, <2>3, <3>4
    <3>6. g[s \ {x}] = v[y] + g[r] /\ g[s \ {y}] = v[x] + g[r]
      BY <3>1, <3>2, <3>3, <3>4
    <3> QED BY <2>3, <3>5, <3>6
  <2> QED BY <2>4, <2>5
<1>5. Nat \subseteq T
  <2> HIDE DEF T
  <2> QED BY <1>3, <1>4, SetInduction
<1> SUFFICES ASSUME NEW s \in SUBSET S PROVE Good(s)
  OBVIOUS
<1>6. Cardinality(s) \in Nat
  BY FS_Subset, FS_CardinalityType
<1> HIDE DEF Good
<1> QED BY <1>5, <1>6

\* A sum depends on the values of its elements only, not on the order they are
\* taken in nor on the set it is a part of.
LEMMA SumsAgree ==
  ASSUME NEW v, NEW S, IsFiniteSet(S), Valued(v, S), NEW g, AddsUp(g, v, S),
         NEW w, NEW U, IsFiniteSet(U), Valued(w, U), NEW h, AddsUp(h, w, U),
         NEW R, R \subseteq S, R \subseteq U, \A x \in R : v[x] = w[x]
  PROVE  g[R] = h[R]
<1> DEFINE T == {n \in Nat : \A s \in SUBSET R : Cardinality(s) = n => g[s] = h[s]}
<1>0. IsFiniteSet(R)
  BY FS_Subset
<1>1. 0 \in T
  <2> SUFFICES ASSUME NEW s \in SUBSET R, Cardinality(s) = 0 PROVE g[s] = h[s]
    OBVIOUS
  <2>1. s = {}
    BY <1>0, FS_Subset, FS_EmptySet
  <2>2. g[{}] = 0 /\ h[{}] = 0
    BY DEF AddsUp
  <2> QED BY <2>1, <2>2
<1>2. ASSUME NEW n \in Nat, n \in T PROVE n + 1 \in T
  <2> SUFFICES ASSUME NEW s \in SUBSET R, Cardinality(s) = n + 1 PROVE g[s] = h[s]
    OBVIOUS
  <2>1. PICK x : x \in s
    <3>1. s # {}
      BY FS_EmptySet
    <3> QED BY <3>1
  <2>2. s \ {x} \in SUBSET R /\ Cardinality(s \ {x}) = Cardinality(s) - 1
    BY <1>0, <2>1, RemoveOne
  <2>3. g[s \ {x}] = h[s \ {x}]
    BY <1>2, <2>2
  <2>4. g[s] = v[x] + g[s \ {x}]
    BY <2>1, SumsRemove
  <2>5. h[s] = w[x] + h[s \ {x}]
    BY <2>1, SumsRemove
  <2> QED BY <2>1, <2>3, <2>4, <2>5
<1>3. Nat \subseteq T
  <2> HIDE DEF T
  <2> QED BY <1>1, <1>2, SetInduction
<1>4. Cardinality(R) \in Nat
  BY <1>0, FS_CardinalityType
<1> QED BY <1>3, <1>4

\* The element a fold of the community modules takes next, unless told otherwise.
First(s) == CHOOSE x \in s : TRUE

LEMMA FirstIsChoice ==
  ASSUME NEW S
  PROVE  Choice([s \in SUBSET S |-> First(s)], S)
<1> SUFFICES ASSUME NEW s \in SUBSET S, s # {} PROVE [r \in SUBSET S |-> First(r)][s] \in s
  BY DEF Choice
<1> QED BY DEF First

\* The sum of the values of S itself, and how it changes with S and with the values.
Total(v, S) == Sums(v, [s \in SUBSET S |-> First(s)], S)[S]

LEMMA TotalIs ==
  ASSUME NEW v, NEW S, IsFiniteSet(S), Valued(v, S), NEW g, AddsUp(g, v, S)
  PROVE  Total(v, S) = g[S]
<1>1. PICK h : h = Sums(v, [s \in SUBSET S |-> First(s)], S)
  OBVIOUS
<1>2. AddsUp(h, v, S)
  BY <1>1, FirstIsChoice, SumsAddUp
<1>3. h[S] = g[S]
  BY <1>2, SumsAgree
<1> QED BY <1>1, <1>3 DEF Total

LEMMA TotalExists ==
  ASSUME NEW v, NEW S, IsFiniteSet(S)
  PROVE  \E g : AddsUp(g, v, S) /\ Total(v, S) = g[S]
<1>1. AddsUp(Sums(v, [s \in SUBSET S |-> First(s)], S), v, S)
  BY FirstIsChoice, SumsAddUp
<1> QED BY <1>1 DEF Total

LEMMA TotalType ==
  ASSUME NEW v, NEW S, IsFiniteSet(S), Valued(v, S)
  PROVE  Total(v, S) \in Int
<1>1. PICK g : AddsUp(g, v, S) /\ Total(v, S) = g[S]
  BY TotalExists
<1> QED BY <1>1, SumsType

LEMMA TotalEmpty ==
  ASSUME NEW v
  PROVE  Total(v, {}) = 0
<1>1. IsFiniteSet({})
  BY FS_EmptySet
<1>2. PICK g : AddsUp(g, v, {}) /\ Total(v, {}) = g[{}]
  BY <1>1, TotalExists
<1> QED BY <1>2 DEF AddsUp

LEMMA TotalAgrees ==
  ASSUME NEW v, NEW w, NEW S, IsFiniteSet(S), Valued(v, S), \A x \in S : v[x] = w[x]
  PROVE  Total(v, S) = Total(w, S)
<1>1. PICK g : AddsUp(g, v, S) /\ Total(v, S) = g[S]
  BY TotalExists
<1>2. Valued(w, S)
  BY DEF Valued
<1>3. PICK h : AddsUp(h, w, S) /\ Total(w, S) = h[S]
  BY TotalExists
<1>4. g[S] = h[S]
  BY <1>1, <1>2, <1>3, SumsAgree
<1> QED BY <1>1, <1>3, <1>4

LEMMA TotalAdd ==
  ASSUME NEW v, NEW S, IsFiniteSet(S), NEW x, x \notin S, Valued(v, S \union {x})
  PROVE  Total(v, S \union {x}) = Total(v, S) + v[x]
<1>1. PICK T : T = S \union {x}
  OBVIOUS
<1>2. IsFiniteSet(T) /\ Valued(v, T) /\ Valued(v, S) /\ v[x] \in Int
  BY <1>1, FS_AddElement DEF Valued
<1>3. PICK g : AddsUp(g, v, T) /\ Total(v, T) = g[T]
  BY <1>2, TotalExists
<1>4. PICK h : AddsUp(h, v, S) /\ Total(v, S) = h[S]
  BY TotalExists
<1>5. g[S] = h[S]
  BY <1>1, <1>2, <1>3, <1>4, SumsAgree
<1>6. g[T] = v[x] + g[S]
  <2>1. T \ {x} = S /\ x \in T /\ T \in SUBSET T
    BY <1>1
  <2>2. g[T] = v[x] + g[T \ {x}]
    BY <1>2, <1>3, <2>1, SumsRemove
  <2> QED BY <2>1, <2>2
<1>7. h[S] \in Int
  BY <1>2, <1>4, SumsType
<1> QED BY <1>1, <1>2, <1>3, <1>4, <1>5, <1>6, <1>7

LEMMA TotalChange ==
  ASSUME NEW v, NEW w, NEW S, IsFiniteSet(S), Valued(v, S), Valued(w, S),
         NEW x \in S, \A y \in S : y # x => v[y] = w[y]
  PROVE  Total(w, S) = Total(v, S) - v[x] + w[x]
<1>1. PICK R : R = S \ {x}
  OBVIOUS
<1>2. S = R \union {x} /\ x \notin R /\ IsFiniteSet(R)
  BY <1>1, FS_RemoveElement
<1>3. Valued(v, R) /\ \A y \in R : v[y] = w[y]
  BY <1>1 DEF Valued
<1>4. Total(v, S) = Total(v, R) + v[x] /\ Total(w, S) = Total(w, R) + w[x]
  BY <1>2, TotalAdd
<1>5. Total(v, R) = Total(w, R) /\ Total(v, R) \in Int
  BY <1>2, <1>3, TotalAgrees, TotalType
<1> QED BY <1>4, <1>5 DEF Valued

LEMMA TotalOfZeros ==
  ASSUME NEW v, NEW S, IsFiniteSet(S), \A x \in S : v[x] = 0
  PROVE  Total(v, S) = 0
<1>1. PICK g : g = [s \in SUBSET S |-> 0]
  OBVIOUS
<1>2. \A s \in SUBSET S : s # {} => \E x \in s : v[x] = 0 /\ g[s] = g[s \ {x}]
  <2> SUFFICES ASSUME NEW s \in SUBSET S, s # {} PROVE \E x \in s : v[x] = 0 /\ g[s] = g[s \ {x}]
    OBVIOUS
  <2>1. PICK x : x \in s
    OBVIOUS
  <2> QED BY <1>1, <2>1
<1>3. AddsUp(g, v, S) /\ Valued(v, S) /\ g[S] = 0
  BY <1>1, <1>2 DEF AddsUp, Valued
<1> QED BY <1>3, TotalIs

LEMMA TotalTake ==
  ASSUME NEW v, NEW S, IsFiniteSet(S), Valued(v, S), NEW s \in SUBSET S, NEW x \in s
  PROVE  /\ Total(v, s) = Total(v, s \ {x}) + v[x]
         /\ Total(v, s \ {x}) \in Int /\ v[x] \in Int
<1>1. PICK r : r = s \ {x}
  OBVIOUS
<1>2. s = r \union {x} /\ x \notin r /\ IsFiniteSet(r)
  BY <1>1, FS_Subset
<1>3. Valued(v, s) /\ Valued(v, r) /\ v[x] \in Int
  BY <1>1 DEF Valued
<1>4. Total(v, s) = Total(v, r) + v[x]
  BY <1>2, <1>3, TotalAdd
<1> QED BY <1>1, <1>2, <1>3, <1>4, TotalType

\* h is f and g together; h is f, c times; f is nowhere above h; f is c everywhere.
Together(h, f, g, S) == \A x \in S : h[x] = f[x] + g[x]
Times(h, c, f, S)    == \A x \in S : h[x] = c * f[x]
NeverAbove(f, h, S)  == \A x \in S : f[x] <= h[x]
Everywhere(f, c, S)  == \A x \in S : f[x] = c

LEMMA TotalPlus ==
  ASSUME NEW S, IsFiniteSet(S), NEW f, NEW g, NEW h,
         Valued(f, S), Valued(g, S), Valued(h, S), Together(h, f, g, S)
  PROVE  Total(h, S) = Total(f, S) + Total(g, S)
<1> DEFINE Q == {s \in SUBSET S : Total(h, s) = Total(f, s) + Total(g, s)}
<1>1. {} \in Q
  BY TotalEmpty
<1>2. ASSUME NEW s \in SUBSET S, NEW x \in s, s \ {x} \in Q PROVE s \in Q
  <2>1. /\ Total(f, s) = Total(f, s \ {x}) + f[x] /\ Total(f, s \ {x}) \in Int /\ f[x] \in Int
        /\ Total(g, s) = Total(g, s \ {x}) + g[x] /\ Total(g, s \ {x}) \in Int /\ g[x] \in Int
        /\ Total(h, s) = Total(h, s \ {x}) + h[x]
    <3> HIDE DEF Q
    <3> QED BY TotalTake
  <2>2. h[x] = f[x] + g[x]
    BY DEF Together
  <2>3. Total(h, s \ {x}) = Total(f, s \ {x}) + Total(g, s \ {x})
    BY <1>2
  <2>4. Total(h, s) = Total(f, s) + Total(g, s)
    BY <2>1, <2>2, <2>3
  <2> QED BY <2>4
<1>3. S \in Q
  <2> HIDE DEF Q
  <2>1. \A s \in SUBSET S : \A x \in s : s \ {x} \in Q => s \in Q
    BY <1>2, Zenon
  <2>2. \A s \in SUBSET S : s \in Q
    BY <1>1, <2>1, SubsetInduction, Zenon
  <2> QED BY <2>2
<1> QED BY <1>3

LEMMA TotalTimes ==
  ASSUME NEW S, IsFiniteSet(S), NEW f, NEW h, NEW c \in Int,
         Valued(f, S), Valued(h, S), Times(h, c, f, S)
  PROVE  Total(h, S) = c * Total(f, S)
<1> DEFINE Q == {s \in SUBSET S : Total(h, s) = c * Total(f, s)}
<1>1. {} \in Q
  BY TotalEmpty
<1>2. ASSUME NEW s \in SUBSET S, NEW x \in s, s \ {x} \in Q PROVE s \in Q
  <2>1. /\ Total(f, s) = Total(f, s \ {x}) + f[x] /\ Total(f, s \ {x}) \in Int /\ f[x] \in Int
        /\ Total(h, s) = Total(h, s \ {x}) + h[x]
    <3> HIDE DEF Q
    <3> QED BY TotalTake, Zenon
  <2>2. h[x] = c * f[x]
    BY DEF Times
  <2>3. Total(h, s \ {x}) = c * Total(f, s \ {x})
    BY <1>2
  <2>4. PICK a \in Int, b \in Int : a = Total(f, s \ {x}) /\ b = f[x]
    BY <2>1
  <2>5. c * (a + b) = c * a + c * b
    OBVIOUS
  <2>6. Total(h, s) = c * Total(f, s)
    BY <2>1, <2>2, <2>3, <2>4, <2>5
  <2> QED BY <2>6
<1>3. S \in Q
  <2> HIDE DEF Q
  <2>1. \A s \in SUBSET S : \A x \in s : s \ {x} \in Q => s \in Q
    BY <1>2, Zenon
  <2>2. \A s \in SUBSET S : s \in Q
    BY <1>1, <2>1, SubsetInduction, Zenon
  <2> QED BY <2>2
<1> QED BY <1>3

LEMMA TotalMonotone ==
  ASSUME NEW S, IsFiniteSet(S), NEW f, NEW h, Valued(f, S), Valued(h, S), NeverAbove(f, h, S)
  PROVE  /\ Total(f, S) <= Total(h, S)
         /\ (\E x \in S : f[x] < h[x]) => Total(f, S) < Total(h, S)
<1> DEFINE Q == {s \in SUBSET S : /\ Total(f, s) <= Total(h, s)
                                  /\ (\E x \in s : f[x] < h[x]) => Total(f, s) < Total(h, s)}
<1>1. {} \in Q
  BY TotalEmpty
<1>2. ASSUME NEW s \in SUBSET S, NEW x \in s, s \ {x} \in Q PROVE s \in Q
  <2>1. /\ Total(f, s) = Total(f, s \ {x}) + f[x] /\ Total(f, s \ {x}) \in Int /\ f[x] \in Int
        /\ Total(h, s) = Total(h, s \ {x}) + h[x] /\ Total(h, s \ {x}) \in Int /\ h[x] \in Int
    <3> HIDE DEF Q
    <3> QED BY TotalTake
  <2>2. f[x] <= h[x]
    BY DEF NeverAbove
  <2>3. /\ Total(f, s \ {x}) <= Total(h, s \ {x})
        /\ (\E y \in s \ {x} : f[y] < h[y]) => Total(f, s \ {x}) < Total(h, s \ {x})
    BY <1>2
  <2>4. Total(f, s) <= Total(h, s)
    BY <2>1, <2>2, <2>3
  <2>5. ASSUME NEW y \in s, f[y] < h[y] PROVE Total(f, s) < Total(h, s)
    <3>1. CASE y = x
      BY <2>1, <2>3, <2>5, <3>1
    <3>2. CASE y # x
      <4>1. Total(f, s \ {x}) < Total(h, s \ {x})
        BY <2>3, <2>5, <3>2
      <4> QED BY <2>1, <2>2, <4>1
    <3> QED BY <3>1, <3>2
  <2> QED BY <2>4, <2>5
<1>3. S \in Q
  <2> HIDE DEF Q
  <2>1. \A s \in SUBSET S : \A x \in s : s \ {x} \in Q => s \in Q
    BY <1>2, Zenon
  <2>2. \A s \in SUBSET S : s \in Q
    BY <1>1, <2>1, SubsetInduction, Zenon
  <2> QED BY <2>2
<1> QED BY <1>3

LEMMA TotalOfEqual ==
  ASSUME NEW S, IsFiniteSet(S), NEW f, NEW c \in Int, Everywhere(f, c, S)
  PROVE  Total(f, S) = c * Cardinality(S)
<1> DEFINE Q == {s \in SUBSET S : Total(f, s) = c * Cardinality(s)}
<1>1. {} \in Q
  <2>1. Total(f, {}) = 0 /\ Cardinality({}) = 0
    BY TotalEmpty, FS_EmptySet
  <2> QED BY <2>1
<1>2. ASSUME NEW s \in SUBSET S, NEW x \in s, s \ {x} \in Q PROVE s \in Q
  <2>1. Total(f, s) = Total(f, s \ {x}) + f[x]
    <3>1. Valued(f, S)
      BY DEF Valued, Everywhere
    <3> HIDE DEF Q
    <3> QED BY <3>1, TotalTake
  <2>2. f[x] = c
    BY DEF Everywhere
  <2>3. PICK m : m = Cardinality(s \ {x})
    OBVIOUS
  <2>4. m \in Nat /\ Cardinality(s) = m + 1
    <3>1. Cardinality(s) \in Nat \ {0} /\ Cardinality(s \ {x}) = Cardinality(s) - 1
      <4> HIDE DEF Q
      <4> QED BY RemoveOne, Zenon
    <3> QED BY <2>3, <3>1
  <2>5. Total(f, s \ {x}) = c * m
    BY <1>2, <2>3
  <2>6. c * (m + 1) = c * m + c
    BY <2>4
  <2>7. Total(f, s) = c * Cardinality(s)
    BY <2>1, <2>2, <2>4, <2>5, <2>6
  <2> QED BY <2>7
<1>3. S \in Q
  <2> HIDE DEF Q
  <2>1. \A s \in SUBSET S : \A x \in s : s \ {x} \in Q => s \in Q
    BY <1>2, Zenon
  <2>2. \A s \in SUBSET S : s \in Q
    BY <1>1, <2>1, SubsetInduction, Zenon
  <2> QED BY <2>2
<1> QED BY <1>3

\* f pairs the elements of A off with those of B.
Paired(f, A, B) ==
    /\ \A x \in A : f[x] \in B
    /\ \A x, y \in A : f[x] = f[y] => x = y
    /\ \A z \in B : \E x \in A : f[x] = z

LEMMA PairedPart ==
  ASSUME NEW f, NEW A, NEW B, Paired(f, A, B), NEW P \in SUBSET A, NEW Q \in SUBSET B,
         \A x \in A : x \in P <=> f[x] \in Q
  PROVE  Paired(f, P, Q)
BY DEF Paired

\* Sets that pair off have as many elements, and the same sum of equal values.
LEMMA PairedTotal ==
  ASSUME NEW f, NEW A, NEW B, IsFiniteSet(A), Paired(f, A, B),
         NEW v, NEW w, Valued(v, A), \A x \in A : w[f[x]] = v[x]
  PROVE  IsFiniteSet(B) /\ Cardinality(B) = Cardinality(A) /\ Total(w, B) = Total(v, A)
<1> DEFINE Im(s) == {f[x] : x \in s}
           Q == {s \in SUBSET A : /\ IsFiniteSet(Im(s)) /\ Cardinality(Im(s)) = Cardinality(s)
                                  /\ Total(w, Im(s)) = Total(v, s)}
<1>1. {} \in Q
  <2>1. Im({}) = {}
    OBVIOUS
  <2> HIDE DEF Im
  <2> QED BY <2>1, FS_EmptySet, TotalEmpty
<1>2. ASSUME NEW s \in SUBSET A, NEW x \in s, s \ {x} \in Q PROVE s \in Q
  <2>1. PICK r : r = s \ {x}
    OBVIOUS
  <2>2. PICK I, z : I = Im(r) /\ z = f[x]
    OBVIOUS
  <2>3. Im(s) = I \union {z} /\ z \notin I
    BY <2>1, <2>2 DEF Paired
  <2>4. Valued(w, I \union {z}) /\ w[z] = v[x]
    BY <2>1, <2>2 DEF Valued
  <2>5. r \in Q
    BY <1>2, <2>1
  <2>6. IsFiniteSet(I) /\ Cardinality(I) = Cardinality(r) /\ Total(w, I) = Total(v, r)
    BY <2>2, <2>5
  <2> HIDE DEF Im, Q
  <2>7. Total(w, I \union {z}) = Total(w, I) + w[z]
    BY <2>3, <2>4, <2>6, TotalAdd
  <2>8. Total(v, s) = Total(v, r) + v[x]
    BY <2>1, TotalTake
  <2>9. Cardinality(s) \in Nat \ {0} /\ Cardinality(r) = Cardinality(s) - 1
    BY <2>1, RemoveOne
  <2>10. IsFiniteSet(I \union {z}) /\ Cardinality(I \union {z}) = Cardinality(I) + 1
    BY <2>3, <2>6, FS_AddElement
  <2>11. Cardinality(I \union {z}) = Cardinality(s)
    BY <2>6, <2>9, <2>10
  <2> QED BY <2>3, <2>4, <2>6, <2>7, <2>8, <2>10, <2>11 DEF Q
<1>3. A \in Q
  <2> HIDE DEF Q
  <2>1. \A s \in SUBSET A : \A x \in s : s \ {x} \in Q => s \in Q
    BY <1>2, Zenon
  <2>2. \A s \in SUBSET A : s \in Q
    BY <1>1, <2>1, SubsetInduction, Zenon
  <2> QED BY <2>2
<1>4. Im(A) = B
  BY DEF Paired
<1> HIDE DEF Im
<1> QED BY <1>3, <1>4

\* The fold of the community modules adds up the values of a function.
LEMMA FunctionTotal ==
  ASSUME NEW v, NEW S
  PROVE  MapThenSumSet(LAMBDA x : v[x], S) = Total(v, S)
<1>1. PICK ch : ch = [s \in SUBSET S |-> First(s)]
  OBVIOUS
<1>2. Choice(ch, S)
  BY <1>1, FirstIsChoice
<1>3. ASSUME NEW g
      PROVE  Unfold(v, ch, SUBSET S, g) =
               [s \in SUBSET S |-> IF s = {} THEN 0 ELSE v[First(s)] + g[s \ {First(s)}]]
  <2>1. ASSUME NEW s \in SUBSET S, s # {} PROVE ch[s] = First(s)
    BY <1>1
  <2> QED BY <1>1, <2>1 DEF Unfold
<1>4. Sums(v, ch, S) =
        (CHOOSE g : g = [s \in SUBSET S |-> IF s = {} THEN 0 ELSE v[First(s)] + g[s \ {First(s)}]])
  <2>1. Sums(v, ch, S) = (CHOOSE g : g = Unfold(v, ch, SUBSET S, g))
    BY DEF Sums
  <2>2. (CHOOSE g : g = Unfold(v, ch, SUBSET S, g)) =
        (CHOOSE g : g = [s \in SUBSET S |-> IF s = {} THEN 0 ELSE v[First(s)] + g[s \ {First(s)}]])
    BY <1>3, Zenon
  <2> QED BY <2>1, <2>2, Zenon
<1>5. MapThenSumSet(LAMBDA x : v[x], S) = Sums(v, ch, S)[S]
  BY <1>4, Zenon DEF First, MapThenSumSet, MapThenFoldSet
<1> QED BY <1>1, <1>5 DEF Total

\* Parts without a common element add up.
LEMMA TotalUnion ==
  ASSUME NEW S, IsFiniteSet(S), NEW v, Valued(v, S),
         NEW A \in SUBSET S, NEW B \in SUBSET S, A \intersect B = {}
  PROVE  Total(v, A \union B) = Total(v, A) + Total(v, B)
<1> DEFINE Q == {s \in SUBSET B : Total(v, A \union s) = Total(v, A) + Total(v, s)}
<1>1. Total(v, A) \in Int /\ IsFiniteSet(B)
  <2>1. IsFiniteSet(A) /\ IsFiniteSet(B)
    BY FS_Subset
  <2>2. Valued(v, A)
    BY DEF Valued
  <2> QED BY <2>1, <2>2, TotalType
<1>2. {} \in Q
  <2>1. A \union {} = A
    OBVIOUS
  <2> QED BY <1>1, <2>1, TotalEmpty
<1>3. ASSUME NEW s \in SUBSET B, NEW x \in s, s \ {x} \in Q PROVE s \in Q
  <2>1. PICK r : r = s \ {x}
    OBVIOUS
  <2>2. /\ s \in SUBSET S /\ A \union s \in SUBSET S /\ x \in A \union s
        /\ (A \union s) \ {x} = A \union r
    BY <2>1
  <2>3. /\ Total(v, s) = Total(v, r) + v[x] /\ Total(v, r) \in Int /\ v[x] \in Int
    BY <2>1, <2>2, TotalTake
  <2>4. Total(v, A \union s) = Total(v, A \union r) + v[x]
    <3>1. Total(v, A \union s) = Total(v, (A \union s) \ {x}) + v[x]
      BY <2>2, TotalTake
    <3>2. (A \union s) \ {x} = A \union r
      BY <2>2
    <3> QED BY <3>1, <3>2, Zenon
  <2>5. Total(v, A \union r) = Total(v, A) + Total(v, r)
    BY <1>3, <2>1
  <2>6. Total(v, A \union s) = Total(v, A) + Total(v, s)
    BY <1>1, <2>3, <2>4, <2>5
  <2> QED BY <2>6
<1>4. B \in Q
  <2> HIDE DEF Q
  <2>1. \A s \in SUBSET B : \A x \in s : s \ {x} \in Q => s \in Q
    BY <1>3, Zenon
  <2>2. \A s \in SUBSET B : s \in Q
    BY <1>1, <1>2, <2>1, SubsetInduction, Zenon
  <2> QED BY <2>2
<1> QED BY <1>4

\* Values outside of s are zero: only s counts.
LEMMA TotalPart ==
  ASSUME NEW S, IsFiniteSet(S), NEW v, Valued(v, S), NEW s \in SUBSET S,
         \A x \in S \ s : v[x] = 0, NEW w, \A x \in s : w[x] = v[x]
  PROVE  Total(w, s) = Total(v, S)
<1>1. IsFiniteSet(s) /\ IsFiniteSet(S \ s) /\ Valued(w, s) /\ Valued(v, s)
  <2>1. IsFiniteSet(s) /\ IsFiniteSet(S \ s)
    BY FS_Subset
  <2> QED BY <2>1 DEF Valued
<1>2. Total(v, S \ s) = 0
  BY <1>1, TotalOfZeros
<1>3. Total(w, s) = Total(v, s) /\ Total(v, s) \in Int
  BY <1>1, TotalAgrees, TotalType
<1>4. S = s \union (S \ s) /\ s \intersect (S \ s) = {}
  OBVIOUS
<1>5. Total(v, s \union (S \ s)) = Total(v, s) + Total(v, S \ s)
  BY <1>4, TotalUnion
<1>6. Total(v, S) = Total(v, s) + Total(v, S \ s)
  BY <1>4, <1>5, Zenon
<1> QED BY <1>2, <1>3, <1>6

\* A sum over S is the sum over J of the sums over the elements that k sends to each.
Fiber(k, S, j) == {x \in S : k[x] = j}

LEMMA TotalFibers ==
  ASSUME NEW S, IsFiniteSet(S), NEW v, Valued(v, S), NEW J, IsFiniteSet(J),
         NEW k, \A x \in S : k[x] \in J,
         NEW w, \A j \in J : w[j] = Total(v, Fiber(k, S, j))
  PROVE  Valued(w, J) /\ Total(v, S) = Total(w, J)
<1> DEFINE Part(s) == {x \in S : k[x] \in s}
           Q == {s \in SUBSET J : Total(v, Part(s)) = Total(w, s)}
<1>1. Valued(w, J)
  <2> SUFFICES ASSUME NEW j \in J PROVE w[j] \in Int
    BY DEF Valued
  <2>1. PICK F : F = Fiber(k, S, j)
    OBVIOUS
  <2>2. F \in SUBSET S
    BY <2>1 DEF Fiber
  <2>3. IsFiniteSet(F) /\ Valued(v, F)
    BY <2>2, FS_Subset DEF Valued
  <2> QED BY <2>1, <2>3, TotalType
<1>2. {} \in Q
  <2>1. Part({}) = {}
    OBVIOUS
  <2> QED BY <2>1, TotalEmpty
<1>3. ASSUME NEW s \in SUBSET J, NEW j \in s, s \ {j} \in Q PROVE s \in Q
  <2>1. PICK A, B : A = Part(s \ {j}) /\ B = Fiber(k, S, j)
    OBVIOUS
  <2>2. /\ A \in SUBSET S /\ B \in SUBSET S /\ A \intersect B = {} /\ Part(s) = A \union B
    BY <2>1 DEF Fiber
  <2>3. Total(v, Part(s)) = Total(v, A) + Total(v, B)
    BY <2>2, TotalUnion
  <2>4. Total(w, s) = Total(w, s \ {j}) + w[j] /\ w[j] = Total(v, B)
    BY <1>1, <2>1, TotalTake
  <2>5. Total(v, A) = Total(w, s \ {j})
    BY <1>3, <2>1
  <2>6. Total(v, Part(s)) = Total(w, s)
    BY <2>3, <2>4, <2>5
  <2> QED BY <2>6
<1>4. J \in Q
  <2> HIDE DEF Q
  <2>1. \A s \in SUBSET J : \A x \in s : s \ {x} \in Q => s \in Q
    BY <1>3, Zenon
  <2>2. \A s \in SUBSET J : s \in Q
    BY <1>2, <2>1, SubsetInduction, Zenon
  <2> QED BY <2>2
<1>5. Part(J) = S
  OBVIOUS
<1> QED BY <1>1, <1>4, <1>5

-----------------------------------------------------------------------------
(* Sums over the places of a sequence of sequences. *)

\* The places of L[1], ..., L[N], and the values v has at those of L[i].
PlacesOf(L, N) == UNION {{i} \X DOMAIN L[i] : i \in 1..N}

AtPlace(v, i, n) == [m \in 1..n |-> v[<<i, m>>]]

LEMMA PlacesAre ==
  ASSUME NEW N, NEW L
  PROVE  \A p : p \in PlacesOf(L, N) <=>
                   /\ p = <<p[1], p[2]>> /\ p[1] \in 1..N /\ p[2] \in DOMAIN L[p[1]]
BY DEF PlacesOf

LEMMA PlacesFinite ==
  ASSUME NEW N \in Nat, NEW T, NEW L, \A i \in 1..N : L[i] \in Seq(T)
  PROVE  IsFiniteSet(PlacesOf(L, N))
<1> DEFINE S == {n \in Nat : n <= N => IsFiniteSet(PlacesOf(L, n))}
<1>1. 0 \in S
  <2>1. PlacesOf(L, 0) = {}
    BY DEF PlacesOf
  <2> QED BY <2>1, FS_EmptySet
<1>2. ASSUME NEW n \in Nat, n \in S PROVE n + 1 \in S
  <2> SUFFICES ASSUME n + 1 <= N PROVE IsFiniteSet(PlacesOf(L, n + 1))
    OBVIOUS
  <2>1. PICK len \in Nat : len = Len(L[n + 1]) /\ DOMAIN L[n + 1] = 1..len
    <3>1. PICK last \in Seq(T) : last = L[n + 1]
      OBVIOUS
    <3> QED BY <3>1
  <2>2. PICK R, D : R = {n + 1} \X (1..len) /\ D = 1..len
    OBVIOUS
  <2>3. IsFiniteSet(R)
    <3>1. PICK f : f = [m \in D |-> <<n + 1, m>>]
      OBVIOUS
    <3>2. f \in Surjection(D, R)
      <4>1. f \in [D -> R]
        BY <2>2, <3>1
      <4>2. \A p \in R : \E m \in D : f[m] = p
        BY <2>2, <3>1
      <4> QED BY <4>1, <4>2 DEF Surjection
    <3>3. IsFiniteSet(D)
      BY <2>2, FS_Interval
    <3> QED BY <3>2, <3>3, FS_Surjection
  <2>4. 1..(n + 1) = (1..n) \union {n + 1}
    OBVIOUS
  <2>5. PlacesOf(L, n + 1) = PlacesOf(L, n) \union R
    BY <2>1, <2>2, <2>4 DEF PlacesOf
  <2>6. IsFiniteSet(PlacesOf(L, n))
    BY <1>2
  <2>7. IsFiniteSet(PlacesOf(L, n) \union R)
    BY <2>3, <2>6, FS_Union, Zenon
  <2> QED BY <2>5, <2>7
<1>3. N \in S
  <2> HIDE DEF S
  <2>1. Nat \subseteq S
    BY <1>1, <1>2, SetInduction
  <2> QED BY <2>1
<1> QED BY <1>3

\* The sum over all places is the sum of the sums over each sequence.
LEMMA PlacesTotal ==
  ASSUME NEW N \in Nat, NEW T, NEW L, \A i \in 1..N : L[i] \in Seq(T),
         NEW v, Valued(v, PlacesOf(L, N)),
         NEW w, \A i \in 1..N : w[i] = Total(AtPlace(v, i, Len(L[i])), 1..Len(L[i]))
  PROVE  Valued(w, 1..N) /\ Total(v, PlacesOf(L, N)) = Total(w, 1..N)
<1>1. PICK P, k : P = PlacesOf(L, N) /\ k = [p \in P |-> p[1]]
  OBVIOUS
<1>2. IsFiniteSet(P) /\ IsFiniteSet(1..N)
  <2>1. IsFiniteSet(PlacesOf(L, N))
    BY PlacesFinite
  <2> QED BY <1>1, <2>1, FS_Interval
<1>3. \A p \in P : k[p] \in 1..N
  BY <1>1, PlacesAre
<1>4. ASSUME NEW i \in 1..N PROVE w[i] = Total(v, Fiber(k, P, i))
  <2>1. PICK len \in Nat : len = Len(L[i]) /\ DOMAIN L[i] = 1..len
    <3>1. L[i] \in Seq(T)
      OBVIOUS
    <3> QED BY <3>1
  <2>2. PICK f, F, A, u : /\ f = [m \in 1..len |-> <<i, m>>] /\ F = Fiber(k, P, i) /\ A = 1..len
                          /\ u = AtPlace(v, i, len)
    OBVIOUS
  <2>3. \A p : p \in F <=> p \in P /\ p[1] = i
    BY <1>1, <2>2 DEF Fiber
  <2>4. Paired(f, A, F)
    <3>1. \A m \in A : f[m] \in F
      <4> SUFFICES ASSUME NEW m \in A PROVE f[m] \in F
        OBVIOUS
      <4>1. f[m] = <<i, m>> /\ m \in DOMAIN L[i]
        BY <2>1, <2>2
      <4>2. <<i, m>> \in P
        BY <1>1, <4>1 DEF PlacesOf
      <4> QED BY <2>3, <4>1, <4>2
    <3>2. \A m, n \in A : f[m] = f[n] => m = n
      BY <2>2
    <3>3. ASSUME NEW p \in F PROVE \E m \in A : f[m] = p
      <4>1. p = <<p[1], p[2]>> /\ p[1] = i /\ p[2] \in DOMAIN L[i]
        BY <1>1, <2>3, PlacesAre
      <4>2. p[2] \in A /\ f[p[2]] = <<i, p[2]>>
        BY <2>1, <2>2, <4>1
      <4> QED BY <4>1, <4>2
    <3> QED BY <3>1, <3>2, <3>3 DEF Paired
  <2>5. IsFiniteSet(A)
    BY <2>2, FS_Interval
  <2>6. \A m \in A : f[m] = <<i, m>> /\ u[m] = v[<<i, m>>] /\ v[f[m]] = u[m]
    BY <2>2 DEF AtPlace
  <2>7. \A m \in A : f[m] \in P
    BY <2>3, <2>4 DEF Paired
  <2>8. Valued(u, A)
    BY <1>1, <2>6, <2>7 DEF Valued
  <2>9. Total(v, F) = Total(u, A)
    <3>1. \A m \in A : v[f[m]] = u[m]
      BY <2>6
    <3> QED BY <2>4, <2>5, <2>8, <3>1, PairedTotal
  <2>10. w[i] = Total(u, A)
    BY <2>1, <2>2
  <2> QED BY <2>2, <2>9, <2>10
<1> QED BY <1>1, <1>2, <1>3, <1>4, TotalFibers
=============================================================================
