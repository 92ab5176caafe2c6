------------------------------ MODULE FiniteLemmas -----------------------------
(***************************************************************************)
(* Facts about natural numbers and finite sets that the proofs of several  *)
(* modules rest on: least and greatest elements, induction, listings of a  *)
(* set, and sums.  Induction is stated over sets: what holds of every      *)
(* number is that it is a member of a given set.  All of it comes from one *)
(* fact of the library, that there is no infinite descent among the        *)
(* subsets of a finite set.                                                *)
(***************************************************************************)
EXTENDS Integers, FiniteSetsExt, FiniteSetTheorems, FunctionTheorems, WellFoundedInduction, TLAPS

\* A family of subsets of a finite set has a minimal member.
LEMMA MinimalMember ==
  ASSUME NEW S, IsFiniteSet(S), NEW F \in SUBSET SUBSET S, F # {}
  PROVE  \E A \in F : \A B \in F : B \subseteq A => B = A
<1> DEFINE R == StrictSubsetOrdering(S)
<1>1. IsWellFoundedOn(R, FiniteSubsetsOf(S))
  BY FS_StrictSubsetOrderingWellFounded
<1>2. F \subseteq FiniteSubsetsOf(S)
  BY FS_Subset DEF FiniteSubsetsOf
<1> HIDE DEF R
<1>3. PICK A \in F : \A B \in F : ~(<<B, A>> \in R)
  BY <1>1, <1>2, WFMin
<1>4. QED
  BY <1>2, <1>3 DEF R, StrictSubsetOrdering

LEMMA LeastNatural ==
  ASSUME NEW T \in SUBSET Nat, T # {}
  PROVE  \E x \in T : \A y \in T : x <= y
<1>1. PICK n \in T : TRUE
  OBVIOUS
<1> DEFINE S == 1..n
           F == {1..m : m \in {k \in T : k <= n}}
<1>2. IsFiniteSet(S)
  BY FS_Interval
<1>3. F \in SUBSET SUBSET S /\ F # {}
  OBVIOUS
<1>4. PICK m \in T : m <= n /\ \A B \in F : B \subseteq 1..m => B = 1..m
  <2>1. \E A \in F : \A B \in F : B \subseteq A => B = A
    <3> HIDE DEF F, S
    <3> QED
      BY <1>2, <1>3, MinimalMember
  <2>2. QED
    BY <2>1
<1>5. ASSUME NEW y \in T, y < m PROVE FALSE
  <2>1. 1..y \in F /\ 1..y \subseteq 1..m /\ m \in 1..m /\ m \notin 1..y
    BY <1>4, <1>5
  <2>2. QED
    BY <1>4, <2>1
<1>6. QED
  BY <1>5

LEMMA GreatestNatural ==
  ASSUME NEW T \in SUBSET Nat, T # {}, IsFiniteSet(T)
  PROVE  \E x \in T : \A y \in T : y <= x
<1> DEFINE F == {{y \in T : x <= y} : x \in T}
<1>1. F \in SUBSET SUBSET T /\ F # {}
  OBVIOUS
<1>2. PICK x \in T : \A B \in F : B \subseteq {y \in T : x <= y} => B = {y \in T : x <= y}
  <2>1. \E A \in F : \A B \in F : B \subseteq A => B = A
    <3> DEFINE S == T
    <3>1. F \in SUBSET SUBSET S /\ F # {} /\ IsFiniteSet(S)
      BY <1>1
    <3> HIDE DEF F, S
    <3>2. QED
      BY <3>1, MinimalMember
  <2>2. QED
    BY <2>1
<1>3. ASSUME NEW y \in T, x < y PROVE FALSE
  <2> DEFINE A == {z \in T : x <= z}
             B == {z \in T : y <= z}
  <2>1. B \in F
    OBVIOUS
  <2>2. x \in A /\ x \notin B
    BY <1>3
  <2>3. \A z \in T : y <= z => x <= z
    BY <1>3
  <2>4. B \subseteq A
    BY <2>3
  <2>5. QED
    BY <1>2, <2>1, <2>2, <2>4
<1>4. QED
  BY <1>3

\* Min and Max of FiniteSetsExt are what their names say.
LEMMA MinIsLeast ==
  ASSUME NEW T \in SUBSET Nat, T # {}
  PROVE  Min(T) \in T /\ \A y \in T : Min(T) <= y
  BY LeastNatural DEF Min

LEMMA MaxIsGreatest ==
  ASSUME NEW T \in SUBSET Nat, T # {}, IsFiniteSet(T)
  PROVE  Max(T) \in T /\ \A y \in T : y <= Max(T)
  BY GreatestNatural DEF Max

-----------------------------------------------------------------------------
(* Induction *)

LEMMA NaturalInduction ==
  ASSUME NEW S, 0 \in S, \A n \in Nat : n \in S => n + 1 \in S
  PROVE  Nat \subseteq S
<1> SUFFICES ASSUME Nat \ S # {} PROVE FALSE
  OBVIOUS
<1>1. PICK x \in Nat \ S : \A y \in Nat \ S : x <= y
  BY LeastNatural
<1>2. x - 1 \in Nat /\ x - 1 \in S
  BY <1>1
<1>3. QED
  BY <1>1, <1>2

-----------------------------------------------------------------------------
(* Arithmetic *)

LEMMA DivisionBounds ==
  ASSUME NEW a \in Nat, NEW b \in Nat \ {0}
  PROVE  a \div b \in Nat /\ b * (a \div b) <= a /\ a < b * (a \div b) + b
  OBVIOUS

LEMMA Remainder ==
  ASSUME NEW a \in Nat, NEW b \in Nat \ {0}
  PROVE  a % b = a - b * (a \div b)
  OBVIOUS

LEMMA ProductGrows ==
  ASSUME NEW a \in Nat, NEW b \in Nat, NEW c \in Nat, a <= b
  PROVE  a * c \in Nat /\ b * c \in Nat /\ a * c <= b * c
  OBVIOUS

-----------------------------------------------------------------------------
(* Listings of a finite set *)

\* f[1], ..., f[n] are members of R, each another one ...
Lists(f, n, R) ==
    /\ \A i \in 1..n : f[i] \in R
    /\ \A i, j \in 1..n : f[i] = f[j] => i = j

\* ... and are all of them.
ListsAll(f, n, R) == Lists(f, n, R) /\ \A t \in R : \E i \in 1..n : f[i] = t

LEMMA ListingCounts ==
  ASSUME NEW n \in Nat, NEW R, NEW f, ListsAll(f, n, R)
  PROVE  IsFiniteSet(R) /\ Cardinality(R) = n
<1> DEFINE D == 1..n
           g == [i \in D |-> f[i]]
<1>1. /\ \A i \in D : f[i] \in R
      /\ \A i, j \in D : f[i] = f[j] => i = j
      /\ \A t \in R : \E i \in D : f[i] = t
  BY DEF ListsAll, Lists
<1> HIDE DEF D
<1>2. /\ g \in [D -> R] /\ \A i, j \in D : g[i] = g[j] => i = j
      /\ \A t \in R : \E i \in D : g[i] = t
  BY <1>1
<1> HIDE DEF g
<1>3. g \in Bijection(D, R)
  BY <1>2, Fun_IsBij
<1>4. ExistsBijection(D, R)
  BY <1>3, Fun_ExistsBij
<1>5. ExistsBijection(1..n, R)
  BY <1>4 DEF D
<1>6. QED
  BY <1>5, FS_NatBijection, FS_CountingElements

\* A listing that is as long as the set is large has it all.
LEMMA ListingIsOnto ==
  ASSUME NEW S, IsFiniteSet(S), NEW f, Lists(f, Cardinality(S), S)
  PROVE  ListsAll(f, Cardinality(S), S)
<1> DEFINE D == 1..Cardinality(S)
           g == [i \in D |-> f[i]]
<1>1. Cardinality(S) \in Nat
  BY FS_CardinalityType
<1>2. Cardinality(D) = Cardinality(S)
  BY <1>1, FS_Interval
<1>3. /\ \A i \in D : f[i] \in S
      /\ \A i, j \in D : f[i] = f[j] => i = j
  BY DEF Lists
<1> HIDE DEF D
<1>4. g \in [D -> S] /\ \A i, j \in D : g[i] = g[j] => i = j
  BY <1>3
<1>5. \A i \in D : g[i] = f[i]
  OBVIOUS
<1> HIDE DEF g
<1>6. g \in Injection(D, S)
  BY <1>4, Fun_IsInj
<1>7. g \in Surjection(D, S)
  BY <1>2, <1>6, FS_Injection
<1>8. \A t \in S : \E i \in D : f[i] = t
  BY <1>5, <1>7 DEF Surjection
<1>9. QED
  BY <1>8 DEF ListsAll, D
-----------------------------------------------------------------------------
(* Sums over finite sets *)

\* The sum of f over S.
Total(f, S) == MapThenSumSet(LAMBDA x : f[x], S)

\* g gives the sums over the subsets of S with at most n elements.
Partial(g, f, S, n) ==
    g = [s \in {t \in SUBSET S : Cardinality(t) <= n} |->
           IF s = {} THEN 0
           ELSE f[CHOOSE x \in s : TRUE] + g[s \ {CHOOSE x \in s : TRUE}]]

\* g gives the sums over all of them.
IsSum(g, f, S) ==
    g = [s \in SUBSET S |->
           IF s = {} THEN 0
           ELSE f[CHOOSE x \in s : TRUE] + g[s \ {CHOOSE x \in s : TRUE}]]

LEMMA OneLess ==
  ASSUME NEW S, IsFiniteSet(S), NEW s \in SUBSET S, s # {}
  PROVE  LET u == s \ {CHOOSE x \in s : TRUE}
         IN  /\ (CHOOSE x \in s : TRUE) \in s /\ u \in SUBSET S
             /\ Cardinality(s) \in Nat /\ Cardinality(u) \in Nat
             /\ Cardinality(s) = Cardinality(u) + 1
<1> DEFINE c == CHOOSE x \in s : TRUE
<1>1. c \in s
  OBVIOUS
<1>2. IsFiniteSet(s)
  BY FS_Subset
<1> HIDE DEF c
<1>3. /\ Cardinality(s) \in Nat /\ Cardinality(s \ {c}) \in Nat
      /\ Cardinality(s) = Cardinality(s \ {c}) + 1
  <2>1. IsFiniteSet(s \ {c}) /\ Cardinality(s \ {c}) = Cardinality(s) - 1
    BY <1>1, <1>2, FS_RemoveElement
  <2>2. Cardinality(s) \in Nat /\ Cardinality(s \ {c}) \in Nat
    BY <1>2, <2>1, FS_CardinalityType
  <2>3. QED
    BY <2>1, <2>2
<1>4. QED
  BY <1>1, <1>3 DEF c

LEMMA SumsExist ==
  ASSUME NEW S, IsFiniteSet(S), NEW f
  PROVE  \E g : IsSum(g, f, S)
<1> DEFINE K == {n \in Nat : \E g : Partial(g, f, S, n)}
           ch(s) == CHOOSE x \in s : TRUE
           Dom(n) == {t \in SUBSET S : Cardinality(t) <= n}
           next(g, n) == [s \in Dom(n) |-> IF s = {} THEN 0 ELSE f[ch(s)] + g[s \ {ch(s)}]]
<1>0. \A s \in SUBSET S : Cardinality(s) \in Nat /\ (Cardinality(s) = 0 <=> s = {})
  BY FS_Subset, FS_CardinalityType, FS_EmptySet
<1>1. ASSUME NEW s \in SUBSET S, s # {}
      PROVE  /\ s \ {ch(s)} \in SUBSET S
             /\ Cardinality(s \ {ch(s)}) \in Nat /\ Cardinality(s) = Cardinality(s \ {ch(s)}) + 1
  BY <1>1, OneLess
<1>2. \A g, n : Partial(g, f, S, n) <=> g = next(g, n)
  BY DEF Partial
<1> HIDE DEF ch
<1>3. 0 \in K
  <2> DEFINE g == [s \in Dom(0) |-> 0]
  <2>1. \A s \in Dom(0) : s = {}
    BY <1>0
  <2>2. g = next(g, 0)
    BY <2>1
  <2> HIDE DEF g, next
  <2>3. QED
    BY <1>2, <2>2
<1>4. ASSUME NEW n \in Nat, n \in K PROVE n + 1 \in K
  <2>1. PICK g : g = next(g, n)
    <3>1. \E g : Partial(g, f, S, n)
      BY <1>4
    <3> HIDE DEF next
    <3>2. QED
      BY <1>2, <3>1
  <2> DEFINE h == next(g, n + 1)
  <2>2. ASSUME NEW u \in Dom(n) PROVE h[u] = g[u]
    <3>1. u \in Dom(n + 1)
      BY <1>0
    <3>2. QED
      BY <2>1, <3>1
  <2>3. ASSUME NEW s \in Dom(n + 1), s # {} PROVE s \ {ch(s)} \in Dom(n)
    BY <1>1, <2>3
  <2>4. h = next(h, n + 1)
    BY <2>2, <2>3
  <2> HIDE DEF h, next
  <2>5. QED
    BY <1>2, <2>4
<1>5. Cardinality(S) \in K
  <2>1. Cardinality(S) \in Nat
    BY FS_CardinalityType
  <2> HIDE DEF K
  <2>2. QED
    BY <1>3, <1>4, <2>1, NaturalInduction
<1>6. Dom(Cardinality(S)) = SUBSET S
  BY FS_Subset
<1>7. QED
  BY <1>5, <1>6 DEF Partial, IsSum

LEMMA TotalIsASum ==
  ASSUME NEW S, IsFiniteSet(S), NEW f
  PROVE  \E g : IsSum(g, f, S) /\ Total(f, S) = g[S]
<1>1. \E g : IsSum(g, f, S)
  BY SumsExist
<1>2. QED
  BY <1>1 DEF Total, MapThenSumSet, MapThenFoldSet, IsSum

\* The sizes of disjoint finite sets add up to the size of their union.
LEMMA TotalOfSizes ==
  ASSUME NEW S, IsFiniteSet(S), NEW P, NEW f,
         \A x \in S : IsFiniteSet(P[x]) /\ f[x] = Cardinality(P[x]),
         \A x, y \in S : x # y => P[x] \cap P[y] = {}
  PROVE  Total(f, S) = Cardinality(UNION {P[x] : x \in S})
<1> DEFINE All(T) == UNION {P[x] : x \in T}
<1>1. PICK g : IsSum(g, f, S) /\ Total(f, S) = g[S]
  BY TotalIsASum
<1> DEFINE K == {n \in Nat : \A T \in SUBSET S :
                   Cardinality(T) = n => IsFiniteSet(All(T)) /\ g[T] = Cardinality(All(T))}
<1>2. 0 \in K
  <2> SUFFICES ASSUME NEW T \in SUBSET S, Cardinality(T) = 0
               PROVE  IsFiniteSet(All(T)) /\ g[T] = Cardinality(All(T))
    OBVIOUS
  <2>1. T = {}
    BY FS_Subset, FS_EmptySet
  <2>2. All(T) = {} /\ g[T] = 0
    BY <1>1, <2>1 DEF IsSum
  <2>3. QED
    BY <2>2, FS_EmptySet
<1>3. ASSUME NEW n \in Nat, n \in K PROVE n + 1 \in K
  <2> SUFFICES ASSUME NEW T \in SUBSET S, Cardinality(T) = n + 1
               PROVE  IsFiniteSet(All(T)) /\ g[T] = Cardinality(All(T))
    OBVIOUS
  <2>1. T # {}
    BY FS_EmptySet
  <2> DEFINE c == CHOOSE x \in T : TRUE
             U == T \ {c}
  <2>2. c \in T /\ U \in SUBSET S /\ Cardinality(U) \in Nat /\ Cardinality(T) = Cardinality(U) + 1
    BY <2>1, OneLess
  <2>3. g[T] = f[c] + g[U]
    BY <1>1, <2>1 DEF IsSum
  <2> HIDE DEF c, U
  <2>4. Cardinality(U) = n
    BY <2>2
  <2>5. IsFiniteSet(All(U)) /\ g[U] = Cardinality(All(U))
    BY <1>3, <2>2, <2>4
  <2>6. All(T) = All(U) \cup P[c] /\ All(U) \cap P[c] = {}
    BY <2>2 DEF U
  <2>7. IsFiniteSet(P[c]) /\ f[c] = Cardinality(P[c])
    BY <2>2
  <2> HIDE DEF All
  <2>8. /\ IsFiniteSet(All(T))
        /\ Cardinality(All(T)) = Cardinality(All(U)) + Cardinality(P[c])
    <3>1. Cardinality(All(U)) \in Nat /\ Cardinality(P[c]) \in Nat
      BY <2>5, <2>7, FS_CardinalityType
    <3>2. Cardinality(All(U) \cap P[c]) = 0
      BY <2>6, FS_EmptySet
    <3>3. /\ IsFiniteSet(All(U) \cup P[c])
          /\ Cardinality(All(U) \cup P[c])
               = Cardinality(All(U)) + Cardinality(P[c]) - Cardinality(All(U) \cap P[c])
      BY <2>5, <2>7, FS_Union
    <3>4. QED
      BY <2>6, <3>1, <3>2, <3>3
  <2>9. Cardinality(All(U)) \in Nat /\ Cardinality(P[c]) \in Nat
    BY <2>5, <2>7, FS_CardinalityType
  <2>10. QED
    BY <2>3, <2>5, <2>7, <2>8, <2>9
<1>4. Cardinality(S) \in K
  <2>1. Cardinality(S) \in Nat
    BY FS_CardinalityType
  <2> HIDE DEF K
  <2>2. QED
    BY <1>2, <1>3, <2>1, NaturalInduction
<1>5. QED
  BY <1>1, <1>4
===============================================================================
