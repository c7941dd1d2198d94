-------------------------------- MODULE Sums --------------------------------
(***************************************************************************)
(* Sums over finite sets, for the proofs about what is added up: bytes of  *)
(* connections, units of requests, records that were dropped; and what a   *)
(* filter leaves of a list, with the facts proved of it.  Induction is     *)
(* over a set of the cases for which a claim holds, so that the provers    *)
(* need no predicate as a parameter.                                       *)
(***************************************************************************)
EXTENDS Integers, Sequences, FiniteSetsExt, FiniteSetTheorems, WellFoundedInduction, TLAPS

\* A set of naturals has a least element.
LEMMA HasLeast ==
    ASSUME NEW T, T \subseteq Nat, T # {}
    PROVE  \E n \in T : \A m \in T : n <= m
<1> DEFINE R == OpToRel(<, Nat)
<1>1. IsWellFoundedOn(R, Nat)
  BY NatLessThanWellFounded
<1>2. \A x, y \in Nat : <<y, x>> \in R <=> y < x
  BY DEF OpToRel
<1> HIDE DEF R
<1>3. PICK n \in T : \A m \in T : ~(<<m, n>> \in R)
  BY <1>1, WFMin
<1>4. \A m \in T : n \in Nat /\ m \in Nat /\ ~(m < n)
  BY <1>2, <1>3
<1> QED BY <1>3, <1>4

\* What holds of 0 and of each successor holds of every natural.
LEMMA Counting ==
    ASSUME NEW T, 0 \in T, \A n \in Nat : n \in T => n + 1 \in T
    PROVE  Nat \subseteq T
<1> SUFFICES ASSUME NEW k \in Nat, k \notin T PROVE FALSE
  OBVIOUS
<1>1. PICK n \in Nat \ T : \A m \in Nat \ T : n <= m
  BY HasLeast
<1>2. n # 0 /\ n - 1 \in Nat
  BY <1>1
<1>3. n - 1 \in T
  BY <1>1, <1>2
<1> QED BY <1>1, <1>2, <1>3

LEMMA OneLess ==
    ASSUME NEW s, IsFiniteSet(s), NEW x \in s, NEW n \in Nat, Cardinality(s) = n + 1
    PROVE  IsFiniteSet(s \ {x}) /\ Cardinality(s \ {x}) = n
<1>1. IsFiniteSet(s \ {x}) /\ Cardinality(s \ {x}) = Cardinality(s) - 1
  BY FS_RemoveElement
<1> QED BY <1>1

\* What holds of the empty set, and with a set of a larger one, holds of every subset.
LEMMA Growing ==
    ASSUME NEW S, IsFiniteSet(S), NEW T, {} \in T,
           \A s \in SUBSET S, x \in S : s \in T /\ x \notin s => s \cup {x} \in T
    PROVE  SUBSET S \subseteq T
<1> DEFINE Within == {n \in Nat : \A s \in SUBSET S : Cardinality(s) = n => s \in T}
<1>1. \A s \in SUBSET S : IsFiniteSet(s) /\ Cardinality(s) \in Nat
  BY FS_Subset, FS_CardinalityType
<1>2. 0 \in Within
  BY <1>1, FS_EmptySet
<1>3. ASSUME NEW n \in Nat, n \in Within
      PROVE  n + 1 \in Within
  <2> SUFFICES ASSUME NEW s \in SUBSET S, Cardinality(s) = n + 1
               PROVE  s \in T
    OBVIOUS
  <2>1. s # {}
    BY FS_EmptySet
  <2>2. PICK x : x \in s
    BY <2>1
  <2>3. Cardinality(s \ {x}) = n
    BY <1>1, <2>2, OneLess
  <2>4. s \ {x} \in T
    BY <1>3, <2>3
  <2>5. (s \ {x}) \cup {x} = s /\ x \notin s \ {x}
    BY <2>2
  <2> QED BY <2>2, <2>4, <2>5
<1> HIDE DEF Within
<1>4. Nat \subseteq Within
  BY <1>2, <1>3, Counting
<1> QED BY <1>1, <1>4 DEF Within

-----------------------------------------------------------------------------
(* The recursion behind MapThenSumSet.                                     *)

Sum(F, S) == MapThenSumSet(LAMBDA i : F[i], S)

Chosen(s) == CHOOSE x \in s : TRUE

LEMMA ChosenIsIn == \A s : s # {} => Chosen(s) \in s
  BY DEF Chosen

\* g adds up F over the subsets of S.
AddsUp(g, F, S) ==
    g = [s \in SUBSET S |-> IF s = {} THEN 0 ELSE F[Chosen(s)] + g[s \ {Chosen(s)}]]

LEMMA AddsUpExists ==
    ASSUME NEW S, IsFiniteSet(S), NEW F, \A x \in S : F[x] \in Nat
    PROVE  \E g : AddsUp(g, F, S) /\ \A s \in SUBSET S : g[s] \in Nat
<1> DEFINE Unfold(g) == [s \in SUBSET S |-> IF s = {} THEN 0 ELSE F[Chosen(s)] + g[s \ {Chosen(s)}]]
           Right(g, n) == \A s \in SUBSET S : Cardinality(s) <= n => g[s] = Unfold(g)[s]
           Within == {n \in Nat : \E g \in [SUBSET S -> Nat] : Right(g, n)}
<1>1. \A s \in SUBSET S : IsFiniteSet(s) /\ Cardinality(s) \in Nat
  BY FS_Subset, FS_CardinalityType
<1>2. ASSUME NEW g \in [SUBSET S -> Nat]
      PROVE  Unfold(g) \in [SUBSET S -> Nat]
  <2>1. ASSUME NEW s \in SUBSET S, s # {}
        PROVE  F[Chosen(s)] + g[s \ {Chosen(s)}] \in Nat
    <3>1. Chosen(s) \in S /\ s \ {Chosen(s)} \in SUBSET S
      BY <2>1, ChosenIsIn
    <3> QED BY <3>1
  <2> QED BY <2>1
<1>3. 0 \in Within
  <2>1. PICK g \in [SUBSET S -> Nat] : g = [s \in SUBSET S |-> 0]
    OBVIOUS
  <2>2. \A s \in SUBSET S : Cardinality(s) <= 0 => s = {}
    BY <1>1, FS_EmptySet
  <2>3. Right(g, 0)
    BY <2>1, <2>2
  <2> QED BY <2>3
<1>4. ASSUME NEW n \in Nat, n \in Within
      PROVE  n + 1 \in Within
  <2>1. PICK g \in [SUBSET S -> Nat] : Right(g, n)
    BY <1>4
  <2>2. PICK h \in [SUBSET S -> Nat] : h = Unfold(g)
    BY <1>2
  <2>3. ASSUME NEW s \in SUBSET S, Cardinality(s) <= n + 1
        PROVE  h[s] = Unfold(h)[s]
    <3>1. CASE s = {}
      BY <2>2, <3>1
    <3>2. CASE s # {}
      <4>1. PICK r \in SUBSET S : r = s \ {Chosen(s)}
        OBVIOUS
      <4>2. Chosen(s) \in s
        BY <3>2, ChosenIsIn
      <4>3. Cardinality(r) <= n
        BY <1>1, <2>3, <4>1, <4>2, FS_RemoveElement
      <4>4. g[r] = Unfold(g)[r]
        BY <2>1, <4>3
      <4>5. h[r] = g[r]
        BY <2>2, <4>4
      <4> QED BY <2>2, <3>2, <4>1, <4>5
    <3> QED BY <3>1, <3>2
  <2>4. Right(h, n + 1)
    BY <2>3
  <2> HIDE DEF Right, Unfold
  <2> QED BY <2>4
<1> HIDE DEF Within
<1>5. Cardinality(S) \in Within
  BY <1>1, <1>3, <1>4, Counting
<1>6. PICK g \in [SUBSET S -> Nat] : Right(g, Cardinality(S))
  BY <1>5 DEF Within
<1>7. \A s \in SUBSET S : Cardinality(s) <= Cardinality(S)
  BY FS_Subset
<1>8. g = Unfold(g)
  BY <1>6, <1>7
<1> QED BY <1>8 DEF AddsUp

\* What g says grows with each element.
Grows(g, F, S) == \A s \in SUBSET S : \A x \in S \ s : g[s \cup {x}] = F[x] + g[s]

LEMMA AddsUpEach ==
    ASSUME NEW S, IsFiniteSet(S), NEW F, \A x \in S : F[x] \in Nat,
           NEW g, AddsUp(g, F, S), \A s \in SUBSET S : g[s] \in Nat
    PROVE  Grows(g, F, S)
<1> DEFINE Each(s) == \A x \in S \ s : g[s \cup {x}] = F[x] + g[s]
           Within == {n \in Nat : \A s \in SUBSET S : Cardinality(s) = n => Each(s)}
<1>1. \A s \in SUBSET S : IsFiniteSet(s) /\ Cardinality(s) \in Nat
  BY FS_Subset, FS_CardinalityType
<1>2. \A s \in SUBSET S : g[s] = IF s = {} THEN 0 ELSE F[Chosen(s)] + g[s \ {Chosen(s)}]
  BY DEF AddsUp
<1>3. 0 \in Within
  <2> SUFFICES ASSUME NEW x \in S
               PROVE  g[{x}] = F[x] + g[{}]
    BY <1>1, FS_EmptySet
  <2>1. Chosen({x}) = x /\ {x} \ {x} = {} /\ {x} # {}
    BY ChosenIsIn
  <2> QED BY <1>2, <2>1
<1>4. ASSUME NEW n \in Nat, n \in Within
      PROVE  n + 1 \in Within
  <2> HIDE DEF Each
  <2> SUFFICES ASSUME NEW s \in SUBSET S, Cardinality(s) = n + 1
               PROVE  Each(s)
    OBVIOUS
  <2> SUFFICES ASSUME NEW x \in S \ s
               PROVE  g[s \cup {x}] = F[x] + g[s]
    BY DEF Each
  <2>1. PICK y : y = Chosen(s \cup {x})
    OBVIOUS
  <2>2. y \in s \cup {x} /\ g[s \cup {x}] = F[y] + g[(s \cup {x}) \ {y}]
    BY <1>2, <2>1, ChosenIsIn
  <2>3. CASE y = x
    <3>1. (s \cup {x}) \ {y} = s
      BY <2>3
    <3> QED BY <2>2, <2>3, <3>1
  <2>4. CASE y # x
    <3>1. PICK r \in SUBSET S : r = s \ {y}
      OBVIOUS
    <3>2. y \in S \ r /\ x \in S \ r /\ r \cup {y} = s /\ (s \cup {x}) \ {y} = r \cup {x}
      BY <2>2, <2>4, <3>1
    <3>3. Cardinality(r) = n
      BY <1>1, <2>2, <2>4, <3>1, OneLess
    <3>4. \A z \in S \ r : g[r \cup {z}] = F[z] + g[r]
      <4>1. Each(r)
        BY <1>4, <3>3
      <4> QED BY <4>1 DEF Each
    <3>5. g[s] = F[y] + g[r] /\ g[r \cup {x}] = F[x] + g[r]
      BY <3>2, <3>4
    <3>6. F[x] \in Nat /\ F[y] \in Nat /\ g[r] \in Nat
      BY <3>2
    <3>7. g[s \cup {x}] = F[y] + g[r \cup {x}]
      BY <2>2, <3>2
    <3> QED BY <3>5, <3>6, <3>7
  <2> QED BY <2>3, <2>4
<1> HIDE DEF Within
<1>5. Nat \subseteq Within
  BY <1>3, <1>4, Counting
<1> QED BY <1>1, <1>5 DEF Within, Grows

\* The values of two such functions do not depend on the set they are defined over.
LEMMA AddsUpAgree ==
    ASSUME NEW R, IsFiniteSet(R), NEW S, S \subseteq R, NEW F, NEW G,
           \A x \in R : G[x] \in Nat, \A x \in S : F[x] = G[x],
           NEW g, AddsUp(g, F, S), NEW h, AddsUp(h, G, R)
    PROVE  g[S] = h[S] /\ h[S] \in Nat
<1>1. IsFiniteSet(S) /\ \A x \in S : F[x] \in Nat
  BY FS_Subset
<1>2. \A s \in SUBSET S : g[s] = IF s = {} THEN 0 ELSE F[Chosen(s)] + g[s \ {Chosen(s)}]
  BY DEF AddsUp
<1>3. \A s \in SUBSET R : h[s] = IF s = {} THEN 0 ELSE G[Chosen(s)] + h[s \ {Chosen(s)}]
  BY DEF AddsUp
<1> DEFINE Same == {n \in Nat : \A s \in SUBSET S : Cardinality(s) = n => g[s] = h[s] /\ h[s] \in Nat}
<1>4. \A s \in SUBSET S : IsFiniteSet(s) /\ Cardinality(s) \in Nat
  BY <1>1, FS_Subset, FS_CardinalityType
<1>5. 0 \in Same
  <2> SUFFICES ASSUME NEW s \in SUBSET S, Cardinality(s) = 0
               PROVE  g[s] = h[s] /\ h[s] \in Nat
    OBVIOUS
  <2>1. s = {}
    BY <1>4, FS_EmptySet
  <2>2. g[{}] = 0
    <3>1. {} \in SUBSET S
      OBVIOUS
    <3> QED BY <1>2, <3>1
  <2>3. h[{}] = 0
    <3>1. {} \in SUBSET R
      OBVIOUS
    <3> QED BY <1>3, <3>1
  <2> QED BY <2>1, <2>2, <2>3
<1>6. ASSUME NEW n \in Nat, n \in Same
      PROVE  n + 1 \in Same
  <2> SUFFICES ASSUME NEW s \in SUBSET S, Cardinality(s) = n + 1
               PROVE  g[s] = h[s] /\ h[s] \in Nat
    OBVIOUS
  <2>1. s # {}
    BY FS_EmptySet
  <2>2. Chosen(s) \in s
    BY <2>1, ChosenIsIn
  <2>3. PICK r \in SUBSET S : r = s \ {Chosen(s)}
    OBVIOUS
  <2>4. Cardinality(r) = n
    BY <1>4, <2>2, <2>3, OneLess
  <2>5. g[r] = h[r] /\ h[r] \in Nat
    BY <1>6, <2>4
  <2>6. g[s] = F[Chosen(s)] + g[r] /\ h[s] = G[Chosen(s)] + h[r]
    BY <1>2, <1>3, <2>1, <2>3
  <2>7. F[Chosen(s)] = G[Chosen(s)] /\ G[Chosen(s)] \in Nat
    BY <2>2
  <2> QED BY <2>5, <2>6, <2>7
<1> HIDE DEF Same
<1>7. Nat \subseteq Same
  BY <1>5, <1>6, Counting
<1> QED BY <1>4, <1>7 DEF Same

-----------------------------------------------------------------------------
(* Sums.                                                                   *)

\* The sum is what any function that adds up says of the whole set.
LEMMA SumIs ==
    ASSUME NEW S, IsFiniteSet(S), NEW F, \A x \in S : F[x] \in Nat
    PROVE  \E g : AddsUp(g, F, S) /\ Sum(F, S) = g[S]
<1>1. PICK g : g = CHOOSE h : h = [s \in SUBSET S |-> IF s = {} THEN 0 ELSE
                   LET x == CHOOSE y \in s : TRUE IN F[x] + h[s \ {x}]]
  OBVIOUS
<1>2. \E h : h = [s \in SUBSET S |-> IF s = {} THEN 0 ELSE
                   LET x == CHOOSE y \in s : TRUE IN F[x] + h[s \ {x}]]
  <2>1. PICK h : AddsUp(h, F, S)
    BY AddsUpExists
  <2> QED BY <2>1 DEF AddsUp, Chosen
<1>3. AddsUp(g, F, S)
  BY <1>1, <1>2 DEF AddsUp, Chosen
<1>4. Sum(F, S) = g[S]
  BY <1>1 DEF Sum, MapThenSumSet, MapThenFoldSet
<1> QED BY <1>3, <1>4

\* A larger set's function says it of every smaller one.
LEMMA SumOfPart ==
    ASSUME NEW R, IsFiniteSet(R), NEW S, S \subseteq R, NEW F, NEW G,
           \A x \in R : G[x] \in Nat, \A x \in S : F[x] = G[x],
           NEW h, AddsUp(h, G, R)
    PROVE  Sum(F, S) = h[S] /\ h[S] \in Nat
<1>1. IsFiniteSet(S) /\ \A x \in S : F[x] \in Nat
  BY FS_Subset
<1>2. PICK g : AddsUp(g, F, S) /\ Sum(F, S) = g[S]
  BY <1>1, SumIs
<1> QED BY <1>2, AddsUpAgree

LEMMA SumType ==
    ASSUME NEW S, IsFiniteSet(S), NEW F, \A x \in S : F[x] \in Nat
    PROVE  Sum(F, S) \in Nat
<1>1. PICK h : AddsUp(h, F, S)
  BY AddsUpExists
<1> QED BY <1>1, SumOfPart

\* Only the values on the set matter.
LEMMA SumSame ==
    ASSUME NEW S, IsFiniteSet(S), NEW F, NEW G,
           \A x \in S : G[x] \in Nat, \A x \in S : F[x] = G[x]
    PROVE  Sum(F, S) = Sum(G, S)
<1>1. PICK h : AddsUp(h, G, S)
  BY AddsUpExists
<1> QED BY <1>1, SumOfPart

LEMMA SumEmpty == \A F : Sum(F, {}) = 0
<1> SUFFICES ASSUME NEW F PROVE Sum(F, {}) = 0
  OBVIOUS
<1>1. IsFiniteSet({})
  BY FS_EmptySet
<1>2. PICK h : AddsUp(h, F, {}) /\ Sum(F, {}) = h[{}]
  BY <1>1, SumIs
<1> QED BY <1>2 DEF AddsUp

\* One element more adds its value.
LEMMA SumAdd ==
    ASSUME NEW S, IsFiniteSet(S), NEW x, x \notin S, NEW F,
           \A y \in S \cup {x} : F[y] \in Nat
    PROVE  Sum(F, S \cup {x}) = F[x] + Sum(F, S)
<1>0. PICK R : R = S \cup {x}
  OBVIOUS
<1>1. IsFiniteSet(R) /\ \A y \in R : F[y] \in Nat
  BY <1>0, FS_AddElement
<1>2. PICK h : AddsUp(h, F, R) /\ \A s \in SUBSET R : h[s] \in Nat
  BY <1>1, AddsUpExists
<1>3. Sum(F, S) = h[S] /\ Sum(F, R) = h[R]
  BY <1>0, <1>1, <1>2, SumOfPart
<1>4. S \in SUBSET R /\ x \in R \ S
  BY <1>0
<1>5. Grows(h, F, R)
  BY <1>1, <1>2, AddsUpEach
<1>6. h[S \cup {x}] = F[x] + h[S]
  BY <1>4, <1>5 DEF Grows
<1> QED BY <1>0, <1>3, <1>6

\* A sum grows with its set and its values, wherever an injection takes them.
LEMMA SumLe ==
    ASSUME NEW S, IsFiniteSet(S), NEW T, IsFiniteSet(T), NEW F, NEW G,
           \A x \in S : F[x] \in Nat, \A y \in T : G[y] \in Nat,
           NEW h \in [S -> T], \A x, y \in S : h[x] = h[y] => x = y,
           \A x \in S : F[x] <= G[h[x]]
    PROVE  Sum(F, S) <= Sum(G, T)
<1> DEFINE Im(s) == {h[x] : x \in s}
           Fits(s) == Sum(F, s) <= Sum(G, Im(s))
           Fit == {s \in SUBSET S : Fits(s)}
<1>1. \A s \in SUBSET S : IsFiniteSet(s) /\ IsFiniteSet(Im(s)) /\ Im(s) \subseteq T
  BY FS_Subset
<1>2. {} \in Fit
  <2>1. Im({}) = {}
    OBVIOUS
  <2> QED BY <2>1, SumEmpty
<1>3. ASSUME NEW s \in SUBSET S, NEW x \in S, s \in Fit, x \notin s
      PROVE  s \cup {x} \in Fit
  <2>1. Im(s \cup {x}) = Im(s) \cup {h[x]} /\ h[x] \notin Im(s) /\ h[x] \in T
    BY <1>3
  <2>2. Sum(F, s \cup {x}) = F[x] + Sum(F, s)
    BY <1>1, <1>3, SumAdd
  <2>3. Sum(G, Im(s) \cup {h[x]}) = G[h[x]] + Sum(G, Im(s))
    <3> HIDE DEF Im
    <3> QED BY <1>1, <2>1, SumAdd
  <2>4. Sum(F, s) \in Nat /\ Sum(G, Im(s)) \in Nat
    <3> HIDE DEF Im
    <3> QED BY <1>1, SumType
  <2>5. F[x] \in Nat /\ G[h[x]] \in Nat /\ F[x] <= G[h[x]] /\ Sum(F, s) <= Sum(G, Im(s))
    BY <1>3
  <2> HIDE DEF Im
  <2>6. Fits(s \cup {x})
    <3>1. Sum(G, Im(s \cup {x})) = G[h[x]] + Sum(G, Im(s))
      BY <2>1, <2>3
    <3>2. F[x] + Sum(F, s) <= G[h[x]] + Sum(G, Im(s))
      BY <2>4, <2>5
    <3> QED BY <2>2, <3>1, <3>2
  <2>7. s \cup {x} \in SUBSET S
    OBVIOUS
  <2> HIDE DEF Fits
  <2> QED BY <2>6, <2>7
<1> HIDE DEF Fit
<1>4. SUBSET S \subseteq Fit
  BY <1>2, <1>3, Growing
<1>5. Fits(S)
  BY <1>4 DEF Fit
<1>6. Sum(G, Im(S)) <= Sum(G, T)
  <2> DEFINE Rest == {r \in SUBSET T : Sum(G, Im(S)) <= Sum(G, Im(S) \cup r)}
  <2>0. Im(S) \subseteq T /\ IsFiniteSet(Im(S))
    BY <1>1
  <2> HIDE DEF Im
  <2>1. {} \in Rest
    <3>1. Sum(G, Im(S)) \in Nat /\ Im(S) \cup {} = Im(S)
      BY <2>0, SumType
    <3> QED BY <3>1
  <2>2. ASSUME NEW r \in SUBSET T, NEW y \in T, r \in Rest, y \notin r
        PROVE  r \cup {y} \in Rest
    <3> DEFINE Q == Im(S) \cup r
    <3>1. Q \subseteq T /\ IsFiniteSet(Q) /\ Im(S) \cup (r \cup {y}) = Q \cup {y}
      BY <2>0, FS_Subset
    <3>2. Sum(G, Im(S)) \in Nat /\ Sum(G, Q) \in Nat /\ Sum(G, Im(S)) <= Sum(G, Q)
      BY <2>0, <2>2, <3>1, SumType
    <3>3. CASE y \in Q
      <4>1. Q \cup {y} = Q
        BY <3>3
      <4> QED BY <3>1, <3>2, <4>1
    <3>4. CASE y \notin Q
      <4>1. Sum(G, Q \cup {y}) = G[y] + Sum(G, Q) /\ G[y] \in Nat
        <5> HIDE DEF Q
        <5> QED BY <3>1, <3>4, SumAdd
      <4> HIDE DEF Q
      <4> QED BY <3>1, <3>2, <4>1
    <3> QED BY <3>3, <3>4
  <2> HIDE DEF Rest
  <2>3. T \in Rest
    BY <2>1, <2>2, Growing
  <2>4. Im(S) \cup T = T
    BY <2>0
  <2> QED BY <2>3, <2>4 DEF Rest
<1>7. Sum(F, S) \in Nat /\ Sum(G, Im(S)) \in Nat /\ Sum(G, T) \in Nat
  <2>1. Im(S) \subseteq T /\ IsFiniteSet(Im(S))
    BY <1>1
  <2> HIDE DEF Im
  <2> QED BY <2>1, SumType
<1> HIDE DEF Im
<1> QED BY <1>5, <1>6, <1>7

-----------------------------------------------------------------------------
(* What filter() leaves of a list.                                         *)

\* What filter() leaves of a list: what is at these places, in order.
Kept(list, places) ==
    [n \in 1 .. Cardinality(places) |->
        list[CHOOSE i \in places : Cardinality({j \in places : j <= i}) = n]]

\* The place of an element among those kept is the number of those up to it.
LEMMA KeptPlaces ==
    ASSUME NEW list, NEW places, IsFiniteSet(places), places \subseteq Nat
    PROVE  \E rank \in [places -> 1 .. Cardinality(places)] :
              /\ \A p, q \in places : rank[p] = rank[q] => p = q
              /\ \A p, q \in places : p < q => rank[p] < rank[q]
              /\ \A n \in 1 .. Cardinality(places) : \E p \in places : rank[p] = n
              /\ \A p \in places : Kept(list, places)[rank[p]] = list[p]
<1> DEFINE Upto(p) == {j \in places : j <= p}
<1>1. PICK size : size = Cardinality(places)
  OBVIOUS
<1>2. PICK rank : rank = [p \in places |-> Cardinality(Upto(p))]
  OBVIOUS
<1>3. size \in Nat
  BY <1>1, FS_CardinalityType
<1>4. ASSUME NEW p \in places PROVE rank[p] \in 1 .. size /\ rank[p] = Cardinality(Upto(p))
  <2>1. IsFiniteSet(Upto(p)) /\ Cardinality(Upto(p)) <= size /\ Cardinality(Upto(p)) \in Nat
    BY <1>1, FS_Subset, FS_CardinalityType
  <2>2. p \in Upto(p)
    OBVIOUS
  <2>3. Cardinality(Upto(p)) # 0
    BY <2>1, <2>2, FS_EmptySet
  <2> QED BY <1>2, <1>3, <2>1, <2>3
<1>5. ASSUME NEW p \in places, NEW q \in places, p < q PROVE rank[p] < rank[q]
  <2>1. IsFiniteSet(Upto(p)) /\ IsFiniteSet(Upto(q))
    BY FS_Subset
  <2>2. Upto(p) \subseteq Upto(q) /\ q \in Upto(q) /\ q \notin Upto(p)
    <3>1. \A o \in Nat : o <= p => o <= q
      BY <1>5
    <3>2. ~(q <= p) /\ q <= q
      BY <1>5
    <3> QED BY <3>1, <3>2
  <2>3. Cardinality(Upto(p)) < Cardinality(Upto(q))
    BY <2>1, <2>2, FS_Subset, FS_CardinalityType
  <2> HIDE DEF Upto
  <2> QED BY <1>4, <2>3
<1>6. ASSUME NEW p \in places, NEW q \in places, rank[p] = rank[q] PROVE p = q
  <2>1. p \in Nat /\ q \in Nat /\ rank[p] \in Int /\ rank[q] \in Int
    <3> HIDE DEF Upto
    <3>1. rank[p] \in 1 .. size /\ rank[q] \in 1 .. size
      BY <1>4
    <3> QED BY <1>3, <3>1
  <2>2. ~(p < q) /\ ~(q < p)
    BY <1>5, <1>6, <2>1
  <2> QED BY <2>1, <2>2
<1>7. rank \in [places -> 1 .. size]
  BY <1>2, <1>4
<1>8. ASSUME NEW n \in 1 .. size PROVE \E p \in places : rank[p] = n
  <2>1. rank \in Injection(places, 1 .. size)
    BY <1>6, <1>7 DEF Injection, IsInjective
  <2>2. IsFiniteSet(1 .. size) /\ Cardinality(1 .. size) = size
    BY <1>3, FS_Interval
  <2>3. rank \in Surjection(places, 1 .. size)
    BY <1>1, <2>1, <2>2, FS_Injection
  <2> QED BY <2>3 DEF Surjection
<1>9. ASSUME NEW p \in places PROVE Kept(list, places)[rank[p]] = list[p]
  <2>1. PICK i : i = CHOOSE q \in places : Cardinality({j \in places : j <= q}) = rank[p]
    OBVIOUS
  <2>2. i \in places /\ rank[i] = rank[p]
    BY <1>4, <2>1
  <2>3. i = p
    BY <1>6, <2>2
  <2>4. rank[p] \in 1 .. Cardinality(places)
    BY <1>1, <1>4
  <2> QED BY <2>1, <2>3, <2>4 DEF Kept
<1> QED BY <1>1, <1>5, <1>6, <1>7, <1>8, <1>9

\* It is a list of what was there.
LEMMA KeptType ==
    ASSUME NEW T, NEW list \in Seq(T), NEW places, places \subseteq DOMAIN list
    PROVE  /\ Kept(list, places) \in Seq(T)
           /\ Len(Kept(list, places)) = Cardinality(places)
           /\ IsFiniteSet(places) /\ Cardinality(places) \in Nat
           /\ \A n \in DOMAIN Kept(list, places) : \E p \in places : Kept(list, places)[n] = list[p]
<1>1. IsFiniteSet(1 .. Len(list)) /\ DOMAIN list = 1 .. Len(list)
  BY FS_Interval
<1>2. IsFiniteSet(places) /\ places \subseteq Nat
  BY <1>1, FS_Subset
<1>3. PICK size : size = Cardinality(places)
  OBVIOUS
<1>4. size \in Nat
  BY <1>2, <1>3, FS_CardinalityType
<1>5. PICK rank \in [places -> 1 .. size] :
              /\ \A n \in 1 .. size : \E p \in places : rank[p] = n
              /\ \A p \in places : Kept(list, places)[rank[p]] = list[p]
  BY ZenonT(60), <1>2, <1>3, KeptPlaces
<1>6. PICK kept : kept = Kept(list, places)
  OBVIOUS
<1>7. \A n \in 1 .. size : \E p \in places : kept[n] = list[p]
  BY <1>5, <1>6
<1>8. kept = [n \in 1 .. size |-> kept[n]] /\ DOMAIN kept = 1 .. size
  BY <1>3, <1>6 DEF Kept
<1>9. \A n \in 1 .. size : kept[n] \in T
  BY <1>1, <1>7
<1>10. kept \in [1 .. size -> T]
  BY <1>8, <1>9
<1>11. kept \in Seq(T) /\ Len(kept) = size
  BY <1>4, <1>8, <1>10
<1> QED BY <1>2, <1>3, <1>4, <1>6, <1>7, <1>8, <1>11

=============================================================================
