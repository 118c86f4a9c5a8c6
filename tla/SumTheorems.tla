---------------------------- MODULE SumTheorems ----------------------------
(***************************************************************************)
(* Facts about sums over finite sets (MapThenSumSet of the community       *)
(* modules), which the library states only with operator parameters.  They *)
(* are proved from the well-foundedness of the finite subsets: totals of   *)
(* tokens (AnalyzeRunProofs) and overlaps of terms (GatherProofs) rest on  *)
(* them.                                                                   *)
(***************************************************************************)
EXTENDS Naturals, FiniteSetsExt, FiniteSetTheorems, WellFoundedInduction, TLAPS

\* The sum of f[c] for the elements c of S.
Sum(f, S) == MapThenSumSet(LAMBDA c : f[c], S)

\* The element that MapThenSumSet takes out of a set, and what it computes for
\* the set from the values g of smaller sets.
Pick(S) == CHOOSE x \in S : TRUE
Value(f, g, S) == IF S = {} THEN 0 ELSE f[Pick(S)] + g[S \ {Pick(S)}]

\* g computes the sums over the subsets of S.
Sums(f, g, S) == g = [s \in SUBSET S |-> Value(f, g, s)]

SumsOf(f, S) == CHOOSE g : Sums(f, g, S)

\* What holds of a set whenever it holds of its proper subsets holds of every
\* finite set.
LEMMA SubsetInduction ==
    ASSUME NEW S, IsFiniteSet(S), NEW Good,
           \A s \in SUBSET S : (\A t \in SUBSET s : t # s => t \in Good) => s \in Good
    PROVE  SUBSET S \subseteq Good
<1> SUFFICES ASSUME ~(SUBSET S \subseteq Good)
             PROVE  FALSE
  OBVIOUS
<1> DEFINE Bad == (SUBSET S) \ Good
<1>1. IsWellFoundedOn(StrictSubsetOrdering(S), SUBSET S)
  <2>1. IsWellFoundedOn(StrictSubsetOrdering(S), FiniteSubsetsOf(S))
    BY FS_StrictSubsetOrderingWellFounded
  <2>2. FiniteSubsetsOf(S) = SUBSET S
    BY FS_FiniteSubsetsOfFinite
  <2> QED
    BY <2>1, <2>2
<1>2. Bad \subseteq SUBSET S /\ Bad # {}
  OBVIOUS
<1>3. PICK s \in Bad : \A t \in Bad : ~(<<t, s>> \in StrictSubsetOrdering(S))
  <2> HIDE DEF Bad
  <2> QED
    BY <1>1, <1>2, WFMin
<1>4. ASSUME NEW t \in SUBSET s, t # s
      PROVE  t \in Good
  <2>1. t \in SUBSET S /\ s \in SUBSET S
    OBVIOUS
  <2>2. <<t, s>> \in StrictSubsetOrdering(S)
    BY <1>4, <2>1 DEF StrictSubsetOrdering
  <2> QED
    BY <1>3, <2>1, <2>2
<1>5. s \in SUBSET S /\ s \notin Good
  OBVIOUS
<1> QED
  BY <1>4, <1>5

LEMMA Picked == \A S : S # {} => Pick(S) \in S
BY DEF Pick

\* The sums are unique.
LEMMA SumsAgree ==
    ASSUME NEW f, NEW g, NEW h, NEW S, NEW T, IsFiniteSet(S), S \subseteq T,
           Sums(f, g, S), Sums(f, h, T)
    PROVE  g[S] = h[S]
<1> DEFINE Good == {s \in SUBSET S : g[s] = h[s]}
<1>1. ASSUME NEW s \in SUBSET S, \A t \in SUBSET s : t # s => t \in Good
      PROVE  s \in Good
  <2>1. g[s] = Value(f, g, s) /\ h[s] = Value(f, h, s)
    BY DEF Sums
  <2>2. s # {} => g[s \ {Pick(s)}] = h[s \ {Pick(s)}]
    BY <1>1, Picked
  <2> QED
    BY <2>1, <2>2 DEF Value
<1>2. SUBSET S \subseteq Good
  <2> HIDE DEF Good
  <2> QED
    BY <1>1, SubsetInduction
<1> QED
  BY <1>2

LEMMA SumsExist ==
    ASSUME NEW f, NEW S, IsFiniteSet(S), \A c \in S : f[c] \in Nat
    PROVE  \E g \in [SUBSET S -> Nat] : Sums(f, g, S)
<1> DEFINE Good == {s \in SUBSET S : \E g \in [SUBSET s -> Nat] : Sums(f, g, s)}
<1>1. ASSUME NEW s \in SUBSET S, \A t \in SUBSET s : t # s => t \in Good
      PROVE  s \in Good
  <2> DEFINE part(t) == CHOOSE g \in [SUBSET t -> Nat] : Sums(f, g, t)
             value(t) == IF t = {} THEN 0
                         ELSE f[Pick(t)] + part(t \ {Pick(t)})[t \ {Pick(t)}]
             g == [t \in SUBSET s |-> value(t)]
  <2>1. ASSUME NEW t \in SUBSET s, t # s
        PROVE  part(t) \in [SUBSET t -> Nat] /\ Sums(f, part(t), t)
    BY <1>1, <2>1
  <2>2. ASSUME NEW t \in SUBSET s, t # {}
        PROVE  /\ t \ {Pick(t)} \in SUBSET s /\ t \ {Pick(t)} # s
               /\ Pick(t) \in S
    BY <2>2, Picked
  <2>3. ASSUME NEW t \in SUBSET s
        PROVE  value(t) \in Nat
    <3>1. CASE t = {}
      BY <3>1
    <3>2. CASE t # {}
      <4> DEFINE u == t \ {Pick(t)}
      <4>1. part(u) \in [SUBSET u -> Nat]
        BY <2>1, <2>2, <3>2
      <4>2. part(u)[u] \in Nat /\ f[Pick(t)] \in Nat
        BY <2>2, <3>2, <4>1
      <4> HIDE DEF u, part
      <4>3. value(t) = f[Pick(t)] + part(u)[u]
        BY <3>2 DEF u
      <4> QED
        BY <4>2, <4>3
    <3> QED
      BY <3>1, <3>2
  <2>4. ASSUME NEW t \in SUBSET s, t # s
        PROVE  value(t) = part(t)[t]
    <3>1. CASE t = {}
      <4>1. Sums(f, part(t), t)
        BY <2>1, <2>4
      <4> HIDE DEF part
      <4> QED
        BY <3>1, <4>1 DEF Sums, Value
    <3>2. CASE t # {}
      <4> DEFINE u == t \ {Pick(t)}
      <4>1. u \in SUBSET s /\ u # s /\ u \subseteq t
        BY <2>2, <3>2
      <4>2. Sums(f, part(u), u) /\ Sums(f, part(t), t)
        BY <2>1, <2>4, <4>1
      <4>3. IsFiniteSet(u)
        BY <4>1, FS_Subset
      <4> HIDE DEF u, part
      <4>4. part(u)[u] = part(t)[u]
        BY <4>1, <4>2, <4>3, SumsAgree
      <4>5. part(t)[t] = f[Pick(t)] + part(t)[u]
        BY <3>2, <4>2 DEF Sums, Value, u
      <4> QED
        BY <3>2, <4>4, <4>5 DEF u
    <3> QED
      BY <3>1, <3>2
  <2>5. ASSUME NEW t \in SUBSET s
        PROVE  value(t) = Value(f, g, t)
    <3>1. CASE t = {}
      BY <3>1 DEF Value
    <3>2. CASE t # {}
      <4> DEFINE u == t \ {Pick(t)}
      <4>1. u \in SUBSET s /\ u # s
        BY <2>2, <3>2
      <4>2. value(u) = part(u)[u]
        BY <2>4, <4>1
      <4>3. g[u] = value(u)
        BY <4>1
      <4> HIDE DEF g, part
      <4> QED
        BY <3>2, <4>2, <4>3 DEF Value
    <3> QED
      BY <3>1, <3>2
  <2>6. g \in [SUBSET s -> Nat]
    BY <2>3
  <2>7. Sums(f, g, s)
    BY <2>5 DEF Sums
  <2> HIDE DEF g
  <2> QED
    BY <2>6, <2>7
<1>2. SUBSET S \subseteq Good
  <2> HIDE DEF Good
  <2> QED
    BY <1>1, SubsetInduction
<1> QED
  BY <1>2

\* MapThenSumSet computes such sums.
LEMMA SumIsSums == \A f, S : Sum(f, S) = SumsOf(f, S)[S]
BY DEF Sum, SumsOf, Sums, Value, Pick, MapThenSumSet, MapThenFoldSet

LEMMA SumOfEmpty == \A f : Sum(f, {}) = 0
<1> SUFFICES ASSUME NEW f
             PROVE  Sum(f, {}) = 0
  OBVIOUS
<1>1. \E g : Sums(f, g, {})
  BY SumsExist, FS_EmptySet
<1>2. Sums(f, SumsOf(f, {}), {})
  BY <1>1 DEF SumsOf
<1> QED
  BY <1>2, SumIsSums DEF Sums, Value

LEMMA SumOfPicked ==
    ASSUME NEW f, NEW S, IsFiniteSet(S), \A c \in S : f[c] \in Nat
    PROVE  /\ Sum(f, S) \in Nat
           /\ S # {} => Sum(f, S) = f[Pick(S)] + Sum(f, S \ {Pick(S)})
<1> DEFINE g == SumsOf(f, S)
<1>1. PICK h \in [SUBSET S -> Nat] : Sums(f, h, S)
  BY SumsExist
<1>2. Sums(f, g, S)
  BY <1>1 DEF SumsOf
<1>3. Sum(f, S) = g[S]
  BY SumIsSums
<1>4. Sum(f, S) \in Nat
  <2>1. g[S] = h[S]
    BY <1>1, <1>2, SumsAgree
  <2> QED
    BY <1>3, <2>1
<1>5. ASSUME S # {}
      PROVE  Sum(f, S) = f[Pick(S)] + Sum(f, S \ {Pick(S)})
  <2> DEFINE R == S \ {Pick(S)}
             r == SumsOf(f, R)
  <2>1. IsFiniteSet(R) /\ R \subseteq S /\ \A c \in R : f[c] \in Nat
    BY FS_Subset
  <2>2. Sums(f, r, R)
    <3>1. \E k : Sums(f, k, R)
      BY <2>1, SumsExist
    <3> QED
      BY <3>1 DEF SumsOf
  <2>3. Sum(f, R) = r[R]
    BY SumIsSums
  <2> HIDE DEF r, g
  <2>4. r[R] = g[R]
    BY <1>2, <2>1, <2>2, SumsAgree
  <2>5. g[S] = f[Pick(S)] + g[R]
    BY <1>2, <1>5 DEF Sums, Value
  <2> QED
    BY <1>3, <2>3, <2>4, <2>5
<1> QED
  BY <1>4, <1>5

\* The sum does not depend on which element is taken out.
LEMMA SumWithout ==
    ASSUME NEW f, NEW S, IsFiniteSet(S), \A c \in S : f[c] \in Nat, NEW d \in S
    PROVE  Sum(f, S) = f[d] + Sum(f, S \ {d})
<1> DEFINE Good == {s \in SUBSET S : \A c \in s : Sum(f, s) = f[c] + Sum(f, s \ {c})}
<1>1. ASSUME NEW s \in SUBSET S
      PROVE  /\ IsFiniteSet(s) /\ Sum(f, s) \in Nat
             /\ s # {} => Sum(f, s) = f[Pick(s)] + Sum(f, s \ {Pick(s)})
  <2>1. IsFiniteSet(s) /\ \A c \in s : f[c] \in Nat
    BY FS_Subset
  <2> QED
    BY <2>1, SumOfPicked
<1>2. ASSUME NEW s \in SUBSET S, \A t \in SUBSET s : t # s => t \in Good
      PROVE  s \in Good
  <2> SUFFICES ASSUME NEW c \in s
               PROVE  Sum(f, s) = f[c] + Sum(f, s \ {c})
    OBVIOUS
  <2> DEFINE p == Pick(s)
  <2>1. p \in s /\ Sum(f, s) = f[p] + Sum(f, s \ {p})
    BY <1>1, Picked
  <2>2. CASE c = p
    BY <2>1, <2>2
  <2>3. CASE c # p
    <3>1. s \ {p} \in Good /\ s \ {c} \in Good
      BY <1>2, <2>1
    <3>2. Sum(f, s \ {p}) = f[c] + Sum(f, (s \ {p}) \ {c})
      BY <2>3, <3>1
    <3>3. Sum(f, s \ {c}) = f[p] + Sum(f, (s \ {c}) \ {p})
      BY <2>1, <2>3, <3>1
    <3>4. (s \ {p}) \ {c} = (s \ {c}) \ {p}
      OBVIOUS
    <3>5. Sum(f, (s \ {p}) \ {c}) \in Nat /\ f[p] \in Nat /\ f[c] \in Nat
      <4>1. (s \ {p}) \ {c} \in SUBSET S /\ p \in S /\ c \in S
        BY <2>1
      <4> QED
        BY <1>1, <4>1
    <3>6. Sum(f, s) = f[p] + (f[c] + Sum(f, (s \ {p}) \ {c}))
      BY <2>1, <3>2
    <3>7. Sum(f, s \ {c}) = f[p] + Sum(f, (s \ {p}) \ {c})
      BY <3>3, <3>4
    <3> QED
      BY <3>5, <3>6, <3>7
  <2> QED
    BY <2>2, <2>3
<1>3. SUBSET S \subseteq Good
  <2> HIDE DEF Good
  <2> QED
    BY <1>2, SubsetInduction
<1> QED
  BY <1>3

\* The sum depends on the values over the set only.
LEMMA SumSame ==
    ASSUME NEW f, NEW g, NEW S, IsFiniteSet(S), \A c \in S : f[c] \in Nat,
           \A c \in S : g[c] = f[c]
    PROVE  Sum(g, S) = Sum(f, S)
<1> DEFINE Good == {s \in SUBSET S : Sum(g, s) = Sum(f, s)}
<1>1. ASSUME NEW s \in SUBSET S, \A t \in SUBSET s : t # s => t \in Good
      PROVE  s \in Good
  <2>1. CASE s = {}
    BY <2>1, SumOfEmpty
  <2>2. CASE s # {}
    <3> DEFINE p == Pick(s)
               r == s \ {p}
    <3>1. p \in S /\ r \in SUBSET s /\ r # s
      BY <2>2, Picked
    <3>2. Sum(g, r) = Sum(f, r)
      BY <1>1, <3>1
    <3>3. IsFiniteSet(s) /\ \A c \in s : f[c] \in Nat /\ g[c] \in Nat
      BY FS_Subset
    <3>4. Sum(f, s) = f[p] + Sum(f, r) /\ Sum(g, s) = g[p] + Sum(g, r)
      BY <2>2, <3>3, SumOfPicked
    <3> QED
      BY <3>1, <3>2, <3>4
  <2> QED
    BY <2>1, <2>2
<1>2. SUBSET S \subseteq Good
  <2> HIDE DEF Good
  <2> QED
    BY <1>1, SubsetInduction
<1> QED
  BY <1>2

\* One value that changes, or one element that joins.
LEMMA SumExcept ==
    ASSUME NEW f, NEW S, IsFiniteSet(S), \A c \in S : f[c] \in Nat,
           NEW d \in S, f[d] = 0, NEW v \in Nat, NEW g,
           g[d] = v, \A c \in S \ {d} : g[c] = f[c]
    PROVE  Sum(g, S) = Sum(f, S) + v
<1> DEFINE R == S \ {d}
<1>1. IsFiniteSet(R) /\ \A c \in R : f[c] \in Nat /\ g[c] = f[c]
  BY FS_Subset
<1>2. Sum(g, R) = Sum(f, R) /\ Sum(f, R) \in Nat
  <2> HIDE DEF R
  <2>1. Sum(g, R) = Sum(f, R)
    BY <1>1, SumSame
  <2>2. Sum(f, R) \in Nat
    BY <1>1, SumOfPicked
  <2> QED
    BY <2>1, <2>2
<1>3. Sum(f, S) = 0 + Sum(f, R)
  BY SumWithout
<1>4. \A c \in S : g[c] \in Nat
  OBVIOUS
<1>5. Sum(g, S) = v + Sum(g, R)
  BY <1>4, SumWithout
<1> HIDE DEF R
<1> QED
  BY <1>2, <1>3, <1>5

LEMMA SumWith ==
    ASSUME NEW f, NEW S, IsFiniteSet(S), \A c \in S : f[c] \in Nat,
           NEW d, d \notin S, f[d] \in Nat
    PROVE  Sum(f, S \cup {d}) = Sum(f, S) + f[d]
<1> DEFINE T == S \cup {d}
<1>1. IsFiniteSet(T) /\ \A c \in T : f[c] \in Nat
  BY FS_AddElement
<1>2. T \ {d} = S /\ d \in T
  OBVIOUS
<1>3. Sum(f, T) = f[d] + Sum(f, S)
  BY <1>1, <1>2, SumWithout
<1>4. Sum(f, S) \in Nat
  BY SumOfPicked
<1> QED
  BY <1>3, <1>4

\* As many times the same value.
LEMMA SumOfSame ==
    ASSUME NEW f, NEW S, IsFiniteSet(S), NEW k \in Nat, \A c \in S : f[c] = k
    PROVE  Sum(f, S) = k * Cardinality(S)
<1> DEFINE Good == {s \in SUBSET S : Sum(f, s) = k * Cardinality(s)}
<1>1. ASSUME NEW s \in SUBSET S, \A t \in SUBSET s : t # s => t \in Good
      PROVE  s \in Good
  <2>1. CASE s = {}
    <3>1. Cardinality(s) = 0 /\ k * 0 = 0
      BY <2>1, FS_EmptySet
    <3> QED
      BY <2>1, <3>1, SumOfEmpty
  <2>2. CASE s # {}
    <3> DEFINE p == Pick(s)
               r == s \ {p}
               m == Cardinality(r)
    <3>1. p \in s /\ r \in SUBSET s /\ r # s
      BY <2>2, Picked
    <3>2. IsFiniteSet(s) /\ \A c \in s : f[c] \in Nat
      BY FS_Subset
    <3>3. Sum(f, s) = k + Sum(f, r)
      BY <2>2, <3>1, <3>2, SumOfPicked
    <3>4. Sum(f, r) = k * m
      BY <1>1, <3>1
    <3>5. m \in Nat /\ Cardinality(s) = m + 1
      <4>1. IsFiniteSet(r)
        BY <3>1, <3>2, FS_Subset
      <4>2. m \in Nat
        BY <4>1, FS_CardinalityType
      <4>3. Cardinality(r) = Cardinality(s) - 1 /\ Cardinality(s) \in Nat
        BY <3>1, <3>2, FS_RemoveElement, FS_CardinalityType
      <4> QED
        BY <4>2, <4>3
    <3> HIDE DEF m
    <3>6. k * (m + 1) = k + k * m
      BY <3>5
    <3> QED
      BY <3>3, <3>4, <3>5, <3>6
  <2> QED
    BY <2>1, <2>2
<1>2. SUBSET S \subseteq Good
  <2> HIDE DEF Good
  <2> QED
    BY <1>1, SubsetInduction
<1> QED
  BY <1>2

\* Nothing was spent by claims without tokens.
LEMMA SumOfZeros ==
    ASSUME NEW f, NEW S, IsFiniteSet(S), \A c \in S : f[c] = 0
    PROVE  Sum(f, S) = 0
<1>1. Sum(f, S) = 0 * Cardinality(S)
  BY SumOfSame
<1> QED
  BY <1>1, FS_CardinalityType
=============================================================================
