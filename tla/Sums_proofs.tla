------------------------------ MODULE Sums_proofs ------------------------------
(***************************************************************************)
(* Sums over finite sets, and the finite induction they rest on.  What the *)
(* community modules compute with a fold is such a sum.                    *)
(***************************************************************************)
EXTENDS Integers, FiniteSets, FiniteSetsExt, FiniteSetTheorems, TLAPS

\* A set of numbers up to n that is closed under the successor, and holds 0, has
\* n: else it would be as large as itself without 0.
LEMMA UpTo ==
    ASSUME NEW n \in Nat, NEW U \in SUBSET (0..n), 0 \in U, \A k \in U : k < n => k + 1 \in U
    PROVE  n \in U
<1> SUFFICES ASSUME n \notin U PROVE FALSE OBVIOUS
<1> DEFINE f == [k \in U |-> k + 1]
<1>1. IsFiniteSet(U) /\ IsFiniteSet(U \ {0}) /\ Cardinality(U \ {0}) = Cardinality(U) - 1
  <2>1. IsFiniteSet(0..n) BY FS_Interval
  <2>2. IsFiniteSet(U) BY <2>1, FS_Subset
  <2> QED BY <2>2, FS_RemoveElement
<1>2. Cardinality(U) \in Nat BY <1>1, FS_CardinalityType
<1>3. \A k \in U : k \in Nat /\ k < n /\ k + 1 \in U \ {0} OBVIOUS
<1>4. f \in Injection(U, U \ {0})
  <2>1. f \in [U -> U \ {0}] BY <1>3
  <2>2. \A a, b \in U : f[a] = f[b] => a = b BY <1>3
  <2> QED BY <2>1, <2>2 DEF Injection, IsInjective
<1>5. Cardinality(U) <= Cardinality(U \ {0}) BY <1>1, <1>4, FS_Injection
<1> QED BY <1>1, <1>2, <1>5

\* The element the sum takes next.
Pick(s) == CHOOSE x \in s : TRUE
FoldAt(g, f, s) == IF s = {} THEN 0 ELSE f[Pick(s)] + g[s \ {Pick(s)}]
IsFold(g, f, S) == g = [s \in SUBSET S |-> FoldAt(g, f, s)]
SumIs(f, S, n) == \E g : IsFold(g, f, S) /\ g[S] = n

LEMMA PickIn == ASSUME NEW s, s # {} PROVE Pick(s) \in s BY DEF Pick

\* What holds of the empty set, and of a set when it holds of what is left
\* once the next element is taken, holds of all.
LEMMA Taking ==
    ASSUME NEW S, IsFiniteSet(S), NEW X \in SUBSET (SUBSET S), {} \in X,
           \A s \in SUBSET S : s # {} /\ s \ {Pick(s)} \in X => s \in X
    PROVE  X = SUBSET S
<1>1. IsFiniteSet(S) /\ Cardinality(S) \in Nat
  BY FS_CardinalityType
<1> DEFINE Sz == Cardinality(S)
           U == {n \in 0..Sz : \A s \in SUBSET S : Cardinality(s) <= n => s \in X}
<1>2. \A s \in SUBSET S : IsFiniteSet(s) /\ Cardinality(s) \in Nat /\ Cardinality(s) <= Sz
  BY <1>1, FS_Subset, FS_CardinalityType
<1>3. 0 \in U
  <2>1. \A s \in SUBSET S : Cardinality(s) <= 0 => s = {} BY <1>2, FS_EmptySet
  <2>2. 0 \in 0..Sz BY <1>1
  <2> QED BY <2>1, <2>2
<1>4. ASSUME NEW k \in U, k < Sz PROVE k + 1 \in U
  <2>1. k \in Nat /\ k + 1 \in 0..Sz BY <1>1, <1>4
  <2>2. ASSUME NEW s \in SUBSET S, Cardinality(s) <= k + 1 PROVE s \in X
    <3>1. CASE s # {}
      <4>1. Pick(s) \in s BY <3>1, PickIn
      <4>2. Cardinality(s \ {Pick(s)}) = Cardinality(s) - 1 BY <1>2, <4>1, FS_RemoveElement
      <4>3. s \ {Pick(s)} \in SUBSET S OBVIOUS
      <4>4. Cardinality(s \ {Pick(s)}) <= k BY <1>2, <2>1, <2>2, <4>2
      <4>5. s \ {Pick(s)} \in X BY <4>3, <4>4
      <4> QED BY <3>1, <4>5
    <3> QED BY <3>1
  <2> QED BY <2>1, <2>2
<1>5. Sz \in U
  <2>1. U \in SUBSET (0..Sz) OBVIOUS
  <2>2. Sz \in Nat BY <1>1
  <2> HIDE DEF Sz, U
  <2> QED BY <1>3, <1>4, <2>1, <2>2, UpTo
<1> QED BY <1>2, <1>5

LEMMA FoldExists ==
    ASSUME NEW S, IsFiniteSet(S), NEW f \in [S -> Nat]
    PROVE  \E g : IsFold(g, f, S)
<1>1. IsFiniteSet(S) /\ Cardinality(S) \in Nat
  BY FS_CardinalityType
<1> DEFINE Sz == Cardinality(S)
           Good(g, n) == \A s \in SUBSET S : Cardinality(s) <= n => g[s] = FoldAt(g, f, s)
           G == [SUBSET S -> Nat]
           U == {n \in 0..Sz : \E g \in G : Good(g, n)}
<1>2. \A s \in SUBSET S : IsFiniteSet(s) /\ Cardinality(s) \in Nat /\ Cardinality(s) <= Sz
  BY <1>1, FS_Subset, FS_CardinalityType
<1>3. 0 \in U
  <2>1. [s \in SUBSET S |-> 0] \in G OBVIOUS
  <2>2. \A s \in SUBSET S : Cardinality(s) <= 0 => s = {} BY <1>2, FS_EmptySet
  <2>3. Good([s \in SUBSET S |-> 0], 0) BY <2>2 DEF FoldAt
  <2>4. 0 \in 0..Sz BY <1>1
  <2> HIDE DEF G, Good
  <2> QED BY <2>1, <2>3, <2>4
<1>4. ASSUME NEW k \in U, k < Sz PROVE k + 1 \in U
  <2>1. k \in Nat /\ k + 1 \in 0..Sz BY <1>1, <1>4
  <2>2. PICK g \in G : Good(g, k) OBVIOUS
  <2> DEFINE h == [s \in SUBSET S |-> FoldAt(g, f, s)]
  <2>3. h \in G
    <3>1. ASSUME NEW s \in SUBSET S PROVE FoldAt(g, f, s) \in Nat
      <4>1. CASE s # {}
        <5>1. Pick(s) \in S /\ s \ {Pick(s)} \in SUBSET S BY <4>1, PickIn
        <5> QED BY <4>1, <5>1 DEF FoldAt
      <4> QED BY <4>1 DEF FoldAt
    <3> QED BY <3>1
  <2>4. ASSUME NEW s \in SUBSET S, Cardinality(s) <= k + 1 PROVE h[s] = FoldAt(h, f, s)
    <3>1. CASE s # {}
      <4>1. Pick(s) \in s BY <3>1, PickIn
      <4>2. PICK t \in SUBSET S : t = s \ {Pick(s)} OBVIOUS
      <4>3. Cardinality(t) = Cardinality(s) - 1 BY <1>2, <4>1, <4>2, FS_RemoveElement
      <4>4. Cardinality(t) <= k BY <1>2, <2>1, <2>4, <4>3
      <4>5. h[t] = g[t] BY <2>2, <4>4
      <4> QED BY <3>1, <4>2, <4>5 DEF FoldAt
    <3> QED BY <3>1 DEF FoldAt
  <2>5. Good(h, k + 1) BY <2>4
  <2> HIDE DEF G, Good, h
  <2> QED BY <2>1, <2>3, <2>5
<1>5. Sz \in U
  <2>1. U \in SUBSET (0..Sz) OBVIOUS
  <2>2. Sz \in Nat BY <1>1
  <2> HIDE DEF Sz, U
  <2> QED BY <1>3, <1>4, <2>1, <2>2, UpTo
<1>6. PICK g \in G : Good(g, Sz) BY <1>5
<1>7. \A s \in SUBSET S : g[s] = FoldAt(g, f, s) BY <1>2, <1>6
<1>8. IsFold(g, f, S) BY <1>7 DEF IsFold
<1> QED BY <1>8

LEMMA FoldRule ==
    ASSUME NEW S, IsFiniteSet(S), NEW g, NEW f, IsFold(g, f, S)
    PROVE  /\ g[{}] = 0
           /\ \A s \in SUBSET S : s # {} =>
                /\ Pick(s) \in s /\ s \ {Pick(s)} \in SUBSET S
                /\ g[s] = f[Pick(s)] + g[s \ {Pick(s)}]
<1>1. \A s \in SUBSET S : g[s] = FoldAt(g, f, s) BY DEF IsFold
<1> QED BY <1>1, PickIn DEF FoldAt

LEMMA FoldNat ==
    ASSUME NEW S, IsFiniteSet(S), NEW f \in [S -> Nat], NEW g, IsFold(g, f, S)
    PROVE  \A s \in SUBSET S : g[s] \in Nat
<1> DEFINE X == {s \in SUBSET S : g[s] \in Nat}
<1>1. {} \in X BY FoldRule
<1>2. ASSUME NEW s \in SUBSET S, s # {}, s \ {Pick(s)} \in X PROVE s \in X
  <2>1. g[s] = f[Pick(s)] + g[s \ {Pick(s)}] /\ Pick(s) \in S BY <1>2, FoldRule
  <2> QED BY <1>2, <2>1
<1>3. X \in SUBSET (SUBSET S) OBVIOUS
<1> HIDE DEF X
<1>4. X = SUBSET S BY <1>1, <1>2, <1>3, Taking
<1> QED BY <1>4 DEF X

\* The sum of what is nowhere more is not more.
LEMMA FoldMonotone ==
    ASSUME NEW S, IsFiniteSet(S), NEW f \in [S -> Nat], NEW e \in [S -> Nat], NEW g, NEW h,
           IsFold(g, f, S), IsFold(h, e, S), \A c \in S : f[c] <= e[c]
    PROVE  g[S] <= h[S]
<1> DEFINE X == {s \in SUBSET S : g[s] <= h[s]}
<1>1. {} \in X BY FoldRule
<1>2. ASSUME NEW s \in SUBSET S, s # {}, s \ {Pick(s)} \in X PROVE s \in X
  <2>1. g[s] = f[Pick(s)] + g[s \ {Pick(s)}] /\ h[s] = e[Pick(s)] + h[s \ {Pick(s)}]
        /\ Pick(s) \in S /\ s \ {Pick(s)} \in SUBSET S
    BY <1>2, FoldRule
  <2>2. g[s \ {Pick(s)}] \in Nat /\ h[s \ {Pick(s)}] \in Nat BY <2>1, FoldNat
  <2>3. f[Pick(s)] \in Nat /\ e[Pick(s)] \in Nat /\ f[Pick(s)] <= e[Pick(s)] BY <2>1
  <2> QED BY <1>2, <2>1, <2>2, <2>3
<1>3. X \in SUBSET (SUBSET S) OBVIOUS
<1> HIDE DEF X
<1>4. X = SUBSET S BY <1>1, <1>2, <1>3, Taking
<1> QED BY <1>4 DEF X

\* The sum changes by what one of its terms changes.
LEMMA FoldChange ==
    ASSUME NEW S, IsFiniteSet(S), NEW f \in [S -> Nat], NEW e \in [S -> Nat], NEW g, NEW h,
           IsFold(g, f, S), IsFold(h, e, S), NEW d \in S,
           \A c \in S : c # d => e[c] = f[c]
    PROVE  h[S] + f[d] = g[S] + e[d]
<1> DEFINE X == {s \in SUBSET S : IF d \in s THEN h[s] + f[d] = g[s] + e[d]
                                                   ELSE h[s] = g[s]}
<1>1. {} \in X BY FoldRule
<1>2. ASSUME NEW s \in SUBSET S, s # {}, s \ {Pick(s)} \in X PROVE s \in X
  <2>1. PICK t \in SUBSET S : t = s \ {Pick(s)} BY <1>2, FoldRule
  <2>2. PICK p \in S : p = Pick(s) /\ p \in s BY <1>2, FoldRule
  <2>3. g[s] = f[p] + g[t] /\ h[s] = e[p] + h[t] BY <1>2, <2>1, <2>2, FoldRule
  <2>4. g[t] \in Nat /\ h[t] \in Nat /\ f[p] \in Nat /\ e[p] \in Nat
        /\ f[d] \in Nat /\ e[d] \in Nat
    BY FoldNat
  <2>5. IF d \in t THEN h[t] + f[d] = g[t] + e[d] ELSE h[t] = g[t] BY <1>2, <2>1
  <2>6. CASE p = d
    <3>1. d \notin t /\ d \in s BY <2>1, <2>2, <2>6
    <3> QED BY <2>3, <2>4, <2>5, <2>6, <3>1
  <2>7. CASE p # d
    <3>1. (d \in t <=> d \in s) /\ e[p] = f[p] BY <2>1, <2>2, <2>7
    <3> QED BY <2>3, <2>4, <2>5, <3>1
  <2> QED BY <2>6, <2>7
<1>3. X \in SUBSET (SUBSET S) OBVIOUS
<1> HIDE DEF X
<1>4. X = SUBSET S BY <1>1, <1>2, <1>3, Taking
<1> QED BY <1>4 DEF X

-----------------------------------------------------------------------------
LEMMA SumExists ==
    ASSUME NEW S, IsFiniteSet(S), NEW f \in [S -> Nat]
    PROVE  \E n \in Nat : SumIs(f, S, n)
<1>1. PICK g : IsFold(g, f, S) BY FoldExists
<1>2. g[S] \in Nat BY <1>1, FoldNat
<1> QED BY <1>1, <1>2 DEF SumIs

LEMMA SumMonotone ==
    ASSUME NEW S, IsFiniteSet(S), NEW f \in [S -> Nat], NEW e \in [S -> Nat], NEW n, NEW m,
           SumIs(f, S, n), SumIs(e, S, m), \A c \in S : f[c] <= e[c]
    PROVE  n \in Nat /\ m \in Nat /\ n <= m
<1>1. PICK g : IsFold(g, f, S) /\ g[S] = n BY DEF SumIs
<1>2. PICK h : IsFold(h, e, S) /\ h[S] = m BY DEF SumIs
<1>3. n \in Nat /\ m \in Nat BY <1>1, <1>2, FoldNat
<1> QED BY <1>1, <1>2, <1>3, FoldMonotone

\* One term gets another value.
LEMMA SumRaised ==
    ASSUME NEW S, IsFiniteSet(S), NEW f \in [S -> Nat], NEW n \in Nat, SumIs(f, S, n), NEW d \in S,
           NEW e \in [S -> Nat], \A c \in S : c # d => e[c] = f[c]
    PROVE  \E m \in Nat : SumIs(e, S, m) /\ m + f[d] = n + e[d]
<1>3. PICK m \in Nat : SumIs(e, S, m) BY SumExists
<1>4. PICK g : IsFold(g, f, S) /\ g[S] = n BY DEF SumIs
<1>5. PICK h : IsFold(h, e, S) /\ h[S] = m BY <1>3 DEF SumIs
<1>6. h[S] + f[d] = g[S] + e[d] BY <1>4, <1>5, FoldChange
<1> QED BY <1>3, <1>4, <1>5, <1>6

\* What the folds of the community modules compute.
LEMMA MapSumIs ==
    ASSUME NEW S, IsFiniteSet(S), NEW f \in [S -> Nat]
    PROVE  SumIs(f, S, MapThenSumSet(LAMBDA x : f[x], S))
<1> DEFINE Next(iter) == [s \in SUBSET S |->
               IF s = {} THEN 0
               ELSE LET x == CHOOSE x \in s : TRUE IN f[x] + iter[s \ {x}]]
<1>1. ASSUME NEW g PROVE IsFold(g, f, S) <=> g = Next(g)
  <2>1. ASSUME NEW s \in SUBSET S
        PROVE  FoldAt(g, f, s) = IF s = {} THEN 0
                                 ELSE LET x == CHOOSE x \in s : TRUE IN f[x] + g[s \ {x}]
    BY DEF FoldAt, Pick
  <2> QED BY <2>1 DEF IsFold
<1> HIDE DEF Next
<1>2. \E g : g = Next(g)
  <2>1. PICK g : IsFold(g, f, S) BY FoldExists
  <2>2. g = Next(g) BY <1>1, <2>1
  <2> QED BY <2>2
<1>3. PICK h : h = CHOOSE iter : iter = Next(iter) OBVIOUS
<1>4. h = Next(h) BY <1>2, <1>3
<1>5. MapThenSumSet(LAMBDA x : f[x], S) = h[S] BY <1>3 DEF Next, MapThenSumSet, MapThenFoldSet
<1> QED BY <1>1, <1>4, <1>5 DEF SumIs

LEMMA FoldSumIs ==
    ASSUME NEW S, IsFiniteSet(S), NEW f \in [S -> Nat]
    PROVE  SumIs(f, S, FoldFunction(+, 0, f))
<1>1. FoldFunction(+, 0, f) = MapThenSumSet(LAMBDA x : f[x], S)
  <2>1. DOMAIN f = S OBVIOUS
  <2> QED BY <2>1 DEF FoldFunction, FoldFunctionOnSet, MapThenSumSet, MapThenFoldSet
<1> QED BY <1>1, MapSumIs
================================================================================
