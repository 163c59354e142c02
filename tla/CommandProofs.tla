------------------------- MODULE CommandProofs -------------------------
(***************************************************************************)
(* Theorems about Command, for any arguments, tools and config files.      *)
(***************************************************************************)
EXTENDS Command, FiniteSetTheorems, SequenceTheorems, TLAPS

(***************************************************************************)
(* Positions in their order                                                *)
(***************************************************************************)

\* Of any natural numbers there is a least.
LEMMA LeastNat ==
  ASSUME NEW T, T \subseteq Nat, T # {}
  PROVE  \E n \in T: \A m \in T: n <= m
<1>1. PICK n \in T: \A m \in T: <<m, n>> \notin OpToRel(<, Nat)
  BY NatLessThanWellFounded, WFMin
<1>2. \A m \in T: ~ m < n
  BY <1>1 DEF OpToRel
<1>3. QED
  BY <1>2

\* How many of the positions P are at or before i.
Rank(P, i) == Cardinality({j \in P: j <= i})

LEMMA RankGrows ==
  ASSUME NEW P, P \subseteq Nat, IsFiniteSet(P), NEW i \in P, NEW j \in P, i < j
  PROVE  Rank(P, i) < Rank(P, j)
<1> DEFINE A == {k \in P: k <= i}
           B == {k \in P: k <= j}
<1>1. A \subseteq B /\ j \in B /\ j \notin A /\ B \in SUBSET P
  <2>1. i \in Nat /\ j \in Nat /\ \A k \in P: k \in Nat
    OBVIOUS
  <2>2. \A k \in P: k <= i => k <= j
    BY <2>1
  <2>3. j <= j /\ ~ j <= i
    BY <2>1
  <2>4. QED
    BY <2>2, <2>3
<1> HIDE DEF A, B
<1>2. IsFiniteSet(B)
  BY <1>1, FS_Subset
<1>3. IsFiniteSet(A) /\ Cardinality(A) <= Cardinality(B) /\ (Cardinality(A) = Cardinality(B) => A = B)
  BY <1>1, <1>2, FS_Subset
<1>4. Cardinality(A) \in Nat /\ Cardinality(B) \in Nat
  BY <1>2, <1>3, FS_CardinalityType
<1>5. Cardinality(A) < Cardinality(B)
  BY <1>1, <1>3, <1>4
<1>6. QED
  BY <1>5 DEF A, B, Rank

\* Nth counts the positions in their order, all of them.
LEMMA NthOrder ==
  ASSUME NEW P, P \subseteq Nat, IsFiniteSet(P)
  PROVE  /\ Cardinality(P) \in Nat
         /\ \A k \in 1..Cardinality(P): Nth(P, k) \in P
         /\ \A i \in P: \E k \in 1..Cardinality(P): Nth(P, k) = i
         /\ \A k, m \in 1..Cardinality(P): k < m => Nth(P, k) < Nth(P, m)
<1> DEFINE n == Cardinality(P)
           rank == [i \in P |-> Rank(P, i)]
<1>1. n \in Nat /\ IsFiniteSet(1..n) /\ Cardinality(1..n) = n
  BY FS_CardinalityType, FS_Interval
<1>2. \A i \in P: Rank(P, i) \in 1..n
  <2> TAKE i \in P
  <2> DEFINE A == {j \in P: j <= i}
  <2>1. A \in SUBSET P /\ i \in A
    OBVIOUS
  <2> HIDE DEF A
  <2>2. IsFiniteSet(A) /\ Cardinality(A) <= n /\ Cardinality(A) \in Nat
    BY <2>1, FS_Subset, FS_CardinalityType
  <2>3. Cardinality(A) # 0
    BY <2>1, <2>2, FS_EmptySet
  <2>4. QED
    BY <1>1, <2>2, <2>3 DEF A, Rank
<1>3. \A i, j \in P: Rank(P, i) = Rank(P, j) => i = j
  <2> SUFFICES ASSUME NEW i \in P, NEW j \in P, Rank(P, i) = Rank(P, j) PROVE i = j
    OBVIOUS
  <2>1. Rank(P, i) \in Nat /\ Rank(P, j) \in Nat /\ i \in Nat /\ j \in Nat
    BY <1>2
  <2>2. QED
    <3>1. i < j => Rank(P, i) < Rank(P, j)
      BY RankGrows
    <3>2. j < i => Rank(P, j) < Rank(P, i)
      BY RankGrows
    <3>3. QED
      BY <2>1, <3>1, <3>2
<1>4. rank \in Injection(P, 1..n)
  BY <1>2, <1>3 DEF Injection, IsInjective
<1>5. rank \in Surjection(P, 1..n)
  BY <1>1, <1>4, FS_Injection
<1>6. \A k \in 1..n: \E i \in P: Rank(P, i) = k
  BY <1>5 DEF Surjection
<1>7. \A k \in 1..n: Nth(P, k) \in P /\ Rank(P, Nth(P, k)) = k
  BY <1>6 DEF Nth, Rank
<1> HIDE DEF n
<1>8. \A i \in P: \E k \in 1..n: Nth(P, k) = i
  BY <1>2, <1>3, <1>7
<1>9. ASSUME NEW k \in 1..n, NEW m \in 1..n, k < m PROVE Nth(P, k) < Nth(P, m)
  <2>1. k \in Nat /\ m \in Nat
    BY <1>1
  <2>2. /\ Nth(P, k) \in P /\ Rank(P, Nth(P, k)) = k
        /\ Nth(P, m) \in P /\ Rank(P, Nth(P, m)) = m
    BY <1>7
  <2>3. Nth(P, k) \in Nat /\ Nth(P, m) \in Nat
    BY <2>2
  <2>4. Nth(P, k) # Nth(P, m)
    BY <1>9, <2>1, <2>2
  <2>5. ~ Nth(P, m) < Nth(P, k)
    <3>1. SUFFICES ASSUME Nth(P, m) < Nth(P, k) PROVE FALSE
      OBVIOUS
    <3>2. Rank(P, Nth(P, m)) < Rank(P, Nth(P, k))
      BY <2>2, <3>1, RankGrows
    <3>3. QED
      BY <1>9, <2>1, <2>2, <3>2
  <2>6. QED
    BY <2>3, <2>4, <2>5
<1>10. QED
  BY <1>1, <1>7, <1>8, <1>9 DEF n

(***************************************************************************)
(* What takes the next argument                                            *)
(***************************************************************************)

\* The values are those that follow a taker that is not a value itself: the
\* recursive function of the positions that defines them exists, as one up to a
\* position can be extended to the next.
LEMMA ValuesFollow ==
  ASSUME NEW a, NEW takers, Len(a) \in Nat
  PROVE  /\ ValuesOf(a, takers) \subseteq 1..Len(a)
         /\ \A i \in 1..Len(a):
              i \in ValuesOf(a, takers) <=>
                i > 1 /\ a[i - 1] \in takers /\ i - 1 \notin ValuesOf(a, takers)
<1> DEFINE N == Len(a)
           def(g, i) == i > 1 /\ a[i - 1] \in takers /\ ~g[i - 1]
           upto(n) == \E g: g = [i \in 0..n |-> def(g, i)]
           taken == CHOOSE g: g = [i \in 0..N |-> def(g, i)]
<1>1. ValuesOf(a, takers) = {i \in 1..N: taken[i]}
  BY DEF ValuesOf
<1>2. ASSUME NEW n \in Nat, NEW g, g = [i \in 0..n |-> def(g, i)] PROVE upto(n + 1)
  <2> DEFINE h == [i \in 0..n + 1 |-> IF i = n + 1 THEN def(g, n + 1) ELSE g[i]]
  <2>1. ASSUME NEW i \in 0..n + 1 PROVE h[i] = def(h, i)
    <3>1. CASE i = n + 1
      BY <3>1
    <3>2. CASE i # n + 1
      <4>1. i \in 0..n /\ g[i] = def(g, i)
        BY <1>2, <3>2
      <4>2. h[i] = g[i] /\ (i > 1 => h[i - 1] = g[i - 1])
        BY <4>1
      <4> HIDE DEF h
      <4>3. QED
        BY <4>1, <4>2
    <3>3. QED
      BY <3>1, <3>2
  <2>2. h = [i \in 0..n + 1 |-> def(h, i)]
    BY <2>1
  <2>3. QED
    BY <2>2
<1>3. upto(0)
  <2> DEFINE g == [i \in 0..0 |-> FALSE]
  <2>1. \A i \in 0..0: def(g, i) = FALSE
    OBVIOUS
  <2>2. g = [i \in 0..0 |-> def(g, i)]
    BY <2>1
  <2>3. QED
    BY <2>2
<1> HIDE DEF upto
<1>4. upto(N)
  <2> DEFINE T == {n \in Nat: ~upto(n)}
  <2> SUFFICES ASSUME N \in T PROVE FALSE
    OBVIOUS
  <2>1. T \subseteq Nat
    OBVIOUS
  <2> HIDE DEF T
  <2>2. PICK n \in T: \A m \in T: n <= m
    BY <2>1, LeastNat
  <2>3. n # 0 /\ n \in Nat
    BY <1>3 DEF T
  <2>4. PICK m \in Nat: n = m + 1
    BY <2>3
  <2>5. ~ n <= m
    BY <2>4
  <2>6. m \notin T
    BY <2>2, <2>5
  <2>7. upto(m)
    BY <2>6 DEF T
  <2>8. upto(m + 1)
    BY <1>2, <2>7 DEF upto
  <2>9. QED
    BY <2>4, <2>8 DEF T
<1>5. taken = [i \in 0..N |-> def(taken, i)]
  BY <1>4 DEF upto
<1> HIDE DEF taken
<1>6. \A i \in 1..N: taken[i] = (i > 1 /\ a[i - 1] \in takers /\ ~taken[i - 1])
  BY <1>5
<1>7. \A i \in 1..N: i \in ValuesOf(a, takers) <=> taken[i]
  BY <1>1
<1>8. \A i \in 1..N: i > 1 => i - 1 \in 1..N
  OBVIOUS
<1>9. QED
  BY <1>1, <1>6, <1>7, <1>8

(***************************************************************************)
(* What reorderArgs makes of the arguments                                 *)
(***************************************************************************)
Ahead(a) == {i \in 1..Len(a): GoesFirst(a, i)}
Behind(a) == (1..Len(a)) \ Ahead(a)
Values(a) == ValuesOf(a, {"--config"})

\* The arguments are spelt as reorderArgs expects them.
Expected(a) ==
  \A i \in (1..Len(a)) \ Values(a):
    /\ a[i] \notin {"-config"} \cup NoFlag
    /\ a[i] = "--config" => i < Len(a)

LEMMA AtSeq ==
  ASSUME NEW a \in Seq(STRING), NEW P \in SUBSET (1..Len(a))
  PROVE  /\ P \subseteq Nat /\ IsFiniteSet(P) /\ Cardinality(P) \in Nat
         /\ At(a, P) \in Seq(STRING) /\ Len(At(a, P)) = Cardinality(P)
         /\ \A k \in 1..Cardinality(P): At(a, P)[k] = a[Nth(P, k)]
<1>1. Len(a) \in Nat /\ \A i \in 1..Len(a): a[i] \in STRING
  OBVIOUS
<1>2. P \subseteq Nat /\ IsFiniteSet(1..Len(a))
  BY <1>1, FS_Interval
<1>3. IsFiniteSet(P)
  BY <1>2, FS_Subset
<1>4. Cardinality(P) \in Nat /\ \A k \in 1..Cardinality(P): Nth(P, k) \in P
  BY <1>2, <1>3, NthOrder
<1> DEFINE n == Cardinality(P)
           s == [k \in 1..n |-> a[Nth(P, k)]]
<1>5. \A k \in 1..n: a[Nth(P, k)] \in STRING
  BY <1>1, <1>4
<1> HIDE DEF n
<1>6. s \in Seq(STRING) /\ Len(s) = n
  BY <1>4, <1>5 DEF n
<1>7. At(a, P) = s
  BY DEF At, n
<1>8. QED
  BY <1>2, <1>3, <1>4, <1>6, <1>7 DEF n

\* The flags and their values, then the words, each in their order.
LEMMA Reordered ==
  ASSUME NEW a \in Seq(STRING)
  PROVE  LET b == ReorderArgs(a)
             m == Cardinality(Ahead(a))
             w == Cardinality(Behind(a))
         IN  /\ m \in Nat /\ w \in Nat
             /\ b \in Seq(STRING) /\ Len(b) = m + w
             /\ \A k \in 1..m: b[k] = a[Nth(Ahead(a), k)]
             /\ \A k \in m + 1..m + w: k - m \in 1..w /\ b[k] = a[Nth(Behind(a), k - m)]
             /\ SubSeq(b, m + 1, Len(b)) = At(a, Behind(a))
<1> DEFINE s == At(a, Ahead(a))
           t == At(a, Behind(a))
           m == Cardinality(Ahead(a))
           w == Cardinality(Behind(a))
           b == s \o t
<1>1. Ahead(a) \in SUBSET (1..Len(a)) /\ Behind(a) \in SUBSET (1..Len(a))
  BY DEF Ahead, Behind
<1>2. /\ m \in Nat /\ s \in Seq(STRING) /\ Len(s) = m /\ \A k \in 1..m: s[k] = a[Nth(Ahead(a), k)]
      /\ w \in Nat /\ t \in Seq(STRING) /\ Len(t) = w /\ \A k \in 1..w: t[k] = a[Nth(Behind(a), k)]
  BY <1>1, AtSeq
<1>3. ReorderArgs(a) = b
  BY DEF ReorderArgs, Ahead, Behind
<1> HIDE DEF s, t, m, w
<1>4. b \in Seq(STRING) /\ Len(b) = m + w
  BY <1>2
<1>5. \A k \in 1..m: b[k] = s[k]
  BY <1>2
<1>6. \A k \in m + 1..m + w: k - m \in 1..w /\ b[k] = t[k - m]
  BY <1>2
<1>7. SubSeq(b, m + 1, m + w) = t
  <2> DEFINE c == SubSeq(b, m + 1, m + w)
  <2>1. c \in Seq(STRING) /\ Len(c) = w
    BY <1>2, <1>4
  <2>2. \A k \in 1..w: c[k] = t[k]
    <3> TAKE k \in 1..w
    <3>1. c[k] = b[(m + 1) + k - 1] /\ (m + 1) + k - 1 = m + k /\ m + k \in m + 1..m + w
      BY <1>2, <1>4
    <3>2. b[m + k] = t[(m + k) - m] /\ (m + k) - m = k
      BY <1>2, <1>6, <3>1
    <3>3. QED
      BY <3>1, <3>2
  <2> HIDE DEF c
  <2>3. c = [k \in 1..w |-> c[k]] /\ t = [k \in 1..w |-> t[k]]
    BY <1>2, <2>1
  <2>4. [k \in 1..w |-> c[k]] = [k \in 1..w |-> t[k]]
    BY <2>2
  <2>5. c = t
    BY <2>3, <2>4
  <2>6. QED
    BY <2>5 DEF c
<1>8. QED
  BY <1>2, <1>3, <1>4, <1>5, <1>6, <1>7 DEF s, t, m, w

\* Nothing lies before the first position, after the last, or between one and
\* the next.
LEMMA Adjacent ==
  ASSUME NEW P, P \subseteq Nat, IsFiniteSet(P), NEW k \in 1..Cardinality(P)
  PROVE  /\ k = 1 => \A i \in P: Nth(P, k) <= i
         /\ k = Cardinality(P) => \A i \in P: i <= Nth(P, k)
         /\ k > 1 => /\ Nth(P, k - 1) < Nth(P, k)
                     /\ \A i \in P: i <= Nth(P, k - 1) \/ Nth(P, k) <= i
<1> DEFINE n == Cardinality(P)
           nth(j) == Nth(P, j)
<1>1. /\ n \in Nat
      /\ \A j \in 1..n: nth(j) \in P
      /\ \A i \in P: \E j \in 1..n: nth(j) = i
      /\ \A j, l \in 1..n: j < l => nth(j) < nth(l)
  BY NthOrder
<1>3. k \in 1..n
  OBVIOUS
<1> HIDE DEF n, nth
<1>2. \A j \in 1..n: nth(j) \in Nat /\ j \in Nat
  <2>1. \A i \in P: i \in Nat
    OBVIOUS
  <2>2. \A j \in 1..n: nth(j) \in Nat
    BY <1>1, <2>1
  <2>3. n \in Nat
    BY <1>1
  <2>4. \A j \in 1..n: j \in Nat
    BY <2>3
  <2>5. QED
    BY <2>2, <2>4
<1>4. ASSUME k = 1, NEW i \in P PROVE nth(k) <= i
  <2>1. PICK j \in 1..n: nth(j) = i
    BY <1>1
  <2>2. j = 1 \/ 1 < j
    BY <1>1
  <2>3. QED
    BY <1>1, <1>2, <1>3, <1>4, <2>1, <2>2
<1>5. ASSUME k = n, NEW i \in P PROVE i <= nth(k)
  <2>1. PICK j \in 1..n: nth(j) = i
    BY <1>1
  <2>2. j = n \/ j < n
    BY <1>1
  <2>3. QED
    BY <1>1, <1>2, <1>3, <1>5, <2>1, <2>2
<1>6. ASSUME k > 1 PROVE nth(k - 1) < nth(k)
  <2>1. k - 1 \in 1..n /\ k - 1 < k
    BY <1>1, <1>3, <1>6
  <2>2. QED
    BY <1>1, <1>3, <2>1
<1>7. ASSUME k > 1, NEW i \in P PROVE i <= nth(k - 1) \/ nth(k) <= i
  <2>1. PICK j \in 1..n: nth(j) = i
    BY <1>1
  <2>2. k - 1 \in 1..n /\ (j < k - 1 \/ j = k - 1 \/ j = k \/ k < j)
    BY <1>1, <1>3, <1>7
  <2>3. CASE j < k - 1
    BY <1>1, <1>2, <2>1, <2>2, <2>3
  <2>4. CASE k < j
    BY <1>1, <1>2, <1>3, <2>1, <2>4
  <2>5. CASE j = k - 1 \/ j = k
    BY <1>2, <1>3, <2>1, <2>2, <2>5
  <2>6. QED
    BY <2>2, <2>3, <2>4, <2>5
<1>8. QED
  BY <1>4, <1>5, <1>6, <1>7 DEF n, nth

\* The values stay the values of their flags, and nothing else becomes one.
LEMMA SameValues ==
  ASSUME NEW a \in Seq(STRING), Expected(a)
  PROVE  LET b == ReorderArgs(a)
             m == Cardinality(Ahead(a))
         IN  /\ \A k \in 1..m: k \in ValuesOf(b, TakesNext) <=> Nth(Ahead(a), k) \in Values(a)
             /\ \A k \in m + 1..Len(b): k \notin ValuesOf(b, TakesNext) /\ ~Dashed(b[k])
<1> DEFINE b == ReorderArgs(a)
           F == Ahead(a)
           W == Behind(a)
           m == Cardinality(F)
           w == Cardinality(W)
           V == Values(a)
           U == ValuesOf(b, TakesNext)
           nth(k) == Nth(F, k)
<1>1. /\ m \in Nat /\ w \in Nat /\ b \in Seq(STRING) /\ Len(b) = m + w
      /\ \A k \in 1..m: b[k] = a[nth(k)]
      /\ \A k \in m + 1..m + w: k - m \in 1..w /\ b[k] = a[Nth(W, k - m)]
  BY Reordered
<1>2. Len(a) \in Nat /\ F \in SUBSET (1..Len(a)) /\ W \in SUBSET (1..Len(a))
  BY DEF Ahead, Behind
<1>3. F \subseteq Nat /\ IsFiniteSet(F) /\ W \subseteq Nat /\ IsFiniteSet(W)
  BY <1>2, AtSeq
<1>4. /\ \A k \in 1..m: nth(k) \in F /\ nth(k) \in Nat
      /\ \A k \in 1..w: Nth(W, k) \in W
  BY <1>3, NthOrder
<1>5. \A i \in 1..Len(a): i \in V <=> i > 1 /\ a[i - 1] = "--config" /\ i - 1 \notin V
  <2>1. \A i \in 1..Len(a): i \in V <=> i > 1 /\ a[i - 1] \in {"--config"} /\ i - 1 \notin V
    BY <1>2, ValuesFollow DEF Values
  <2> HIDE DEF V
  <2>2. QED
    BY <2>1
<1>6. \A k \in 1..Len(b): k \in U <=> k > 1 /\ b[k - 1] \in TakesNext /\ k - 1 \notin U
  <2>1. Len(b) \in Nat
    BY <1>1
  <2> HIDE DEF b
  <2>2. QED
    BY <2>1, ValuesFollow
<1>7. \A i \in 1..Len(a): i \in F <=> Dashed(a[i]) \/ i \in V
  BY DEF Ahead, GoesFirst, Values
<1>8. \A i \in W: i \in 1..Len(a) /\ ~Dashed(a[i])
  BY <1>7 DEF Behind
<1>9. \A x \in TakesNext: Dashed(x)
  BY DEF Dashed
<1>10. ASSUME NEW i \in F, i \notin V PROVE a[i] \in TakesNext <=> a[i] = "--config"
  <2>1. i \in (1..Len(a)) \ V
    BY <1>2, <1>10
  <2>2. QED
    BY <2>1 DEF Expected, TakesNext
\* A --config that is no value has one, next to it.
<1>11. ASSUME NEW p \in F, a[p] = "--config", p \notin V PROVE p + 1 \in V /\ p + 1 \in F
  <2>1. p \in 1..Len(a) /\ p # Len(a)
    BY <1>2, <1>11 DEF Expected
  <2>2. p + 1 \in 1..Len(a) /\ p + 1 > 1 /\ (p + 1) - 1 = p
    BY <1>2, <2>1
  <2>3. QED
    BY <1>5, <1>7, <1>11, <2>2
\* The step before a value is its flag.
<1>12. ASSUME NEW i \in V \cap F PROVE i > 1 /\ i - 1 \in F /\ a[i - 1] = "--config" /\ i - 1 \notin V
  <2>1. i \in 1..Len(a) /\ i > 1 /\ a[i - 1] = "--config" /\ i - 1 \notin V
    BY <1>2, <1>5, <1>12
  <2>2. i - 1 \in 1..Len(a)
    BY <1>2, <2>1
  <2>3. QED
    BY <1>7, <1>9, <2>1, <2>2 DEF TakesNext
<1> HIDE DEF F, W, V, U, b, m, w, nth
<1>13. \A k \in 1..m: k \in U <=> nth(k) \in V
  <2> DEFINE T == {k \in 1..m: ~(k \in U <=> nth(k) \in V)}
  <2> SUFFICES ASSUME T # {} PROVE FALSE
    OBVIOUS
  <2>1. T \subseteq Nat
    BY <1>1
  <2> HIDE DEF T
  <2>2. PICK k \in T: \A j \in T: k <= j
    BY <2>1, LeastNat
  <2>3. k \in 1..m /\ ~(k \in U <=> nth(k) \in V) /\ k \in Nat
    BY <2>1 DEF T
  <2>4. nth(k) \in F /\ nth(k) \in Nat /\ k \in 1..Len(b)
    BY <1>1, <1>4, <2>3
  <2>5. CASE k = 1
    <3>1. k \notin U
      BY <1>6, <2>4, <2>5
    <3>2. \A i \in F: nth(k) <= i
      BY <1>3, <2>3, <2>5, Adjacent DEF m, nth
    <3>3. nth(k) \notin V
      <4>1. SUFFICES ASSUME nth(k) \in V PROVE FALSE
        OBVIOUS
      <4>2. nth(k) - 1 \in F
        BY <1>12, <2>4, <4>1
      <4>3. nth(k) <= nth(k) - 1
        BY <3>2, <4>2
      <4>4. QED
        BY <2>4, <4>3
    <3>4. QED
      BY <2>3, <3>1, <3>3
  <2>6. CASE k > 1
    <3>1. k - 1 \in 1..m /\ ~ k <= k - 1
      BY <1>1, <2>3, <2>6
    <3>2. k - 1 \in U <=> nth(k - 1) \in V
      BY <2>2, <3>1 DEF T
    <3>3. nth(k - 1) < nth(k) /\ \A i \in F: i <= nth(k - 1) \/ nth(k) <= i
      BY <1>3, <2>3, <2>6, Adjacent DEF m, nth
    <3>4. nth(k - 1) \in F /\ nth(k - 1) \in Nat /\ b[k - 1] = a[nth(k - 1)]
      BY <1>1, <1>4, <3>1
    <3>5. k \in U <=> a[nth(k - 1)] = "--config" /\ nth(k - 1) \notin V
      BY <1>6, <1>10, <2>4, <2>6, <3>2, <3>4
    <3>6. ASSUME k \in U PROVE nth(k) \in V
      <4>1. nth(k - 1) + 1 \in V /\ nth(k - 1) + 1 \in F
        BY <1>11, <3>4, <3>5, <3>6
      <4>2. nth(k) = nth(k - 1) + 1
        BY <2>4, <3>3, <3>4, <4>1
      <4>3. QED
        BY <4>1, <4>2
    <3>7. ASSUME nth(k) \in V PROVE k \in U
      <4>1. nth(k) - 1 \in F /\ a[nth(k) - 1] = "--config" /\ nth(k) - 1 \notin V
        BY <1>12, <2>4, <3>7
      <4>2. nth(k - 1) = nth(k) - 1
        BY <2>4, <3>3, <3>4, <4>1
      <4>3. QED
        BY <3>5, <4>1, <4>2
    <3>8. QED
      BY <2>3, <3>6, <3>7
  <2>7. QED
    BY <2>3, <2>5, <2>6
<1>14. ASSUME NEW k \in m + 1..Len(b) PROVE ~Dashed(b[k])
  BY <1>1, <1>4, <1>8
<1>15. ASSUME NEW k \in m + 1..Len(b) PROVE k \notin U
  <2>1. k \in 1..Len(b) /\ k \in Nat
    BY <1>1
  <2> SUFFICES ASSUME k \in U PROVE FALSE
    OBVIOUS
  <2>2. k > 1 /\ b[k - 1] \in TakesNext /\ k - 1 \notin U
    BY <1>6, <2>1
  <2>3. ~ k - 1 > m
    <3>1. SUFFICES ASSUME k - 1 > m PROVE FALSE
      OBVIOUS
    <3>2. k - 1 \in m + 1..Len(b)
      BY <1>1, <2>1, <3>1
    <3>3. QED
      BY <1>9, <1>14, <2>2, <3>2
  <2>4. k - 1 = m /\ m \in 1..m
    BY <1>1, <2>1, <2>2, <2>3
  <2>5. a[nth(m)] = "--config" /\ nth(m) \notin V /\ nth(m) \in F /\ nth(m) \in Nat
    <3>1. nth(m) \notin V /\ nth(m) \in F /\ nth(m) \in Nat /\ a[nth(m)] \in TakesNext
      BY <1>1, <1>4, <1>13, <2>2, <2>4
    <3>2. QED
      BY <1>10, <3>1
  <2>6. nth(m) + 1 \in F
    BY <1>11, <2>5
  <2>7. \A i \in F: i <= nth(m)
    BY <1>3, <2>4, Adjacent DEF m, nth
  <2>8. QED
    BY <2>5, <2>6, <2>7
<1>16. QED
  BY <1>13, <1>14, <1>15 DEF F, V, U, b, m, nth

LEMMA MaxIs ==
  ASSUME NEW S, S \subseteq Nat, NEW x \in S, \A y \in S: y <= x
  PROVE  Max(S) = x
<1>1. \A y \in S: x >= y
  OBVIOUS
<1>2. Max(S) \in S /\ \A y \in S: Max(S) >= y
  BY <1>1 DEF Max
<1>3. Max(S) >= x /\ Max(S) <= x /\ Max(S) \in Nat /\ x \in Nat
  BY <1>2
<1>4. QED
  BY <1>3

\* The flag package stops at the first word, which is behind all the flags.
LEMMA StopsAtWords ==
  ASSUME NEW a \in Seq(STRING), Expected(a)
  PROVE  LET b == ReorderArgs(a)
             m == Cardinality(Ahead(a))
         IN  FlagsOf(b) = [flags |-> {k \in 1..m: k \notin ValuesOf(b, TakesNext)},
                           values |-> ValuesOf(b, TakesNext) \cap 1..m,
                           rest |-> At(a, Behind(a))]
<1> DEFINE b == ReorderArgs(a)
           F == Ahead(a)
           m == Cardinality(F)
           U == ValuesOf(b, TakesNext)
           V == Values(a)
           others == {i \in 1..Len(b): i \notin U /\ (~Dashed(b[i]) \/ b[i] \in NoFlag)}
           ends == others \cup {Len(b) + 1}
           stop == Min(ends)
           from == IF stop <= Len(b) /\ b[stop] = "--" THEN stop + 1 ELSE stop
<1>1. /\ m \in Nat /\ Len(b) \in Nat /\ m <= Len(b)
      /\ \A k \in 1..m: b[k] = a[Nth(F, k)]
      /\ SubSeq(b, m + 1, Len(b)) = At(a, Behind(a))
  BY Reordered
<1>2. /\ \A k \in 1..m: k \in U <=> Nth(F, k) \in V
      /\ \A k \in m + 1..Len(b): k \notin U /\ ~Dashed(b[k])
  BY SameValues
<1>3. F \subseteq Nat /\ IsFiniteSet(F)
  <2>1. F \in SUBSET (1..Len(a))
    BY DEF Ahead
  <2>2. QED
    BY <2>1, AtSeq
<1>4. \A k \in 1..m: k \in U \/ (Dashed(b[k]) /\ b[k] \notin NoFlag)
  <2>1. \A k \in 1..m: Nth(F, k) \in F
    BY <1>3, NthOrder
  <2>2. \A i \in F: Dashed(a[i]) \/ i \in V
    BY DEF Ahead, GoesFirst, Values
  <2>3. \A i \in F: i \in V \/ a[i] \notin NoFlag
    BY DEF Ahead, Expected
  <2>4. QED
    BY <1>1, <1>2, <2>1, <2>2, <2>3
<1> HIDE DEF b, F, m, U, V
<1>5. \A i \in 1..Len(b): i \in 1..m \/ i \in m + 1..Len(b)
  BY <1>1
<1>6. others = m + 1..Len(b)
  <2>1. m + 1..Len(b) \subseteq 1..Len(b)
    BY <1>1
  <2>2. QED
    BY <1>2, <1>4, <1>5, <2>1
<1>7. ends = m + 1..Len(b) + 1
  BY <1>1, <1>6
<1> HIDE DEF others, ends
<1>8. Min(ends) = m + 1
  <2>1. m + 1 \in ends /\ \A i \in ends: m + 1 <= i /\ i \in Nat
    BY <1>1, <1>7
  <2>2. Min(ends) \in ends /\ \A i \in ends: Min(ends) <= i
    BY <2>1 DEF Min
  <2>3. Min(ends) <= m + 1 /\ m + 1 <= Min(ends) /\ Min(ends) \in Nat /\ m + 1 \in Nat
    BY <1>1, <2>1, <2>2
  <2>4. QED
    BY <2>3
<1>9. 1..stop - 1 = 1..m /\ from = m + 1
  <2>1. 1..(m + 1) - 1 = 1..m
    BY <1>1
  <2>2. ~Dashed("--") => FALSE
    BY DEF Dashed, NoFlag
  <2>3. ~(m + 1 <= Len(b) /\ b[m + 1] = "--")
    BY <1>1, <1>2, <2>2
  <2>4. QED
    BY <1>8, <2>1, <2>3
<1>10. FlagsOf(b) = [flags |-> {i \in 1..stop - 1: i \notin U},
                     values |-> U \cap 1..stop - 1,
                     rest |-> SubSeq(b, from, Len(b))]
  BY DEF FlagsOf, ends, others, U
<1> HIDE DEF stop, from
<1>11. QED
  BY <1>1, <1>9, <1>10 DEF b, F, m, U

\* So what is parsed of the arguments in their new order is what they say in
\* the order they were given in.
LEMMA ParsedAlike ==
  ASSUME NEW a \in Seq(STRING), Expected(a)
  PROVE  LET p == Parsed(ReorderArgs(a))
             values == Values(a)
             free == (1..Len(a)) \ values
         IN  /\ p.on = TurnedOn(a, free)
             /\ p.config = IF values = {} THEN "default" ELSE a[Max(values)]
             /\ p.rest = At(a, {i \in free: ~Dashed(a[i])})
<1> DEFINE b == ReorderArgs(a)
           F == Ahead(a)
           m == Cardinality(F)
           U == ValuesOf(b, TakesNext)
           V == Values(a)
           free == (1..Len(a)) \ V
           flags == {k \in 1..m: k \notin U}
           values == U \cap 1..m
           words == {i \in free: ~Dashed(a[i])}
           nth(k) == Nth(F, k)
<1>1. m \in Nat /\ \A k \in 1..m: b[k] = a[nth(k)]
  BY Reordered
<1>2. \A k \in 1..m: k \in U <=> nth(k) \in V
  BY SameValues
<1>3. Len(a) \in Nat /\ F \in SUBSET (1..Len(a)) /\ V \in SUBSET (1..Len(a))
  BY ValuesFollow DEF Ahead, Values
<1>4. F \subseteq Nat /\ IsFiniteSet(F) /\ V \subseteq Nat /\ IsFiniteSet(V) /\ Cardinality(V) \in Nat
  BY <1>3, AtSeq
<1>5. /\ \A k \in 1..m: nth(k) \in F
      /\ \A i \in F: \E k \in 1..m: nth(k) = i
      /\ \A k, l \in 1..m: k < l => nth(k) < nth(l)
  BY <1>4, NthOrder
<1>6. \A i \in 1..Len(a): i \in F <=> Dashed(a[i]) \/ i \in V
  BY DEF Ahead, GoesFirst, Values
<1>7. FlagsOf(b) = [flags |-> flags, values |-> values, rest |-> At(a, Behind(a))]
  BY StopsAtWords
<1>8. Parsed(b) = [on |-> TurnedOn(b, flags),
                   config |-> IF values = {} THEN "default" ELSE b[Max(values)],
                   rest |-> At(a, Behind(a))]
  BY <1>7 DEF Parsed
<1>9. words = Behind(a)
  BY <1>6 DEF Behind
<1> HIDE DEF F, V, U, b, m, nth
\* A position of a flag and its new one.
<1>10. ASSUME NEW k \in flags PROVE k \in Nat /\ nth(k) \in free /\ nth(k) \in Nat /\ b[k] = a[nth(k)]
  <2>1. k \in 1..m /\ k \notin U
    OBVIOUS
  <2>2. nth(k) \in F /\ nth(k) \notin V /\ b[k] = a[nth(k)]
    BY <1>1, <1>2, <1>5, <2>1
  <2> HIDE DEF flags
  <2>3. k \in Nat
    <3>1. m \in Nat
      BY <1>1
    <3>2. QED
      BY <2>1, <3>1
  <2>4. nth(k) \in 1..Len(a) /\ nth(k) \in Nat
    <3>1. nth(k) \in F
      BY <2>2
    <3>2. F \subseteq 1..Len(a) /\ F \subseteq Nat
      BY <1>3, <1>4
    <3>3. QED
      BY <3>1, <3>2
  <2>5. nth(k) \in free
    BY <2>2, <2>4
  <2>6. QED
    BY <2>2, <2>3, <2>4, <2>5
<1>11. ASSUME NEW i \in free, Dashed(a[i]) PROVE \E k \in flags: nth(k) = i /\ b[k] = a[i]
  <2>1. i \in F /\ i \notin V
    BY <1>6, <1>11
  <2>2. PICK k \in 1..m: nth(k) = i
    BY <1>5, <2>1
  <2>3. QED
    BY <1>1, <1>2, <2>1, <2>2
<1>12. \A k, l \in flags: nth(k) < nth(l) <=> k < l
  <2> TAKE k, l \in flags
  <2>1. /\ k \in 1..m /\ l \in 1..m /\ k \in Nat /\ l \in Nat
        /\ nth(k) \in Nat /\ nth(l) \in Nat
    BY <1>10
  <2>2. (k < l => nth(k) < nth(l)) /\ (l < k => nth(l) < nth(k))
    BY <1>5, <2>1
  <2>3. k = l => nth(k) = nth(l)
    OBVIOUS
  <2>4. QED
    BY <2>1, <2>2, <2>3
<1>13. TurnedOn(b, flags) = TurnedOn(a, free)
  <2> DEFINE on(c, P, s) == \E i \in P: c[i] = s /\ \A j \in P: j > i => c[j] # Denied(s)
  <2>1. TurnedOn(b, flags) = {s \in Switches: on(b, flags, s)} /\ TurnedOn(a, free) = {s \in Switches: on(a, free, s)}
    BY DEF TurnedOn
  <2>2. ASSUME NEW s \in Switches PROVE Dashed(s) /\ Dashed(Denied(s))
    BY DEF Dashed
  <2> HIDE DEF flags, free
  <2>3. ASSUME NEW s \in Switches, on(b, flags, s) PROVE on(a, free, s)
    <3>1. PICK k \in flags: b[k] = s /\ \A j \in flags: j > k => b[j] # Denied(s)
      BY <2>3
    <3>2. nth(k) \in free /\ nth(k) \in Nat /\ a[nth(k)] = s
      BY <1>10, <3>1
    <3>3. ASSUME NEW j \in free, j > nth(k), a[j] = Denied(s) PROVE FALSE
      <4>1. PICK l \in flags: nth(l) = j /\ b[l] = a[j]
        BY <1>11, <2>2, <3>3
      <4>2. nth(l) \in Nat /\ l \in Nat /\ k \in Nat
        BY <1>10
      <4>3. l > k
        BY <1>12, <3>2, <3>3, <4>1, <4>2
      <4>4. QED
        BY <3>1, <3>3, <4>1, <4>3
    <3>4. QED
      BY <3>2, <3>3
  <2>4. ASSUME NEW s \in Switches, on(a, free, s) PROVE on(b, flags, s)
    <3>1. PICK i \in free: a[i] = s /\ \A j \in free: j > i => a[j] # Denied(s)
      BY <2>4
    <3>2. PICK k \in flags: nth(k) = i /\ b[k] = a[i]
      BY <1>11, <2>2, <3>1
    <3>3. ASSUME NEW j \in flags, j > k, b[j] = Denied(s) PROVE FALSE
      <4>1. /\ nth(j) \in free /\ nth(j) \in Nat /\ j \in Nat /\ a[nth(j)] = b[j]
            /\ nth(k) \in Nat /\ k \in Nat
        BY <1>10
      <4>2. nth(j) > i
        BY <1>12, <3>2, <3>3, <4>1
      <4>3. QED
        BY <3>1, <3>3, <4>1, <4>2
    <3>4. QED
      BY <3>1, <3>2, <3>3
  <2> HIDE DEF on
  <2>5. QED
    BY <2>1, <2>3, <2>4
<1>14. V \subseteq F
  BY <1>3, <1>6
<1>15. ASSUME V = {} PROVE Parsed(b).config = "default"
  <2>1. values = {}
    BY <1>2, <1>15
  <2>2. QED
    BY <1>8, <1>15, <2>1
<1>16. ASSUME V # {} PROVE Parsed(b).config = a[Max(V)]
  <2> DEFINE n == Cardinality(V)
             x == Nth(V, n)
  <2>1. n \in 1..n
    BY <1>4, <1>16, FS_EmptySet
  <2>2. x \in V /\ \A i \in V: i <= x
    BY <1>4, <2>1, NthOrder, Adjacent
  <2> HIDE DEF x
  <2>3. Max(V) = x
    BY <1>4, <2>2, MaxIs
  <2>4. PICK k \in 1..m: nth(k) = x
    BY <1>5, <1>14, <2>2
  <2>5. k \in values /\ values \subseteq Nat
    BY <1>1, <1>2, <2>2, <2>4
  <2>6. ASSUME NEW j \in values PROVE j <= k
    <3>1. j \in 1..m /\ nth(j) \in V
      BY <1>2
    <3>5. j \in Nat /\ k \in Nat
      BY <1>1
    <3>2. nth(j) <= nth(k) /\ nth(j) \in Nat /\ nth(k) \in Nat
      BY <1>4, <2>2, <2>4, <3>1
    <3>3. ~ k < j
      BY <1>5, <3>1, <3>2
    <3>4. QED
      BY <3>3, <3>5
  <2>7. Max(values) = k
    BY <2>5, <2>6, MaxIs
  <2>8. b[Max(values)] = a[Max(V)] /\ values # {}
    BY <1>1, <2>3, <2>4, <2>5, <2>7
  <2>9. QED
    BY <1>8, <1>16, <2>8
<1>17. Parsed(b).config = IF V = {} THEN "default" ELSE a[Max(V)]
  BY <1>15, <1>16
<1>18. Parsed(b).on = TurnedOn(a, free)
  BY <1>8, <1>13
<1> HIDE DEF flags, values, words
<1>19. Parsed(b).rest = At(a, words)
  BY <1>8, <1>9
<1>20. QED
  BY <1>17, <1>18, <1>19 DEF b, V, words

(***************************************************************************)
(* The stages of run()                                                     *)
(***************************************************************************)

\* What there is to work on.
GivenOfType ==
  /\ args \in Seq(STRING)
  /\ files \in [Paths -> Raw(Int)]
  /\ \A p \in Paths: files[p].state = "missing" => files[p] = Missing

\* The arguments are parsed, the command and its tool are known, the file is
\* loaded, and what is collected is settled.
IsParsed ==
  /\ ~ParseFails(ReorderArgs(args))
  /\ parsed = Parsed(ReorderArgs(args))
Understood ==
  \/ command \in {"doctor", "sources"} /\ command = Word
  \/ /\ command \in {"watch", "dashboard"} /\ Word \notin {"doctor", "sources"}
     /\ tool = IF Word = "watch" THEN First(Tail(parsed.rest), "none") ELSE Word
Loaded ==
  LET f == File(parsed.config)
  IN  /\ cfg = IF Invalid(f) THEN Default ELSE ApplyRaw(f)
      /\ warned <=> Invalid(f)
Settled ==
  /\ used = Settings
  /\ \/ command \in {"doctor", "sources"} /\ registry = Tools
     \/ /\ command \in {"watch", "dashboard"}
        /\ \/ tool # "none" /\ tool \in Enabled /\ registry = {tool}
           \/ tool = "none" /\ registry = Enabled

Stages ==
  /\ GivenOfType
  /\ pc \in {"parse", "dispatch", "load", "registry", "collected", "left"}
  /\ pc \in {"dispatch", "load", "registry", "collected"} => IsParsed
  /\ pc \in {"load", "registry", "collected"} => Understood
  /\ pc \in {"registry", "collected"} => Loaded
  /\ pc = "collected" => Settled
  /\ pc = "left" /\ exit = 2 /\ ~ParseFails(ReorderArgs(args)) =>
       /\ IsParsed /\ Understood /\ Loaded
       /\ command \in {"watch", "dashboard"} /\ tool # "none" /\ tool \notin Enabled

LEMMA StagesInit == Init => Stages
  BY InputsAssumption DEF Init, Stages, GivenOfType

LEMMA StagesStep == Stages /\ [Next]_vars => Stages'
<1> SUFFICES ASSUME Stages, [Next]_vars PROVE Stages'
  OBVIOUS
<1> USE DEF Stages
<1>1. CASE Parse
  <2>1. GivenOfType' /\ UNCHANGED <<args, files>>
    BY <1>1 DEF Parse, Leave, GivenOfType
  <2>2. CASE ParseFails(ReorderArgs(args))
    BY <1>1, <2>1, <2>2 DEF Parse, Leave
  <2>3. CASE ~ParseFails(ReorderArgs(args))
    BY <1>1, <2>1, <2>3 DEF Parse, IsParsed
  <2>4. QED
    BY <2>2, <2>3
<1>2. CASE ShowText
  BY <1>2 DEF ShowText, Leave, GivenOfType
<1>3. CASE Dispatch
  <2>1. UNCHANGED <<args, files, parsed>> /\ pc' = "load" /\ IsParsed
    BY <1>3 DEF Dispatch
  <2>2. Understood'
    BY <1>3, <2>1 DEF Dispatch, Understood, Word
  <2>3. QED
    BY <2>1, <2>2 DEF GivenOfType, IsParsed
<1>4. CASE Load
  <2>1. UNCHANGED <<args, files, parsed, command, tool>> /\ pc' = "registry" /\ IsParsed /\ Understood
    BY <1>4 DEF Load
  <2>2. Loaded'
    BY <1>4, <2>1 DEF Load, Loaded, OnError, File
  <2>3. QED
    BY <2>1, <2>2 DEF GivenOfType, IsParsed, Understood, Word
<1>5. ASSUME UNCHANGED <<args, files, parsed, command, tool, cfg, warned>>
      PROVE  /\ GivenOfType' = GivenOfType /\ IsParsed' = IsParsed /\ Understood' = Understood
             /\ Loaded' = Loaded /\ Settings' = Settings /\ Enabled' = Enabled
  BY <1>5 DEF GivenOfType, IsParsed, Understood, Loaded, Settings, Enabled, Word, File, AdapterEnabled,
              Interval, TTLFor
<1>6. CASE Diagnose
  BY <1>5, <1>6 DEF Diagnose, Collect, Settled
<1>7. CASE Single
  BY <1>5, <1>7 DEF Single, Collect, Leave, Known, Settled
<1>8. CASE All
  BY <1>5, <1>8 DEF All, Collect, Settled
<1>9. CASE UNCHANGED vars
  BY <1>5, <1>9 DEF vars, Settled
<1>10. QED
  BY <1>1, <1>2, <1>3, <1>4, <1>6, <1>7, <1>8, <1>9 DEF Next

LEMMA StagesHold == Spec => []Stages
  BY StagesInit, StagesStep, PTL DEF Spec

\* Every flag of arguments that reorderArgs expects counts wherever it stands,
\* with its value, and the words keep their order.
THEOREM FlagsAnywhereHolds == Spec => []FlagsAnywhere
<1>1. Stages => FlagsAnywhere
  <2> SUFFICES ASSUME Stages, pc \notin {"parse", "left"}, Expected(args)
               PROVE  LET values == Values(args)
                          free == (1..Len(args)) \ values
                      IN  /\ parsed.on = TurnedOn(args, free)
                          /\ parsed.config = IF values = {} THEN "default" ELSE args[Max(values)]
                          /\ parsed.rest = At(args, {i \in free: ~Dashed(args[i])})
    BY DEF FlagsAnywhere, Expected, Values
  <2>1. args \in Seq(STRING) /\ parsed = Parsed(ReorderArgs(args))
    BY DEF Stages, GivenOfType, IsParsed
  <2>2. QED
    BY <2>1, ParsedAlike
<1>2. QED
  BY <1>1, StagesHold, PTL

\* What the file is, and that of a valid one every duration is given or unset.
LEMMA FileTyped ==
  ASSUME GivenOfType
  PROVE  LET f == File(parsed.config)
         IN  /\ f \in Raw(Int)
             /\ ~Invalid(f) => /\ Valid(f.cache) /\ Valid(f.timeout) /\ Valid(f.watch)
                               /\ \A t \in Tools: Valid(f.adapters[t].ttl)
<1> DEFINE f == File(parsed.config)
<1>1. Missing \in Raw(Int)
  BY DEF Missing, Raw, Unset
<1>2. f \in Raw(Int) /\ (f.state = "missing" => f = Missing)
  BY <1>1 DEF GivenOfType, File
<1> HIDE DEF f
<1>3. f.state = "missing" => /\ Valid(f.cache) /\ Valid(f.timeout) /\ Valid(f.watch)
                             /\ \A t \in Tools: Valid(f.adapters[t].ttl)
  BY <1>2 DEF Missing, Valid, Unset, Bad
<1>4. f.state \in {"missing", "unreadable", "malformed", "decoded"}
  BY <1>2 DEF Raw
<1>5. QED
  BY <1>2, <1>3, <1>4 DEF f, Invalid

\* A command runs with all that a valid file says, but for a watch_interval
\* that is not positive, or, with a diagnostic, with nothing of an invalid one.
THEOREM WholeOrDefaultHolds == Spec => []WholeOrDefault
<1>1. ASSUME Stages PROVE WholeOrDefault
  <2> DEFINE f == File(parsed.config)
             says(d, v, default) == v = IF d = Unset THEN default ELSE d
  <2> SUFFICES ASSUME pc = "collected"
               PROVE  /\ warned <=> Invalid(f)
                      /\ Invalid(f) => cfg = Default /\ used.interval = 10
                      /\ ~Invalid(f) =>
                           /\ says(f.timeout, used.timeout, 30)
                           /\ \A t \in Tools: says(f.adapters[t].ttl, used.ttl[t],
                                                   IF f.cache = Unset THEN 60 ELSE f.cache)
                           /\ f.watch > 0 => says(f.watch, used.interval, 10)
                           /\ f.watch <= 0 => used.interval = 10
    BY DEF WholeOrDefault
  <2>1. /\ cfg = IF Invalid(f) THEN Default ELSE ApplyRaw(f)
        /\ warned <=> Invalid(f)
        /\ used = Settings
    BY <1>1 DEF Stages, Loaded, Settled
  <2>2. ~Invalid(f) => /\ Valid(f.cache) /\ Valid(f.timeout) /\ Valid(f.watch)
                       /\ \A t \in Tools: Valid(f.adapters[t].ttl)
    BY <1>1, FileTyped DEF Stages
  <2>3. used.interval = IF cfg.watch <= 0 THEN 10 ELSE cfg.watch
    BY <2>1 DEF Settings, Interval, Default
  <2>4. ASSUME Invalid(f) PROVE used.interval = 10
    BY <2>1, <2>3, <2>4 DEF Default
  <2> HIDE DEF f
  <2>5. ASSUME ~Invalid(f) PROVE says(f.timeout, used.timeout, 30)
    BY <2>1, <2>2, <2>5 DEF Settings, ApplyRaw, Default, Or, Given, Valid
  <2>6. ASSUME ~Invalid(f), NEW t \in Tools
        PROVE  says(f.adapters[t].ttl, used.ttl[t], IF f.cache = Unset THEN 60 ELSE f.cache)
    <3>1. used.ttl[t] = Or(cfg.ttl[t], cfg.cache)
      BY <2>1 DEF Settings, TTLFor
    <3>2. cfg.ttl[t] = Or(f.adapters[t].ttl, Unset) /\ cfg.cache = Or(f.cache, 60)
      BY <2>1, <2>6 DEF ApplyRaw, Default
    <3>3. QED
      BY <2>2, <2>6, <3>1, <3>2 DEF Or, Given, Valid
  <2>7. ASSUME ~Invalid(f)
        PROVE  /\ f.watch > 0 => says(f.watch, used.interval, 10)
               /\ f.watch <= 0 => used.interval = 10
    <3>1. cfg.watch = IF f.watch = Unset THEN 10 ELSE f.watch
      BY <2>1, <2>2, <2>7 DEF ApplyRaw, Default, Or, Given, Valid
    <3>2. f.watch \in Int
      BY <1>1, FileTyped DEF Stages, Raw, f
    <3>3. QED
      BY <2>3, <3>1, <3>2 DEF Unset
  <2>8. QED
    BY <2>1, <2>4, <2>5, <2>6, <2>7
<1>2. QED
  BY <1>1, StagesHold, PTL

LEMMA RestSeq ==
  ASSUME GivenOfType, IsParsed
  PROVE  parsed.rest \in Seq(STRING)
<1> DEFINE b == ReorderArgs(args)
           values == ValuesOf(b, TakesNext)
           others == {i \in 1..Len(b): i \notin values /\ (~Dashed(b[i]) \/ b[i] \in NoFlag)}
           ends == others \cup {Len(b) + 1}
           stop == Min(ends)
           from == IF stop <= Len(b) /\ b[stop] = "--" THEN stop + 1 ELSE stop
<1>1. b \in Seq(STRING)
  BY Reordered DEF GivenOfType
<1>2. Len(b) \in Nat /\ ends \subseteq 1..Len(b) + 1 /\ ends # {}
  BY <1>1
<1>3. parsed.rest = SubSeq(b, from, Len(b))
  BY DEF IsParsed, Parsed, FlagsOf
<1> HIDE DEF b, ends
<1>4. \E n \in ends: \A m \in ends: n <= m
  <2>1. ends \subseteq Nat
    BY <1>2
  <2>2. QED
    BY <1>2, <2>1, LeastNat
<1>5. stop \in 1..Len(b) + 1
  BY <1>2, <1>4 DEF Min
<1> HIDE DEF stop
<1>6. from \in 1..Len(b) + 1
  BY <1>2, <1>5
<1> HIDE DEF from
<1>7. QED
  BY <1>1, <1>2, <1>3, <1>6

\* The second word, if there is one.
LEMMA SecondWord ==
  ASSUME NEW s \in Seq(STRING), s # <<>>
  PROVE  LET second == First(Tail(s), "none")
         IN  \/ DOMAIN s = {1} /\ second = "none"
             \/ 2 \in DOMAIN s /\ second = s[2]
<1> DEFINE t == Tail(s)
<1>1. /\ t \in Seq(STRING)
      /\ Len(t) = Len(s) - 1
      /\ \A i \in 1..Len(t): t[i] = s[i + 1]
  BY HeadTailProperties, Zenon
<1>2. Len(s) \in Nat /\ DOMAIN s = 1..Len(s) /\ Len(s) # 0
  OBVIOUS
<1> HIDE DEF t
<1>3. CASE t = <<>>
  <2>1. Len(s) = 1
    BY <1>1, <1>2, <1>3
  <2>2. DOMAIN s = {1}
    BY <1>2, <2>1
  <2>3. QED
    BY <1>3, <2>2 DEF First, t
<1>4. CASE t # <<>>
  <2>1. Len(t) \in Nat /\ Len(t) # 0 /\ Head(t) = t[1]
    BY <1>1, <1>4
  <2>2. 1 \in 1..Len(t) /\ 2 \in 1..Len(s)
    BY <1>1, <1>2, <2>1
  <2>3. t[1] = s[1 + 1]
    BY <1>1, <2>2
  <2>4. QED
    BY <1>2, <1>4, <2>1, <2>2, <2>3 DEF First, t
<1>5. QED
  BY <1>3, <1>4

\* Only what is asked for is collected, and a command that is refused was
\* misspelt or names what cannot be.
THEOREM CollectsAsToldHolds == Spec => []CollectsAsTold
<1>1. ASSUME Stages PROVE CollectsAsTold
  <2> DEFINE f == File(parsed.config)
             off == {t \in Tools: ~Invalid(f) /\ f.adapters[t].enabled = "false"}
             rest == parsed.rest
             words == ToSet(rest)
  <2>1. ASSUME IsParsed PROVE rest \in Seq(STRING)
    BY <1>1, <2>1, RestSeq DEF Stages
  <2>2. ASSUME IsParsed
        PROVE  /\ rest = <<>> => Word = "none" /\ words = {}
               /\ rest # <<>> => Word = rest[1] /\ 1 \in DOMAIN rest /\ Word \in words
    BY <2>1, <2>2 DEF Word, First, ToSet
  <2>3. ASSUME IsParsed, rest # <<>>
        PROVE  LET second == First(Tail(rest), "none")
               IN  \/ DOMAIN rest = {1} /\ second = "none" /\ words = {Word}
                   \/ 2 \in DOMAIN rest /\ second = rest[2] /\ second \in words
    BY <2>1, <2>2, <2>3, SecondWord DEF ToSet
  <2>4. ASSUME Loaded PROVE Enabled = Tools \ off
    BY <2>4 DEF Loaded, Enabled, AdapterEnabled, ApplyRaw, Default
  <2>5. ASSUME pc = "collected" PROVE used.interval > 0
    <3>1. cfg.watch \in Int
      <4>1. f \in Raw(Int)
        BY <1>1, FileTyped DEF Stages
      <4>2. f.watch \in Int
        BY <4>1 DEF Raw
      <4>3. QED
        BY <1>1, <2>5, <4>2 DEF Stages, Loaded, ApplyRaw, Default, Or
    <3>2. used.interval = Interval
      BY <1>1, <2>5 DEF Stages, Settled, Settings
    <3>3. QED
      BY <3>1, <3>2 DEF Interval, Default
  <2>6. ASSUME pc = "collected"
        PROVE  /\ registry \subseteq Tools
               /\ words \cap {"doctor", "sources"} = {} => registry \cap off = {}
               /\ \/ /\ registry \in {Tools, Tools \ off}
                     /\ words \cap Tools = {} \/ "none" \in words \/ Word \in {"doctor", "sources"}
                  \/ \E w \in words: registry = {w}
    <3>1. IsParsed /\ Understood /\ Loaded /\ Settled /\ Enabled = Tools \ off
      BY <1>1, <2>4, <2>6 DEF Stages
    <3>2. CASE command \in {"doctor", "sources"}
      <4>1. registry = Tools /\ Word \in {"doctor", "sources"}
        BY <3>1, <3>2 DEF Settled, Understood
      <4>2. Word \in words
        BY <2>2, <3>1, <4>1
      <4>3. QED
        BY <4>1, <4>2
    <3>3. CASE command \in {"watch", "dashboard"} /\ tool # "none"
      <4>1. tool \in Enabled /\ registry = {tool}
        BY <3>1, <3>3 DEF Settled
      <4>2. tool \in words
        BY <2>2, <2>3, <3>1, <3>3 DEF Understood
      <4>3. QED
        BY <3>1, <4>1, <4>2
    <3>4. CASE command \in {"watch", "dashboard"} /\ tool = "none"
      <4>1. registry = Tools \ off
        BY <3>1, <3>4 DEF Settled
      <4>2. words \cap Tools = {} \/ "none" \in words
        <5>1. tool = IF Word = "watch" THEN First(Tail(rest), "none") ELSE Word
          BY <3>1, <3>4 DEF Understood
        <5>2. CASE Word = "watch"
          BY <2>2, <2>3, <3>1, <3>4, <5>1, <5>2, ToolsAssumption
        <5>3. CASE Word # "watch"
          BY <2>2, <3>1, <3>4, <5>1, <5>3
        <5>4. QED
          BY <5>2, <5>3
      <4>3. QED
        BY <4>1, <4>2
    <3>5. QED
      BY <3>1, <3>2, <3>3, <3>4 DEF Understood
  <2>7. ASSUME pc = "left", exit = 2, ~ParseFails(ReorderArgs(args))
        PROVE  \E k \in DOMAIN rest: rest[k] \notin Tools \ off /\ (k = 1 => rest[k] # "watch")
    <3>1. /\ IsParsed /\ Understood /\ Enabled = Tools \ off
          /\ command \in {"watch", "dashboard"} /\ tool # "none" /\ tool \notin Enabled
      BY <1>1, <2>4, <2>7 DEF Stages
    <3>2. tool = IF Word = "watch" THEN First(Tail(rest), "none") ELSE Word
      BY <3>1 DEF Understood
    <3>3. rest # <<>>
      BY <2>2, <3>1, <3>2
    <3>4. CASE Word = "watch"
      <4>1. 2 \in DOMAIN rest /\ rest[2] = tool
        BY <2>3, <3>1, <3>2, <3>3, <3>4
      <4>2. QED
        BY <3>1, <4>1
    <3>5. CASE Word # "watch"
      BY <2>2, <3>1, <3>2, <3>3, <3>5
    <3>6. QED
      BY <3>4, <3>5
  <2>8. QED
    BY <2>5, <2>6, <2>7 DEF CollectsAsTold
<1>2. QED
  BY <1>1, StagesHold, PTL

========================================================================
