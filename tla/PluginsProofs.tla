---------------------------- MODULE PluginsProofs ----------------------------
(***************************************************************************)
(* Proofs about the plugins: for every set of files and contents, what a   *)
(* scan imports was approved, what is listed as loaded is what is offered, *)
(* and the automatic choice of a driver is the one the claims justify.     *)
(*                                                                         *)
(* The first part is about data: sequences that are folded and sets that   *)
(* are sorted.  The induction it takes is over a set of numbers, those for *)
(* which the property holds.                                               *)
(***************************************************************************)
EXTENDS Plugins, FiniteSetTheorems, FunctionTheorems, WellFoundedInduction, TLAPS

\* A set of natural numbers that is not empty has a smallest element.
LEMMA SmallestExists ==
  ASSUME NEW T \in SUBSET Nat, T # {}
  PROVE  \E x \in T : \A y \in T : x <= y
<1> DEFINE R == OpToRel(<, Nat)
<1>1. IsWellFoundedOn(R, Nat)
  BY NatLessThanWellFounded
<1>2. \E x \in T : \A y \in T : ~(<<y, x>> \in R)
  <2> HIDE DEF R
  <2> QED BY <1>1, WFMin
<1>3. \A x, y \in T : ~(<<y, x>> \in R) => x <= y
  BY DEF OpToRel
<1> QED BY <1>2, <1>3

\* Induction, with the set of the numbers a property holds of in place of the property.
LEMMA SetInduction ==
  ASSUME NEW T, 0 \in T, \A n \in Nat : n \in T => n + 1 \in T
  PROVE  Nat \subseteq T
<1> SUFFICES ASSUME Nat \ T # {}
             PROVE  FALSE
  OBVIOUS
<1>1. PICK x \in Nat \ T : \A y \in Nat \ T : x <= y
  BY SmallestExists
<1>2. x # 0 /\ x - 1 \in Nat /\ x - 1 \in T
  BY <1>1
<1> QED BY <1>1, <1>2

\* h[k] is what k steps of F make of a.
Iterates(h, a, n, F) == h[0] = a /\ \A j \in 1..n : h[j] = F[j][h[j - 1]]

\* What is given step by step, up to n, exists.
LEMMA Recursion ==
  ASSUME NEW A, NEW a \in A, NEW n \in Nat, NEW F \in [1..n -> [A -> A]]
  PROVE  \E h \in [0..n -> A] : Iterates(h, a, n, F)
<1> DEFINE Steps(h, k) == h[0] = a /\ \A j \in 1..k : h[j] = F[j][h[j - 1]]
           T == {k \in Nat : k <= n => \E h \in [0..k -> A] : Steps(h, k)}
<1>1. 0 \in T
  <2> DEFINE h0 == [j \in 0..0 |-> a]
  <2>1. h0 \in [0..0 -> A] /\ Steps(h0, 0)
    OBVIOUS
  <2> QED BY <2>1
<1>2. ASSUME NEW k \in Nat, k \in T
      PROVE  k + 1 \in T
  <2> SUFFICES ASSUME k + 1 <= n
               PROVE  \E h \in [0..(k + 1) -> A] : Steps(h, k + 1)
    OBVIOUS
  <2>1. PICK h \in [0..k -> A] : Steps(h, k)
    BY <1>2
  <2> DEFINE g == [j \in 0..(k + 1) |-> IF j = k + 1 THEN F[k + 1][h[k]] ELSE h[j]]
  <2>2. h[k] \in A /\ F[k + 1][h[k]] \in A
    <3>1. h[k] \in A /\ F[k + 1] \in [A -> A]
      OBVIOUS
    <3> QED BY <3>1
  <2>3. g \in [0..(k + 1) -> A]
    BY <2>2
  <2>4. g[0] = a
    BY <2>1
  <2>5. ASSUME NEW j \in 1..(k + 1)
        PROVE  g[j] = F[j][g[j - 1]]
    <3>1. CASE j = k + 1
      <4>1. j - 1 = k /\ k \in 0..(k + 1) /\ k # k + 1
        BY <3>1
      <4>2. g[j] = F[k + 1][h[k]] /\ g[j - 1] = h[k]
        BY <3>1, <4>1
      <4> HIDE DEF g
      <4> QED BY <3>1, <4>2
    <3>2. CASE j # k + 1
      <4>1. j \in 1..k /\ j - 1 \in 0..k /\ g[j] = h[j] /\ g[j - 1] = h[j - 1]
        BY <3>2
      <4> QED BY <2>1, <4>1
    <3> QED BY <3>1, <3>2
  <2> QED BY <2>3, <2>4, <2>5
<1> HIDE DEF T
<1>3. n \in T
  BY <1>1, <1>2, SetInduction
<1> QED BY <1>3 DEF T, Iterates

\* The largest of the numbers up to n that are in a set.
LEMMA LargestExists ==
  ASSUME NEW n \in Nat, NEW t \in SUBSET (1..n), t # {}
  PROVE  /\ Max(t) \in t
         /\ \A y \in t : y <= Max(t)
<1> DEFINE U == {n - x : x \in t}
<1>1. U \in SUBSET Nat /\ U # {}
  <2>1. \A x \in t : n - x \in Nat
    OBVIOUS
  <2> QED BY <2>1
<1>2. PICK u \in U : \A v \in U : u <= v
  BY <1>1, SmallestExists
<1>3. PICK x \in t : u = n - x
  BY <1>2
<1>4. \A y \in t : x >= y
  <2> TAKE y \in t
  <2>1. n - y \in U /\ y \in Int /\ x \in Int
    BY <1>3
  <2> QED BY <1>2, <1>3, <2>1
<1>5. \E m \in t : \A y \in t : m >= y
  BY <1>4
<1>6. Max(t) \in t /\ \A y \in t : Max(t) >= y
  BY <1>5 DEF Max
<1> QED BY <1>6

\* A fold over a sequence, as FoldLeft defines it, exists.
Folded(g, F, base, s) ==
  g = [t \in SUBSET DOMAIN s |->
         IF t = {} THEN base ELSE F[g[t \ {Max(t)}]][s[Max(t)]]]

LEMMA FoldExists ==
  ASSUME NEW A, NEW B, NEW F \in [A -> [B -> A]], NEW base \in A, NEW s \in Seq(B)
  PROVE  \E g \in [SUBSET DOMAIN s -> A] : Folded(g, F, base, s)
<1> DEFINE n == Len(s)
           D == SUBSET (1..n)
           Maps == [D -> A]
           G == [j \in 1..n |-> [m \in Maps |->
                   [t \in D |-> IF j \in t THEN F[m[t \ {j}]][s[j]] ELSE m[t]]]]
           none == [t \in D |-> base]
<1>1. n \in Nat /\ DOMAIN s = 1..n /\ \A j \in 1..n : s[j] \in B
  OBVIOUS
<1> HIDE DEF n
<1>2. G \in [1..n -> [Maps -> Maps]]
  <2>1. ASSUME NEW j \in 1..n, NEW m \in Maps, NEW t \in D
        PROVE  (IF j \in t THEN F[m[t \ {j}]][s[j]] ELSE m[t]) \in A
    <3>1. t \ {j} \in D /\ m[t \ {j}] \in A /\ m[t] \in A
      OBVIOUS
    <3>2. F[m[t \ {j}]] \in [B -> A]
      BY <3>1
    <3> QED BY <3>1, <3>2, <1>1
  <2>2. ASSUME NEW j \in 1..n, NEW m \in Maps
        PROVE  [t \in D |-> IF j \in t THEN F[m[t \ {j}]][s[j]] ELSE m[t]] \in Maps
    BY <2>1
  <2> HIDE DEF Maps
  <2> QED BY <2>2
<1>3. none \in Maps
  OBVIOUS
<1>4. PICK h \in [0..n -> Maps] : Iterates(h, none, n, G)
  <2> HIDE DEF G, none, Maps
  <2>1. n \in Nat /\ none \in Maps /\ G \in [1..n -> [Maps -> Maps]]
    BY <1>1, <1>2, <1>3
  <2> QED BY <2>1, Recursion, Zenon
<1>5. ASSUME NEW j \in 1..n, NEW t \in D
      PROVE  h[j][t] = IF j \in t THEN F[h[j - 1][t \ {j}]][s[j]] ELSE h[j - 1][t]
  <2>1. j - 1 \in 0..n
    BY <1>1
  <2>2. h[j - 1] \in Maps
    <3> HIDE DEF Maps
    <3> QED BY <2>1
  <2>3. h[j] = [u \in D |-> IF j \in u THEN F[h[j - 1][u \ {j}]][s[j]] ELSE h[j - 1][u]]
    BY <1>4, <2>2 DEF Iterates
  <2> QED BY <2>3
<1>6. ASSUME NEW k \in 0..n, NEW t \in D, \A j \in t : j <= k
      PROVE  h[n][t] = h[k][t]
  <2> DEFINE T == {d \in Nat : k + d <= n => h[k + d][t] = h[k][t]}
  <2>1. 0 \in T
    BY <1>1
  <2>2. ASSUME NEW d \in Nat, d \in T
        PROVE  d + 1 \in T
    <3> SUFFICES ASSUME k + (d + 1) <= n
                 PROVE  h[k + (d + 1)][t] = h[k][t]
      OBVIOUS
    <3>1. k + (d + 1) \in 1..n /\ k + (d + 1) \notin t /\ (k + (d + 1)) - 1 = k + d /\ k + d <= n
      BY <1>1, <1>6
    <3>2. h[k + (d + 1)][t] = h[k + d][t]
      <4> DEFINE j == k + (d + 1)
      <4>1. j \in 1..n /\ j \notin t /\ j - 1 = k + d
        BY <3>1
      <4> HIDE DEF j
      <4>2. h[j][t] = h[j - 1][t]
        BY <4>1, <1>5
      <4> QED BY <4>1, <4>2 DEF j
    <3> QED BY <2>2, <3>1, <3>2
  <2> HIDE DEF T
  <2>3. n - k \in T
    <3>1. n - k \in Nat
      BY <1>1
    <3> QED BY <2>1, <2>2, <3>1, SetInduction
  <2>4. k + (n - k) = n /\ k + (n - k) <= n
    BY <1>1
  <2> QED BY <2>3, <2>4 DEF T
<1>7. h[n] \in Maps
  <2>1. n \in 0..n
    BY <1>1
  <2> HIDE DEF Maps
  <2> QED BY <2>1
<1>8. ASSUME NEW t \in D
      PROVE  h[n][t] = IF t = {} THEN base ELSE F[h[n][t \ {Max(t)}]][s[Max(t)]]
  <2>1. CASE t = {}
    <3>1. h[n][t] = h[0][t]
      BY <2>1, <1>6, <1>1
    <3> QED BY <3>1, <1>4, <2>1 DEF Iterates
  <2>2. CASE t # {}
    <3> DEFINE m == Max(t)
    <3>1. m \in t /\ m \in 1..n /\ \A y \in t : y <= m
      BY <2>2, <1>1, LargestExists
    <3> HIDE DEF m
    <3>2. h[n][t] = h[m][t]
      <4>1. m \in 0..n
        BY <3>1, <1>1
      <4> QED BY <3>1, <4>1, <1>6
    <3>3. h[m][t] = F[h[m - 1][t \ {m}]][s[m]]
      BY <3>1, <1>5
    <3>4. h[n][t \ {m}] = h[m - 1][t \ {m}]
      <4>1. \A j \in t \ {m} : j <= m - 1
        BY <3>1, <1>1
      <4>2. m - 1 \in 0..n /\ t \ {m} \in D
        BY <3>1, <1>1
      <4> QED BY <4>1, <4>2, <1>6
    <3> QED BY <2>2, <3>2, <3>3, <3>4 DEF m
  <2> QED BY <2>1, <2>2
<1>9. h[n] = [t \in D |-> IF t = {} THEN base ELSE F[h[n][t \ {Max(t)}]][s[Max(t)]]]
  BY <1>7, <1>8
<1> QED BY <1>7, <1>9, <1>1 DEF Folded

\* c is the fold, wherever what it is applied to is in A.
FoldsIn(c, A, F, base, s) ==
  /\ c[{}] = base
  /\ \A t \in SUBSET DOMAIN s :
       t # {} /\ c[t \ {Max(t)}] \in A => c[t] = F[c[t \ {Max(t)}]][s[Max(t)]]

\* ... and then it is reached one element at a time.
Reached(c, A, F, base, s) ==
  \E h \in [0..Len(s) -> A] :
    /\ h[0] = base /\ h[Len(s)] = c[DOMAIN s]
    /\ \A k \in 1..Len(s) : h[k] = F[h[k - 1]][s[k]]

LEMMA FoldSteps ==
  ASSUME NEW A, NEW B, NEW F \in [A -> [B -> A]], NEW base \in A, NEW s \in Seq(B), NEW c,
         FoldsIn(c, A, F, base, s)
  PROVE  Reached(c, A, F, base, s)
<1> DEFINE n == Len(s)
           h == [k \in 0..n |-> c[1..k]]
           T == {k \in Nat : k <= n => c[1..k] \in A}
<1>1. n \in Nat /\ DOMAIN s = 1..n /\ \A j \in 1..n : s[j] \in B
  OBVIOUS
<1> HIDE DEF n
<1>2. ASSUME NEW k \in 1..n
      PROVE  Max(1..k) = k /\ (1..k) \ {Max(1..k)} = 1..(k - 1)
  <2>1. k \in Nat /\ k \in 1..k
    BY <1>1
  <2>2. Max(1..k) \in 1..k /\ \A y \in 1..k : y <= Max(1..k)
    <3>1. 1..k \in SUBSET (1..k) /\ 1..k # {}
      BY <2>1
    <3> QED BY <2>1, <3>1, LargestExists
  <2> QED BY <2>1, <2>2
<1>3. ASSUME NEW k \in 1..n, c[1..(k - 1)] \in A
      PROVE  c[1..k] = F[c[1..(k - 1)]][s[k]] /\ c[1..k] \in A
  <2>1. 1..k \in SUBSET DOMAIN s /\ 1..k # {}
    <3>1. \A j \in 1..k : j \in 1..n
      BY <1>1
    <3>2. k \in 1..k
      BY <1>1
    <3> QED BY <1>1, <3>1, <3>2
  <2>2. c[1..k] = F[c[1..(k - 1)]][s[k]]
    BY <1>2, <1>3, <2>1 DEF FoldsIn
  <2>3. F[c[1..(k - 1)]] \in [B -> A]
    BY <1>3
  <2> QED BY <1>1, <2>2, <2>3
<1>4. 0 \in T
  <2>1. 1..0 = {}
    OBVIOUS
  <2> QED BY <2>1 DEF FoldsIn
<1>5. ASSUME NEW k \in Nat, k \in T
      PROVE  k + 1 \in T
  <2> SUFFICES ASSUME k + 1 <= n
               PROVE  c[1..(k + 1)] \in A
    OBVIOUS
  <2>1. k + 1 \in 1..n /\ (k + 1) - 1 = k /\ k <= n
    BY <1>1
  <2> QED BY <1>3, <1>5, <2>1
<1> HIDE DEF T
<1>6. Nat \subseteq T
  BY <1>4, <1>5, SetInduction
<1>7. \A k \in 0..n : c[1..k] \in A
  BY <1>1, <1>6 DEF T
<1>8. h \in [0..n -> A]
  BY <1>7
<1>9. h[0] = base /\ h[n] = c[DOMAIN s]
  <2>1. 1..0 = {}
    OBVIOUS
  <2> QED BY <1>1, <2>1 DEF FoldsIn
<1>10. ASSUME NEW k \in 1..n
       PROVE  h[k] = F[h[k - 1]][s[k]]
  <2>1. k - 1 \in 0..n /\ k \in 0..n
    BY <1>1
  <2> QED BY <2>1, <1>3, <1>7
<1> QED BY <1>8, <1>9, <1>10 DEF n, Reached

\* Ranked() lists the elements of a finite set in their order.
LEMMA RankedIsSorted ==
  ASSUME NEW S, IsFiniteSet(S), NEW R,
         \A x \in S : <<x, x>> \notin R,
         \A x, y, z \in S : <<x, y>> \in R /\ <<y, z>> \in R => <<x, z>> \in R,
         \A x, y \in S : x = y \/ <<x, y>> \in R \/ <<y, x>> \in R
  PROVE  /\ Cardinality(S) \in Nat
         /\ Ranked(S, R) \in [1..Cardinality(S) -> S]
         /\ \A x \in S : \E k \in 1..Cardinality(S) : Ranked(S, R)[k] = x
         /\ \A i, j \in 1..Cardinality(S) : i < j => <<Ranked(S, R)[i], Ranked(S, R)[j]>> \in R
<1> DEFINE n == Cardinality(S)
           below(x) == {y \in S : <<y, x>> \in R}
           rank == [x \in S |-> Cardinality(below(x))]
           f == [x \in S |-> rank[x] + 1]
           r == Ranked(S, R)
<1>1. n \in Nat
  BY FS_CardinalityType
<1>2. ASSUME NEW x \in S
      PROVE  IsFiniteSet(below(x)) /\ rank[x] = Cardinality(below(x)) /\ rank[x] \in Nat /\ rank[x] < n
  <2>1. below(x) \in SUBSET S /\ below(x) # S
    OBVIOUS
  <2>2. IsFiniteSet(below(x)) /\ Cardinality(below(x)) <= n /\ (n = Cardinality(below(x)) => S = below(x))
    BY <2>1, FS_Subset
  <2>3. Cardinality(below(x)) \in Nat
    BY <2>2, FS_CardinalityType
  <2>4. rank[x] = Cardinality(below(x))
    OBVIOUS
  <2> HIDE DEF below, rank
  <2> QED BY <1>1, <2>1, <2>2, <2>3, <2>4
<1>3. ASSUME NEW x \in S, NEW y \in S, <<x, y>> \in R
      PROVE  rank[x] < rank[y]
  <2>1. below(x) \in SUBSET below(y)
    BY <1>3
  <2>2. x \in below(y) /\ x \notin below(x)
    BY <1>3
  <2> HIDE DEF below, rank
  <2>3. Cardinality(below(x)) <= Cardinality(below(y))
        /\ (Cardinality(below(y)) = Cardinality(below(x)) => below(y) = below(x))
    BY <2>1, <1>2, FS_Subset
  <2>4. /\ rank[x] = Cardinality(below(x)) /\ rank[x] \in Nat
        /\ rank[y] = Cardinality(below(y)) /\ rank[y] \in Nat
    BY <1>2
  <2>5. rank[x] <= rank[y] /\ rank[x] # rank[y]
    BY <2>2, <2>3, <2>4
  <2> QED BY <2>4, <2>5
<1>4. \A x \in S : rank[x] \in Nat /\ rank[x] < n
  BY <1>2
<1>5. \A k \in 1..n : r[k] = CHOOSE x \in S : rank[x] = k - 1
  BY DEF Ranked
<1>6. r = [k \in 1..n |-> r[k]]
  <2> DEFINE g(k) == CHOOSE x \in S : Cardinality(below(x)) = k - 1
  <2>1. r = [k \in 1..n |-> g(k)]
    BY DEF Ranked
  <2> HIDE DEF g, n, r
  <2> QED BY <2>1
<1> HIDE DEF rank, r
<1>7. \A x, y \in S : rank[x] = rank[y] => x = y
  <2> SUFFICES ASSUME NEW x \in S, NEW y \in S, rank[x] = rank[y]
               PROVE  x = y
    OBVIOUS
  <2>1. ~(rank[x] < rank[y]) /\ ~(rank[y] < rank[x])
    BY <1>4
  <2> QED BY <1>3, <2>1
<1>8. f \in Injection(S, 1..n)
  <2>1. \A x \in S : rank[x] + 1 \in 1..n
    <3> HIDE DEF n
    <3> QED BY <1>1, <1>4
  <2>2. f \in [S -> 1..n]
    BY <2>1
  <2>3. \A x, y \in S : f[x] = f[y] => x = y
    BY <1>4, <1>7
  <2> QED BY <2>2, <2>3 DEF Injection, IsInjective
<1>9. f \in Surjection(S, 1..n)
  <2> HIDE DEF f
  <2>1. IsFiniteSet(1..n) /\ Cardinality(1..n) = n
    <3> HIDE DEF n
    <3>1. 0 \in Int /\ 1 \in Int /\ n \in Int /\ (1 > n => n = 0) /\ n - 1 + 1 = n
      BY <1>1
    <3> QED BY <3>1, FS_Interval
  <2> QED BY <1>8, <2>1, FS_Injection
<1> HIDE DEF n
<1>10. ASSUME NEW k \in 1..n
       PROVE  r[k] \in S /\ rank[r[k]] = k - 1
  <2>1. PICK x \in S : f[x] = k
    BY <1>9 DEF Surjection
  <2>2. rank[x] = k - 1
    BY <2>1, <1>1, <1>4
  <2> QED BY <2>2, <1>5
<1>11. r \in [1..n -> S]
  BY <1>10, <1>6
<1>12. ASSUME NEW x \in S
       PROVE  \E k \in 1..n : r[k] = x
  <2> DEFINE k == rank[x] + 1
  <2>1. k \in 1..n /\ k - 1 = rank[x]
    BY <1>1, <1>4
  <2> HIDE DEF k
  <2> QED BY <1>7, <1>10, <2>1
<1>13. ASSUME NEW i \in 1..n, NEW j \in 1..n, i < j
       PROVE  <<r[i], r[j]>> \in R
  <2>1. r[i] \in S /\ r[j] \in S /\ rank[r[i]] = i - 1 /\ rank[r[j]] = j - 1
    BY <1>10
  <2>2. rank[r[i]] < rank[r[j]] /\ i \in Int /\ j \in Int
    BY <1>1, <1>13, <2>1
  <2>3. r[i] # r[j]
    BY <2>1, <2>2
  <2>4. <<r[j], r[i]>> \notin R
    <3>1. ~(rank[r[j]] < rank[r[i]])
      BY <2>1, <2>2
    <3> QED BY <1>3, <2>1, <3>1
  <2> QED BY <2>1, <2>3, <2>4
<1> QED BY <1>1, <1>11, <1>12, <1>13 DEF n, r

\* Ascending() lists a finite set of integers in their order.
LEMMA AscendingIsSorted ==
  ASSUME NEW S \in SUBSET Int, IsFiniteSet(S)
  PROVE  /\ Cardinality(S) \in Nat
         /\ Ascending(S) \in [1..Cardinality(S) -> S]
         /\ \A x \in S : \E k \in 1..Cardinality(S) : Ascending(S)[k] = x
         /\ \A i, j \in 1..Cardinality(S) : i < j => Ascending(S)[i] < Ascending(S)[j]
<1> DEFINE R == {p \in S \X S : p[1] < p[2]}
           n == Cardinality(S)
           r == Ranked(S, R)
           before(x) == {y \in S : <<y, x>> \in R}
           smaller(x) == {y \in S : y < x}
<1>1. \A x, y \in S : <<x, y>> \in R <=> x < y
  OBVIOUS
<1>2. \A x, y \in S : x \in Int /\ y \in Int
  OBVIOUS
<1>3. Ascending(S) = r
  <2>1. \A x \in S : before(x) = smaller(x)
    BY <1>1
  <2> DEFINE a(k) == CHOOSE x \in S : Cardinality(smaller(x)) = k - 1
             b(k) == CHOOSE x \in S : Cardinality(before(x)) = k - 1
  <2>2. Ascending(S) = [k \in 1..n |-> a(k)] /\ r = [k \in 1..n |-> b(k)]
    BY DEF Ascending, Ranked
  <2>3. ASSUME NEW k \in 1..n
        PROVE  a(k) = b(k)
    <3> HIDE DEF before, smaller
    <3>1. \A x \in S : (Cardinality(smaller(x)) = k - 1) <=> (Cardinality(before(x)) = k - 1)
      BY <2>1
    <3> QED BY <3>1
  <2> HIDE DEF a, b, n, r
  <2> QED BY <2>2, <2>3
<1> HIDE DEF R
<1>4. \A x \in S : <<x, x>> \notin R
  BY <1>1, <1>2
<1>5. \A x, y, z \in S : <<x, y>> \in R /\ <<y, z>> \in R => <<x, z>> \in R
  BY <1>1, <1>2
<1>6. \A x, y \in S : x = y \/ <<x, y>> \in R \/ <<y, x>> \in R
  <2> SUFFICES ASSUME NEW x \in S, NEW y \in S, x # y
               PROVE  <<x, y>> \in R \/ <<y, x>> \in R
    OBVIOUS
  <2>1. x < y \/ y < x
    BY <1>2
  <2> QED BY <1>1, <2>1
<1> HIDE DEF r
<1>7. /\ Cardinality(S) \in Nat
      /\ Ranked(S, R) \in [1..Cardinality(S) -> S]
      /\ \A x \in S : \E k \in 1..Cardinality(S) : Ranked(S, R)[k] = x
      /\ \A i, j \in 1..Cardinality(S) : i < j => <<Ranked(S, R)[i], Ranked(S, R)[j]>> \in R
  BY <1>4, <1>5, <1>6, RankedIsSorted, Zenon
<1>8. \A i, j \in 1..n : i < j => r[i] < r[j]
  <2> SUFFICES ASSUME NEW i \in 1..n, NEW j \in 1..n, i < j
               PROVE  r[i] < r[j]
    OBVIOUS
  <2>1. r[i] \in S /\ r[j] \in S /\ <<r[i], r[j]>> \in R
    BY <1>7 DEF r
  <2> QED BY <1>1, <2>1
<1> QED BY <1>3, <1>7, <1>8 DEF r

\* A finite set of integers has a largest and a smallest element.
LEMMA ExtremesExist ==
  ASSUME NEW S \in SUBSET Int, IsFiniteSet(S), S # {}
  PROVE  /\ Max(S) \in S /\ \A y \in S : y <= Max(S)
         /\ Min(S) \in S /\ \A y \in S : Min(S) <= y
<1> DEFINE r == Ascending(S)
           n == Cardinality(S)
<1>1. /\ n \in Nat /\ r \in [1..n -> S]
      /\ \A x \in S : \E k \in 1..n : r[k] = x
      /\ \A i, j \in 1..n : i < j => r[i] < r[j]
  BY AscendingIsSorted
<1> HIDE DEF r, n
<1>2. \A x, y \in S : x \in Int /\ y \in Int
  OBVIOUS
<1>3. n \in Nat /\ 1 \in 1..n /\ n \in 1..n /\ \A i \in 1..n : r[i] \in S
  <2>1. PICK x \in S : TRUE
    OBVIOUS
  <2>2. PICK k \in 1..n : r[k] = x
    BY <1>1
  <2> QED BY <1>1, <2>2
<1>4. \A y \in S : r[n] >= y /\ r[1] <= y
  <2> TAKE y \in S
  <2>1. PICK k \in 1..n : r[k] = y
    BY <1>1
  <2>2. 1 <= k /\ k <= n
    BY <1>3
  <2>3. (k = n \/ r[k] < r[n]) /\ (k = 1 \/ r[1] < r[k])
    BY <1>1, <1>3, <2>2
  <2>4. r[n] \in Int /\ r[1] \in Int /\ y \in Int
    BY <1>2, <1>3
  <2> QED BY <2>1, <2>3, <2>4
<1>5. Max(S) \in S /\ \A y \in S : Max(S) >= y
  BY <1>3, <1>4 DEF Max
<1>6. Min(S) \in S /\ \A y \in S : Min(S) <= y
  BY <1>3, <1>4 DEF Min
<1> QED BY <1>2, <1>5, <1>6

-----------------------------------------------------------------------------
(* What a scan adds, and what publishing makes of it.                      *)

Manifests == UNION {Range(Code[c].registers) : c \in Contents}
Registration ==
  {[id |-> m.name, origin |-> f, content |-> c, manifest |-> m] :
     f \in Files, c \in Contents, m \in Manifests}
Entry == Range(BuiltIn) \cup Registration

Loads(found) == {f \in Files : found[f].state = "loaded"}

\* all continues before with registrations of the loaded files, at least one under every name.
Adds(before, all, loaded) ==
  /\ Len(before) <= Len(all)
  /\ \A n \in 1..Len(before) : all[n] = before[n]
  /\ \A n \in 1..Len(all) : n > Len(before) =>
       all[n].origin \in loaded /\ all[n].content = disk[all[n].origin]
  /\ \A f \in loaded : \A m \in Range(Code[disk[f]].registers) :
       \E n \in 1..Len(all) : n > Len(before) /\ all[n].id = m.name

LEMMA RegistrationsTyped ==
  ASSUME NEW f \in Files, disk[f] \in Contents
  PROVE  /\ RegistrationsOf(f) \in Seq(Registration)
         /\ \A n \in 1..Len(RegistrationsOf(f)) :
              RegistrationsOf(f)[n].origin = f /\ RegistrationsOf(f)[n].content = disk[f]
         /\ \A m \in Range(Code[disk[f]].registers) :
              \E n \in 1..Len(RegistrationsOf(f)) : RegistrationsOf(f)[n].id = m.name
<1> DEFINE manifests == Code[disk[f]].registers
           N == Len(manifests)
<1>1. manifests \in Seq(Range(manifests))
  BY PluginAssumption DEF PluginAssumption
<1>2. DOMAIN manifests = 1..N /\ N \in Nat /\ \A n \in 1..N : manifests[n] \in Manifests
  <2>1. DOMAIN manifests = 1..N /\ N \in Nat
    <3> HIDE DEF manifests
    <3> QED BY <1>1
  <2>2. \A n \in 1..N : manifests[n] \in Range(manifests)
    BY <2>1 DEF Range
  <2> QED BY <2>1, <2>2 DEF Manifests
<1>3. RegistrationsOf(f) = [n \in 1..N |-> [id |-> manifests[n].name, origin |-> f,
                                            content |-> disk[f], manifest |-> manifests[n]]]
  BY <1>2 DEF RegistrationsOf
<1>4. \A m \in Range(manifests) : \E n \in 1..N : manifests[n] = m
  BY <1>2 DEF Range
<1> HIDE DEF manifests, N
<1>5. \A n \in 1..N : [id |-> manifests[n].name, origin |-> f,
                        content |-> disk[f], manifest |-> manifests[n]] \in Registration
  BY <1>2 DEF Registration
<1>6. RegistrationsOf(f) \in [1..N -> Registration] /\ Len(RegistrationsOf(f)) = N
  BY <1>2, <1>3, <1>5
<1>7. RegistrationsOf(f) \in Seq(Registration)
  BY <1>2, <1>6
<1>8. \A n \in 1..N : /\ RegistrationsOf(f)[n].id = manifests[n].name
                      /\ RegistrationsOf(f)[n].origin = f
                      /\ RegistrationsOf(f)[n].content = disk[f]
  BY <1>3
<1>9. \A m \in Range(manifests) : \E n \in 1..N : RegistrationsOf(f)[n].id = m.name
  BY <1>4, <1>8
<1> QED BY <1>6, <1>7, <1>8, <1>9 DEF manifests

\* One more file: what it registers comes after what is there.
LEMMA OneMoreFile ==
  ASSUME NEW before \in Seq(Registration), NEW all \in Seq(Registration), NEW loaded,
         NEW f \in Files, disk[f] \in Contents, Adds(before, all, loaded)
  PROVE  /\ all \o RegistrationsOf(f) \in Seq(Registration)
         /\ Adds(before, all \o RegistrationsOf(f), loaded \cup {f})
<1> DEFINE new == RegistrationsOf(f)
           both == all \o new
<1>1. /\ new \in Seq(Registration)
      /\ \A n \in 1..Len(new) : new[n].origin = f /\ new[n].content = disk[f]
      /\ \A m \in Range(Code[disk[f]].registers) : \E n \in 1..Len(new) : new[n].id = m.name
  BY RegistrationsTyped
<1> HIDE DEF new
<1>2. /\ both \in Seq(Registration) /\ Len(both) = Len(all) + Len(new)
      /\ Len(all) \in Nat /\ Len(new) \in Nat /\ Len(before) \in Nat
      /\ \A n \in 1..Len(all) : both[n] = all[n]
      /\ \A n \in 1..Len(new) : both[Len(all) + n] = new[n]
  BY <1>1
<1> HIDE DEF both
<1>3. Len(before) <= Len(all)
  BY DEF Adds
<1>4. \A n \in 1..Len(before) : both[n] = before[n]
  BY <1>2, <1>3 DEF Adds
<1>5. ASSUME NEW n \in 1..Len(both), n > Len(before)
      PROVE  both[n].origin \in loaded \cup {f} /\ both[n].content = disk[both[n].origin]
  <2>1. CASE n <= Len(all)
    <3>1. n \in 1..Len(all)
      BY <1>2, <2>1
    <3> QED BY <1>2, <1>5, <3>1 DEF Adds
  <2>2. CASE n > Len(all)
    <3>1. n - Len(all) \in 1..Len(new) /\ Len(all) + (n - Len(all)) = n
      BY <1>2, <2>2
    <3>2. both[n] = new[n - Len(all)]
      BY <1>2, <3>1
    <3> QED BY <1>1, <3>1, <3>2
  <2> QED BY <1>2, <2>1, <2>2
<1>6. ASSUME NEW g \in loaded \cup {f}, NEW m \in Range(Code[disk[g]].registers)
      PROVE  \E n \in 1..Len(both) : n > Len(before) /\ both[n].id = m.name
  <2>1. CASE g \in loaded
    <3>1. PICK n \in 1..Len(all) : n > Len(before) /\ all[n].id = m.name
      BY <2>1, <1>6 DEF Adds
    <3>2. n \in 1..Len(both) /\ both[n] = all[n]
      BY <1>2, <3>1
    <3> QED BY <3>1, <3>2
  <2>2. CASE g = f
    <3>1. PICK n \in 1..Len(new) : new[n].id = m.name
      BY <1>1, <1>6, <2>2
    <3>2. Len(all) + n \in 1..Len(both) /\ Len(all) + n > Len(before)
          /\ both[Len(all) + n] = new[n]
      BY <1>2, <1>3, <3>1
    <3> QED BY <3>1, <3>2
  <2> QED BY <2>1, <2>2
<1>7. Adds(before, both, loaded \cup {f})
  <2>1. Len(before) <= Len(both)
    BY <1>2, <1>3
  <2> QED BY <2>1, <1>4, <1>5, <1>6 DEF Adds
<1> QED BY <1>2, <1>7 DEF both, new

\* The files in the order of a scan.
LEMMA FilesInOrder ==
  /\ Ascending(Files) \in Seq(Files)
  /\ \A f \in Files : \E n \in 1..Len(Ascending(Files)) : Ascending(Files)[n] = f
<1>1. Files \in SUBSET Int /\ IsFiniteSet(Files)
  BY PluginAssumption DEF PluginAssumption
<1> DEFINE n == Cardinality(Files)
<1>2. /\ n \in Nat /\ Ascending(Files) \in [1..n -> Files]
      /\ \A x \in Files : \E k \in 1..n : Ascending(Files)[k] = x
  BY <1>1, AscendingIsSorted
<1> HIDE DEF n
<1>3. Ascending(Files) \in Seq(Files) /\ Len(Ascending(Files)) = n
  BY <1>2
<1> QED BY <1>2, <1>3

\* A scan adds the registrations of the files it finds approved and sound, in any order
\* of the files.
LEMMA FilesAreAdded ==
  ASSUME NEW found, NEW before \in Seq(Registration),
         \A f \in Loads(found) : disk[f] \in Contents,
         NEW s \in Seq(Files)
  PROVE  LET all == FoldLeft(LAMBDA l, f : IF found[f].state = "loaded"
                                           THEN l \o RegistrationsOf(f) ELSE l,
                             before, s) IN
         /\ all \in Seq(Registration)
         /\ Adds(before, all, {s[i] : i \in 1..Len(s)} \cap Loads(found))
<1> DEFINE A == Seq(Registration)
           n == Len(s)
           op(l, f) == IF found[f].state = "loaded" THEN l \o RegistrationsOf(f) ELSE l
           F == [l \in A |-> [f \in Files |-> op(l, f)]]
           G(g) == [t \in SUBSET DOMAIN s |->
                      IF t = {} THEN before ELSE op(g[t \ {Max(t)}], s[Max(t)])]
           c == CHOOSE g : g = G(g)
           Seen(k) == {s[i] : i \in 1..k} \cap Loads(found)
<1>1. FoldLeft(LAMBDA l, f : IF found[f].state = "loaded" THEN l \o RegistrationsOf(f) ELSE l,
               before, s)
        = c[DOMAIN s]
  BY DEF FoldLeft, MapThenFoldSet
<1>2. n \in Nat /\ DOMAIN s = 1..n /\ Len(s) = n /\ \A i \in 1..n : s[i] \in Files
  OBVIOUS
<1>3. \A l \in A, f \in Files : op(l, f) \in A
  <2>1. ASSUME NEW l \in Seq(Registration), NEW f \in Files, found[f].state = "loaded"
        PROVE  l \o RegistrationsOf(f) \in Seq(Registration)
    <3>1. RegistrationsOf(f) \in Seq(Registration)
      BY <2>1, RegistrationsTyped DEF Loads
    <3> QED BY <3>1
  <2> QED BY <2>1
<1>4. before \in A
  OBVIOUS
<1> HIDE DEF A, op, n
<1>5. F \in [A -> [Files -> A]] /\ \A l \in A, f \in Files : F[l][f] = op(l, f)
  BY <1>3
<1> HIDE DEF F
<1>6. \A t \in SUBSET DOMAIN s : t # {} => Max(t) \in DOMAIN s /\ s[Max(t)] \in Files
  BY <1>2, LargestExists
<1>7. \E g : g = G(g)
  <2>1. PICK g \in [SUBSET DOMAIN s -> A] : Folded(g, F, before, s)
    BY <1>4, <1>5, FoldExists
  <2>2. \A t \in SUBSET DOMAIN s : t # {} =>
          F[g[t \ {Max(t)}]][s[Max(t)]] = op(g[t \ {Max(t)}], s[Max(t)])
    <3>1. \A t \in SUBSET DOMAIN s : g[t \ {Max(t)}] \in A
      OBVIOUS
    <3> QED BY <3>1, <1>5, <1>6
  <2>3. g = G(g)
    BY <2>1, <2>2 DEF Folded
  <2> QED BY <2>3
<1>8. c = G(c)
  <2> HIDE DEF G
  <2> QED BY <1>7
<1> HIDE DEF c
<1>9. c[{}] = before
  BY <1>8
<1>10. \A t \in SUBSET DOMAIN s :
         t # {} /\ c[t \ {Max(t)}] \in A => c[t] = F[c[t \ {Max(t)}]][s[Max(t)]]
  <2> SUFFICES ASSUME NEW t \in SUBSET DOMAIN s, t # {}, c[t \ {Max(t)}] \in A
               PROVE  c[t] = F[c[t \ {Max(t)}]][s[Max(t)]]
    OBVIOUS
  <2>1. c[t] = op(c[t \ {Max(t)}], s[Max(t)])
    BY <1>8
  <2> QED BY <2>1, <1>5, <1>6
<1> HIDE DEF G
<1>11. Reached(c, A, F, before, s)
  <2>1. F \in [A -> [Files -> A]]
    BY <1>5
  <2>2. s \in Seq(Files)
    OBVIOUS
  <2>3. FoldsIn(c, A, F, before, s)
    BY <1>9, <1>10 DEF FoldsIn
  <2> QED BY <1>4, <2>1, <2>2, <2>3, FoldSteps
<1>12. PICK h \in [0..n -> A] : h[0] = before /\ (\A k \in 1..n : h[k] = F[h[k - 1]][s[k]])
                                /\ h[n] = c[DOMAIN s]
  BY <1>2, <1>11 DEF Reached
<1>13. ASSUME NEW k \in 1..n
       PROVE  h[k - 1] \in A /\ s[k] \in Files /\ h[k] = op(h[k - 1], s[k])
  <2>1. k - 1 \in 0..n
    BY <1>2
  <2> QED BY <2>1, <1>2, <1>5, <1>12
<1> DEFINE T == {k \in Nat : k <= n => Adds(before, h[k], Seen(k))}
<1>14. 0 \in T
  <2>1. Seen(0) = {}
    <3>1. 1..0 = {}
      OBVIOUS
    <3> QED BY <3>1
  <2>2. Len(before) \in Nat
    OBVIOUS
  <2>3. Adds(before, before, {})
    BY <2>2 DEF Adds
  <2> QED BY <1>12, <2>1, <2>3
<1>15. ASSUME NEW k \in Nat, k \in T
       PROVE  k + 1 \in T
  <2> SUFFICES ASSUME k + 1 <= n
               PROVE  Adds(before, h[k + 1], Seen(k + 1))
    OBVIOUS
  <2> DEFINE f == s[k + 1]
  <2>1. k + 1 \in 1..n /\ (k + 1) - 1 = k /\ k <= n
    BY <1>2
  <2>2. h[k] \in A /\ f \in Files /\ h[k + 1] = op(h[k], f)
    BY <2>1, <1>13
  <2>3. Adds(before, h[k], Seen(k))
    BY <1>15, <2>1
  <2>4. Seen(k + 1) = IF f \in Loads(found) THEN Seen(k) \cup {f} ELSE Seen(k)
    <3>1. 1..(k + 1) = (1..k) \cup {k + 1}
      OBVIOUS
    <3> QED BY <3>1
  <2> HIDE DEF f, Seen
  <2>5. CASE f \in Loads(found)
    <3>1. disk[f] \in Contents /\ h[k] \in Seq(Registration)
      BY <2>2, <2>5 DEF A
    <3>2. Adds(before, h[k] \o RegistrationsOf(f), Seen(k) \cup {f})
      BY <2>2, <2>3, <3>1, OneMoreFile
    <3> QED BY <2>2, <2>4, <2>5, <3>2 DEF op, Loads
  <2>6. CASE f \notin Loads(found)
    BY <2>2, <2>3, <2>4, <2>6 DEF op, Loads
  <2> QED BY <2>5, <2>6
<1>16. n \in T
  <2> HIDE DEF T
  <2> QED BY <1>2, <1>14, <1>15, SetInduction
<1>17. n \in 0..n /\ h[n] \in A
  <2>1. n \in 0..n
    BY <1>2
  <2> QED BY <2>1
<1>18. h[n] \in Seq(Registration) /\ Adds(before, h[n], Seen(n))
  BY <1>2, <1>16, <1>17 DEF A
<1> QED BY <1>1, <1>12, <1>18 DEF n

LEMMA ScanAdds ==
  ASSUME NEW found, NEW before \in Seq(Registration),
         \A f \in Loads(found) : disk[f] \in Contents
  PROVE  /\ Imported(found, before) \in Seq(Registration)
         /\ Adds(before, Imported(found, before), Loads(found))
<1> DEFINE s == Ascending(Files)
           all == FoldLeft(LAMBDA l, f : IF found[f].state = "loaded"
                                         THEN l \o RegistrationsOf(f) ELSE l, before, s)
<1>1. s \in Seq(Files)
  BY FilesInOrder
<1>2. {s[i] : i \in 1..Len(s)} \cap Loads(found) = Loads(found)
  BY FilesInOrder DEF Loads
<1> HIDE DEF s
<1>3. all \in Seq(Registration) /\ Adds(before, all, {s[i] : i \in 1..Len(s)} \cap Loads(found))
  BY <1>1, FilesAreAdded
<1> QED BY <1>2, <1>3 DEF s, Imported

\* The latest of the first k registrations under every name is what is listed under it.
Lists(list, all, k) ==
  \A j \in 1..k : (\A m \in 1..k : m > j => all[m].id # all[j].id) =>
    /\ \E i \in DOMAIN list : list[i].id = all[j].id
    /\ \A i \in DOMAIN list : list[i].id = all[j].id => list[i] = all[j]

\* result is list with e as the one entry of its name.
Replaces(result, list, e) ==
  /\ \E i \in DOMAIN result : result[i].id = e.id
  /\ \A i \in DOMAIN result : result[i].id = e.id => result[i] = e
  /\ \A id : id # e.id =>
       /\ \A i \in DOMAIN list : list[i].id = id => i \in DOMAIN result /\ result[i] = list[i]
       /\ \A i \in DOMAIN result : result[i].id = id => i \in DOMAIN list /\ result[i] = list[i]

LEMMA RegisteredReplaces ==
  ASSUME NEW list \in Seq(Entry), NEW e \in Entry
  PROVE  LET result == Registered(list, e) IN
         /\ result \in Seq(Entry)
         /\ Replaces(result, list, e)
<1> DEFINE result == Registered(list, e)
           n == Len(list)
<1>1. n \in Nat /\ Len(list) = n /\ DOMAIN list = 1..n /\ \A i \in 1..n : list[i] \in Entry
  OBVIOUS
<1> HIDE DEF n
<1>2. CASE \E i \in DOMAIN list : list[i].id = e.id
  <2>1. result = [i \in 1..n |-> IF list[i].id = e.id THEN e ELSE list[i]]
    BY <1>1, <1>2 DEF Registered
  <2>2. result \in [1..n -> Entry]
    BY <1>1, <2>1
  <2>3. result \in Seq(Entry) /\ DOMAIN result = 1..n
    BY <1>1, <2>2
  <2> QED BY <1>1, <1>2, <2>1, <2>3 DEF Replaces
<1>3. CASE ~\E i \in DOMAIN list : list[i].id = e.id
  <2>1. result = Append(list, e)
    BY <1>3 DEF Registered
  <2>2. /\ result \in Seq(Entry) /\ Len(result) = n + 1 /\ result[n + 1] = e
        /\ \A i \in 1..n : result[i] = list[i]
    BY <1>1, <2>1
  <2> HIDE DEF result
  <2>3. DOMAIN result = 1..(n + 1)
    BY <2>2
  <2>4. \A i \in 1..(n + 1) : i \in 1..n \/ i = n + 1
    BY <1>1
  <2>5. n + 1 \in 1..(n + 1) /\ \A i \in 1..n : i \in 1..(n + 1)
    BY <1>1
  <2>6. \A i \in DOMAIN result : result[i].id = e.id => result[i] = e
    BY <1>1, <1>3, <2>2, <2>3, <2>4
  <2>7. \A id : id # e.id =>
              /\ \A i \in DOMAIN list : list[i].id = id =>
                   i \in DOMAIN result /\ result[i] = list[i]
              /\ \A i \in DOMAIN result : result[i].id = id =>
                   i \in DOMAIN list /\ result[i] = list[i]
    BY <1>1, <2>2, <2>3, <2>4, <2>5
  <2> QED BY <2>2, <2>3, <2>5, <2>6, <2>7 DEF result, Replaces
<1> QED BY <1>2, <1>3

\* What stands in the registry after publishing: under every registered name the latest.
LEMMA PublishLists ==
  ASSUME NEW list \in Seq(Entry), NEW all \in Seq(Entry)
  PROVE  Publish(list, all) \in Seq(Entry) /\ Lists(Publish(list, all), all, Len(all))
<1> DEFINE A == Seq(Entry)
           n == Len(all)
           op(l, e) == Registered(l, e)
           F == [l \in A |-> [e \in Entry |-> op(l, e)]]
           G(g) == [t \in SUBSET DOMAIN all |->
                      IF t = {} THEN list ELSE op(g[t \ {Max(t)}], all[Max(t)])]
           c == CHOOSE g : g = G(g)
<1>1. Publish(list, all) = c[DOMAIN all]
  BY DEF Publish, FoldLeft, MapThenFoldSet
<1>2. n \in Nat /\ DOMAIN all = 1..n /\ Len(all) = n /\ \A i \in 1..n : all[i] \in Entry
  OBVIOUS
<1>3. \A l \in A, e \in Entry : op(l, e) \in A
  BY RegisteredReplaces
<1>4. list \in A
  OBVIOUS
<1> HIDE DEF A, op, n
<1>5. F \in [A -> [Entry -> A]] /\ \A l \in A, e \in Entry : F[l][e] = op(l, e)
  BY <1>3
<1> HIDE DEF F
<1>6. \A t \in SUBSET DOMAIN all : t # {} => Max(t) \in DOMAIN all /\ all[Max(t)] \in Entry
  BY <1>2, LargestExists
<1>7. \E g : g = G(g)
  <2>1. PICK g \in [SUBSET DOMAIN all -> A] : Folded(g, F, list, all)
    BY <1>4, <1>5, FoldExists
  <2>2. \A t \in SUBSET DOMAIN all : t # {} =>
          F[g[t \ {Max(t)}]][all[Max(t)]] = op(g[t \ {Max(t)}], all[Max(t)])
    <3>1. \A t \in SUBSET DOMAIN all : g[t \ {Max(t)}] \in A
      OBVIOUS
    <3> QED BY <3>1, <1>5, <1>6
  <2>3. g = G(g)
    BY <2>1, <2>2 DEF Folded
  <2> QED BY <2>3
<1>8. c = G(c)
  <2> HIDE DEF G
  <2> QED BY <1>7
<1> HIDE DEF c
<1>9. FoldsIn(c, A, F, list, all)
  <2>1. c[{}] = list
    BY <1>8
  <2>2. ASSUME NEW t \in SUBSET DOMAIN all, t # {}, c[t \ {Max(t)}] \in A
        PROVE  c[t] = F[c[t \ {Max(t)}]][all[Max(t)]]
    <3>1. c[t] = op(c[t \ {Max(t)}], all[Max(t)])
      BY <1>8, <2>2
    <3> QED BY <3>1, <1>5, <1>6, <2>2
  <2> HIDE DEF G
  <2> QED BY <2>1, <2>2 DEF FoldsIn
<1> HIDE DEF G
<1>10. Reached(c, A, F, list, all)
  <2>1. F \in [A -> [Entry -> A]]
    BY <1>5
  <2>2. all \in Seq(Entry)
    OBVIOUS
  <2> QED BY <1>4, <1>9, <2>1, <2>2, FoldSteps
<1>11. PICK h \in [0..n -> A] : h[0] = list /\ (\A k \in 1..n : h[k] = F[h[k - 1]][all[k]])
                                /\ h[n] = c[DOMAIN all]
  BY <1>2, <1>10 DEF Reached
<1>12. ASSUME NEW k \in 1..n
       PROVE  h[k - 1] \in A /\ all[k] \in Entry /\ h[k] = op(h[k - 1], all[k])
  <2>1. k - 1 \in 0..n
    BY <1>2
  <2> QED BY <2>1, <1>2, <1>5, <1>11
<1> DEFINE T == {k \in Nat : k <= n => Lists(h[k], all, k)}
<1>13. 0 \in T
  <2>1. 1..0 = {}
    OBVIOUS
  <2> QED BY <2>1 DEF Lists
<1>14. ASSUME NEW k \in Nat, k \in T
       PROVE  k + 1 \in T
  <2> SUFFICES ASSUME k + 1 <= n
               PROVE  Lists(h[k + 1], all, k + 1)
    OBVIOUS
  <2> DEFINE e == all[k + 1]
             old == h[k]
             new == h[k + 1]
  <2>1. k + 1 \in 1..n /\ (k + 1) - 1 = k /\ k <= n
    BY <1>2
  <2>2. old \in A /\ e \in Entry /\ new = op(old, e)
    BY <2>1, <1>12
  <2>3. Lists(old, all, k)
    BY <1>14, <2>1
  <2>4. /\ \E i \in DOMAIN new : new[i].id = e.id
        /\ \A i \in DOMAIN new : new[i].id = e.id => new[i] = e
        /\ \A id : id # e.id =>
             /\ \A i \in DOMAIN old : old[i].id = id => i \in DOMAIN new /\ new[i] = old[i]
             /\ \A i \in DOMAIN new : new[i].id = id => i \in DOMAIN old /\ new[i] = old[i]
    <3> HIDE DEF e, old, new
    <3>1. old \in Seq(Entry) /\ e \in Entry /\ new = Registered(old, e)
      BY <2>2 DEF A, op
    <3>2. Replaces(new, old, e)
      BY <3>1, RegisteredReplaces
    <3> QED BY <3>2 DEF Replaces
  <2> SUFFICES ASSUME NEW j \in 1..(k + 1),
                      \A m \in 1..(k + 1) : m > j => all[m].id # all[j].id
               PROVE  /\ \E i \in DOMAIN new : new[i].id = all[j].id
                      /\ \A i \in DOMAIN new : new[i].id = all[j].id => new[i] = all[j]
    BY DEF Lists
  <2>5. CASE j = k + 1
    BY <2>4, <2>5
  <2>6. CASE j # k + 1
    <3>1. j \in 1..k /\ k + 1 \in 1..(k + 1) /\ k + 1 > j
      BY <2>6
    <3>2. e.id # all[j].id
      BY <3>1
    <3>3. \A m \in 1..k : m > j => all[m].id # all[j].id
      <4>1. \A m \in 1..k : m \in 1..(k + 1)
        OBVIOUS
      <4> QED BY <4>1
    <3> HIDE DEF e, old, new
    <3>4. /\ \E i \in DOMAIN old : old[i].id = all[j].id
          /\ \A i \in DOMAIN old : old[i].id = all[j].id => old[i] = all[j]
      BY <2>3, <3>1, <3>3 DEF Lists
    <3> QED BY <2>4, <3>2, <3>4
  <2> QED BY <2>5, <2>6
<1>15. n \in T
  <2> HIDE DEF T
  <2> QED BY <1>2, <1>13, <1>14, SetInduction
<1>16. h[n] \in A /\ Lists(h[n], all, n)
  <2>1. n \in 0..n
    BY <1>2
  <2> QED BY <1>2, <1>15, <2>1
<1> QED BY <1>1, <1>11, <1>16 DEF A, n

-----------------------------------------------------------------------------
(* The choice among the drivers.                                           *)

\* The driver claims the model by its name.
Names(entry, identity) ==
  \/ /\ entry.origin = Empty
     /\ entry.vendor = identity.manufacturer
     /\ \E p \in Range(entry.patterns) : ~p.family /\ identity.model \in p.models
  \/ /\ entry.origin # Empty
     /\ entry.manifest.vendor \in {Empty, identity.manufacturer}
     /\ \E e \in Range(entry.manifest.models) : e.literal /\ identity.model \in e.whole

LEMMA LargestScore ==
  ASSUME NEW S \in SUBSET {0, VendorOnly, ModelFamily, ExactModel}, S # {}
  PROVE  /\ Max(S) \in {0, VendorOnly, ModelFamily, ExactModel}
         /\ Max(S) = ExactModel <=> ExactModel \in S
<1>1. IsFiniteSet({0, VendorOnly, ModelFamily, ExactModel})
  <2>1. {0, VendorOnly, ModelFamily, ExactModel} \in SUBSET (0..100)
    BY DEF VendorOnly, ModelFamily, ExactModel
  <2>2. IsFiniteSet(0..100)
    <3>1. 0 \in Int /\ 100 \in Int
      OBVIOUS
    <3> QED BY <3>1, FS_Interval
  <2> QED BY <2>1, <2>2, FS_Subset
<1>2. IsFiniteSet(S) /\ S \in SUBSET Int
  <2>1. S \in SUBSET Int
    BY DEF VendorOnly, ModelFamily, ExactModel
  <2> QED BY <1>1, <2>1, FS_Subset
<1>3. Max(S) \in S /\ \A y \in S : y <= Max(S)
  BY <1>2, ExtremesExist
<1> DEFINE x == Max(S)
<1>4. x \in S /\ \A y \in S : y <= x
  BY <1>3
<1> HIDE DEF x
<1>5. x \in {0, VendorOnly, ModelFamily, ExactModel}
  BY <1>4
<1>6. ExactModel \in S => x = ExactModel
  BY <1>4, <1>5 DEF VendorOnly, ModelFamily, ExactModel
<1> QED BY <1>4, <1>5, <1>6 DEF x

\* A score of 100 is a driver that names the model.
LEMMA ScoreIsKnown ==
  ASSUME NEW entry \in Entry, NEW identity
  PROVE  /\ Score(entry, identity) \in {0, VendorOnly, ModelFamily, ExactModel}
         /\ Score(entry, identity) = ExactModel <=> Names(entry, identity)
<1>1. CASE entry.origin = Empty
  <2> DEFINE claimed == {q \in Range(entry.patterns) : identity.model \in q.models}
             scores == {VendorOnly} \cup {IF p.family THEN ModelFamily ELSE ExactModel : p \in claimed}
  <2>1. Score(entry, identity) = IF identity.manufacturer # entry.vendor THEN 0 ELSE Max(scores)
    BY <1>1 DEF Score, MatcherScore
  <2>2. scores \in SUBSET {0, VendorOnly, ModelFamily, ExactModel} /\ scores # {}
    OBVIOUS
  <2>3. ExactModel \in scores <=> \E p \in claimed : ~p.family
    BY DEF VendorOnly, ModelFamily, ExactModel
  <2>4. (\E p \in claimed : ~p.family) <=>
          \E p \in Range(entry.patterns) : ~p.family /\ identity.model \in p.models
    OBVIOUS
  <2> HIDE DEF scores, claimed
  <2>5. Max(scores) \in {0, VendorOnly, ModelFamily, ExactModel} /\ (Max(scores) = ExactModel <=> ExactModel \in scores)
    BY <2>2, LargestScore
  <2>6. 0 # ExactModel
    BY DEF ExactModel
  <2> QED BY <1>1, <2>1, <2>3, <2>4, <2>5, <2>6 DEF Names
<1>2. CASE entry.origin # Empty
  <2> DEFINE m == entry.manifest
             claimed == {x \in Range(m.models) : identity.model \in x.found}
             scores == {IF m.vendor = Empty THEN 0 ELSE VendorOnly}
                         \cup {ExpressionScore(e, identity.model) : e \in claimed}
  <2>1. Score(entry, identity) =
          IF m.vendor \notin {Empty, identity.manufacturer} THEN 0 ELSE Max(scores)
    BY <1>2 DEF Score, ManifestScore
  <2>2. scores \in SUBSET {0, VendorOnly, ModelFamily, ExactModel} /\ scores # {}
    BY DEF ExpressionScore
  <2>3. \A e \in Range(m.models) : e.whole \subseteq e.found
    <3>1. entry \in Registration
      BY <1>2, PluginAssumption DEF PluginAssumption, Entry
    <3>2. m \in Manifests
      BY <3>1 DEF Registration
    <3> QED BY <3>2, PluginAssumption DEF PluginAssumption, Manifests
  <2>4. ExactModel \in scores <=> \E e \in claimed : e.literal /\ identity.model \in e.whole
    BY DEF VendorOnly, ModelFamily, ExactModel, ExpressionScore
  <2>5. (\E e \in claimed : e.literal /\ identity.model \in e.whole) <=>
          \E e \in Range(m.models) : e.literal /\ identity.model \in e.whole
    BY <2>3
  <2> HIDE DEF scores, claimed
  <2>6. Max(scores) \in {0, VendorOnly, ModelFamily, ExactModel} /\ (Max(scores) = ExactModel <=> ExactModel \in scores)
    BY <2>2, LargestScore
  <2>7. 0 # ExactModel
    BY DEF ExactModel
  <2> QED BY <1>2, <2>1, <2>4, <2>5, <2>6, <2>7 DEF Names
<1> QED BY <1>1, <1>2

\* The positions of the drivers with a claim come in the order of the claims.
LEMMA MatchIsSorted ==
  ASSUME NEW list \in Seq(Entry), NEW identity
  PROVE  LET claimants == {i \in DOMAIN list : Score(list[i], identity) > 0}
             matches == Match(list, identity)
             N == Cardinality(claimants) IN
         /\ N \in Nat /\ matches \in [1..N -> claimants]
         /\ \A i \in claimants : \E k \in 1..N : matches[k] = i
         /\ \A j, k \in 1..N : j < k =>
              /\ matches[j] # matches[k]
              /\ Score(list[matches[j]], identity) >= Score(list[matches[k]], identity)
<1> DEFINE claim(i) == Score(list[i], identity)
           claimants == {i \in DOMAIN list : claim(i) > 0}
           R == {p \in claimants \X claimants : \/ claim(p[1]) > claim(p[2])
                                                \/ claim(p[1]) = claim(p[2]) /\ p[1] < p[2]}
           N == Cardinality(claimants)
           matches == Match(list, identity)
<1>1. DOMAIN list = 1..Len(list) /\ Len(list) \in Nat /\ \A i \in DOMAIN list : list[i] \in Entry
  OBVIOUS
<1>2. \A i \in claimants : claim(i) \in Int /\ i \in Int
  <2>1. \A i \in claimants : claim(i) \in {0, VendorOnly, ModelFamily, ExactModel}
    BY <1>1, ScoreIsKnown
  <2>2. \A i \in claimants : i \in Int
    BY <1>1
  <2> QED BY <2>1, <2>2 DEF VendorOnly, ModelFamily, ExactModel
<1>3. IsFiniteSet(claimants)
  <2>1. claimants \in SUBSET (1..Len(list)) /\ IsFiniteSet(1..Len(list))
    BY <1>1, FS_Interval
  <2> QED BY <2>1, FS_Subset
<1>4. matches = Ranked(claimants, R)
  BY DEF Match
<1> HIDE DEF claimants, claim, matches
<1>5. \A x, y \in claimants : <<x, y>> \in R <=>
        \/ claim(x) > claim(y)
        \/ claim(x) = claim(y) /\ x < y
  OBVIOUS
<1> HIDE DEF R
<1>6. /\ \A x \in claimants : <<x, x>> \notin R
      /\ \A x, y, z \in claimants : <<x, y>> \in R /\ <<y, z>> \in R => <<x, z>> \in R
      /\ \A x, y \in claimants : x = y \/ <<x, y>> \in R \/ <<y, x>> \in R
  BY <1>2, <1>5
<1>7. /\ Cardinality(claimants) \in Nat
      /\ Ranked(claimants, R) \in [1..Cardinality(claimants) -> claimants]
      /\ \A x \in claimants : \E k \in 1..Cardinality(claimants) : Ranked(claimants, R)[k] = x
      /\ \A i, j \in 1..Cardinality(claimants) : i < j => <<Ranked(claimants, R)[i], Ranked(claimants, R)[j]>> \in R
  BY <1>3, <1>6, RankedIsSorted, Zenon
<1> HIDE DEF N
<1>8. /\ N \in Nat /\ matches \in [1..N -> claimants]
      /\ \A i \in claimants : \E k \in 1..N : matches[k] = i
      /\ \A j, k \in 1..N : j < k => <<matches[j], matches[k]>> \in R
  BY <1>4, <1>7 DEF N
<1>9. ASSUME NEW j \in 1..N, NEW k \in 1..N, j < k
      PROVE  matches[j] # matches[k] /\ claim(matches[j]) >= claim(matches[k])
  <2>1. <<matches[j], matches[k]>> \in R /\ matches[j] \in claimants /\ matches[k] \in claimants
    BY <1>8, <1>9
  <2> QED BY <2>1, <1>2, <1>5
<1> QED BY <1>8, <1>9 DEF claimants, claim, matches, N

\* The best match is the driver the claims single out, and none when they do not.
LEMMA BestMatchIsDefinite ==
  ASSUME NEW list \in Seq(Entry), NEW identity
  PROVE  LET claims == {Score(list[i], identity) : i \in DOMAIN list}
             best == {i \in DOMAIN list : Score(list[i], identity) = Max(claims)}
             namers == {i \in DOMAIN list : Names(list[i], identity)} IN
         /\ Cardinality(namers) = 1 => BestMatch(list, identity) = list[CHOOSE i \in namers : TRUE]
         /\ Cardinality(best) = 1 /\ Max(claims) > 0 =>
              BestMatch(list, identity) = list[CHOOSE i \in best : TRUE]
         /\ Cardinality(namers) = 1 \/ (Cardinality(best) = 1 /\ Max(claims) > 0)
            \/ BestMatch(list, identity) = NoDriver
<1> DEFINE claim(i) == Score(list[i], identity)
           claims == {claim(i) : i \in DOMAIN list}
           top == Max(claims)
           best == {i \in DOMAIN list : claim(i) = top}
           namers == {i \in DOMAIN list : Names(list[i], identity)}
           claimants == {i \in DOMAIN list : claim(i) > 0}
           matches == Match(list, identity)
           N == Cardinality(claimants)
           result == BestMatch(list, identity)
           n == Len(list)
<1>1. DOMAIN list = 1..n /\ n \in Nat /\ \A i \in 1..n : list[i] \in Entry
  OBVIOUS
<1>2. \A i \in DOMAIN list : claim(i) \in 0..100 /\ (claim(i) = 100 <=> i \in namers)
  <2>1. \A i \in DOMAIN list : list[i] \in Entry
    BY <1>1
  <2>2. \A i \in DOMAIN list : /\ claim(i) \in {0, VendorOnly, ModelFamily, ExactModel}
                               /\ claim(i) = ExactModel <=> Names(list[i], identity)
    BY <2>1, ScoreIsKnown
  <2> HIDE DEF claim
  <2> QED BY <2>2 DEF VendorOnly, ModelFamily, ExactModel
<1>3. /\ N \in Nat /\ matches \in [1..N -> claimants]
      /\ \A i \in claimants : \E k \in 1..N : matches[k] = i
      /\ \A j, k \in 1..N : j < k => /\ matches[j] # matches[k]
                                     /\ claim(matches[j]) >= claim(matches[k])
  BY MatchIsSorted
<1>4. result = IF matches = <<>> \/ (Len(matches) > 1 /\ claim(matches[1]) = claim(matches[2]))
               THEN NoDriver ELSE list[matches[1]]
  BY DEF BestMatch
<1>5. claimants \subseteq DOMAIN list /\ best \subseteq DOMAIN list /\ namers \subseteq DOMAIN list
      /\ \A i \in DOMAIN list : i \in claimants <=> claim(i) > 0
  OBVIOUS
<1>6. \A i \in best : claim(i) = top
  OBVIOUS
<1>7. \A i \in DOMAIN list : claim(i) = top => i \in best
  OBVIOUS
<1>8. IsFiniteSet(best) /\ IsFiniteSet(namers) /\ claims \subseteq 0..100 /\ IsFiniteSet(claims)
  <2>1. IsFiniteSet(1..n) /\ IsFiniteSet(0..100)
    <3>1. 0 \in Int /\ 100 \in Int /\ 1 \in Int /\ n \in Int
      BY <1>1
    <3> QED BY <3>1, FS_Interval
  <2>2. claims \subseteq 0..100
    <3> HIDE DEF claim
    <3> QED BY <1>2
  <2> HIDE DEF best, namers, claims
  <2> QED BY <1>1, <1>5, <2>1, <2>2, FS_Subset
<1>9. claims # {} => top \in claims /\ \A y \in claims : y <= top
  <2>1. claims \in SUBSET Int /\ IsFiniteSet(claims)
    <3> HIDE DEF claims
    <3>1. \A x \in 0..100 : x \in Int
      OBVIOUS
    <3> QED BY <1>8, <3>1
  <2> HIDE DEF claims
  <2> QED BY <2>1, ExtremesExist
<1>10. \A i \in DOMAIN list : claim(i) <= top /\ claims # {}
  BY <1>9
<1>11. ASSUME Cardinality(namers) = 1
       PROVE  \E x : namers = {x}
  BY <1>8, <1>11, FS_Singleton
<1>12. ASSUME Cardinality(best) = 1
       PROVE  \E x : best = {x}
  BY <1>8, <1>12, FS_Singleton
<1>13. claims # {} => \E i \in DOMAIN list : claim(i) = top
  BY <1>9
<1>14. top \in claims => top \in 0..100
  BY <1>8
<1> HIDE DEF claim, claims, top, best, namers, claimants, matches, N, result, n
<1>15. \A i \in DOMAIN list : claim(i) \in Int /\ claim(i) <= 100 /\ claim(i) >= 0
  <2>1. \A x \in 0..100 : x \in Int /\ x <= 100 /\ x >= 0
    OBVIOUS
  <2> QED BY <1>2, <2>1
<1>16. CASE claimants = {}
  <2>1. N = 0
    <3>1. ~(N \in Nat /\ 1 \in 1..N)
      BY <1>3, <1>16
    <3> QED BY <1>3, <3>1
  <2>2. matches = <<>>
    <3>1. 1..N = {}
      BY <2>1
    <3>2. DOMAIN matches = {}
      BY <1>3, <3>1
    <3> QED BY <1>3, <3>1, <3>2
  <2>3. namers = {}
    BY <1>2, <1>5, <1>15, <1>16
  <2>4. ~(Cardinality(best) = 1 /\ top > 0)
    BY <1>5, <1>6, <1>12, <1>16
  <2>5. Cardinality(namers) # 1
    BY <1>11, <2>3
  <2> QED BY <1>4, <2>2, <2>4, <2>5 DEF claim, claims, top, best, namers, result
<1>17. CASE claimants # {}
  <2> DEFINE first == matches[1]
  <2>1. N >= 1 /\ 1 \in 1..N
    BY <1>3, <1>17
  <2>2. first \in claimants /\ first \in DOMAIN list /\ claim(first) > 0
    BY <1>3, <1>5, <2>1
  <2>3. ASSUME NEW i \in DOMAIN list
        PROVE  claim(i) <= claim(first)
    <3>1. CASE i \in claimants
      <4>1. PICK k \in 1..N : matches[k] = i
        BY <1>3, <3>1
      <4>2. k = 1 \/ 1 < k
        BY <1>3
      <4> QED BY <1>3, <1>15, <2>1, <2>2, <4>1, <4>2
    <3>2. CASE i \notin claimants
      BY <1>5, <1>15, <2>2, <3>2
    <3> QED BY <3>1, <3>2
  <2>4. top = claim(first) /\ top > 0 /\ top \in Int
    <3>1. claim(first) <= top /\ claims # {}
      BY <1>10, <2>2
    <3>2. \E i \in DOMAIN list : claim(i) = top
      BY <1>13, <3>1
    <3> QED BY <1>15, <2>2, <2>3, <3>1, <3>2
  <2>5. first \in best
    BY <1>7, <2>2, <2>4
  <2>6. Len(matches) = N /\ matches # <<>>
    <3>1. Len(matches) = N
      BY <1>3
    <3>2. DOMAIN matches # {}
      BY <1>3, <2>1
    <3> QED BY <3>1, <3>2
  <2>7. ASSUME Cardinality(namers) = 1
        PROVE  namers = best
    <3>1. PICK x : namers = {x}
      BY <1>11, <2>7
    <3>2. x \in DOMAIN list /\ claim(x) = 100
      BY <1>2, <1>5, <3>1
    <3>3. top = 100
      BY <1>15, <2>2, <2>3, <2>4, <3>2
    <3>4. \A i \in DOMAIN list : i \in best <=> i \in namers
      BY <1>2, <1>6, <1>7, <3>3
    <3> QED BY <1>5, <3>4
  <2>8. CASE N > 1 /\ claim(matches[1]) = claim(matches[2])
    <3>1. result = NoDriver
      BY <1>4, <2>6, <2>8
    <3>2. 2 \in 1..N /\ matches[2] \in DOMAIN list /\ matches[2] # first
      <4>1. 2 \in 1..N /\ 1 < 2
        BY <1>3, <2>8
      <4> QED BY <1>3, <1>5, <2>1, <4>1
    <3>3. matches[2] \in best
      BY <1>7, <2>4, <2>8, <3>2
    <3>4. Cardinality(best) # 1
      BY <1>12, <2>5, <3>2, <3>3
    <3>5. Cardinality(namers) # 1
      BY <2>7, <3>4
    <3> QED BY <3>1, <3>4, <3>5 DEF claim, claims, top, best, namers, result
  <2>9. CASE ~(N > 1 /\ claim(matches[1]) = claim(matches[2]))
    <3>1. result = list[first]
      BY <1>4, <2>6, <2>9
    <3>2. ASSUME NEW i \in best, i # first
          PROVE  FALSE
      <4>1. claim(i) = claim(first) /\ i \in claimants
        BY <1>5, <1>6, <2>4
      <4>2. PICK k \in 1..N : matches[k] = i
        BY <1>3, <4>1
      <4>3. k # 1 /\ N > 1 /\ 2 \in 1..N /\ (k = 2 \/ 2 < k) /\ 1 < 2
        BY <1>3, <3>2, <4>2
      <4>4. claim(matches[2]) >= claim(i)
        BY <1>3, <1>5, <1>15, <4>1, <4>2, <4>3
      <4>5. claim(first) >= claim(matches[2])
        BY <1>3, <2>1, <4>3
      <4>6. matches[2] \in DOMAIN list
        BY <1>3, <1>5, <4>3
      <4> QED BY <1>15, <2>2, <2>9, <4>1, <4>3, <4>4, <4>5, <4>6
    <3>3. best = {first}
      BY <2>5, <3>2
    <3>4. Cardinality(best) = 1
      BY <3>3, FS_Singleton
    <3>5. (CHOOSE i \in best : TRUE) = first
      BY <3>3
    <3>6. Cardinality(namers) = 1 => (CHOOSE i \in namers : TRUE) = first
      BY <2>7, <3>5
    <3> QED BY <2>4, <3>1, <3>4, <3>5, <3>6 DEF claim, claims, top, best, namers, result
  <2> QED BY <2>8, <2>9
<1> QED BY <1>16, <1>17
-----------------------------------------------------------------------------
(* The inductive invariant.                                                *)

Content == Contents \cup {NoFile}

PluginsTyped ==
  /\ disk \in [Files -> Content]
  /\ stored \in [state : {"missing", "damaged", "valid"}, entries : [Files -> Content]]
  /\ entries \in [Files -> Content]
  /\ approved \in [Files -> SUBSET Contents]
  /\ registrations \in Seq(Registration)
  /\ registry \in Seq(Entry)

\* What the trust store lists, in the program and in its file, was approved.
EntriesAreApproved ==
  \A f \in Files : /\ entries[f] # NoFile => entries[f] \in approved[f]
                   /\ stored.entries[f] # NoFile => stored.entries[f] \in approved[f]

\* The driver chosen for an instrument that was asked is the best match.
AskedGetsBestMatch == chosen.asked => chosen.driver = BestMatch(registry, chosen.identity)

PluginsInv ==
  /\ PluginsTyped
  /\ EntriesAreApproved
  /\ LoadedIsOffered
  /\ AskedGetsBestMatch

\* What a scan adds, it found listed in the trust store with these very contents.
AddsTrusted(trusted, before, all) ==
  \A n \in 1..Len(all) : n > Len(before) =>
    /\ all[n].origin \in Files
    /\ all[n].content # NoFile
    /\ all[n].content = trusted[all[n].origin]

LEMMA ScanIsSound ==
  ASSUME PluginsTyped,
         NEW trusted \in [Files -> Content],
         NEW before \in Seq(Registration), NEW list \in Seq(Entry),
         Rescan(trusted, before), registry' = Publish(list, registrations')
  PROVE  /\ entries' = trusted
         /\ registrations' \in Seq(Registration)
         /\ registry' \in Seq(Entry)
         /\ AddsTrusted(trusted, before, registrations')
         /\ LoadedIsOffered'
<1> DEFINE found == [f \in Files |-> Found(trusted, f)]
           all == Imported(found, before)
           loaded == Loads(found)
<1>1. entries' = trusted /\ plugins' = found /\ registrations' = all
  BY DEF Rescan
<1>2. \A f \in loaded : /\ f \in Files /\ disk[f] \in Contents
                        /\ trusted[f] = disk[f] /\ disk[f] # NoFile
                        /\ found[f] = [state |-> "loaded", content |-> disk[f]]
  <2> SUFFICES ASSUME NEW f \in Files, found[f].state = "loaded"
               PROVE  /\ disk[f] \in Contents
                      /\ trusted[f] = disk[f] /\ disk[f] # NoFile
                      /\ found[f] = [state |-> "loaded", content |-> disk[f]]
    BY DEF Loads
  <2>1. Found(trusted, f).state = "loaded"
    OBVIOUS
  <2>2. disk[f] # NoFile /\ IsTrusted(trusted, f)
    <3>1. CASE disk[f] = NoFile
      BY <2>1, <3>1 DEF Found, IsTrusted
    <3>2. CASE disk[f] # NoFile /\ ~IsTrusted(trusted, f)
      BY <2>1, <3>2 DEF Found
    <3> QED BY <3>1, <3>2
  <2>3. disk[f] \in Content
    BY DEF PluginsTyped
  <2>4. Found(trusted, f).content = disk[f]
    BY DEF Found
  <2>5. found[f] = [state |-> "loaded", content |-> disk[f]]
    BY <2>1, <2>4 DEF Found
  <2> QED BY <2>2, <2>3, <2>5 DEF IsTrusted, Content
<1>3. all \in Seq(Registration) /\ Adds(before, all, loaded)
  <2> HIDE DEF found
  <2> QED BY <1>2, ScanAdds
<1>4. \A n \in 1..Len(all) : all[n] \in Registration /\ all[n] \in Entry
  BY <1>3 DEF Entry
<1>5. all \in Seq(Entry)
  <2> HIDE DEF all
  <2>1. Len(all) \in Nat /\ DOMAIN all = 1..Len(all) /\ all = [n \in 1..Len(all) |-> all[n]]
    BY <1>3
  <2> QED BY <1>4, <2>1
<1>6. registry' = Publish(list, all) /\ registry' \in Seq(Entry) /\ Lists(registry', all, Len(all))
  BY <1>1, <1>5, PublishLists
<1>7. AddsTrusted(trusted, before, all)
  <2> HIDE DEF all, found, loaded
  <2>1. \A n \in 1..Len(all) : n > Len(before) =>
          all[n].origin \in loaded /\ all[n].content = disk[all[n].origin]
    BY <1>3 DEF Adds
  <2> QED BY <2>1, <1>2 DEF AddsTrusted
<1>8. LoadedIsOffered'
  <2> HIDE DEF all, found, loaded
  <2> SUFFICES ASSUME NEW f \in Files, plugins'[f].state = "loaded",
                      NEW m \in Range(Code[plugins'[f].content].registers)
               PROVE  LET offered == Named(registry', m.name) IN
                      /\ offered.origin \in Files
                      /\ plugins'[offered.origin] = [state |-> "loaded", content |-> offered.content]
    BY DEF LoadedIsOffered
  <2>1. f \in loaded /\ plugins'[f].content = disk[f]
    <3>1. found[f].state = "loaded"
      BY <1>1
    <3>2. f \in loaded
      BY <3>1 DEF loaded, Loads
    <3>3. found[f] = [state |-> "loaded", content |-> disk[f]]
      BY <1>2, <3>2
    <3>4. found[f].content = disk[f]
      BY <3>3
    <3> QED BY <1>1, <3>2, <3>4
  <2>2. PICK n \in 1..Len(all) : n > Len(before) /\ all[n].id = m.name
    BY <1>3, <2>1 DEF Adds
  <2> DEFINE same == {k \in 1..Len(all) : all[k].id = m.name}
             j == Max(same)
  <2>3. Len(all) \in Nat /\ Len(before) \in Nat
    BY <1>3
  <2>4. j \in same /\ \A k \in same : k <= j
    <3>1. same \in SUBSET (1..Len(all)) /\ same # {}
      BY <2>2
    <3> QED BY <2>3, <3>1, LargestExists
  <2>5. j \in 1..Len(all) /\ all[j].id = m.name /\ j > Len(before)
    BY <2>2, <2>3, <2>4
  <2>6. \A k \in 1..Len(all) : k > j => all[k].id # all[j].id
    BY <2>3, <2>4, <2>5
  <2> HIDE DEF j, same
  <2>7. /\ \E i \in DOMAIN registry' : registry'[i].id = all[j].id
        /\ \A i \in DOMAIN registry' : registry'[i].id = all[j].id => registry'[i] = all[j]
    BY <1>6, <2>5, <2>6 DEF Lists
  <2>8. Named(registry', m.name) = all[j]
    BY <2>5, <2>7 DEF Named
  <2>9. all[j].origin \in loaded /\ all[j].content = disk[all[j].origin]
    BY <1>3, <2>5 DEF Adds
  <2>10. plugins'[all[j].origin] = [state |-> "loaded", content |-> all[j].content]
    BY <1>1, <1>2, <2>9
  <2> QED BY <1>2, <2>8, <2>9, <2>10
<1> QED BY <1>1, <1>3, <1>6, <1>7, <1>8

\* Contents that were approved stay so, except where the file's entry goes too.
LEMMA ReloadedTyped ==
  ASSUME NEW old \in [Files -> Content], stored'.entries \in [Files -> Content]
  PROVE  /\ Reloaded(old) \in [Files -> Content]
         /\ Reloaded(old) = old \/ Reloaded(old) = stored'.entries
BY DEF Reloaded

LEMMA NothingStored ==
  /\ NoEntries \in [Files -> Content] /\ \A f \in Files : NoEntries[f] = NoFile
  /\ BuiltIn \in Seq(Entry) /\ <<>> \in Seq(Registration)
<1>1. BuiltIn \in Seq(Entry)
  <2>1. BuiltIn \in Seq(Range(BuiltIn)) /\ Range(BuiltIn) \subseteq Entry
    BY PluginAssumption DEF PluginAssumption, Entry
  <2>2. \A S, T : S \subseteq T => \A s \in Seq(S) : s \in Seq(T)
    <3> SUFFICES ASSUME NEW S, NEW T, S \subseteq T, NEW s \in Seq(S)
                 PROVE  s \in Seq(T)
      OBVIOUS
    <3>1. Len(s) \in Nat /\ s \in [1..Len(s) -> S]
      OBVIOUS
    <3>2. s \in [1..Len(s) -> T]
      BY <3>1
    <3> QED BY <3>1, <3>2
  <2> QED BY <2>1, <2>2
<1> QED BY <1>1 DEF NoEntries, Content

LEMMA PluginsInit == Init => PluginsInv
<1> SUFFICES ASSUME Init
             PROVE  PluginsInv
  OBVIOUS
<1>1. PluginsTyped
  <2>1. approved \in [Files -> SUBSET Contents]
    BY DEF Init
  <2> QED BY <2>1, NothingStored DEF Init, PluginsTyped, Content
<1>2. EntriesAreApproved
  BY NothingStored DEF Init, EntriesAreApproved
<1>3. LoadedIsOffered
  BY DEF Init, LoadedIsOffered
<1>4. AskedGetsBestMatch
  BY DEF Init, NoChoice, AskedGetsBestMatch
<1> QED BY <1>1, <1>2, <1>3, <1>4 DEF PluginsInv

\* What an action that scans leaves behind: it is enough that the new entries, those in
\* the file and those in the program, are of approved contents.
LEMMA ScanStep ==
  ASSUME PluginsInv,
         NEW old \in [Files -> Content],
         NEW before \in Seq(Registration), NEW list \in Seq(Entry),
         Rescan(Reloaded(old), before), registry' = Publish(list, registrations'),
         chosen' = NoChoice, disk' = disk,
         stored' \in [state : {"missing", "damaged", "valid"}, entries : [Files -> Content]],
         approved' \in [Files -> SUBSET Contents],
         \A f \in Files : /\ old[f] # NoFile => old[f] \in approved'[f]
                          /\ stored'.entries[f] # NoFile => stored'.entries[f] \in approved'[f]
  PROVE  /\ PluginsInv'
         /\ \A n \in DOMAIN registrations' : n > Len(before) =>
              registrations'[n].content \in approved'[registrations'[n].origin]
<1> DEFINE trusted == Reloaded(old)
<1>1. trusted \in [Files -> Content] /\ (trusted = old \/ trusted = stored'.entries)
  BY ReloadedTyped
<1>2. \A f \in Files : trusted[f] # NoFile => trusted[f] \in approved'[f]
  BY <1>1
<1>3. PluginsTyped
  BY DEF PluginsInv
<1> HIDE DEF trusted
<1>4. /\ entries' = trusted
      /\ registrations' \in Seq(Registration)
      /\ registry' \in Seq(Entry)
      /\ AddsTrusted(trusted, before, registrations')
      /\ LoadedIsOffered'
  <2>1. Rescan(trusted, before)
    BY DEF trusted
  <2> QED BY <1>1, <1>3, <2>1, ScanIsSound
<1>5. PluginsTyped'
  BY <1>1, <1>3, <1>4 DEF PluginsTyped
<1>6. EntriesAreApproved'
  BY <1>2, <1>4 DEF EntriesAreApproved
<1>7. AskedGetsBestMatch'
  BY DEF AskedGetsBestMatch, NoChoice
<1>8. ASSUME NEW n \in DOMAIN registrations', n > Len(before)
      PROVE  registrations'[n].content \in approved'[registrations'[n].origin]
  <2>1. n \in 1..Len(registrations')
    BY <1>4
  <2> QED BY <1>2, <1>4, <1>8, <2>1 DEF AddsTrusted
<1> QED BY <1>4, <1>5, <1>6, <1>7, <1>8 DEF PluginsInv

\* A step keeps the invariant, and what it registers was approved.
NewAreApproved ==
  \A n \in DOMAIN registrations' :
    n > Len(registrations) => registrations'[n].content \in approved'[registrations'[n].origin]

LEMMA NothingRegistered ==
  ASSUME registrations \in Seq(Registration), registrations' = registrations
  PROVE  NewAreApproved
<1>1. \A n \in DOMAIN registrations : ~(n > Len(registrations))
  <2>1. DOMAIN registrations = 1..Len(registrations) /\ Len(registrations) \in Nat
    OBVIOUS
  <2> QED BY <2>1
<1> QED BY <1>1 DEF NewAreApproved

LEMMA LaunchKeepsInv == PluginsInv /\ Launch => PluginsInv' /\ NewAreApproved
<1> SUFFICES ASSUME PluginsInv, Launch
             PROVE  PluginsInv' /\ NewAreApproved
  OBVIOUS
<1>1. PluginsTyped /\ EntriesAreApproved
  BY DEF PluginsInv
<1>2. /\ Rescan(Reloaded(NoEntries), <<>>) /\ registry' = Publish(BuiltIn, registrations')
      /\ chosen' = NoChoice /\ disk' = disk /\ stored' = stored /\ approved' = approved
  BY DEF Launch
<1>3. /\ stored' \in [state : {"missing", "damaged", "valid"}, entries : [Files -> Content]]
      /\ approved' \in [Files -> SUBSET Contents]
  BY <1>1, <1>2 DEF PluginsTyped
<1>4. \A f \in Files : /\ NoEntries[f] # NoFile => NoEntries[f] \in approved'[f]
                       /\ stored'.entries[f] # NoFile => stored'.entries[f] \in approved'[f]
  BY <1>1, <1>2, NothingStored DEF EntriesAreApproved
<1>5. /\ PluginsInv'
      /\ \A n \in DOMAIN registrations' : n > Len(<<>>) =>
           registrations'[n].content \in approved'[registrations'[n].origin]
  BY <1>2, <1>3, <1>4, NothingStored, ScanStep
<1>6. registrations' \in Seq(Registration)
  BY <1>5 DEF PluginsInv, PluginsTyped
<1>7. \A n \in DOMAIN registrations' : n > 0
  BY <1>6
<1> QED BY <1>5, <1>7 DEF NewAreApproved

LEMMA ScanAgainKeepsInv == PluginsInv /\ ScanAgain => PluginsInv' /\ NewAreApproved
<1> SUFFICES ASSUME PluginsInv, ScanAgain
             PROVE  PluginsInv' /\ NewAreApproved
  OBVIOUS
<1>1. PluginsTyped /\ EntriesAreApproved
  BY DEF PluginsInv
<1>2. /\ Rescan(Reloaded(entries), registrations) /\ registry' = Publish(registry, registrations')
      /\ chosen' = NoChoice /\ disk' = disk /\ stored' = stored /\ approved' = approved
  BY DEF ScanAgain
<1>3. /\ stored' \in [state : {"missing", "damaged", "valid"}, entries : [Files -> Content]]
      /\ approved' \in [Files -> SUBSET Contents] /\ entries \in [Files -> Content]
      /\ registrations \in Seq(Registration) /\ registry \in Seq(Entry)
  BY <1>1, <1>2 DEF PluginsTyped
<1>4. \A f \in Files : /\ entries[f] # NoFile => entries[f] \in approved'[f]
                       /\ stored'.entries[f] # NoFile => stored'.entries[f] \in approved'[f]
  BY <1>1, <1>2 DEF EntriesAreApproved
<1> QED BY <1>2, <1>3, <1>4, ScanStep DEF NewAreApproved

LEMMA ApproveKeepsInv ==
  ASSUME NEW f \in Files, NEW ok \in BOOLEAN
  PROVE  PluginsInv /\ Approve(f, ok) => PluginsInv' /\ NewAreApproved
<1> SUFFICES ASSUME PluginsInv, Approve(f, ok)
             PROVE  PluginsInv' /\ NewAreApproved
  OBVIOUS
<1>1. PluginsTyped /\ EntriesAreApproved
  BY DEF PluginsInv
<1>2. registry' = Publish(registry, registrations') /\ chosen' = NoChoice /\ disk' = disk
  BY DEF Approve
<1>3. /\ entries \in [Files -> Content] /\ approved \in [Files -> SUBSET Contents]
      /\ stored \in [state : {"missing", "damaged", "valid"}, entries : [Files -> Content]]
      /\ registrations \in Seq(Registration) /\ registry \in Seq(Entry) /\ disk[f] \in Content
  BY <1>1 DEF PluginsTyped
<1>4. CASE disk[f] = NoFile
  <2>1. stored' = stored /\ approved' = approved /\ Rescan(Reloaded(entries), registrations)
    BY <1>4 DEF Approve
  <2>2. \A g \in Files : /\ entries[g] # NoFile => entries[g] \in approved'[g]
                         /\ stored'.entries[g] # NoFile => stored'.entries[g] \in approved'[g]
    BY <1>1, <2>1 DEF EntriesAreApproved
  <2> QED BY <1>2, <1>3, <2>1, <2>2, ScanStep DEF NewAreApproved
<1>5. CASE disk[f] # NoFile
  <2> DEFINE new == [entries EXCEPT ![f] = disk[f]]
             kept == [approved EXCEPT ![f] = {disk[f]} \cup IF ok THEN {} ELSE approved[f]]
  <2>1. Save(new, ok) /\ approved' = kept /\ Rescan(Reloaded(new), registrations)
    BY <1>5 DEF Approve
  <2>2. new \in [Files -> Content] /\ disk[f] \in Contents
    BY <1>3, <1>5 DEF Content
  <2>3. kept \in [Files -> SUBSET Contents]
    BY <1>3, <2>2
  <2>4. stored' = IF ok THEN [state |-> "valid", entries |-> new] ELSE stored
    BY <2>1 DEF Save
  <2>5. \A g \in Files : new[g] # NoFile => new[g] \in kept[g]
    BY <1>1, <1>3 DEF EntriesAreApproved
  <2>6. ~ok => \A g \in Files : stored.entries[g] # NoFile => stored.entries[g] \in kept[g]
    BY <1>1, <1>3 DEF EntriesAreApproved
  <2> HIDE DEF new, kept
  <2>7. stored' \in [state : {"missing", "damaged", "valid"}, entries : [Files -> Content]]
    BY <1>3, <2>2, <2>4
  <2>8. \A g \in Files : stored'.entries[g] # NoFile => stored'.entries[g] \in kept[g]
    BY <2>4, <2>5, <2>6
  <2> QED BY <1>2, <1>3, <2>1, <2>2, <2>3, <2>5, <2>7, <2>8, ScanStep DEF NewAreApproved
<1> QED BY <1>4, <1>5

LEMMA RevokeKeepsInv ==
  ASSUME NEW f \in Files, NEW ok \in BOOLEAN
  PROVE  PluginsInv /\ Revoke(f, ok) => PluginsInv' /\ NewAreApproved
<1> SUFFICES ASSUME PluginsInv, Revoke(f, ok)
             PROVE  PluginsInv' /\ NewAreApproved
  OBVIOUS
<1> DEFINE new == [entries EXCEPT ![f] = NoFile]
<1>1. PluginsTyped /\ EntriesAreApproved
  BY DEF PluginsInv
<1>2. chosen' = NoChoice /\ disk' = disk /\ stored' = IF ok THEN [state |-> "valid", entries |-> new] ELSE stored
  BY DEF Revoke, DropEntry, Save
<1>3. /\ entries \in [Files -> Content] /\ approved \in [Files -> SUBSET Contents]
      /\ stored \in [state : {"missing", "damaged", "valid"}, entries : [Files -> Content]]
      /\ registrations \in Seq(Registration) /\ registry \in Seq(Entry)
  BY <1>1 DEF PluginsTyped
<1>4. new \in [Files -> Content]
  BY <1>3 DEF Content
<1>5. CASE ok
  <2> DEFINE kept == [approved EXCEPT ![f] = {}]
  <2>1. /\ approved' = kept /\ Rescan(Reloaded(new), registrations)
        /\ registry' = Publish(registry, registrations')
    BY <1>5 DEF Revoke
  <2>2. kept \in [Files -> SUBSET Contents]
    BY <1>3
  <2>3. \A g \in Files : new[g] # NoFile => new[g] \in kept[g]
    BY <1>1, <1>3 DEF EntriesAreApproved
  <2> HIDE DEF new, kept
  <2>4. stored' \in [state : {"missing", "damaged", "valid"}, entries : [Files -> Content]]
        /\ stored'.entries = new
    BY <1>2, <1>4, <1>5
  <2> QED BY <1>2, <1>3, <1>4, <2>1, <2>2, <2>3, <2>4, ScanStep DEF NewAreApproved
<1>6. CASE ~ok
  <2>1. /\ entries' = new /\ stored' = stored
        /\ UNCHANGED <<approved, plugins, registrations, registry, running>>
    BY <1>2, <1>6 DEF Revoke
  <2>2. \A g \in Files : new[g] # NoFile => new[g] = entries[g]
    BY <1>3
  <2> HIDE DEF new
  <2>3. PluginsTyped'
    BY <1>1, <1>2, <1>4, <2>1 DEF PluginsTyped
  <2>4. EntriesAreApproved'
    BY <1>1, <2>1, <2>2 DEF EntriesAreApproved
  <2>5. LoadedIsOffered'
    BY <2>1 DEF PluginsInv, LoadedIsOffered
  <2>6. AskedGetsBestMatch'
    BY <1>2 DEF AskedGetsBestMatch, NoChoice
  <2>7. NewAreApproved
    BY <1>3, <2>1, NothingRegistered
  <2> QED BY <2>3, <2>4, <2>5, <2>6, <2>7 DEF PluginsInv
<1> QED BY <1>5, <1>6

\* What leaves the scan's results alone: choosing a driver, and what happens outside.
LEMMA NoScanKeepsInv ==
  ASSUME PluginsInv, UNCHANGED <<entries, plugins, registrations, registry, running, approved>>,
         disk' \in [Files -> Content],
         stored' = stored \/ (stored'.entries = NoEntries /\ stored'.state \in {"missing", "damaged"}
                              /\ stored' = [state |-> stored'.state, entries |-> stored'.entries]),
         AskedGetsBestMatch'
  PROVE  PluginsInv' /\ NewAreApproved
<1>1. PluginsTyped'
  BY NothingStored DEF PluginsInv, PluginsTyped
<1>2. EntriesAreApproved'
  BY NothingStored DEF PluginsInv, EntriesAreApproved
<1>3. LoadedIsOffered'
  BY DEF PluginsInv, LoadedIsOffered
<1>4. NewAreApproved
  BY NothingRegistered DEF PluginsInv, PluginsTyped
<1> QED BY <1>1, <1>2, <1>3, <1>4 DEF PluginsInv

LEMMA StepKeepsInv == PluginsInv /\ [Next]_vars => PluginsInv' /\ (NewAreApproved \/ UNCHANGED vars)
<1> SUFFICES ASSUME PluginsInv, [Next]_vars
             PROVE  PluginsInv' /\ (NewAreApproved \/ UNCHANGED vars)
  OBVIOUS
<1>1. PluginsTyped
  BY DEF PluginsInv
<1>2. CASE Launch
  BY <1>2, LaunchKeepsInv
<1>3. CASE ScanAgain
  BY <1>3, ScanAgainKeepsInv
<1>4. CASE \E f \in Files, ok \in BOOLEAN : Approve(f, ok)
  BY <1>4, ApproveKeepsInv
<1>5. CASE \E f \in Files, ok \in BOOLEAN : Revoke(f, ok)
  BY <1>5, RevokeKeepsInv
<1>6. CASE Quit
  <2>1. /\ running' = FALSE /\ entries' = NoEntries /\ registrations' = <<>> /\ registry' = BuiltIn
        /\ chosen' = NoChoice /\ UNCHANGED <<disk, stored, approved>>
    BY <1>6 DEF Quit
  <2>2. PluginsTyped'
    BY <1>1, <2>1, NothingStored DEF PluginsTyped
  <2>3. EntriesAreApproved'
    BY <2>1, NothingStored DEF PluginsInv, EntriesAreApproved
  <2>4. LoadedIsOffered'
    BY <2>1 DEF LoadedIsOffered
  <2>5. AskedGetsBestMatch'
    BY <2>1 DEF AskedGetsBestMatch, NoChoice
  <2>6. NewAreApproved
    BY <2>1 DEF NewAreApproved
  <2> QED BY <2>2, <2>3, <2>4, <2>5, <2>6 DEF PluginsInv
<1>7. CASE \E id \in {registry[i].id : i \in DOMAIN registry} : ChooseNamed(id)
  <2>1. PICK id : ChooseNamed(id)
    BY <1>7
  <2>2. AskedGetsBestMatch'
    BY <2>1 DEF ChooseNamed, AskedGetsBestMatch
  <2>3. disk' \in [Files -> Content] /\ stored' = stored
        /\ UNCHANGED <<entries, plugins, registrations, registry, running, approved>>
    BY <1>1, <2>1 DEF ChooseNamed, PluginsTyped
  <2> QED BY <2>2, <2>3, NoScanKeepsInv
<1>8. CASE \E identity \in Identities, answers \in BOOLEAN : ChooseFor(identity, answers)
  <2>1. PICK identity \in Identities, answers \in BOOLEAN : ChooseFor(identity, answers)
    BY <1>8
  <2>2. AskedGetsBestMatch'
    <3> DEFINE blind == BestMatch(registry, NoIdentity)
               asked == BestMatch(registry, identity)
    <3>1. /\ registry' = registry
          /\ chosen' = CASE blind # NoDriver -> [driver |-> blind, identity |-> identity, asked |-> FALSE]
                         [] answers -> [driver |-> asked, identity |-> identity, asked |-> TRUE]
                         [] OTHER -> NoChoice
      BY <2>1 DEF ChooseFor
    <3> HIDE DEF blind
    <3>2. \/ chosen' = [driver |-> blind, identity |-> identity, asked |-> FALSE]
          \/ chosen' = [driver |-> asked, identity |-> identity, asked |-> TRUE]
          \/ chosen' = NoChoice
      <4> HIDE DEF asked
      <4> QED BY <3>1
    <3> QED BY <3>1, <3>2 DEF AskedGetsBestMatch, NoChoice
  <2>3. disk' \in [Files -> Content] /\ stored' = stored
        /\ UNCHANGED <<entries, plugins, registrations, registry, running, approved>>
    BY <1>1, <2>1 DEF ChooseFor, PluginsTyped
  <2> QED BY <2>2, <2>3, NoScanKeepsInv
<1>9. CASE \E f \in Files, content \in Contents \cup {NoFile} : Edit(f, content)
  <2>1. PICK f \in Files, content \in Contents \cup {NoFile} : Edit(f, content)
    BY <1>9
  <2>2. disk' \in [Files -> Content] /\ stored' = stored
        /\ UNCHANGED <<entries, plugins, registrations, registry, running, approved, chosen>>
    BY <1>1, <2>1 DEF Edit, PluginsTyped, Content, program
  <2>3. AskedGetsBestMatch'
    BY <2>2 DEF PluginsInv, AskedGetsBestMatch
  <2> QED BY <2>2, <2>3, NoScanKeepsInv
<1>10. CASE \E state \in {"missing", "damaged"} : LoseStore(state)
  <2>1. PICK state \in {"missing", "damaged"} : LoseStore(state)
    BY <1>10
  <2>2. /\ disk' \in [Files -> Content] /\ stored' = [state |-> state, entries |-> NoEntries]
        /\ UNCHANGED <<entries, plugins, registrations, registry, running, approved, chosen>>
    BY <1>1, <2>1 DEF LoseStore, PluginsTyped, program
  <2>3. AskedGetsBestMatch'
    BY <2>2 DEF PluginsInv, AskedGetsBestMatch
  <2> QED BY <2>2, <2>3, NoScanKeepsInv
<1>11. CASE UNCHANGED vars
  <2>1. /\ disk' \in [Files -> Content] /\ stored' = stored
        /\ UNCHANGED <<entries, plugins, registrations, registry, running, approved, chosen>>
    BY <1>1, <1>11 DEF vars, program, PluginsTyped
  <2>2. AskedGetsBestMatch'
    BY <2>1 DEF PluginsInv, AskedGetsBestMatch
  <2> QED BY <2>1, <2>2, NoScanKeepsInv
<1> QED BY <1>2, <1>3, <1>4, <1>5, <1>6, <1>7, <1>8, <1>9, <1>10, <1>11 DEF Next

-----------------------------------------------------------------------------
(* The theorems.                                                           *)

\* In every state, whatever the files and their contents are, the invariant holds.
THEOREM PluginsInvariant == Spec => []PluginsInv
BY PluginsInit, StepKeepsInv, PTL DEF Spec

\* However files are edited, stores lost, saves refused and approvals given and taken back,
\* rescan() imports what was approved and not revoked.
THEOREM OnlyApprovedIsImported == Spec => ImportsAreApproved
<1>1. PluginsInv /\ [Next]_vars => [NewAreApproved]_vars
  BY StepKeepsInv
<1>2. Spec => [][NewAreApproved]_vars
  BY <1>1, PluginsInvariant, PTL DEF Spec
<1> QED BY <1>2 DEF ImportsAreApproved, NewAreApproved

\* publishToDriverRegistry() lets the latest registration stand under every name: what the
\* loaded plugins register is offered as the files are that are loaded.
THEOREM LoadedStaysOffered == Spec => []LoadedIsOffered
BY PluginsInvariant, PTL DEF PluginsInv

\* What createBestMatch() returns is singled out by the claims themselves, whatever
\* drivers are registered and in whatever order: the one driver that names the
\* model, or the one with the strongest claim, or none.
THEOREM ChoiceStaysDefinite == Spec => []ChoiceIsDefinite
<1>1. PluginsInv => ChoiceIsDefinite
  <2> SUFFICES ASSUME PluginsInv, chosen.asked
               PROVE  ChoiceIsDefinite
    BY DEF ChoiceIsDefinite
  <2>1. registry \in Seq(Entry) /\ chosen.driver = BestMatch(registry, chosen.identity)
    BY DEF PluginsInv, PluginsTyped, AskedGetsBestMatch
  <2> DEFINE claims == {Score(registry[i], chosen.identity) : i \in DOMAIN registry}
             best == {i \in DOMAIN registry : Score(registry[i], chosen.identity) = Max(claims)}
             namers == {i \in DOMAIN registry : Names(registry[i], chosen.identity)}
  <2>2. /\ Cardinality(namers) = 1 => chosen.driver = registry[CHOOSE i \in namers : TRUE]
        /\ Cardinality(best) = 1 /\ Max(claims) > 0 => chosen.driver = registry[CHOOSE i \in best : TRUE]
        /\ Cardinality(namers) = 1 \/ (Cardinality(best) = 1 /\ Max(claims) > 0) \/ chosen.driver = NoDriver
    BY <2>1, BestMatchIsDefinite
  <2> HIDE DEF claims, best, namers
  <2>3. chosen.driver = CASE Cardinality(namers) = 1 -> registry[CHOOSE i \in namers : TRUE]
                          [] Cardinality(best) = 1 /\ Max(claims) > 0 -> registry[CHOOSE i \in best : TRUE]
                          [] OTHER -> NoDriver
    BY <2>2
  <2> QED BY <2>3 DEF claims, best, namers, ChoiceIsDefinite, Names
<1> QED BY <1>1, PluginsInvariant, PTL
=============================================================================
