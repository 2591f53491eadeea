---------------------------- MODULE PeakScanProofs ----------------------------
(***************************************************************************)
(* Proofs about a pass, from the plan to the verdict: for every span,      *)
(* point budget, bandwidth, table of bands, instrument, limit, correction  *)
(* and set of emissions, the segments tile the span, the sweeps miss no    *)
(* emission, stitching loses no reading, the critical peaks are the ones   *)
(* that get a dwell, a dwell reads what the scan did, and an emission      *)
(* above a limit that stands clear of the others makes the run fail.       *)
(*                                                                         *)
(* The first part is about data, as in the module PluginsProofs: sequences *)
(* that are folded and sets that are sorted.                               *)
(***************************************************************************)
EXTENDS PeakScan, FiniteSetTheorems, FunctionTheorems, WellFoundedInduction, TLAPS

\* A set of natural numbers that is not empty has a smallest element.
LEMMA SmallestExists ==
  ASSUME NEW T \in SUBSET Nat, T # {}
  PROVE  \E x \in T : \A y \in T : x <= y
<1> DEFINE R == OpToRel(<, Nat)
<1>1. IsWellFoundedOn(R, Nat)
  BY NatLessThanWellFounded
<1>2. \E x \in T : \A y \in T : ~(<<y, x>> \in R)
  <2> HIDE DEF R
  <2> QED BY <1>1, WFMin
<1>3. \A x, y \in T : ~(<<y, x>> \in R) => x <= y
  BY DEF OpToRel
<1> QED BY <1>2, <1>3

\* Induction, with the set of the numbers a property holds of in place of the property.
LEMMA SetInduction ==
  ASSUME NEW T, 0 \in T, \A n \in Nat : n \in T => n + 1 \in T
  PROVE  Nat \subseteq T
<1> SUFFICES ASSUME Nat \ T # {}
             PROVE  FALSE
  OBVIOUS
<1>1. PICK x \in Nat \ T : \A y \in Nat \ T : x <= y
  BY SmallestExists
<1>2. x # 0 /\ x - 1 \in Nat /\ x - 1 \in T
  BY <1>1
<1> QED BY <1>1, <1>2

\* h[k] is what k steps of F make of a.
Iterates(h, a, n, F) == h[0] = a /\ \A j \in 1..n : h[j] = F[j][h[j - 1]]

\* What is given step by step, up to n, exists.
LEMMA Recursion ==
  ASSUME NEW A, NEW a \in A, NEW n \in Nat, NEW F \in [1..n -> [A -> A]]
  PROVE  \E h \in [0..n -> A] : Iterates(h, a, n, F)
<1> DEFINE Steps(h, k) == h[0] = a /\ \A j \in 1..k : h[j] = F[j][h[j - 1]]
           T == {k \in Nat : k <= n => \E h \in [0..k -> A] : Steps(h, k)}
<1>1. 0 \in T
  <2> DEFINE h0 == [j \in 0..0 |-> a]
  <2>1. h0 \in [0..0 -> A] /\ Steps(h0, 0)
    OBVIOUS
  <2> QED BY <2>1
<1>2. ASSUME NEW k \in Nat, k \in T
      PROVE  k + 1 \in T
  <2> SUFFICES ASSUME k + 1 <= n
               PROVE  \E h \in [0..(k + 1) -> A] : Steps(h, k + 1)
    OBVIOUS
  <2>1. PICK h \in [0..k -> A] : Steps(h, k)
    BY <1>2
  <2> DEFINE g == [j \in 0..(k + 1) |-> IF j = k + 1 THEN F[k + 1][h[k]] ELSE h[j]]
  <2>2. h[k] \in A /\ F[k + 1][h[k]] \in A
    <3>1. h[k] \in A /\ F[k + 1] \in [A -> A]
      OBVIOUS
    <3> QED BY <3>1
  <2>3. g \in [0..(k + 1) -> A]
    BY <2>2
  <2>4. g[0] = a
    BY <2>1
  <2>5. ASSUME NEW j \in 1..(k + 1)
        PROVE  g[j] = F[j][g[j - 1]]
    <3>1. CASE j = k + 1
      <4>1. j - 1 = k /\ k \in 0..(k + 1) /\ k # k + 1
        BY <3>1
      <4>2. g[j] = F[k + 1][h[k]] /\ g[j - 1] = h[k]
        BY <3>1, <4>1
      <4> HIDE DEF g
      <4> QED BY <3>1, <4>2
    <3>2. CASE j # k + 1
      <4>1. j \in 1..k /\ j - 1 \in 0..k /\ g[j] = h[j] /\ g[j - 1] = h[j - 1]
        BY <3>2
      <4> QED BY <2>1, <4>1
    <3> QED BY <3>1, <3>2
  <2> QED BY <2>3, <2>4, <2>5
<1> HIDE DEF T
<1>3. n \in T
  BY <1>1, <1>2, SetInduction
<1> QED BY <1>3 DEF T, Iterates

\* The largest of the numbers up to n that are in a set.
LEMMA LargestExists ==
  ASSUME NEW n \in Nat, NEW t \in SUBSET (1..n), t # {}
  PROVE  /\ Max(t) \in t
         /\ \A y \in t : y <= Max(t)
<1> DEFINE U == {n - x : x \in t}
<1>1. U \in SUBSET Nat /\ U # {}
  <2>1. \A x \in t : n - x \in Nat
    OBVIOUS
  <2> QED BY <2>1
<1>2. PICK u \in U : \A v \in U : u <= v
  BY <1>1, SmallestExists
<1>3. PICK x \in t : u = n - x
  BY <1>2
<1>4. \A y \in t : x >= y
  <2> TAKE y \in t
  <2>1. n - y \in U /\ y \in Int /\ x \in Int
    BY <1>3
  <2> QED BY <1>2, <1>3, <2>1
<1>5. \E m \in t : \A y \in t : m >= y
  BY <1>4
<1>6. Max(t) \in t /\ \A y \in t : Max(t) >= y
  BY <1>5 DEF Max
<1> QED BY <1>6

\* g folds a sequence the way FoldLeft does, from its last element down.
Folded(g, F, base, s) ==
  g = [t \in SUBSET DOMAIN s |->
         IF t = {} THEN base ELSE F[g[t \ {Max(t)}]][s[Max(t)]]]

\* There is such a fold.
LEMMA FoldExists ==
  ASSUME NEW A, NEW B, NEW F \in [A -> [B -> A]], NEW base \in A, NEW s \in Seq(B)
  PROVE  \E g \in [SUBSET DOMAIN s -> A] : Folded(g, F, base, s)
<1> DEFINE n == Len(s)
           D == SUBSET (1..n)
           Maps == [D -> A]
           G == [j \in 1..n |-> [m \in Maps |->
                   [t \in D |-> IF j \in t THEN F[m[t \ {j}]][s[j]] ELSE m[t]]]]
           none == [t \in D |-> base]
<1>1. n \in Nat /\ DOMAIN s = 1..n /\ \A j \in 1..n : s[j] \in B
  OBVIOUS
<1> HIDE DEF n
<1>2. G \in [1..n -> [Maps -> Maps]]
  <2>1. ASSUME NEW j \in 1..n, NEW m \in Maps, NEW t \in D
        PROVE  (IF j \in t THEN F[m[t \ {j}]][s[j]] ELSE m[t]) \in A
    <3>1. t \ {j} \in D /\ m[t \ {j}] \in A /\ m[t] \in A
      OBVIOUS
    <3>2. F[m[t \ {j}]] \in [B -> A]
      BY <3>1
    <3> QED BY <3>1, <3>2, <1>1
  <2>2. ASSUME NEW j \in 1..n, NEW m \in Maps
        PROVE  [t \in D |-> IF j \in t THEN F[m[t \ {j}]][s[j]] ELSE m[t]] \in Maps
    BY <2>1
  <2> HIDE DEF Maps
  <2> QED BY <2>2
<1>3. none \in Maps
  OBVIOUS
<1>4. PICK h \in [0..n -> Maps] : Iterates(h, none, n, G)
  <2> HIDE DEF G, none, Maps
  <2>1. n \in Nat /\ none \in Maps /\ G \in [1..n -> [Maps -> Maps]]
    BY <1>1, <1>2, <1>3
  <2> QED BY <2>1, Recursion, Zenon
<1>5. ASSUME NEW j \in 1..n, NEW t \in D
      PROVE  h[j][t] = IF j \in t THEN F[h[j - 1][t \ {j}]][s[j]] ELSE h[j - 1][t]
  <2>1. j - 1 \in 0..n
    BY <1>1
  <2>2. h[j - 1] \in Maps
    <3> HIDE DEF Maps
    <3> QED BY <2>1
  <2>3. h[j] = [u \in D |-> IF j \in u THEN F[h[j - 1][u \ {j}]][s[j]] ELSE h[j - 1][u]]
    BY <1>4, <2>2 DEF Iterates
  <2> QED BY <2>3
<1>6. ASSUME NEW k \in 0..n, NEW t \in D, \A j \in t : j <= k
      PROVE  h[n][t] = h[k][t]
  <2> DEFINE T == {d \in Nat : k + d <= n => h[k + d][t] = h[k][t]}
  <2>1. 0 \in T
    BY <1>1
  <2>2. ASSUME NEW d \in Nat, d \in T
        PROVE  d + 1 \in T
    <3> SUFFICES ASSUME k + (d + 1) <= n
                 PROVE  h[k + (d + 1)][t] = h[k][t]
      OBVIOUS
    <3>1. k + (d + 1) \in 1..n /\ k + (d + 1) \notin t /\ (k + (d + 1)) - 1 = k + d /\ k + d <= n
      BY <1>1, <1>6
    <3>2. h[k + (d + 1)][t] = h[k + d][t]
      <4> DEFINE j == k + (d + 1)
      <4>1. j \in 1..n /\ j \notin t /\ j - 1 = k + d
        BY <3>1
      <4> HIDE DEF j
      <4>2. h[j][t] = h[j - 1][t]
        BY <4>1, <1>5
      <4> QED BY <4>1, <4>2 DEF j
    <3> QED BY <2>2, <3>1, <3>2
  <2> HIDE DEF T
  <2>3. n - k \in T
    <3>1. n - k \in Nat
      BY <1>1
    <3> QED BY <2>1, <2>2, <3>1, SetInduction
  <2>4. k + (n - k) = n /\ k + (n - k) <= n
    BY <1>1
  <2> QED BY <2>3, <2>4 DEF T
<1>7. h[n] \in Maps
  <2>1. n \in 0..n
    BY <1>1
  <2> HIDE DEF Maps
  <2> QED BY <2>1
<1>8. ASSUME NEW t \in D
      PROVE  h[n][t] = IF t = {} THEN base ELSE F[h[n][t \ {Max(t)}]][s[Max(t)]]
  <2>1. CASE t = {}
    <3>1. h[n][t] = h[0][t]
      BY <2>1, <1>6, <1>1
    <3> QED BY <3>1, <1>4, <2>1 DEF Iterates
  <2>2. CASE t # {}
    <3> DEFINE m == Max(t)
    <3>1. m \in t /\ m \in 1..n /\ \A y \in t : y <= m
      BY <2>2, <1>1, LargestExists
    <3> HIDE DEF m
    <3>2. h[n][t] = h[m][t]
      <4>1. m \in 0..n
        BY <3>1, <1>1
      <4> QED BY <3>1, <4>1, <1>6
    <3>3. h[m][t] = F[h[m - 1][t \ {m}]][s[m]]
      BY <3>1, <1>5
    <3>4. h[n][t \ {m}] = h[m - 1][t \ {m}]
      <4>1. \A j \in t \ {m} : j <= m - 1
        BY <3>1, <1>1
      <4>2. m - 1 \in 0..n /\ t \ {m} \in D
        BY <3>1, <1>1
      <4> QED BY <4>1, <4>2, <1>6
    <3> QED BY <2>2, <3>2, <3>3, <3>4 DEF m
  <2> QED BY <2>1, <2>2
<1>9. h[n] = [t \in D |-> IF t = {} THEN base ELSE F[h[n][t \ {Max(t)}]][s[Max(t)]]]
  BY <1>7, <1>8
<1> QED BY <1>7, <1>9, <1>1 DEF Folded

\* c is that fold, wherever what it is applied to is in A.
FoldsIn(c, A, F, base, s) ==
  /\ c[{}] = base
  /\ \A t \in SUBSET DOMAIN s :
       t # {} /\ c[t \ {Max(t)}] \in A => c[t] = F[c[t \ {Max(t)}]][s[Max(t)]]

\* ... and then it is reached one element at a time.
Reached(c, A, F, base, s) ==
  \E h \in [0..Len(s) -> A] :
    /\ h[0] = base /\ h[Len(s)] = c[DOMAIN s]
    /\ \A k \in 1..Len(s) : h[k] = F[h[k - 1]][s[k]]

\* Whatever is that fold is reached so, by induction over the steps.
LEMMA FoldSteps ==
  ASSUME NEW A, NEW B, NEW F \in [A -> [B -> A]], NEW base \in A, NEW s \in Seq(B), NEW c,
         FoldsIn(c, A, F, base, s)
  PROVE  Reached(c, A, F, base, s)
<1> DEFINE n == Len(s)
           h == [k \in 0..n |-> c[1..k]]
           T == {k \in Nat : k <= n => c[1..k] \in A}
<1>1. n \in Nat /\ DOMAIN s = 1..n /\ \A j \in 1..n : s[j] \in B
  OBVIOUS
<1> HIDE DEF n
<1>2. ASSUME NEW k \in 1..n
      PROVE  Max(1..k) = k /\ (1..k) \ {Max(1..k)} = 1..(k - 1)
  <2>1. k \in Nat /\ k \in 1..k
    BY <1>1
  <2>2. Max(1..k) \in 1..k /\ \A y \in 1..k : y <= Max(1..k)
    <3>1. 1..k \in SUBSET (1..k) /\ 1..k # {}
      BY <2>1
    <3> QED BY <2>1, <3>1, LargestExists
  <2> QED BY <2>1, <2>2
<1>3. ASSUME NEW k \in 1..n, c[1..(k - 1)] \in A
      PROVE  c[1..k] = F[c[1..(k - 1)]][s[k]] /\ c[1..k] \in A
  <2>1. 1..k \in SUBSET DOMAIN s /\ 1..k # {}
    <3>1. \A j \in 1..k : j \in 1..n
      BY <1>1
    <3>2. k \in 1..k
      BY <1>1
    <3> QED BY <1>1, <3>1, <3>2
  <2>2. c[1..k] = F[c[1..(k - 1)]][s[k]]
    BY <1>2, <1>3, <2>1 DEF FoldsIn
  <2>3. F[c[1..(k - 1)]] \in [B -> A]
    BY <1>3
  <2> QED BY <1>1, <2>2, <2>3
<1>4. 0 \in T
  <2>1. 1..0 = {}
    OBVIOUS
  <2> QED BY <2>1 DEF FoldsIn
<1>5. ASSUME NEW k \in Nat, k \in T
      PROVE  k + 1 \in T
  <2> SUFFICES ASSUME k + 1 <= n
               PROVE  c[1..(k + 1)] \in A
    OBVIOUS
  <2>1. k + 1 \in 1..n /\ (k + 1) - 1 = k /\ k <= n
    BY <1>1
  <2> QED BY <1>3, <1>5, <2>1
<1> HIDE DEF T
<1>6. Nat \subseteq T
  BY <1>4, <1>5, SetInduction
<1>7. \A k \in 0..n : c[1..k] \in A
  BY <1>1, <1>6 DEF T
<1>8. h \in [0..n -> A]
  BY <1>7
<1>9. h[0] = base /\ h[n] = c[DOMAIN s]
  <2>1. 1..0 = {}
    OBVIOUS
  <2> QED BY <1>1, <2>1 DEF FoldsIn
<1>10. ASSUME NEW k \in 1..n
       PROVE  h[k] = F[h[k - 1]][s[k]]
  <2>1. k - 1 \in 0..n /\ k \in 0..n
    BY <1>1
  <2> QED BY <2>1, <1>3, <1>7
<1> QED BY <1>8, <1>9, <1>10 DEF n, Reached

\* Ranked() lists the elements of a finite set in their order.
LEMMA RankedIsSorted ==
  ASSUME NEW S, IsFiniteSet(S), NEW R,
         \A x \in S : <<x, x>> \notin R,
         \A x, y, z \in S : <<x, y>> \in R /\ <<y, z>> \in R => <<x, z>> \in R,
         \A x, y \in S : x = y \/ <<x, y>> \in R \/ <<y, x>> \in R
  PROVE  /\ Cardinality(S) \in Nat
         /\ Ranked(S, R) \in [1..Cardinality(S) -> S]
         /\ \A x \in S : \E k \in 1..Cardinality(S) : Ranked(S, R)[k] = x
         /\ \A i, j \in 1..Cardinality(S) : i < j => <<Ranked(S, R)[i], Ranked(S, R)[j]>> \in R
<1> DEFINE n == Cardinality(S)
           below(x) == {y \in S : <<y, x>> \in R}
           rank == [x \in S |-> Cardinality(below(x))]
           f == [x \in S |-> rank[x] + 1]
           r == Ranked(S, R)
<1>1. n \in Nat
  BY FS_CardinalityType
<1>2. ASSUME NEW x \in S
      PROVE  IsFiniteSet(below(x)) /\ rank[x] = Cardinality(below(x)) /\ rank[x] \in Nat /\ rank[x] < n
  <2>1. below(x) \in SUBSET S /\ below(x) # S
    OBVIOUS
  <2>2. IsFiniteSet(below(x)) /\ Cardinality(below(x)) <= n /\ (n = Cardinality(below(x)) => S = below(x))
    BY <2>1, FS_Subset
  <2>3. Cardinality(below(x)) \in Nat
    BY <2>2, FS_CardinalityType
  <2>4. rank[x] = Cardinality(below(x))
    OBVIOUS
  <2> HIDE DEF below, rank
  <2> QED BY <1>1, <2>1, <2>2, <2>3, <2>4
<1>3. ASSUME NEW x \in S, NEW y \in S, <<x, y>> \in R
      PROVE  rank[x] < rank[y]
  <2>1. below(x) \in SUBSET below(y)
    BY <1>3
  <2>2. x \in below(y) /\ x \notin below(x)
    BY <1>3
  <2> HIDE DEF below, rank
  <2>3. Cardinality(below(x)) <= Cardinality(below(y))
        /\ (Cardinality(below(y)) = Cardinality(below(x)) => below(y) = below(x))
    BY <2>1, <1>2, FS_Subset
  <2>4. /\ rank[x] = Cardinality(below(x)) /\ rank[x] \in Nat
        /\ rank[y] = Cardinality(below(y)) /\ rank[y] \in Nat
    BY <1>2
  <2>5. rank[x] <= rank[y] /\ rank[x] # rank[y]
    BY <2>2, <2>3, <2>4
  <2> QED BY <2>4, <2>5
<1>4. \A x \in S : rank[x] \in Nat /\ rank[x] < n
  BY <1>2
<1>5. \A k \in 1..n : r[k] = CHOOSE x \in S : rank[x] = k - 1
  BY DEF Ranked
<1>6. r = [k \in 1..n |-> r[k]]
  <2> DEFINE g(k) == CHOOSE x \in S : Cardinality(below(x)) = k - 1
  <2>1. r = [k \in 1..n |-> g(k)]
    BY DEF Ranked
  <2> HIDE DEF g, n, r
  <2> QED BY <2>1
<1> HIDE DEF rank, r
<1>7. \A x, y \in S : rank[x] = rank[y] => x = y
  <2> SUFFICES ASSUME NEW x \in S, NEW y \in S, rank[x] = rank[y]
               PROVE  x = y
    OBVIOUS
  <2>1. ~(rank[x] < rank[y]) /\ ~(rank[y] < rank[x])
    BY <1>4
  <2> QED BY <1>3, <2>1
<1>8. f \in Injection(S, 1..n)
  <2>1. \A x \in S : rank[x] + 1 \in 1..n
    <3> HIDE DEF n
    <3> QED BY <1>1, <1>4
  <2>2. f \in [S -> 1..n]
    BY <2>1
  <2>3. \A x, y \in S : f[x] = f[y] => x = y
    BY <1>4, <1>7
  <2> QED BY <2>2, <2>3 DEF Injection, IsInjective
<1>9. f \in Surjection(S, 1..n)
  <2> HIDE DEF f
  <2>1. IsFiniteSet(1..n) /\ Cardinality(1..n) = n
    <3> HIDE DEF n
    <3>1. 0 \in Int /\ 1 \in Int /\ n \in Int /\ (1 > n => n = 0) /\ n - 1 + 1 = n
      BY <1>1
    <3> QED BY <3>1, FS_Interval
  <2> QED BY <1>8, <2>1, FS_Injection
<1> HIDE DEF n
<1>10. ASSUME NEW k \in 1..n
       PROVE  r[k] \in S /\ rank[r[k]] = k - 1
  <2>1. PICK x \in S : f[x] = k
    BY <1>9 DEF Surjection
  <2>2. rank[x] = k - 1
    BY <2>1, <1>1, <1>4
  <2> QED BY <2>2, <1>5
<1>11. r \in [1..n -> S]
  BY <1>10, <1>6
<1>12. ASSUME NEW x \in S
       PROVE  \E k \in 1..n : r[k] = x
  <2> DEFINE k == rank[x] + 1
  <2>1. k \in 1..n /\ k - 1 = rank[x]
    BY <1>1, <1>4
  <2> HIDE DEF k
  <2> QED BY <1>7, <1>10, <2>1
<1>13. ASSUME NEW i \in 1..n, NEW j \in 1..n, i < j
       PROVE  <<r[i], r[j]>> \in R
  <2>1. r[i] \in S /\ r[j] \in S /\ rank[r[i]] = i - 1 /\ rank[r[j]] = j - 1
    BY <1>10
  <2>2. rank[r[i]] < rank[r[j]] /\ i \in Int /\ j \in Int
    BY <1>1, <1>13, <2>1
  <2>3. r[i] # r[j]
    BY <2>1, <2>2
  <2>4. <<r[j], r[i]>> \notin R
    <3>1. ~(rank[r[j]] < rank[r[i]])
      BY <2>1, <2>2
    <3> QED BY <1>3, <2>1, <3>1
  <2> QED BY <2>1, <2>3, <2>4
<1> QED BY <1>1, <1>11, <1>12, <1>13 DEF n, r

\* Ascending() lists a finite set of integers in their order.
LEMMA AscendingIsSorted ==
  ASSUME NEW S \in SUBSET Int, IsFiniteSet(S)
  PROVE  /\ Cardinality(S) \in Nat
         /\ Ascending(S) \in [1..Cardinality(S) -> S]
         /\ \A x \in S : \E k \in 1..Cardinality(S) : Ascending(S)[k] = x
         /\ \A i, j \in 1..Cardinality(S) : i < j => Ascending(S)[i] < Ascending(S)[j]
<1> DEFINE R == {p \in S \X S : p[1] < p[2]}
           n == Cardinality(S)
           r == Ranked(S, R)
           before(x) == {y \in S : <<y, x>> \in R}
           smaller(x) == {y \in S : y < x}
<1>1. \A x, y \in S : <<x, y>> \in R <=> x < y
  OBVIOUS
<1>2. \A x, y \in S : x \in Int /\ y \in Int
  OBVIOUS
<1>3. Ascending(S) = r
  <2>1. \A x \in S : before(x) = smaller(x)
    BY <1>1
  <2> DEFINE a(k) == CHOOSE x \in S : Cardinality(smaller(x)) = k - 1
             b(k) == CHOOSE x \in S : Cardinality(before(x)) = k - 1
  <2>2. Ascending(S) = [k \in 1..n |-> a(k)] /\ r = [k \in 1..n |-> b(k)]
    BY DEF Ascending, Ranked
  <2>3. ASSUME NEW k \in 1..n
        PROVE  a(k) = b(k)
    <3> HIDE DEF before, smaller
    <3>1. \A x \in S : (Cardinality(smaller(x)) = k - 1) <=> (Cardinality(before(x)) = k - 1)
      BY <2>1
    <3> QED BY <3>1
  <2> HIDE DEF a, b, n, r
  <2> QED BY <2>2, <2>3
<1> HIDE DEF R
<1>4. \A x \in S : <<x, x>> \notin R
  BY <1>1, <1>2
<1>5. \A x, y, z \in S : <<x, y>> \in R /\ <<y, z>> \in R => <<x, z>> \in R
  BY <1>1, <1>2
<1>6. \A x, y \in S : x = y \/ <<x, y>> \in R \/ <<y, x>> \in R
  <2> SUFFICES ASSUME NEW x \in S, NEW y \in S, x # y
               PROVE  <<x, y>> \in R \/ <<y, x>> \in R
    OBVIOUS
  <2>1. x < y \/ y < x
    BY <1>2
  <2> QED BY <1>1, <2>1
<1> HIDE DEF r
<1>7. /\ Cardinality(S) \in Nat
      /\ Ranked(S, R) \in [1..Cardinality(S) -> S]
      /\ \A x \in S : \E k \in 1..Cardinality(S) : Ranked(S, R)[k] = x
      /\ \A i, j \in 1..Cardinality(S) : i < j => <<Ranked(S, R)[i], Ranked(S, R)[j]>> \in R
  BY <1>4, <1>5, <1>6, RankedIsSorted, Zenon
<1>8. \A i, j \in 1..n : i < j => r[i] < r[j]
  <2> SUFFICES ASSUME NEW i \in 1..n, NEW j \in 1..n, i < j
               PROVE  r[i] < r[j]
    OBVIOUS
  <2>1. r[i] \in S /\ r[j] \in S /\ <<r[i], r[j]>> \in R
    BY <1>7 DEF r
  <2> QED BY <1>1, <2>1
<1> QED BY <1>3, <1>7, <1>8 DEF r

\* A finite set of integers has a largest and a smallest element.
LEMMA ExtremesExist ==
  ASSUME NEW S \in SUBSET Int, IsFiniteSet(S), S # {}
  PROVE  /\ Max(S) \in S /\ \A y \in S : y <= Max(S)
         /\ Min(S) \in S /\ \A y \in S : Min(S) <= y
<1> DEFINE r == Ascending(S)
           n == Cardinality(S)
<1>1. /\ n \in Nat /\ r \in [1..n -> S]
      /\ \A x \in S : \E k \in 1..n : r[k] = x
      /\ \A i, j \in 1..n : i < j => r[i] < r[j]
  BY AscendingIsSorted
<1> HIDE DEF r, n
<1>2. \A x, y \in S : x \in Int /\ y \in Int
  OBVIOUS
<1>3. n \in Nat /\ 1 \in 1..n /\ n \in 1..n /\ \A i \in 1..n : r[i] \in S
  <2>1. PICK x \in S : TRUE
    OBVIOUS
  <2>2. PICK k \in 1..n : r[k] = x
    BY <1>1
  <2> QED BY <1>1, <2>2
<1>4. \A y \in S : r[n] >= y /\ r[1] <= y
  <2> TAKE y \in S
  <2>1. PICK k \in 1..n : r[k] = y
    BY <1>1
  <2>2. 1 <= k /\ k <= n
    BY <1>3
  <2>3. (k = n \/ r[k] < r[n]) /\ (k = 1 \/ r[1] < r[k])
    BY <1>1, <1>3, <2>2
  <2>4. r[n] \in Int /\ r[1] \in Int /\ y \in Int
    BY <1>2, <1>3
  <2> QED BY <2>1, <2>3, <2>4
<1>5. Max(S) \in S /\ \A y \in S : Max(S) >= y
  BY <1>3, <1>4 DEF Max
<1>6. Min(S) \in S /\ \A y \in S : Min(S) <= y
  BY <1>3, <1>4 DEF Min
<1> QED BY <1>2, <1>5, <1>6

-----------------------------------------------------------------------------
(* The plan.                                                               *)

\* Some band has a bandwidth for every frequency, and it is positive.
LEMMA MandatedIsPositive ==
  ASSUME NEW f \in Int
  PROVE  MandatedRbw(f) \in Nat \ {0}
<1> DEFINE above == {b \in 1..Len(Bands) : f < Bands[b].stop}
<1>1. \A b \in 1..Len(Bands) : Bands[b].rbw \in Nat \ {0}
  <2> DEFINE Band == [stop : Nat, rbw : Nat \ {0}]
  <2>1. Bands \in Seq(Band)
    BY BandsAssumption DEF BandsAssumption
  <2>2. \A b \in 1..Len(Bands) : Bands[b] \in Band
    <3> HIDE DEF Band
    <3> QED BY <2>1
  <2> QED BY <2>2
<1>2. Len(Bands) \in 1..Len(Bands)
  BY BandsAssumption DEF BandsAssumption
<1>3. CASE above = {}
  BY <1>1, <1>2, <1>3 DEF MandatedRbw
<1>4. CASE above # {}
  <2> DEFINE first == CHOOSE b \in above : \A c \in above : b <= c
  <2>1. above \in SUBSET Nat
    BY BandsAssumption DEF BandsAssumption
  <2>2. first \in above
    <3> HIDE DEF above
    <3>1. \E b \in above : \A c \in above : b <= c
      BY <1>4, <2>1, SmallestExists
    <3> QED BY <3>1
  <2>3. MandatedRbw(f) = Bands[first].rbw
    BY <1>4 DEF MandatedRbw
  <2> QED BY <1>1, <2>2, <2>3
<1> QED BY <1>3, <1>4

\* What the code says with a test of maximumWidth <= 0 never happens.
LEMMA MaximumWidthIsPositive ==
  ASSUME NEW c \in Configurations
  PROVE  MaximumWidth(c) \in Nat \ {0}
<1>1. /\ c.span.start \in Int /\ c.span.stop \in Int
      /\ c.points \in Int /\ c.rbw \in Int
  BY ConfigurationsAssumption DEF ConfigurationsAssumption
<1>2. Centre(c.span) \in Int
  BY <1>1 DEF Centre, Width
<1>3. Rbw(c.rbw, Centre(c.span)) \in Nat \ {0}
  BY <1>1, <1>2, MandatedIsPositive DEF Rbw
<1>4. Larger(c.points, 2) - 1 \in Nat \ {0}
  BY <1>1 DEF Larger
<1>5. \A a, b \in Nat \ {0} : a * b \in Nat \ {0}
  OBVIOUS
<1> QED BY <1>3, <1>4, <1>5 DEF MaximumWidth

\* What integer division is, by the only fact about it the proofs use.
LEMMA Division ==
  ASSUME NEW a \in Nat, NEW b \in Nat \ {0}
  PROVE  /\ a \div b \in Nat
         /\ b * (a \div b) <= a /\ a < b * (a \div b) + b
OBVIOUS

\* The parts a span is divided into, when it holds at least one hertz for each.
LEMMA PartsTile ==
  ASSUME NEW span, span.start \in Int, span.stop \in Int, IsValid(span),
         NEW count \in Nat \ {0}, count <= Width(span)
  PROVE  /\ Tiles(Parts(span, count), span)
         /\ Len(Parts(span, count)) = count
         /\ \A i \in 1..count :
              /\ Width(Parts(span, count)[i]) \in Nat
              /\ Width(Parts(span, count)[i]) < Width(span) \div count + count
<1> DEFINE w == Width(span)
           step == w \div count
           parts == Parts(span, count)
           part(i) == [start |-> span.start + (i - 1) * step,
                       stop |-> IF i = count THEN span.stop
                                ELSE span.start + i * step]
<1>1. /\ span.start \in Nat /\ span.stop \in Nat
      /\ w \in Nat /\ span.stop = span.start + w
  BY DEF IsValid, Width
<1>2. /\ step \in Nat /\ count * step <= w /\ w < count * step + count
  BY <1>1, Division
<1>3. step >= 1
  <2>1. SUFFICES ASSUME step = 0 PROVE FALSE
    BY <1>2
  <2> QED BY <2>1, <1>1, <1>2
<1>4. /\ parts = [i \in 1..count |-> part(i)]
      /\ Len(parts) = count
  BY DEF Parts
<1> HIDE DEF w, step
<1>5. ASSUME NEW i \in 1..count
      PROVE  /\ (i - 1) * step \in Nat /\ (i - 1) * step + step = i * step
             /\ i * step <= count * step
  <2>1. \A a, b, c \in Nat : a <= b => a * c <= b * c
    OBVIOUS
  <2>2. (i - 1) * step + step = i * step /\ (i - 1) * step \in Nat
    BY <1>2
  <2>3. i * step <= count * step
    BY <1>2, <2>1
  <2> QED BY <2>2, <2>3
<1>6. \A i \in 1..count :
        /\ part(i).start = span.start + (i - 1) * step
        /\ part(i).stop = IF i = count THEN span.start + w
                                       ELSE span.start + i * step
  BY <1>1
<1>7. \A i \in 1..count : parts[i] = part(i)
  BY <1>4
<1> HIDE DEF parts, part
<1>8. ASSUME NEW i \in 1..count
      PROVE  /\ IsValid(parts[i])
             /\ Width(parts[i]) \in Nat /\ Width(parts[i]) < step + count
  <2>1. parts[i].start = span.start + (i - 1) * step
    BY <1>6, <1>7
  <2>2. CASE i = count
    <3>1. parts[i].stop = span.start + w
      BY <1>6, <1>7, <2>2
    <3>2. (i - 1) * step + step = count * step /\ (i - 1) * step \in Nat
      BY <1>5, <2>2
    <3> HIDE <2>2
    <3> DEFINE x == (i - 1) * step
               y == count * step
    <3>3. /\ parts[i].start = span.start + x /\ x + step = y /\ x \in Nat
          /\ y <= w /\ w < y + count
      BY <2>1, <3>2, <1>2
    <3> HIDE DEF x, y
    <3> QED BY <3>1, <3>3, <1>1, <1>2, <1>3 DEF IsValid, Width
  <2>3. CASE i # count
    <3>1. parts[i].stop = span.start + i * step
      BY <1>6, <1>7, <2>3
    <3> DEFINE x == (i - 1) * step
               y == i * step
    <3>2. /\ parts[i].start = span.start + x /\ parts[i].stop = span.start + y
          /\ x + step = y /\ x \in Nat
      BY <2>1, <3>1, <1>5
    <3> HIDE DEF x, y
    <3> QED BY <3>2, <1>1, <1>2, <1>3 DEF IsValid, Width
  <2> QED BY <2>2, <2>3
<1>9. Tiles(parts, span)
  <2>1. Len(parts) = count
    BY <1>4 DEF parts
  <2>2. parts[1].start = span.start
    BY <1>1, <1>2, <1>6, <1>7
  <2>3. parts[count].stop = span.stop
    BY <1>1, <1>6, <1>7
  <2>4. \A i \in 1..(count - 1) : parts[i].stop = parts[i + 1].start
    BY <1>6, <1>7
  <2> QED BY <2>1, <2>2, <2>3, <2>4, <1>8 DEF Tiles
<1> QED BY <1>4, <1>8, <1>9 DEF parts, step, w

\* What planSegments() returns, for every configuration with a valid span.
THEOREM PlanIsSound ==
  ASSUME NEW c \in Configurations, IsValid(c.span)
  PROVE  LET plan == PlanSegments(c)
         IN  /\ Tiles(plan, c.span)
             /\ \A i \in 1..Len(plan) :
                  Width(plan[i]) < MaximumWidth(c) + Len(plan)
<1> DEFINE plan == PlanSegments(c)
           w == Width(c.span)
           max == MaximumWidth(c)
           count == SegmentCount(c)
<1>1. /\ c.span.start \in Int /\ c.span.stop \in Int
      /\ w \in Nat \ {0}
  BY ConfigurationsAssumption DEF ConfigurationsAssumption, IsValid, Width
<1>2. max \in Nat \ {0}
  BY MaximumWidthIsPositive
<1>3. CASE w <= max
  <2>1. plan = <<c.span>>
    BY <1>3 DEF PlanSegments
  <2> QED BY <2>1, <1>1, <1>2, <1>3 DEF Tiles
<1>4. CASE w > max
  <2>1. plan = Parts(c.span, count)
    BY <1>1, <1>2, <1>4 DEF PlanSegments
  <2>2. /\ count \in Nat /\ max * count <= w + max - 1
        /\ w + max - 1 < max * count + max
    BY <1>1, <1>2, Division DEF SegmentCount
  <2> HIDE DEF count, w, max
  <2>3. count # 0
    BY <2>2, <1>1, <1>2
  <2>4. count <= w
    <3>1. SUFFICES ASSUME count >= w + 1 PROVE FALSE
      BY <1>1, <2>2
    <3>2. max * count >= max * (w + 1)
      BY <3>1, <2>2, <1>1, <1>2
    <3>3. max * (w + 1) >= w + max
      BY <1>1, <1>2
    <3> QED BY <2>2, <3>2, <3>3, <1>1, <1>2
  <2>5. w \div count <= max
    <3> DEFINE q == w \div count
    <3>1. q \in Nat /\ count * q <= w
      BY <2>2, <2>3, <1>1, Division
    <3> HIDE DEF q
    <3>2. SUFFICES ASSUME q >= max + 1 PROVE FALSE
      BY <3>1, <1>2 DEF q
    <3>3. count * q >= count * (max + 1)
      BY <3>1, <3>2, <2>2, <1>2
    <3>4. count * (max + 1) = max * count + count
      BY <2>2, <1>2
    <3> QED BY <3>1, <3>3, <3>4, <2>2, <2>3, <1>1, <1>2
  <2>6. /\ Tiles(plan, c.span) /\ Len(plan) = count
        /\ \A i \in 1..count : /\ Width(plan[i]) \in Nat
                              /\ Width(plan[i]) < w \div count + count
    BY <1>1, <2>1, <2>2, <2>3, <2>4, PartsTile DEF w
  <2>7. w \div count \in Nat
    BY <1>1, <2>2, <2>3, Division
  <2>8. \A i \in 1..count : Width(plan[i]) < max + count
    BY <2>2, <2>5, <2>6, <2>7, <1>2
  <2> QED BY <2>6, <2>8 DEF max
<1> QED BY <1>1, <1>2, <1>3, <1>4

-----------------------------------------------------------------------------
(* The invariant of a pass: once planned, the segments are those of the    *)
(* plan, of a configuration that does not change and whose span is valid.  *)

PlanInv ==
  /\ config \in Configurations
  /\ Planned => IsValid(config.span) /\ segments = PlanSegments(config)

\* The segments are the plan of the configuration in every reachable state.
LEMMA PlanInvariant == Spec => []PlanInv
<1>1. Init => PlanInv
  BY DEF Init, PlanInv, Planned
<1>2. PlanInv /\ [Next]_vars => PlanInv'
  <2>1. SUFFICES ASSUME PlanInv, [Next]_vars PROVE PlanInv'
    OBVIOUS
  <2>2. CASE RefuseRun
    BY <2>1, <2>2 DEF RefuseRun, PlanInv, Planned, given
  <2>3. CASE PlanScan
    BY <2>1, <2>3 DEF PlanScan, PlanInv, Planned, given, ConfigurationValid
  <2>4. CASE SweepSegment
    BY <2>1, <2>4 DEF SweepSegment, PlanInv, Planned, given
  <2>5. CASE SweepRefused
    BY <2>1, <2>5 DEF SweepRefused, PlanInv, Planned, given
  <2>6. CASE Analyse
    BY <2>1, <2>6 DEF Analyse, PlanInv, Planned, given
  <2>7. CASE VerifyPeak
    BY <2>1, <2>7 DEF VerifyPeak, PlanInv, Planned, given
  <2>8. CASE VerifyRefused
    BY <2>1, <2>8 DEF VerifyRefused, PlanInv, Planned, given
  <2>9. CASE UNCHANGED vars
    BY <2>1, <2>9 DEF vars, PlanInv, Planned, given
  <2> QED BY <2>1, <2>2, <2>3, <2>4, <2>5, <2>6, <2>7, <2>8, <2>9 DEF Next
<1> QED BY <1>1, <1>2, PTL DEF Spec

\* The sweeps of every scan cover its span once, without a gap.
THEOREM ScanCoversSpan == Spec => []SegmentsTile
<1>1. PlanInv => SegmentsTile
  BY PlanIsSound DEF PlanInv, SegmentsTile
<1> QED BY <1>1, PlanInvariant, PTL

\* No segment of any scan exceeds the bin budget by a hertz per segment.
THEOREM SegmentsKeepBudget == Spec => []SegmentsNarrow
<1>1. PlanInv => SegmentsNarrow
  BY PlanIsSound DEF PlanInv, SegmentsNarrow
<1> QED BY <1>1, PlanInvariant, PTL

-----------------------------------------------------------------------------
(* The samples of a sweep.                                                 *)

\* A factor that is positive can be left out of a comparison.
LEMMA CancelFactor ==
  ASSUME NEW d \in Nat \ {0}, NEW x \in Int, NEW y \in Int, d * x < d * y
  PROVE  x < y
<1> SUFFICES ASSUME y <= x PROVE FALSE
  OBVIOUS
<1>1. x - y \in Nat
  OBVIOUS
<1>2. \A k \in Nat : d * k >= 0
  OBVIOUS
<1>3. d * (x - y) = d * x - d * y
  OBVIOUS
<1> QED BY <1>1, <1>2, <1>3

\* A quotient is what its remainder says.
LEMMA QuotientIs ==
  ASSUME NEW a \in Nat, NEW d \in Nat \ {0}, NEW x \in Int, d * x <= a, a < d * x + d
  PROVE  a \div d = x
<1> DEFINE q == a \div d
<1>1. q \in Nat /\ d * q <= a /\ a < d * q + d
  BY Division
<1> HIDE DEF q
<1>2. d * (q + 1) = d * q + d /\ d * (x + 1) = d * x + d
  BY <1>1
<1>3. d * x < d * (q + 1) /\ d * q < d * (x + 1)
  <2>1. d * x \in Int /\ d * q \in Int
    BY <1>1
  <2> HIDE DEF q
  <2> QED BY <1>1, <1>2, <2>1
<1>4. x < q + 1 /\ q < x + 1
  BY <1>1, <1>3, CancelFactor
<1> QED BY <1>1, <1>4 DEF q

\* A quotient grows no faster than what is divided.
LEMMA QuotientGrows ==
  ASSUME NEW a \in Nat, NEW b \in Nat, NEW d \in Nat \ {0}, NEW r \in Int, b <= a + d * r
  PROVE  b \div d <= a \div d + r
<1> DEFINE p == a \div d
           q == b \div d
<1>1. p \in Nat /\ d * p <= a /\ a < d * p + d
  BY Division
<1>2. q \in Nat /\ d * q <= b
  BY Division
<1> HIDE DEF p, q
<1>3. d * (p + r + 1) = d * p + d * r + d
  BY <1>1
<1>4. d * q < d * (p + r + 1)
  <2>1. d * p \in Int /\ d * q \in Int /\ d * r \in Int
    BY <1>1, <1>2
  <2> QED BY <1>1, <1>2, <1>3, <2>1
<1>5. q < p + r + 1
  BY <1>1, <1>2, <1>4, CancelFactor
<1> QED BY <1>1, <1>2, <1>5 DEF p, q

-----------------------------------------------------------------------------
(* Where the samples of a sweep lie.                                       *)

\* A span a sweep can be asked for.
Span(span) == span.start \in Int /\ span.stop \in Int /\ Width(span) \in Nat

\* The samples of a sweep run from one end of its span to the other, in steps as
\* wide as the span and the number of samples make them.
LEMMA SamplesInOrder ==
  ASSUME NEW span, Span(span), NEW points \in Nat, points >= 2
  PROVE  /\ FrequencyAt(span, points, 1) = span.start
         /\ FrequencyAt(span, points, points) = span.stop
         /\ \A i \in 1..points : FrequencyAt(span, points, i) \in Int
         /\ \A i, j \in 1..points : i <= j =>
              FrequencyAt(span, points, i) <= FrequencyAt(span, points, j)
         /\ \A r \in Nat : Width(span) <= (points - 1) * r =>
              \A i \in 1..(points - 1) :
                FrequencyAt(span, points, i + 1) - FrequencyAt(span, points, i) <= r
<1> DEFINE w == Width(span)
           q == points - 1
           num(i) == 2 * (i - 1) * w + q
           R(i) == num(i) \div (2 * q)
           F(i) == FrequencyAt(span, points, i)
<1>1. w \in Nat /\ q \in Nat \ {0} /\ 2 * q \in Nat \ {0} /\ span.start \in Int /\ span.stop = span.start + w
  BY DEF Span, Width
<1>2. \A i \in 1..points : F(i) = span.start + R(i)
  <2> TAKE i \in 1..points
  <2>1. 2 * (i - 1) * Width(span) + points - 1 = num(i)
    <3> DEFINE y == 2 * (i - 1) * w
    <3>1. y \in Int
      BY <1>1
    <3> HIDE DEF y
    <3> QED BY <3>1 DEF y
  <2> QED BY <2>1 DEF FrequencyAt
<1> HIDE DEF F, w
<1>3. \A i \in 1..points : num(i) \in Nat /\ num(i) = 2 * ((i - 1) * w) + q
  <2> TAKE i \in 1..points
  <2>1. (i - 1) * w \in Nat /\ 2 * (i - 1) * w = 2 * ((i - 1) * w)
    BY <1>1
  <2> QED BY <1>1, <2>1
<1>4. \A i, j \in 1..points : i <= j => num(i) <= num(j)
  <2> SUFFICES ASSUME NEW i \in 1..points, NEW j \in 1..points, i <= j
               PROVE  num(i) <= num(j)
    OBVIOUS
  <2>1. \A a, b, c \in Nat : a <= b => a * c <= b * c
    OBVIOUS
  <2>2. (i - 1) * w <= (j - 1) * w
    BY <1>1, <2>1
  <2>3. (i - 1) * w \in Int /\ (j - 1) * w \in Int
    BY <1>1
  <2> HIDE DEF num
  <2> QED BY <1>1, <1>3, <2>2, <2>3
<1>5. R(1) = 0
  <2>1. num(1) = q
    BY <1>1
  <2>2. 2 * q * 0 = 0
    BY <1>1
  <2> QED BY <1>1, <1>3, <2>1, <2>2, QuotientIs
<1>6. R(points) = w
  <2>1. num(points) = 2 * (q * w) + q
    BY <1>1, <1>3
  <2>2. 2 * q * w = 2 * (q * w) /\ q * w \in Int
    BY <1>1
  <2> HIDE DEF num
  <2>3. 2 * q * w <= num(points) /\ num(points) < 2 * q * w + 2 * q
    <3> HIDE DEF q
    <3> QED BY <1>1, <2>1, <2>2
  <2>4. num(points) \in Nat
    BY <1>3
  <2> HIDE DEF q
  <2> QED BY <1>1, <2>3, <2>4, QuotientIs
<1> HIDE DEF num
<1>7. \A i \in 1..points : R(i) \in Nat
  <2> HIDE DEF q
  <2> QED BY <1>1, <1>3, Division
<1>8. \A i, j \in 1..points : i <= j => R(i) <= R(j)
  <2> SUFFICES ASSUME NEW i \in 1..points, NEW j \in 1..points, i <= j
               PROVE  R(i) <= R(j)
    OBVIOUS
  <2>1. num(j) \in Nat /\ num(i) \in Nat
    BY <1>3
  <2>2. R(i) <= R(j) + 0
    <3>1. num(i) <= num(j) + 2 * q * 0
      BY <1>1, <1>4, <2>1
    <3> HIDE DEF q
    <3> QED BY <1>1, <2>1, <3>1, QuotientGrows
  <2> QED BY <1>7, <2>2
<1>9. ASSUME NEW r \in Nat, w <= q * r, NEW i \in 1..(points - 1)
      PROVE  R(i + 1) <= R(i) + r
  <2>1. i \in 1..points /\ i + 1 \in 1..points /\ num(i) \in Nat /\ num(i + 1) \in Nat
    BY <1>3
  <2>2. num(i + 1) = num(i) + 2 * w
    <3>1. num(i) = 2 * ((i - 1) * w) + q /\ num(i + 1) = 2 * ((i + 1 - 1) * w) + q
      BY <1>3, <2>1
    <3>2. (i + 1 - 1) * w = (i - 1) * w + w
      BY <1>1
    <3>3. (i - 1) * w \in Int
      BY <1>1
    <3> QED BY <1>1, <3>1, <3>2, <3>3
  <2>3. num(i + 1) <= num(i) + 2 * q * r
    <3>1. 2 * q * r = 2 * (q * r) /\ q * r \in Int
      BY <1>1
    <3> HIDE DEF q
    <3> QED BY <1>1, <1>9, <2>1, <2>2, <3>1
  <2> HIDE DEF q
  <2> QED BY <1>1, <2>1, <2>3, QuotientGrows
<1> HIDE DEF R
<1>10. F(1) = span.start /\ F(points) = span.stop
  BY <1>1, <1>2, <1>5, <1>6
<1>11. \A i \in 1..points : F(i) \in Int
  BY <1>1, <1>2, <1>7
<1>12. \A i, j \in 1..points : i <= j => F(i) <= F(j)
  BY <1>1, <1>2, <1>7, <1>8
<1>13. \A r \in Nat : w <= q * r => \A i \in 1..(points - 1) : F(i + 1) - F(i) <= r
  <2> SUFFICES ASSUME NEW r \in Nat, w <= q * r, NEW i \in 1..(points - 1)
               PROVE  F(i + 1) - F(i) <= r
    OBVIOUS
  <2>1. i \in 1..points /\ i + 1 \in 1..points
    OBVIOUS
  <2>2. R(i + 1) <= R(i) + r
    BY <1>9
  <2>3. R(i) \in Int /\ R(i + 1) \in Int
    BY <1>7, <2>1
  <2> QED BY <1>1, <1>2, <2>1, <2>2, <2>3
<1> QED BY <1>10, <1>11, <1>12, <1>13 DEF F, w

\* The samples of any sweep an instrument takes are in order and in its span.
LEMMA SamplesInSpan ==
  ASSUME NEW span, Span(span), NEW points \in Int
  PROVE  /\ \A i \in 1..points :
              /\ FrequencyAt(span, points, i) \in Int
              /\ span.start <= FrequencyAt(span, points, i)
              /\ FrequencyAt(span, points, i) <= span.stop
         /\ \A i, j \in 1..points : i <= j =>
              FrequencyAt(span, points, i) <= FrequencyAt(span, points, j)
<1> DEFINE F(i) == FrequencyAt(span, points, i)
<1>1. span.start \in Int /\ span.stop \in Int /\ span.start <= span.stop
  BY DEF Span, Width
<1>2. CASE points < 2
  <2>1. \A i \in 1..points : F(i) = span.start
    BY <1>2 DEF FrequencyAt
  <2> HIDE DEF F
  <2>2. \A i \in 1..points : F(i) \in Int /\ span.start <= F(i) /\ F(i) <= span.stop
    BY <1>1, <2>1
  <2>3. \A i, j \in 1..points : i <= j => F(i) <= F(j)
    BY <1>1, <2>1
  <2> QED BY <2>2, <2>3 DEF F
<1>3. CASE points >= 2
  <2>1. points \in Nat
    BY <1>3
  <2>2. /\ F(1) = span.start /\ F(points) = span.stop
        /\ \A i \in 1..points : F(i) \in Int
        /\ \A i, j \in 1..points : i <= j => F(i) <= F(j)
    BY <1>3, <2>1, SamplesInOrder
  <2>3. 1 \in 1..points /\ points \in 1..points
    BY <1>3
  <2> HIDE DEF F
  <2>4. \A i \in 1..points : span.start <= F(i) /\ F(i) <= span.stop
    BY <2>2, <2>3
  <2> QED BY <2>2, <2>4 DEF F
<1> QED BY <1>2, <1>3

\* A sweep that resolves its span has a sample at each of its ends, and leaves no
\* more than its bandwidth between the samples around a frequency.
LEMMA SweepCovers ==
  ASSUME NEW params, Span(params.span), params.points \in Int, params.rbw \in Nat \ {0},
         Resolves(params)
  PROVE  /\ 1 \in 1..params.points /\ params.points \in 1..params.points
         /\ FrequencyAt(params.span, params.points, 1) = params.span.start
         /\ FrequencyAt(params.span, params.points, params.points) = params.span.stop
         /\ \A x \in params.span.start..params.span.stop : \E i, j \in 1..params.points :
              /\ FrequencyAt(params.span, params.points, i) <= x
              /\ x <= FrequencyAt(params.span, params.points, j)
              /\ FrequencyAt(params.span, params.points, j)
                   - FrequencyAt(params.span, params.points, i) <= params.rbw
<1> DEFINE span == params.span
           n == params.points
           r == params.rbw
           w == Width(span)
           F(i) == FrequencyAt(span, n, i)
<1>1. /\ n \in Int /\ r \in Nat \ {0} /\ w \in Nat /\ w <= (n - 1) * r
      /\ span.start \in Int /\ span.stop = span.start + w
  BY DEF Span, Width, Resolves
<1>2. n >= 1
  <2> SUFFICES ASSUME n <= 0 PROVE FALSE
    BY <1>1
  <2>1. \A a \in Nat : a * r >= 0
    BY <1>1
  <2>2. (1 - n) \in Nat /\ (1 - n) # 0
    BY <1>1
  <2>3. (1 - n) * r > 0
    BY <1>1, <2>2
  <2>4. (n - 1) * r = 0 - ((1 - n) * r)
    <3>1. \A a, b \in Int : (a - 1) * b = 0 - ((1 - a) * b)
      OBVIOUS
    <3> HIDE DEF n, r
    <3> QED BY <1>1, <3>1
  <2> QED BY <1>1, <2>3, <2>4
<1>3. CASE n = 1
  <2>1. w = 0
    <3>1. (n - 1) * r = 0
      BY <1>1, <1>3
    <3> QED BY <1>1, <3>1
  <2>2. F(1) = span.start
    BY <1>3 DEF FrequencyAt
  <2>3. span.stop = span.start
    BY <1>1, <2>1
  <2>4. \A x \in span.start..span.stop : F(1) <= x /\ x <= F(1) /\ F(1) - F(1) <= r
    <3> HIDE DEF F
    <3> QED BY <1>1, <2>2, <2>3
  <2>5. 1 \in 1..n
    BY <1>3
  <2> QED BY <1>3, <2>2, <2>3, <2>4, <2>5
<1>4. CASE n >= 2
  <2>1. n \in Nat
    BY <1>1, <1>4
  <2>2. /\ F(1) = span.start /\ F(n) = span.stop
        /\ \A i \in 1..n : F(i) \in Int
        /\ \A i, j \in 1..n : i <= j => F(i) <= F(j)
        /\ \A i \in 1..(n - 1) : F(i + 1) - F(i) <= r
    BY <1>1, <1>4, <2>1, SamplesInOrder
  <2> HIDE DEF F, n, r, w, span
  <2>3. ASSUME NEW x \in span.start..span.stop
        PROVE  \E i, j \in 1..n : F(i) <= x /\ x <= F(j) /\ F(j) - F(i) <= r
    <3> DEFINE t == {i \in 1..n : F(i) <= x}
               i == Max(t)
    <3>1. 1 \in 1..n /\ n \in 1..n /\ x \in Int /\ span.start <= x /\ x <= span.stop
      BY <1>1, <1>4, <2>1
    <3>2. t \in SUBSET (1..n) /\ t # {}
      BY <2>2, <3>1
    <3>3. i \in t /\ \A y \in t : y <= i
      BY <2>1, <3>2, LargestExists
    <3> HIDE DEF i
    <3>4. i \in 1..n /\ F(i) <= x /\ F(i) \in Int
      BY <2>2, <3>3
    <3>5. CASE i = n
      <4>1. x <= F(i) /\ F(i) - F(i) <= r
        BY <1>1, <2>2, <3>1, <3>4, <3>5
      <4> QED BY <3>4, <4>1
    <3>6. CASE i # n
      <4>1. i \in 1..(n - 1) /\ i + 1 \in 1..n /\ i < i + 1
        BY <2>1, <3>4, <3>6
      <4>2. i + 1 \notin t
        BY <3>3, <4>1
      <4>3. x <= F(i + 1)
        BY <2>2, <3>1, <4>1, <4>2
      <4> QED BY <2>2, <3>4, <4>1, <4>3
    <3> QED BY <3>5, <3>6
  <2> QED BY <2>2, <2>3, <1>4, <2>1 DEF F, n, r, span
<1> QED BY <1>1, <1>2, <1>3, <1>4

-----------------------------------------------------------------------------
(* Limits and corrections are numbers, and a margin shrinks as much as the *)
(* level grows.                                                            *)

\* A sequence of breakpoints whose levels can be interpolated.
Interpolable(points) ==
  /\ points \in Breakpoints
  /\ \A i, j \in 1..Len(points) : \A f \in points[i].freq..points[j].freq : Log[f] \in Int

\* The limits and corrections of a configuration can be interpolated.
LEMMA PointsInterpolable ==
  ASSUME NEW c \in Configurations
  PROVE  /\ c.limits \in Seq(Breakpoints)
         /\ \A i \in 1..Len(c.limits) : Interpolable(c.limits[i])
         /\ \A i \in 1..Len(c.corrections) :
              c.corrections[i].sign \in Int /\ Interpolable(c.corrections[i].points)
<1>1. /\ c.limits \in Seq(Breakpoints)
      /\ c.corrections \in Seq([enabled : BOOLEAN, sign : {-1, 1}, points : Breakpoints])
  BY ConfigurationsAssumption DEF ConfigurationsAssumption
<1>2. /\ \A i \in 1..Len(c.limits) : c.limits[i] \in Breakpoints
      /\ \A i \in 1..Len(c.corrections) :
           c.corrections[i].sign \in {-1, 1} /\ c.corrections[i].points \in Breakpoints
  <2>1. \A i \in 1..Len(c.limits) : c.limits[i] \in Breakpoints
    BY <1>1
  <2>2. \A i \in 1..Len(c.corrections) :
          c.corrections[i] \in [enabled : BOOLEAN, sign : {-1, 1}, points : Breakpoints]
    <3> DEFINE R == [enabled : BOOLEAN, sign : {-1, 1}, points : Breakpoints]
               s == c.corrections
    <3>1. s \in Seq(R)
      BY <1>1
    <3> HIDE DEF R, s
    <3>2. \A i \in 1..Len(s) : s[i] \in R
      BY <3>1
    <3> QED BY <3>2 DEF R, s
  <2> QED BY <2>1, <2>2
<1>3. \A points \in {c.limits[i] : i \in 1..Len(c.limits)}
                      \cup {c.corrections[i].points : i \in 1..Len(c.corrections)} :
        \A i, j \in 1..Len(points) :
          \A f \in points[i].freq..points[j].freq : Log[f] \in Int
  BY LogAssumption DEF LogAssumption
<1>4. \A i \in 1..Len(c.limits) : Interpolable(c.limits[i])
  BY <1>2, <1>3 DEF Interpolable
<1>5. \A i \in 1..Len(c.corrections) : Interpolable(c.corrections[i].points)
  BY <1>2, <1>3 DEF Interpolable
<1> QED BY <1>1, <1>2, <1>4, <1>5

\* Between two breakpoints there is a level at every frequency.
LEMMA InterpolatedIsNumber ==
  ASSUME NEW points, Interpolable(points),
         NEW i \in 1..Len(points), NEW j \in 1..Len(points), NEW f \in Int,
         points[i].freq <= f, f <= points[j].freq
  PROVE  Interpolate(points[i], points[j], f) \in Int
<1> DEFINE P == [freq : Int, level : Int, kind : {"log", "linear", "step"}]
<1>1. points[i] \in P /\ points[j] \in P
  <2>1. points \in Seq(P)
    BY DEF Interpolable, Breakpoints
  <2> HIDE DEF P
  <2> QED BY <2>1
<1>2. /\ points[i].freq \in Int /\ points[i].level \in Int
      /\ points[j].freq \in Int /\ points[j].level \in Int
  BY <1>1
<1>3. \A k, l \in 1..Len(points) : \A x \in points[k].freq..points[l].freq : Log[x] \in Int
  BY DEF Interpolable
<1>4. /\ points[i].freq \in points[i].freq..points[i].freq
      /\ points[j].freq \in points[j].freq..points[j].freq
      /\ f \in points[i].freq..points[j].freq
  BY <1>2
<1>5. Log[points[i].freq] \in Int /\ Log[points[j].freq] \in Int /\ Log[f] \in Int
  BY <1>3, <1>4
<1> DEFINE at(x) == IF points[i].kind = "log" THEN Log[x] ELSE x
           span == at(points[j].freq) - at(points[i].freq)
           rise == (at(f) - at(points[i].freq)) * (points[j].level - points[i].level)
<1>6. at(points[i].freq) \in Int /\ at(points[j].freq) \in Int /\ at(f) \in Int
  BY <1>2, <1>5
<1>7. span \in Int /\ rise \in Int
  <2> DEFINE run == at(f) - at(points[i].freq)
             up == points[j].level - points[i].level
  <2> HIDE DEF at
  <2>1. \A a, b \in Int : a * b \in Int
    OBVIOUS
  <2>2. span \in Int /\ run \in Int
    BY <1>6
  <2>3. up \in Int
    BY <1>2
  <2> HIDE DEF run, up
  <2>4. run * up \in Int
    BY <2>1, <2>2, <2>3
  <2> QED BY <2>2, <2>4 DEF run, up
<1>8. Interpolate(points[i], points[j], f)
        = IF points[i].kind = "step" \/ span <= 0 THEN points[i].level
          ELSE points[i].level + rise \div span
  BY DEF Interpolate
<1> HIDE DEF at, span, rise
<1>9. span > 0 => rise \div span \in Int
  BY <1>7
<1> QED BY <1>2, <1>7, <1>8, <1>9

\* The last breakpoint at or below a frequency the line covers.
LEMMA LowerPointIs ==
  ASSUME NEW line, Interpolable(line), NEW f \in Int, Covers(line, f)
  PROVE  /\ LowerPoint(line, f) \in 1..Len(line)
         /\ line[LowerPoint(line, f)].freq <= f
         /\ \A j \in 1..Len(line) : line[j].freq <= f => j <= LowerPoint(line, f)
<1> DEFINE n == Len(line)
           t == {i \in 1..n : line[i].freq <= f}
           m == Max(t)
<1>1. n \in Nat /\ line # <<>> /\ line[1].freq <= f
  BY DEF Interpolable, Breakpoints, Covers
<1>2. 1 \in 1..n
  BY <1>1 DEF Interpolable, Breakpoints
<1> HIDE DEF n
<1>3. m \in t /\ \A y \in t : y <= m
  BY <1>1, <1>2, LargestExists
<1>4. \E i \in 1..n : line[i].freq <= f /\ \A j \in 1..n : line[j].freq <= f => j <= i
  <2> HIDE DEF m
  <2> QED BY <1>3
<1> DEFINE p == LowerPoint(line, f)
<1>5. p = CHOOSE i \in 1..n : line[i].freq <= f /\ \A j \in 1..n : line[j].freq <= f => j <= i
  BY DEF LowerPoint, n
<1> HIDE DEF p
<1>6. p \in 1..n /\ line[p].freq <= f /\ \A j \in 1..n : line[j].freq <= f => j <= p
  BY <1>4, <1>5
<1> QED BY <1>6 DEF n, p

\* A limit is a number wherever its line covers the frequency, ...
LEMMA LimitIsNumber ==
  ASSUME NEW line, Interpolable(line), NEW f \in Int, Covers(line, f)
  PROVE  LimitAt(line, f) \in Int
<1> DEFINE p == LowerPoint(line, f)
           n == Len(line)
<1>1. p \in 1..n /\ line[p].freq <= f /\ \A j \in 1..n : line[j].freq <= f => j <= p
  BY LowerPointIs
<1>2. LimitAt(line, f) = IF p = n THEN line[p].level ELSE Interpolate(line[p], line[p + 1], f)
  BY DEF LimitAt
<1> HIDE DEF p
<1>3. \A i \in 1..n : line[i].freq \in Int /\ line[i].level \in Int
  <2> DEFINE P == [freq : Int, level : Int, kind : {"log", "linear", "step"}]
  <2>1. line \in Seq(P)
    BY DEF Interpolable, Breakpoints
  <2>2. \A i \in 1..n : line[i] \in P
    <3> HIDE DEF P
    <3> QED BY <2>1
  <2> QED BY <2>2
<1>4. n \in Nat
  BY DEF Interpolable, Breakpoints
<1>5. CASE p = n
  BY <1>1, <1>2, <1>3, <1>5
<1>6. CASE p # n
  <2>1. p + 1 \in 1..n /\ ~(p + 1 <= p)
    BY <1>1, <1>4, <1>6
  <2>2. ~(line[p + 1].freq <= f)
    BY <1>1, <2>1
  <2>3. f <= line[p + 1].freq
    BY <1>3, <2>1, <2>2
  <2>4. Interpolate(line[p], line[p + 1], f) \in Int
    BY <1>1, <2>1, <2>3, InterpolatedIsNumber
  <2> QED BY <1>2, <1>6, <2>4
<1> QED BY <1>5, <1>6

\* ... and a correction is one everywhere.
LEMMA CorrectionIsNumber ==
  ASSUME NEW table, table.sign \in Int, Interpolable(table.points), NEW f \in Int
  PROVE  CorrectionAt(table, f) \in Int
<1> DEFINE points == table.points
           n == Len(points)
           IsUpper(i) == points[i].freq >= f /\ \A j \in 1..(i - 1) : points[j].freq < f
           upper == CHOOSE i \in 1..n : IsUpper(i)
           value == IF f <= points[1].freq THEN points[1].level
                    ELSE IF f >= points[n].freq THEN points[n].level
                    ELSE Interpolate(points[upper - 1], points[upper], f)
<1>1. CorrectionAt(table, f) = IF ~table.enabled \/ points = <<>> THEN 0
                               ELSE table.sign * value
  BY DEF CorrectionAt
<1>2. n \in Nat /\ \A i \in 1..n : points[i].freq \in Int /\ points[i].level \in Int
  <2> DEFINE P == [freq : Int, level : Int, kind : {"log", "linear", "step"}]
  <2>1. points \in Seq(P)
    BY DEF Interpolable, Breakpoints
  <2> HIDE DEF points
  <2>2. \A i \in 1..n : points[i] \in P
    <3> HIDE DEF P
    <3> QED BY <2>1
  <2> QED BY <2>1, <2>2
<1>3. CASE points = <<>>
  BY <1>1, <1>3
<1>4. CASE points # <<>>
  <2>1. 1 \in 1..n /\ n \in 1..n
    BY <1>4, <1>2 DEF Interpolable, Breakpoints
  <2>2. ASSUME f > points[1].freq, f < points[n].freq
        PROVE  Interpolate(points[upper - 1], points[upper], f) \in Int
    <3> DEFINE t == {i \in 1..n : points[i].freq >= f}
    <3>1. t \in SUBSET Nat /\ t # {}
      BY <1>2, <2>1, <2>2
    <3>2. PICK m \in t : \A y \in t : m <= y
      BY <3>1, SmallestExists
    <3>3. m \in 1..n /\ IsUpper(m)
      BY <1>2, <3>2
    <3> HIDE DEF points, n, IsUpper
    <3>4. upper \in 1..n /\ IsUpper(upper)
      BY <3>3
    <3> HIDE DEF upper
    <3>5. upper # 1
      BY <1>2, <2>2, <2>1, <3>4 DEF IsUpper
    <3>6. upper - 1 \in 1..n /\ upper - 1 \in 1..(upper - 1)
      BY <1>2, <3>4, <3>5
    <3>7. points[upper - 1].freq <= f /\ f <= points[upper].freq
      BY <1>2, <3>4, <3>6 DEF IsUpper
    <3>8. Interpolable(points)
      BY DEF points
    <3> QED BY <3>4, <3>6, <3>7, <3>8, InterpolatedIsNumber DEF n
  <2> HIDE DEF upper, n, points
  <2>3. value \in Int
    BY <1>2, <2>1, <2>2
  <2> HIDE DEF value
  <2>4. \A a, b \in Int : a * b \in Int
    OBVIOUS
  <2> QED BY <1>1, <2>3, <2>4
<1> QED BY <1>3, <1>4

\* The sum of numbers, folded over a sequence.
LEMMA CorrectionsAdd ==
  ASSUME NEW f \in Int, NEW B, \A t \in B : CorrectionAt(t, f) \in Int, NEW s \in Seq(B)
  PROVE  TotalCorrection(s, f) \in Int
<1> DEFINE A == Int
           n == Len(s)
           op(sum, table) == sum + CorrectionAt(table, f)
           F == [a \in A |-> [t \in B |-> op(a, t)]]
           G(g) == [t \in SUBSET DOMAIN s |->
                      IF t = {} THEN 0 ELSE op(g[t \ {Max(t)}], s[Max(t)])]
           c == CHOOSE g : g = G(g)
<1>1. TotalCorrection(s, f) = c[DOMAIN s]
  BY DEF TotalCorrection, FoldLeft, MapThenFoldSet
<1>2. n \in Nat /\ DOMAIN s = 1..n /\ Len(s) = n /\ \A i \in 1..n : s[i] \in B
  OBVIOUS
<1>3. 0 \in A /\ \A a \in A, t \in B : op(a, t) \in A
  OBVIOUS
<1> HIDE DEF A, op, n
<1>4. F \in [A -> [B -> A]] /\ \A a \in A, t \in B : F[a][t] = op(a, t)
  BY <1>3
<1> HIDE DEF F
<1>5. \A t \in SUBSET DOMAIN s : t # {} => Max(t) \in DOMAIN s /\ s[Max(t)] \in B
  BY <1>2, LargestExists
<1>6. \E g : g = G(g)
  <2>1. PICK g \in [SUBSET DOMAIN s -> A] : Folded(g, F, 0, s)
    BY <1>3, <1>4, FoldExists
  <2>2. \A t \in SUBSET DOMAIN s : t # {} =>
          F[g[t \ {Max(t)}]][s[Max(t)]] = op(g[t \ {Max(t)}], s[Max(t)])
    <3>1. \A t \in SUBSET DOMAIN s : g[t \ {Max(t)}] \in A
      OBVIOUS
    <3> QED BY <3>1, <1>4, <1>5
  <2>3. g = G(g)
    BY <2>1, <2>2 DEF Folded
  <2> QED BY <2>3
<1>7. c = G(c)
  <2> HIDE DEF G
  <2> QED BY <1>6
<1> HIDE DEF c
<1>8. c[{}] = 0
  BY <1>7
<1>9. \A t \in SUBSET DOMAIN s :
        t # {} /\ c[t \ {Max(t)}] \in A => c[t] = F[c[t \ {Max(t)}]][s[Max(t)]]
  <2> SUFFICES ASSUME NEW t \in SUBSET DOMAIN s, t # {}, c[t \ {Max(t)}] \in A
               PROVE  c[t] = F[c[t \ {Max(t)}]][s[Max(t)]]
    OBVIOUS
  <2>1. c[t] = op(c[t \ {Max(t)}], s[Max(t)])
    BY <1>7
  <2> QED BY <2>1, <1>4, <1>5
<1> HIDE DEF G
<1>10. Reached(c, A, F, 0, s)
  <2>1. F \in [A -> [B -> A]]
    BY <1>4
  <2>2. FoldsIn(c, A, F, 0, s)
    BY <1>8, <1>9 DEF FoldsIn
  <2> QED BY <1>3, <2>1, <2>2, FoldSteps
<1>11. PICK h \in [0..n -> A] : h[n] = c[DOMAIN s]
  BY <1>2, <1>10 DEF Reached
<1>12. n \in 0..n
  BY <1>2
<1>13. h[n] \in A
  BY <1>12
<1> QED BY <1>1, <1>11, <1>13 DEF A

\* The corrections of a configuration add up to a number.
LEMMA TotalCorrectionIsNumber ==
  ASSUME NEW c \in Configurations, NEW f \in Int
  PROVE  TotalCorrection(c.corrections, f) \in Int
<1> DEFINE s == c.corrections
           B == {s[i] : i \in 1..Len(s)}
<1>1. \A t \in B : CorrectionAt(t, f) \in Int
  BY PointsInterpolable, CorrectionIsNumber
<1>2. s \in Seq([enabled : BOOLEAN, sign : {-1, 1}, points : Breakpoints])
  BY ConfigurationsAssumption DEF ConfigurationsAssumption
<1>3. s \in Seq(B)
  <2> HIDE DEF s
  <2> QED BY <1>2
<1> HIDE DEF B
<1>4. TotalCorrection(s, f) \in Int
  BY <1>1, <1>3, CorrectionsAdd
<1> QED BY <1>4

\* What a function makes of a finite set is finite.
LEMMA ImageIsFinite ==
  ASSUME NEW S, IsFiniteSet(S), NEW f
  PROVE  IsFiniteSet({f[x] : x \in S})
<1> DEFINE T == {f[x] : x \in S}
           g == [x \in S |-> f[x]]
<1>1. g \in Surjection(S, T)
  <2>1. g \in [S -> T]
    OBVIOUS
  <2>2. \A t \in T : \E x \in S : g[x] = t
    OBVIOUS
  <2> QED BY <2>1, <2>2 DEF Surjection
<1> HIDE DEF g, T
<1>2. IsFiniteSet(T)
  BY <1>1, FS_Surjection
<1> QED BY <1>2 DEF T

\* The margin is that to one of the lines that cover the frequency, and no other leaves less.
LEMMA MarginIs ==
  ASSUME NEW c \in Configurations, NEW f \in Int, NEW level \in Int
  PROVE  /\ Margin(c.limits, f, level) \in Int
         /\ (\A i \in 1..Len(c.limits) : ~Covers(c.limits[i], f)) =>
              Margin(c.limits, f, level) = Infinite
         /\ (\E i \in 1..Len(c.limits) : Covers(c.limits[i], f)) =>
              \E i \in 1..Len(c.limits) :
                Covers(c.limits[i], f) /\ Margin(c.limits, f, level) = LimitAt(c.limits[i], f) - level
         /\ \A i \in 1..Len(c.limits) : Covers(c.limits[i], f) =>
              Margin(c.limits, f, level) <= LimitAt(c.limits[i], f) - level
<1> DEFINE lines == c.limits
           n == Len(lines)
           covering == {j \in 1..n : Covers(lines[j], f)}
           margins == {LimitAt(lines[i], f) - level : i \in covering}
           m == Margin(lines, f, level)
<1>1. m = IF margins = {} THEN Infinite ELSE Min(margins)
  BY DEF Margin
<1>2. lines \in Seq(Breakpoints) /\ \A i \in 1..n : Interpolable(lines[i])
  BY PointsInterpolable
<1>3. n \in Nat
  BY <1>2
<1>4. \A i \in covering : LimitAt(lines[i], f) \in Int
  BY <1>2, LimitIsNumber
<1>5. margins \in SUBSET Int
  BY <1>4
<1> HIDE DEF m, n, lines
<1>6. IsFiniteSet(covering)
  <2>1. IsFiniteSet(1..n)
    BY <1>3, FS_Interval
  <2> QED BY <2>1, FS_Subset
<1>7. IsFiniteSet(margins)
  <2> DEFINE room == [i \in covering |-> LimitAt(lines[i], f) - level]
  <2>1. margins = {room[i] : i \in covering}
    OBVIOUS
  <2> HIDE DEF covering, room
  <2> QED BY <1>6, <2>1, ImageIsFinite
<1>8. margins # {} => Min(margins) \in margins /\ \A y \in margins : Min(margins) <= y
  <2> HIDE DEF margins
  <2> QED BY <1>5, <1>7, ExtremesExist
<1>9. CASE covering = {}
  <2>1. margins = {}
    BY <1>9
  <2>2. m = Infinite /\ m \in Int
    BY <1>1, <2>1, LevelsAssumption DEF LevelsAssumption
  <2>3. \A i \in 1..n : ~Covers(lines[i], f)
    BY <1>9
  <2> QED BY <2>2, <2>3 DEF m, n, lines
<1>10. CASE covering # {}
  <2>1. margins # {}
    BY <1>10
  <2>2. m \in margins /\ \A y \in margins : m <= y
    <3> HIDE DEF margins
    <3> QED BY <1>1, <1>8, <2>1
  <2>3. m \in Int
    BY <1>5, <2>2
  <2>4. PICK i \in covering : m = LimitAt(lines[i], f) - level
    BY <2>2
  <2>5. i \in 1..n /\ Covers(lines[i], f)
    OBVIOUS
  <2>6. \A k \in 1..n : Covers(lines[k], f) => m <= LimitAt(lines[k], f) - level
    BY <2>2
  <2> HIDE DEF margins, covering
  <2> QED BY <2>3, <2>4, <2>5, <2>6 DEF m, n, lines
<1> QED BY <1>9, <1>10

-----------------------------------------------------------------------------
(* Stitching: traces one after the other are one trace, and of the samples *)
(* at one frequency the highest is left.                                   *)

Sample == [freq : Int, level : Int]

\* The samples of the traces t follow each other in the order of their frequencies.
InRow(t) ==
  /\ \A k \in 1..Len(t) : \A i, j \in 1..Len(t[k]) :
       i <= j => t[k][i].freq <= t[k][j].freq
  /\ \A k, l \in 1..Len(t) : \A i \in 1..Len(t[k]), j \in 1..Len(t[l]) :
       k < l => t[k][i].freq <= t[l][j].freq

\* x holds the samples of the first k traces of t, in their order.
Joins(x, t, k) ==
  /\ x \in Seq(Sample)
  /\ \A m \in 1..Len(x) : \E l \in 1..k : \E i \in 1..Len(t[l]) : x[m] = t[l][i]
  /\ \A l \in 1..k : \A i \in 1..Len(t[l]) : \E m \in 1..Len(x) : x[m] = t[l][i]
  /\ \A m, n \in 1..Len(x) : m <= n => x[m].freq <= x[n].freq

\* One more trace is joined; ...
LEMMA OneMoreTrace ==
  ASSUME NEW t \in Seq(Seq(Sample)), InRow(t), NEW k \in Nat, k + 1 \in 1..Len(t),
         NEW x, Joins(x, t, k)
  PROVE  Joins(x \o t[k + 1], t, k + 1)
<1> DEFINE y == t[k + 1]
           z == x \o y
           a == Len(x)
           b == Len(y)
<1>1. y \in Seq(Sample) /\ x \in Seq(Sample)
  BY DEF Joins
<1>2. \A i, j \in 1..b : i <= j => y[i].freq <= y[j].freq
  BY DEF InRow
<1>3. \A l \in 1..k : \A i \in 1..Len(t[l]), j \in 1..b : t[l][i].freq <= y[j].freq
  <2>1. \A l \in 1..k : l \in 1..Len(t) /\ l < k + 1
    OBVIOUS
  <2> QED BY <2>1 DEF InRow
<1> HIDE DEF y
<1>4. /\ z \in Seq(Sample) /\ Len(z) = a + b /\ a \in Nat /\ b \in Nat
      /\ \A m \in 1..a : z[m] = x[m]
      /\ \A m \in 1..b : z[a + m] = y[m]
  BY <1>1
<1> HIDE DEF z
<1>5. \A m \in (a + 1)..(a + b) : m - a \in 1..b /\ z[m] = y[m - a]
  <2> TAKE m \in (a + 1)..(a + b)
  <2>1. m - a \in 1..b /\ a + (m - a) = m
    BY <1>4
  <2> QED BY <1>4, <2>1
<1>6. \A m \in 1..Len(z) : m \in 1..a \/ m \in (a + 1)..(a + b)
  BY <1>4
<1>7. 1..(k + 1) = (1..k) \cup {k + 1}
  OBVIOUS
<1> HIDE DEF a, b
<1>8. \A m \in 1..Len(z) : \E l \in 1..(k + 1) : \E i \in 1..Len(t[l]) : z[m] = t[l][i]
  <2> TAKE m \in 1..Len(z)
  <2>1. CASE m \in 1..a
    <3>1. \E l \in 1..k : \E i \in 1..Len(t[l]) : x[m] = t[l][i]
      BY <2>1 DEF Joins, a
    <3> QED BY <1>4, <1>7, <2>1, <3>1
  <2>2. CASE m \in (a + 1)..(a + b)
    <3>1. m - a \in 1..Len(t[k + 1]) /\ z[m] = t[k + 1][m - a]
      BY <1>5, <2>2 DEF b, y
    <3> QED BY <1>7, <3>1
  <2> QED BY <1>6, <2>1, <2>2
<1>9. \A l \in 1..(k + 1) : \A i \in 1..Len(t[l]) : \E m \in 1..Len(z) : z[m] = t[l][i]
  <2> TAKE l \in 1..(k + 1)
  <2> TAKE i \in 1..Len(t[l])
  <2>1. CASE l \in 1..k
    <3>1. PICK m \in 1..a : x[m] = t[l][i]
      BY <2>1 DEF Joins, a
    <3>2. m \in 1..Len(z) /\ z[m] = x[m]
      BY <1>4
    <3> QED BY <3>1, <3>2
  <2>2. CASE l = k + 1
    <3>1. i \in 1..b /\ y[i] = t[l][i]
      BY <2>2 DEF b, y
    <3>2. a + i \in 1..Len(z) /\ z[a + i] = y[i]
      BY <1>4, <3>1
    <3> QED BY <3>1, <3>2
  <2> QED BY <1>7, <2>1, <2>2
<1>10. \A m, n \in 1..Len(z) : m <= n => z[m].freq <= z[n].freq
  <2> SUFFICES ASSUME NEW m \in 1..Len(z), NEW n \in 1..Len(z), m <= n
               PROVE  z[m].freq <= z[n].freq
    OBVIOUS
  <2>1. CASE n \in 1..a
    <3>1. m \in 1..a
      BY <1>4, <2>1
    <3>2. x[m].freq <= x[n].freq
      BY <2>1, <3>1 DEF Joins, a
    <3> QED BY <1>4, <2>1, <3>1, <3>2
  <2>2. CASE m \in 1..a /\ n \in (a + 1)..(a + b)
    <3>1. PICK l \in 1..k : \E i \in 1..Len(t[l]) : x[m] = t[l][i]
      BY <2>2 DEF Joins, a
    <3>2. PICK i \in 1..Len(t[l]) : x[m] = t[l][i]
      BY <3>1
    <3>3. n - a \in 1..b /\ z[n] = y[n - a] /\ z[m] = x[m]
      BY <1>4, <1>5, <2>2
    <3> QED BY <1>3, <3>2, <3>3
  <2>3. CASE m \in (a + 1)..(a + b) /\ n \in (a + 1)..(a + b)
    <3>1. m - a \in 1..b /\ z[m] = y[m - a] /\ n - a \in 1..b /\ z[n] = y[n - a]
      BY <1>5, <2>3
    <3>2. m - a <= n - a
      BY <1>4, <2>3
    <3> QED BY <1>2, <3>1, <3>2 DEF b
  <2> QED BY <1>6, <2>1, <2>2, <2>3
<1> QED BY <1>4, <1>8, <1>9, <1>10 DEF Joins, z, y

\* FlattenSeq() joins all of them.
LEMMA FlattenJoins ==
  ASSUME NEW t \in Seq(Seq(Sample)), InRow(t)
  PROVE  Joins(FlattenSeq(t), t, Len(t))
<1> DEFINE n == Len(t)
           A == Seq(Sample)
           G(g) == [i \in 1..n |-> IF i = 1 THEN t[i] ELSE g[i - 1] \o t[i]]
           flat == CHOOSE g : g = G(g)
           F == [j \in 1..n |-> [x \in A |-> IF j = 1 THEN t[j] ELSE x \o t[j]]]
<1>1. FlattenSeq(t) = IF n = 0 THEN t ELSE flat[n]
  BY DEF FlattenSeq
<1>2. n \in Nat /\ (\A j \in 1..n : t[j] \in A) /\ <<>> \in A
  OBVIOUS
<1>3. CASE n = 0
  <2>1. t = <<>>
    BY <1>3
  <2>2. Joins(t, t, 0)
    BY <2>1 DEF Joins
  <2> QED BY <1>1, <1>3, <2>2
<1>4. CASE n # 0
  <2>1. F \in [1..n -> [A -> A]]
    <3>1. ASSUME NEW x \in Seq(Sample), NEW y \in Seq(Sample)
          PROVE  x \o y \in Seq(Sample)
      OBVIOUS
    <3>2. \A j \in 1..n, x \in A : (IF j = 1 THEN t[j] ELSE x \o t[j]) \in A
      BY <1>2, <3>1
    <3> HIDE DEF A
    <3>3. \A j \in 1..n : [x \in A |-> IF j = 1 THEN t[j] ELSE x \o t[j]] \in [A -> A]
      BY <3>2
    <3> QED BY <3>3
  <2>2. PICK h \in [0..n -> A] : Iterates(h, <<>>, n, F)
    <3> HIDE DEF F, A, n
    <3> QED BY <1>2, <2>1, Recursion, Zenon
  <2> DEFINE g == [i \in 1..n |-> h[i]]
  <2>3. \A j \in 1..n : h[j] = IF j = 1 THEN t[j] ELSE h[j - 1] \o t[j]
    <3> TAKE j \in 1..n
    <3>1. j - 1 \in 0..n
      OBVIOUS
    <3>2. h[j] = F[j][h[j - 1]] /\ h[j - 1] \in A
      BY <2>2, <3>1 DEF Iterates
    <3> HIDE DEF A
    <3> QED BY <3>2
  <2>4. g = G(g)
    <3>1. \A j \in 1..n : j # 1 => j - 1 \in 1..n
      OBVIOUS
    <3> QED BY <2>3, <3>1
  <2>5. flat = G(flat)
    <3>1. \E f : f = G(f)
      BY <2>4
    <3> HIDE DEF G, g
    <3> QED BY <3>1
  <2> HIDE DEF flat
  <2>6. /\ flat[1] = t[1]
        /\ \A k \in Nat \ {0} : k + 1 <= n => flat[k + 1] = flat[k] \o t[k + 1]
    <3>1. 1 \in 1..n
      BY <1>2, <1>4
    <3>2. \A k \in Nat \ {0} : k + 1 <= n => k + 1 \in 1..n /\ k + 1 # 1 /\ (k + 1) - 1 = k
      BY <1>2
    <3> QED BY <2>5, <3>1, <3>2
  <2> DEFINE T == {k \in Nat : k + 1 <= n => Joins(flat[k + 1], t, k + 1)}
  <2>7. 0 \in T
    <3>1. \A l \in 1..1 : l = 1
      OBVIOUS
    <3>2. Joins(<<>>, t, 0)
      BY DEF Joins
    <3>3. 0 + 1 \in 1..n /\ 0 \in Nat /\ <<>> \o t[1] = t[1]
      BY <1>2, <1>4
    <3>4. Joins(<<>> \o t[0 + 1], t, 0 + 1)
      BY <3>2, <3>3, OneMoreTrace DEF n
    <3> QED BY <2>6, <3>3, <3>4
  <2>8. ASSUME NEW k \in Nat, k \in T
        PROVE  k + 1 \in T
    <3> SUFFICES ASSUME k + 1 + 1 <= n
                 PROVE  Joins(flat[k + 1 + 1], t, k + 1 + 1)
      OBVIOUS
    <3> DEFINE m == k + 1
    <3>1. m \in Nat \ {0} /\ m + 1 \in 1..n /\ m <= n /\ m + 1 <= n
      BY <1>2
    <3>2. Joins(flat[m], t, m)
      BY <2>8, <3>1
    <3> HIDE DEF m
    <3>3. flat[m + 1] = flat[m] \o t[m + 1]
      BY <2>6, <3>1
    <3>4. Joins(flat[m + 1], t, m + 1)
      BY <3>1, <3>2, <3>3, OneMoreTrace DEF n
    <3> QED BY <3>4 DEF m
  <2> HIDE DEF T
  <2>9. n - 1 \in T
    <3>1. n - 1 \in Nat
      BY <1>2, <1>4
    <3> QED BY <2>7, <2>8, <3>1, SetInduction
  <2>10. (n - 1) + 1 = n /\ n <= n
    BY <1>2
  <2>11. Joins(flat[n], t, n)
    BY <2>9, <2>10 DEF T
  <2> QED BY <1>1, <1>4, <2>11
<1> QED BY <1>3, <1>4

\* The level left at the head of a run of samples at one frequency.
LEMMA HighestIsShared ==
  ASSUME NEW x \in Seq(Sample), NEW k \in 1..Len(x)
  PROVE  /\ HighestShared(x, k) \in Int
         /\ \E m \in k..Len(x) : x[m] = [freq |-> x[k].freq, level |-> HighestShared(x, k)]
         /\ \A m \in k..Len(x) :
              (\A j \in k..m : x[j].freq = x[k].freq) => x[m].level <= HighestShared(x, k)
<1> DEFINE n == Len(x)
           run == {m \in k..n : \A j \in k..m : x[j].freq = x[k].freq}
           levels == {x[m].level : m \in run}
           h == HighestShared(x, k)
<1>1. h = Max(levels)
  BY DEF HighestShared
<1>2. n \in Nat /\ \A m \in 1..n : x[m] \in Sample /\ x[m].freq \in Int /\ x[m].level \in Int
                                   /\ x[m] = [freq |-> x[m].freq, level |-> x[m].level]
  <2>1. n \in Nat /\ \A m \in 1..n : x[m] \in Sample
    OBVIOUS
  <2> QED BY <2>1 DEF Sample
<1>3. k \in Int /\ \A m \in k..n : m \in 1..n /\ k \in k..m /\ m \in k..m
  BY <1>2
<1> HIDE DEF h, n
<1>4. k \in run
  <2>1. k \in k..n
    BY <1>2 DEF n
  <2>2. \A j \in k..k : j = k
    BY <1>3
  <2> QED BY <2>1, <2>2
<1>5. levels \in SUBSET Int /\ levels # {}
  BY <1>2, <1>3, <1>4
<1>6. IsFiniteSet(run)
  <2>1. IsFiniteSet(k..n)
    BY <1>2, <1>3, FS_Interval
  <2> QED BY <2>1, FS_Subset
<1>7. IsFiniteSet(levels)
  <2> DEFINE level == [m \in run |-> x[m].level]
  <2>1. levels = {level[m] : m \in run}
    OBVIOUS
  <2> HIDE DEF run, level
  <2> QED BY <1>6, <2>1, ImageIsFinite
<1>8. h \in levels /\ \A y \in levels : y <= h
  <2> HIDE DEF levels
  <2> QED BY <1>1, <1>5, <1>7, ExtremesExist
<1>9. PICK m \in run : h = x[m].level
  BY <1>8
<1>10. m \in k..n /\ x[m].freq = x[k].freq
  BY <1>3
<1>11. x[m] = [freq |-> x[k].freq, level |-> h]
  BY <1>2, <1>3, <1>9, <1>10
<1>12. \A i \in k..n : (\A j \in k..i : x[j].freq = x[k].freq) => x[i].level <= h
  BY <1>8
<1>13. h \in Int
  BY <1>5, <1>8
<1> QED BY <1>10, <1>11, <1>12, <1>13 DEF h, n

\* The trace y has the samples of x, one for each frequency, and none of them lower.
KeepsWorst(y, x) ==
  /\ y \in Seq(Sample)
  /\ \A i, j \in 1..Len(y) : i < j => y[i].freq < y[j].freq
  /\ \A i \in 1..Len(y) : \E m \in 1..Len(x) : y[i] = x[m]
  /\ \A m \in 1..Len(x) : \E i \in 1..Len(y) : y[i].freq = x[m].freq /\ x[m].level <= y[i].level

\* The first samples of each row of equal frequencies, with the highest reading of the row.
LEMMA HeadsKeepWorst ==
  ASSUME NEW x \in Seq(Sample), \A m, n \in 1..Len(x) : m <= n => x[m].freq <= x[n].freq
  PROVE  LET kept == Ascending({k \in 1..Len(x) : k = 1 \/ x[k - 1].freq # x[k].freq})
         IN  KeepsWorst([i \in 1..Len(kept) |->
                           [freq |-> x[kept[i]].freq, level |-> HighestShared(x, kept[i])]], x)
<1> DEFINE n == Len(x)
           K == {k \in 1..n : k = 1 \/ x[k - 1].freq # x[k].freq}
           c == Cardinality(K)
           kept == Ascending(K)
           y == [i \in 1..Len(kept) |->
                   [freq |-> x[kept[i]].freq, level |-> HighestShared(x, kept[i])]]
<1>1. n \in Nat /\ \A m \in 1..n : x[m].freq \in Int /\ x[m].level \in Int
  <2>1. n \in Nat /\ \A m \in 1..n : x[m] \in Sample
    OBVIOUS
  <2> QED BY <2>1 DEF Sample
<1>2. K \in SUBSET Int /\ IsFiniteSet(K)
  <2>1. K \in SUBSET (1..n)
    OBVIOUS
  <2>2. IsFiniteSet(1..n)
    BY <1>1, FS_Interval
  <2> HIDE DEF K, n
  <2>3. K \in SUBSET Int
    BY <1>1, <2>1
  <2>4. IsFiniteSet(K)
    BY <2>1, <2>2, FS_Subset
  <2> QED BY <2>3, <2>4
<1>3. /\ c \in Nat /\ kept \in [1..c -> K]
      /\ \A k \in K : \E i \in 1..c : kept[i] = k
      /\ \A i, j \in 1..c : i < j => kept[i] < kept[j]
  <2> HIDE DEF K
  <2> QED BY <1>2, AscendingIsSorted
<1> HIDE DEF kept, c
<1>4. kept \in Seq(K) /\ Len(kept) = c /\ \A i \in 1..c : kept[i] \in K /\ kept[i] \in 1..n
  <2>1. kept \in Seq(K) /\ Len(kept) = c /\ \A i \in 1..c : kept[i] \in K
    <3> HIDE DEF K
    <3> QED BY <1>3
  <2> QED BY <2>1
<1>5. /\ Len(y) = c
      /\ \A i \in 1..c : y[i].freq = x[kept[i]].freq
                         /\ y[i].level = HighestShared(x, kept[i])
                         /\ y[i] = [freq |-> x[kept[i]].freq,
                                    level |-> HighestShared(x, kept[i])]
  BY <1>3, <1>4
<1>6. y \in Seq(Sample)
  <2>1. \A i \in 1..c : [freq |-> x[kept[i]].freq, level |-> HighestShared(x, kept[i])] \in Sample
    <3>1. \A i \in 1..c : x[kept[i]].freq \in Int /\ HighestShared(x, kept[i]) \in Int
      BY <1>1, <1>4, HighestIsShared DEF n
    <3> QED BY <3>1 DEF Sample
  <2> QED BY <1>3, <1>4, <2>1
<1> HIDE DEF y
<1>7. ASSUME NEW i \in 1..c, NEW j \in 1..c, i < j
      PROVE  y[i].freq < y[j].freq
  <2> DEFINE a == kept[i]
             b == kept[j]
  <2>1. a \in 1..n /\ b \in 1..n /\ b \in K /\ a < b
    BY <1>3, <1>4, <1>7
  <2> HIDE DEF a, b
  <2>2. b - 1 \in 1..n /\ a <= b - 1 /\ b - 1 <= b /\ x[b - 1].freq # x[b].freq
    BY <1>1, <2>1
  <2>3. x[a].freq <= x[b - 1].freq /\ x[b - 1].freq <= x[b].freq
    BY <2>1, <2>2 DEF n
  <2>4. x[a].freq < x[b].freq
    BY <1>1, <2>1, <2>2, <2>3
  <2> QED BY <1>5, <2>4 DEF a, b
<1>8. ASSUME NEW i \in 1..c
      PROVE  \E m \in 1..n : y[i] = x[m]
  <2>1. \E m \in kept[i]..n : x[m] = [freq |-> x[kept[i]].freq,
                                      level |-> HighestShared(x, kept[i])]
    BY <1>4, HighestIsShared DEF n
  <2>2. \A m \in kept[i]..n : m \in 1..n
    BY <1>1, <1>4
  <2> QED BY <1>5, <2>1, <2>2
<1>9. ASSUME NEW m \in 1..n
      PROVE  \E i \in 1..c : y[i].freq = x[m].freq /\ x[m].level <= y[i].level
  <2> DEFINE U == {k \in 1..m : x[k].freq = x[m].freq}
  <2>1. U \in SUBSET Nat /\ m \in U
    BY <1>1
  <2>2. PICK k \in U : \A l \in U : k <= l
    BY <2>1, SmallestExists
  <2>3. k \in 1..n /\ k \in 1..m /\ x[k].freq = x[m].freq /\ m \in k..n
    BY <1>1
  <2>4. k \in K
    <3>1. CASE k = 1
      BY <2>3, <3>1
    <3>2. CASE k # 1
      <4>1. k - 1 \in 1..m /\ ~(k <= k - 1)
        BY <1>1, <2>3, <3>2
      <4>2. k - 1 \notin U
        BY <2>2, <4>1
      <4> QED BY <2>3, <4>1, <4>2
    <3> QED BY <3>1, <3>2
  <2> HIDE DEF U
  <2>5. PICK i \in 1..c : kept[i] = k
    BY <1>3, <2>4
  <2>6. \A j \in k..m : x[j].freq = x[k].freq
    <3> TAKE j \in k..m
    <3>1. j \in 1..n /\ k <= j /\ j <= m
      BY <1>1, <2>3
    <3>2. x[k].freq <= x[j].freq /\ x[j].freq <= x[m].freq
      BY <2>3, <3>1 DEF n
    <3> QED BY <1>1, <2>3, <3>1, <3>2
  <2>7. x[m].level <= HighestShared(x, k)
    BY <2>3, <2>6, HighestIsShared DEF n
  <2> QED BY <1>5, <2>3, <2>5, <2>7
<1>10. KeepsWorst(y, x)
  BY <1>5, <1>6, <1>7, <1>8, <1>9 DEF KeepsWorst, n
<1> QED BY <1>10 DEF y, kept, n

\* One trace from many, with the worst of what they read.
Stitched(y, t) ==
  /\ y \in Seq(Sample)
  /\ \A i, j \in 1..Len(y) : i < j => y[i].freq < y[j].freq
  /\ \A i \in 1..Len(y) : \E k \in 1..Len(t) : \E m \in 1..Len(t[k]) : y[i] = t[k][m]
  /\ \A k \in 1..Len(t) : \A m \in 1..Len(t[k]) : \E i \in 1..Len(y) :
       y[i].freq = t[k][m].freq /\ t[k][m].level <= y[i].level

\* Stitching makes such a trace of the sweeps.
LEMMA StitchKeepsWorst ==
  ASSUME NEW sweeps,
         NEW t \in Seq(Seq(Sample)), t = [k \in 1..Len(sweeps) |-> sweeps[k].samples], InRow(t)
  PROVE  Stitched(Stitch(sweeps), t)
<1> DEFINE x == FlattenSeq(t)
           y == Stitch(sweeps)
<1>1. Joins(x, t, Len(t))
  BY FlattenJoins
<1> HIDE DEF x
<1>2. x \in Seq(Sample) /\ \A m, n \in 1..Len(x) : m <= n => x[m].freq <= x[n].freq
  BY <1>1 DEF Joins
<1>3. LET kept == Ascending({k \in 1..Len(x) : k = 1 \/ x[k - 1].freq # x[k].freq})
      IN  y = [i \in 1..Len(kept) |->
                 [freq |-> x[kept[i]].freq, level |-> HighestShared(x, kept[i])]]
  BY DEF Stitch, x
<1> HIDE DEF y
<1>4. KeepsWorst(y, x)
  BY <1>2, <1>3, HeadsKeepWorst
<1>5. y \in Seq(Sample) /\ \A i, j \in 1..Len(y) : i < j => y[i].freq < y[j].freq
  BY <1>4 DEF KeepsWorst
<1>6. ASSUME NEW i \in 1..Len(y)
      PROVE  \E k \in 1..Len(t) : \E m \in 1..Len(t[k]) : y[i] = t[k][m]
  <2>1. PICK m \in 1..Len(x) : y[i] = x[m]
    BY <1>4 DEF KeepsWorst
  <2>2. \E k \in 1..Len(t) : \E j \in 1..Len(t[k]) : x[m] = t[k][j]
    BY <1>1 DEF Joins
  <2> QED BY <2>1, <2>2
<1>7. ASSUME NEW k \in 1..Len(t), NEW m \in 1..Len(t[k])
      PROVE  \E i \in 1..Len(y) : y[i].freq = t[k][m].freq /\ t[k][m].level <= y[i].level
  <2>1. PICK p \in 1..Len(x) : x[p] = t[k][m]
    BY <1>1 DEF Joins
  <2>2. PICK i \in 1..Len(y) : y[i].freq = x[p].freq /\ x[p].level <= y[i].level
    BY <1>4 DEF KeepsWorst
  <2> QED BY <2>1, <2>2
<1> QED BY <1>5, <1>6, <1>7 DEF y, Stitched

-----------------------------------------------------------------------------
(* The peaks that are kept.                                                *)

\* The lowest of some samples is no higher than a level when one of them is.
LEMMA ValleyReaches ==
  ASSUME NEW trace \in Seq(Sample), NEW T \in SUBSET (1..Len(trace)), T # {}, NEW v \in Int
  PROVE  /\ Min({trace[k].level : k \in T}) \in Int
         /\ Min({trace[k].level : k \in T}) <= v <=> \E k \in T : trace[k].level <= v
<1> DEFINE n == Len(trace)
           levels == {trace[k].level : k \in T}
<1>1. n \in Nat /\ \A m \in 1..n : trace[m].level \in Int
  <2>1. n \in Nat /\ \A m \in 1..n : trace[m] \in Sample
    OBVIOUS
  <2> QED BY <2>1 DEF Sample
<1> HIDE DEF n
<1>2. IsFiniteSet(T)
  <2>1. IsFiniteSet(1..n)
    BY <1>1, FS_Interval
  <2> QED BY <2>1, FS_Subset DEF n
<1>3. levels \in SUBSET Int /\ levels # {}
  BY <1>1 DEF n
<1>4. IsFiniteSet(levels)
  <2> DEFINE level == [m \in T |-> trace[m].level]
  <2>1. levels = {level[m] : m \in T}
    OBVIOUS
  <2> HIDE DEF level
  <2> QED BY <1>2, <2>1, ImageIsFinite
<1>5. Min(levels) \in levels /\ \A y \in levels : Min(levels) <= y
  <2> HIDE DEF levels
  <2> QED BY <1>3, <1>4, ExtremesExist
<1>6. Min(levels) \in Int
  <2> HIDE DEF levels
  <2> QED BY <1>3, <1>5
<1>7. Min(levels) <= v => \E k \in T : trace[k].level <= v
  BY <1>5
<1>8. ASSUME NEW k \in T, trace[k].level <= v
      PROVE  Min(levels) <= v
  <2>1. trace[k].level \in levels /\ trace[k].level \in Int
    BY <1>1 DEF n
  <2> HIDE DEF levels
  <2> QED BY <1>5, <1>6, <1>8, <2>1
<1> QED BY <1>6, <1>7, <1>8

\* What stands out is what the code finds a prominence of, at a local maximum.
LEMMA StandingOut ==
  ASSUME config \in Configurations, NEW trace \in Seq(Sample), NEW i \in 1..Len(trace)
  PROVE  StandsOut(trace, i) <=>
           IsLocalMaximum(trace, i) /\ Prominence(trace, i) >= config.prominence
<1> DEFINE n == Len(trace)
           h == trace[i].level
           p == config.prominence
           Below(k) == \A m \in Smaller(i, k)..Larger(i, k) : trace[m].level <= h
           Rises(a) == /\ trace[a].level <= h - p
                       /\ \A m \in Smaller(a, i)..Larger(a, i) : trace[m].level <= h
           left == {k \in 1..i : Below(k)}
           right == {k \in i..n : Below(k)}
           V1 == Min({trace[k].level : k \in left})
           V2 == Min({trace[k].level : k \in right})
<1>1. p \in Int
  BY ConfigurationsAssumption DEF ConfigurationsAssumption
<1>2. n \in Nat /\ i \in Int /\ h \in Int
  <2>1. trace[i] \in Sample
    OBVIOUS
  <2> QED BY <2>1 DEF Sample
<1>3. Prominence(trace, i) = h - Larger(V1, V2)
  BY DEF Prominence
<1>4. StandsOut(trace, i) <=>
        (\E a \in 1..i : Rises(a)) /\ (\E b \in i..n : Rises(b)) /\ IsLocalMaximum(trace, i)
  BY DEF StandsOut, IsLocalMaximum
<1>5. \A k \in Int : Smaller(i, k) = Smaller(k, i) /\ Larger(i, k) = Larger(k, i)
  BY <1>2 DEF Smaller, Larger
<1>6. Below(i)
  <2>1. Smaller(i, i) = i /\ Larger(i, i) = i
    BY DEF Smaller, Larger
  <2>2. \A m \in i..i : m = i
    BY <1>2
  <2>3. h <= h
    BY <1>2
  <2> QED BY <2>1, <2>2, <2>3
<1>7. \A a \in Int : Rises(a) <=> trace[a].level <= h - p /\ Below(a)
  BY <1>5
<1> HIDE DEF Rises, Below, h, p
<1>8. left \in SUBSET (1..n) /\ right \in SUBSET (1..n) /\ i \in left /\ i \in right
  BY <1>2, <1>6
<1>9. V1 \in Int /\ (V1 <= h - p <=> \E k \in left : trace[k].level <= h - p)
  <2>1. h - p \in Int
    BY <1>1, <1>2
  <2> HIDE DEF left
  <2> QED BY <1>8, <2>1, ValleyReaches DEF n
<1>10. V2 \in Int /\ (V2 <= h - p <=> \E k \in right : trace[k].level <= h - p)
  <2>1. h - p \in Int
    BY <1>1, <1>2
  <2> HIDE DEF right
  <2> QED BY <1>8, <2>1, ValleyReaches DEF n
<1> HIDE DEF V1, V2
<1>11. h - Larger(V1, V2) >= p <=> V1 <= h - p /\ V2 <= h - p
  BY <1>1, <1>2, <1>9, <1>10 DEF Larger
<1>12. (\E k \in left : trace[k].level <= h - p) <=> \E a \in 1..i : Rises(a)
  BY <1>2, <1>7
<1>13. (\E k \in right : trace[k].level <= h - p) <=> \E b \in i..n : Rises(b)
  BY <1>2, <1>7
<1> QED BY <1>3, <1>4, <1>9, <1>10, <1>11, <1>12, <1>13 DEF p

\* A candidate of a trace, and the order candidates are ranked in.
Peak == [index : Nat, freq : Int, level : Int, margin : Int]

\* A candidate is in numbers.
LEMMA CandidateIsPeak ==
  ASSUME NEW c \in Configurations, NEW trace \in Seq(Sample), NEW i \in 1..Len(trace)
  PROVE  Candidate(trace, c.limits, i) \in Peak
<1>1. trace[i] \in Sample
  OBVIOUS
<1>2. trace[i].freq \in Int /\ trace[i].level \in Int
  BY <1>1 DEF Sample
<1>3. Margin(c.limits, trace[i].freq, trace[i].level) \in Int
  BY <1>2, MarginIs
<1> QED BY <1>2, <1>3 DEF Candidate, Peak

\* The peaks that pass every filter, ranked: none is lost, the smallest margins first.
LEMMA FlaggedAreRanked ==
  ASSUME NEW c \in Configurations, NEW trace \in Seq(Sample)
  PROVE  LET flagged == FlaggedPeaks(trace, c)
             ranked == Ranked(flagged, {p \in flagged \X flagged : MoreCritical(p[1], p[2])})
         IN  /\ flagged \in SUBSET Peak
             /\ ranked \in Seq(flagged)
             /\ \A d \in flagged : \E k \in 1..Len(ranked) : ranked[k] = d
             /\ \A k, l \in 1..Len(ranked) : k < l => ranked[k].margin <= ranked[l].margin
<1> DEFINE n == Len(trace)
           I == {i \in 1..n : Flagged(trace, c, i)}
           S == FlaggedPeaks(trace, c)
           R == {p \in S \X S : MoreCritical(p[1], p[2])}
           r == Ranked(S, R)
<1>1. S = {Candidate(trace, c.limits, i) : i \in I}
  BY DEF FlaggedPeaks
<1> HIDE DEF S
<1>2. S \in SUBSET Peak
  BY <1>1, CandidateIsPeak
<1>3. IsFiniteSet(S)
  <2> DEFINE f == [i \in I |-> Candidate(trace, c.limits, i)]
  <2>1. S = {f[i] : i \in I}
    BY <1>1
  <2>2. n \in Nat
    OBVIOUS
  <2>3. I \in SUBSET (1..n)
    OBVIOUS
  <2> HIDE DEF f, I, n
  <2>4. IsFiniteSet(1..n)
    BY <2>2, FS_Interval
  <2>5. IsFiniteSet(I)
    BY <2>3, <2>4, FS_Subset
  <2> QED BY <2>1, <2>5, ImageIsFinite
<1>4. \A x, y \in S : x.index = y.index => x = y
  BY <1>1 DEF Candidate
<1>5. \A x \in S : x.index \in Int /\ x.level \in Int /\ x.margin \in Int
  BY <1>2 DEF Peak
<1>6. \A x, y \in S : <<x, y>> \in R <=> MoreCritical(x, y)
  OBVIOUS
<1> HIDE DEF R
<1>7. \A x \in S : <<x, x>> \notin R
  BY <1>5, <1>6 DEF MoreCritical
<1>8. \A x, y, z \in S : <<x, y>> \in R /\ <<y, z>> \in R => <<x, z>> \in R
  <2> SUFFICES ASSUME NEW x \in S, NEW y \in S, NEW z \in S, <<x, y>> \in R, <<y, z>> \in R
               PROVE  <<x, z>> \in R
    OBVIOUS
  <2>1. MoreCritical(x, y) /\ MoreCritical(y, z)
    BY <1>6
  <2>2. MoreCritical(x, z)
    BY <1>5, <2>1 DEF MoreCritical
  <2> QED BY <1>6, <2>2
<1>9. \A x, y \in S : x = y \/ <<x, y>> \in R \/ <<y, x>> \in R
  <2> SUFFICES ASSUME NEW x \in S, NEW y \in S, x # y
               PROVE  <<x, y>> \in R \/ <<y, x>> \in R
    OBVIOUS
  <2>1. x.index # y.index
    BY <1>4
  <2>2. MoreCritical(x, y) \/ MoreCritical(y, x)
    BY <1>5, <2>1 DEF MoreCritical
  <2> QED BY <1>6, <2>2
<1>10. /\ Cardinality(S) \in Nat
       /\ Ranked(S, R) \in [1..Cardinality(S) -> S]
       /\ \A x \in S : \E k \in 1..Cardinality(S) : Ranked(S, R)[k] = x
       /\ \A i, j \in 1..Cardinality(S) : i < j => <<Ranked(S, R)[i], Ranked(S, R)[j]>> \in R
  BY <1>3, <1>7, <1>8, <1>9, RankedIsSorted, Zenon
<1> HIDE DEF r
<1>11. r \in Seq(S) /\ Len(r) = Cardinality(S) /\ \A k \in 1..Len(r) : r[k] \in S
  BY <1>10 DEF r
<1>12. \A k, l \in 1..Len(r) : k < l => r[k].margin <= r[l].margin
  <2> SUFFICES ASSUME NEW k \in 1..Len(r), NEW l \in 1..Len(r), k < l
               PROVE  r[k].margin <= r[l].margin
    OBVIOUS
  <2>1. r[k] \in S /\ r[l] \in S /\ <<r[k], r[l]>> \in R
    BY <1>10, <1>11 DEF r
  <2>2. MoreCritical(r[k], r[l])
    BY <1>6, <2>1
  <2> QED BY <1>5, <2>1, <2>2 DEF MoreCritical
<1>13. \A d \in S : \E k \in 1..Len(r) : r[k] = d
  BY <1>10, <1>11 DEF r
<1> QED BY <1>2, <1>11, <1>12, <1>13 DEF r, R, S

-----------------------------------------------------------------------------
(* Keeping: one candidate after the other.                                 *)

\* kept is what is left of the first k candidates of r.
Chosen(c, kept, r, k) ==
  /\ kept \in Seq(Peak) /\ Len(kept) <= c.maxCount
  /\ \A m \in 1..Len(kept) : \E j \in 1..k : kept[m] = r[j]
  /\ \A m, l \in 1..Len(kept) : m < l =>
       /\ kept[m].margin <= kept[l].margin
       /\ Distance(kept[m].freq, kept[l].freq) >= c.spacing
  /\ \A j \in 1..k :
       \/ \E m \in 1..Len(kept) :
            /\ kept[m].margin <= r[j].margin
            /\ kept[m] = r[j] \/ Distance(kept[m].freq, r[j].freq) < c.spacing
       \/ /\ Len(kept) = c.maxCount
          /\ \A m \in 1..Len(kept) : kept[m].margin <= r[j].margin

\* One more candidate is considered; ...
LEMMA OneMoreCandidate ==
  ASSUME NEW c \in Configurations, NEW r \in Seq(Peak),
         \A k, l \in 1..Len(r) : k < l => r[k].margin <= r[l].margin,
         NEW k \in Nat, k + 1 \in 1..Len(r), NEW kept, Chosen(c, kept, r, k)
  PROVE  Chosen(c, Keep(c, kept, r[k + 1]), r, k + 1)
<1> DEFINE d == r[k + 1]
           a == Len(kept)
           Close(m) == Distance(kept[m].freq, d.freq) < c.spacing
<1>1. d \in Peak /\ kept \in Seq(Peak) /\ a \in Nat /\ a <= c.maxCount
      /\ c.maxCount \in Int /\ c.spacing \in Int
  BY ConfigurationsAssumption DEF ConfigurationsAssumption, Chosen
<1>2. /\ \A p \in Peak : p.margin \in Int /\ p.freq \in Int
      /\ \A m \in 1..a : kept[m] \in Peak
  <2>1. \A m \in 1..a : kept[m] \in Peak
    BY <1>1
  <2> QED BY <2>1 DEF Peak
<1>3. \A m \in 1..a : kept[m].margin <= d.margin
  <2> TAKE m \in 1..a
  <2>1. PICK j \in 1..k : kept[m] = r[j]
    BY DEF Chosen
  <2>2. j \in 1..Len(r) /\ j < k + 1
    OBVIOUS
  <2> QED BY <2>1, <2>2
<1>4. 1..(k + 1) = (1..k) \cup {k + 1}
  OBVIOUS
<1>5. Keep(c, kept, d) = IF a = c.maxCount \/ \E m \in 1..a : Close(m)
                         THEN kept ELSE Append(kept, d)
  BY DEF Keep
<1>6. CASE a = c.maxCount \/ \E m \in 1..a : Close(m)
  <2>1. \/ \E m \in 1..a : kept[m].margin <= d.margin
                           /\ (kept[m] = d \/ Distance(kept[m].freq, d.freq) < c.spacing)
        \/ a = c.maxCount /\ \A m \in 1..a : kept[m].margin <= d.margin
    BY <1>3, <1>6
  <2>2. \A j \in 1..(k + 1) :
          \/ \E m \in 1..Len(kept) :
               /\ kept[m].margin <= r[j].margin
               /\ kept[m] = r[j] \/ Distance(kept[m].freq, r[j].freq) < c.spacing
          \/ /\ Len(kept) = c.maxCount
             /\ \A m \in 1..Len(kept) : kept[m].margin <= r[j].margin
    <3> TAKE j \in 1..(k + 1)
    <3>1. CASE j \in 1..k
      BY <3>1 DEF Chosen
    <3>2. CASE j = k + 1
      BY <2>1, <3>2
    <3> QED BY <1>4, <3>1, <3>2
  <2>3. \A m \in 1..Len(kept) : \E j \in 1..(k + 1) : kept[m] = r[j]
    BY <1>4 DEF Chosen
  <2>4. Chosen(c, kept, r, k + 1)
    BY <2>2, <2>3 DEF Chosen
  <2> QED BY <1>5, <1>6, <2>4
<1>7. CASE ~(a = c.maxCount \/ \E m \in 1..a : Close(m))
  <2> DEFINE new == Append(kept, d)
  <2>1. Keep(c, kept, d) = new
    BY <1>5, <1>7
  <2>2. /\ new \in Seq(Peak) /\ Len(new) = a + 1 /\ new[a + 1] = d
        /\ \A m \in 1..a : new[m] = kept[m]
    BY <1>1
  <2> HIDE DEF new
  <2>3. \A m \in 1..(a + 1) : m \in 1..a \/ m = a + 1
    BY <1>1
  <2>4. a + 1 <= c.maxCount
    BY <1>1, <1>7
  <2>5. \A m \in 1..(a + 1) : \E j \in 1..(k + 1) : new[m] = r[j]
    <3> TAKE m \in 1..(a + 1)
    <3>1. CASE m \in 1..a
      <4>1. \E j \in 1..k : kept[m] = r[j]
        BY <3>1 DEF Chosen
      <4> QED BY <1>4, <2>2, <3>1, <4>1
    <3>2. CASE m = a + 1
      BY <1>4, <2>2, <3>2
    <3> QED BY <2>3, <3>1, <3>2
  <2>6. \A m, l \in 1..(a + 1) : m < l =>
          new[m].margin <= new[l].margin /\ Distance(new[m].freq, new[l].freq) >= c.spacing
    <3> SUFFICES ASSUME NEW m \in 1..(a + 1), NEW l \in 1..(a + 1), m < l
                 PROVE  new[m].margin <= new[l].margin
                        /\ Distance(new[m].freq, new[l].freq) >= c.spacing
      OBVIOUS
    <3>1. m \in 1..a /\ new[m] = kept[m]
      BY <1>1, <2>2, <2>3
    <3>2. CASE l \in 1..a
      BY <2>2, <3>1, <3>2 DEF Chosen
    <3>3. CASE l = a + 1
      <4>1. ~Close(m)
        BY <1>7, <3>1
      <4>2. Distance(kept[m].freq, d.freq) \in Int
        <5>1. kept[m].freq \in Int /\ d.freq \in Int
          BY <1>1, <1>2, <3>1
        <5> HIDE DEF d
        <5> QED BY <5>1 DEF Distance, Larger
      <4>3. Distance(kept[m].freq, d.freq) >= c.spacing
        BY <1>1, <4>1, <4>2
      <4> HIDE DEF d
      <4> QED BY <1>3, <2>2, <3>1, <3>3, <4>3
    <3> QED BY <2>3, <3>2, <3>3
  <2>7. \A j \in 1..(k + 1) : \E m \in 1..(a + 1) :
          /\ new[m].margin <= r[j].margin
          /\ new[m] = r[j] \/ Distance(new[m].freq, r[j].freq) < c.spacing
    <3> TAKE j \in 1..(k + 1)
    <3>1. CASE j \in 1..k
      <4>1. PICK m \in 1..a : /\ kept[m].margin <= r[j].margin
                              /\ kept[m] = r[j] \/ Distance(kept[m].freq, r[j].freq) < c.spacing
        BY <1>7, <3>1 DEF Chosen
      <4>2. m \in 1..(a + 1) /\ new[m] = kept[m]
        BY <1>1, <2>2
      <4> QED BY <4>1, <4>2
    <3>2. CASE j = k + 1
      <4>1. a + 1 \in 1..(a + 1) /\ new[a + 1] = r[j] /\ r[j] = d
        BY <1>1, <2>2, <3>2
      <4>2. d.margin <= d.margin
        BY <1>1, <1>2
      <4> QED BY <4>1, <4>2
    <3> QED BY <1>4, <3>1, <3>2
  <2>8. Chosen(c, new, r, k + 1)
    BY <2>2, <2>4, <2>5, <2>6, <2>7 DEF Chosen
  <2> QED BY <2>1, <2>8
<1> QED BY <1>6, <1>7

\* ... so all of them are.
LEMMA AllCandidatesConsidered ==
  ASSUME NEW c \in Configurations, c.maxCount > 0, NEW r \in Seq(Peak),
         \A k, l \in 1..Len(r) : k < l => r[k].margin <= r[l].margin
  PROVE  Chosen(c, FoldLeft(LAMBDA kept, d : Keep(c, kept, d), <<>>, r), r, Len(r))
<1> DEFINE A == Seq(Peak)
           n == Len(r)
           op(kept, d) == Keep(c, kept, d)
           F == [a \in A |-> [d \in Peak |-> op(a, d)]]
           G(g) == [t \in SUBSET DOMAIN r |->
                      IF t = {} THEN <<>> ELSE op(g[t \ {Max(t)}], r[Max(t)])]
           fold == CHOOSE g : g = G(g)
<1>1. FoldLeft(LAMBDA kept, d : Keep(c, kept, d), <<>>, r) = fold[DOMAIN r]
  BY DEF FoldLeft, MapThenFoldSet
<1>2. n \in Nat /\ DOMAIN r = 1..n /\ Len(r) = n /\ \A i \in 1..n : r[i] \in Peak
  OBVIOUS
<1>3. <<>> \in A /\ \A a \in A, d \in Peak : op(a, d) \in A
  <2>1. ASSUME NEW a \in Seq(Peak), NEW d \in Peak
        PROVE  Append(a, d) \in Seq(Peak)
    OBVIOUS
  <2> QED BY <2>1 DEF Keep
<1> HIDE DEF A, op, n
<1>4. F \in [A -> [Peak -> A]] /\ \A a \in A, d \in Peak : F[a][d] = op(a, d)
  BY <1>3
<1> HIDE DEF F
<1>5. \A t \in SUBSET DOMAIN r : t # {} => Max(t) \in DOMAIN r /\ r[Max(t)] \in Peak
  BY <1>2, LargestExists
<1>6. \E g : g = G(g)
  <2>1. PICK g \in [SUBSET DOMAIN r -> A] : Folded(g, F, <<>>, r)
    BY <1>3, <1>4, FoldExists
  <2>2. \A t \in SUBSET DOMAIN r : t # {} =>
          F[g[t \ {Max(t)}]][r[Max(t)]] = op(g[t \ {Max(t)}], r[Max(t)])
    <3>1. \A t \in SUBSET DOMAIN r : g[t \ {Max(t)}] \in A
      OBVIOUS
    <3> QED BY <3>1, <1>4, <1>5
  <2>3. g = G(g)
    BY <2>1, <2>2 DEF Folded
  <2> QED BY <2>3
<1>7. fold = G(fold)
  <2> HIDE DEF G
  <2> QED BY <1>6
<1> HIDE DEF fold
<1>8. fold[{}] = <<>>
  BY <1>7
<1>9. \A t \in SUBSET DOMAIN r :
        t # {} /\ fold[t \ {Max(t)}] \in A => fold[t] = F[fold[t \ {Max(t)}]][r[Max(t)]]
  <2> SUFFICES ASSUME NEW t \in SUBSET DOMAIN r, t # {}, fold[t \ {Max(t)}] \in A
               PROVE  fold[t] = F[fold[t \ {Max(t)}]][r[Max(t)]]
    OBVIOUS
  <2>1. fold[t] = op(fold[t \ {Max(t)}], r[Max(t)])
    BY <1>7
  <2> QED BY <2>1, <1>4, <1>5
<1> HIDE DEF G
<1>10. Reached(fold, A, F, <<>>, r)
  <2>1. F \in [A -> [Peak -> A]]
    BY <1>4
  <2>2. FoldsIn(fold, A, F, <<>>, r)
    BY <1>8, <1>9 DEF FoldsIn
  <2> QED BY <1>3, <2>1, <2>2, FoldSteps
<1>11. PICK h \in [0..n -> A] : h[0] = <<>> /\ (\A k \in 1..n : h[k] = F[h[k - 1]][r[k]])
                                /\ h[n] = fold[DOMAIN r]
  BY <1>2, <1>10 DEF Reached
<1>12. ASSUME NEW k \in 1..n
       PROVE  h[k] = Keep(c, h[k - 1], r[k])
  <2>1. k - 1 \in 0..n
    BY <1>2
  <2>2. h[k] = op(h[k - 1], r[k])
    BY <2>1, <1>2, <1>4, <1>11
  <2> QED BY <2>2 DEF op
<1> DEFINE T == {k \in Nat : k <= n => Chosen(c, h[k], r, k)}
<1>13. 0 \in T
  <2>1. c.maxCount \in Int
    BY ConfigurationsAssumption DEF ConfigurationsAssumption
  <2>2. Chosen(c, <<>>, r, 0)
    BY <2>1 DEF Chosen
  <2> QED BY <1>11, <2>2
<1>14. ASSUME NEW k \in Nat, k \in T
       PROVE  k + 1 \in T
  <2> SUFFICES ASSUME k + 1 <= n
               PROVE  Chosen(c, h[k + 1], r, k + 1)
    OBVIOUS
  <2>1. k + 1 \in 1..n /\ (k + 1) - 1 = k /\ k <= n
    BY <1>2
  <2>2. Chosen(c, h[k], r, k) /\ k + 1 \in 1..Len(r)
    BY <1>2, <1>14, <2>1
  <2>3. h[k + 1] = Keep(c, h[k], r[k + 1])
    BY <1>12, <2>1
  <2> HIDE DEF T
  <2>4. Chosen(c, Keep(c, h[k], r[k + 1]), r, k + 1)
    BY <2>2, OneMoreCandidate
  <2> QED BY <2>3, <2>4
<1>15. n \in T
  <2> HIDE DEF T
  <2> QED BY <1>2, <1>13, <1>14, SetInduction
<1>16. Chosen(c, h[n], r, n)
  BY <1>2, <1>15
<1> QED BY <1>1, <1>11, <1>16 DEF n

\* d is what detectPeaks() finds in the trace.
Detected(c, trace, d) ==
  /\ d \in Seq(Peak) /\ Len(d) <= c.maxCount
  /\ \A k \in 1..Len(d) : \E i \in 1..Len(trace) :
       Len(trace) > 2 /\ Flagged(trace, c, i) /\ d[k] = Candidate(trace, c.limits, i)
  /\ \A k, l \in 1..Len(d) : k < l =>
       /\ d[k].margin <= d[l].margin
       /\ Distance(d[k].freq, d[l].freq) >= c.spacing
  /\ \A i \in 1..Len(trace) : Len(trace) > 2 /\ Flagged(trace, c, i) =>
       \/ \E k \in 1..Len(d) :
            /\ d[k].margin <= Candidate(trace, c.limits, i).margin
            /\ \/ d[k] = Candidate(trace, c.limits, i)
               \/ Distance(d[k].freq, trace[i].freq) < c.spacing
       \/ /\ Len(d) = c.maxCount
          /\ \A k \in 1..Len(d) : d[k].margin <= Candidate(trace, c.limits, i).margin

\* What detectPeaks() returns is that choice.
LEMMA PeaksDetected ==
  ASSUME NEW c \in Configurations, c.maxCount > 0, NEW trace \in Seq(Sample)
  PROVE  Detected(c, trace, DetectPeaks(trace, c))
<1> DEFINE S == FlaggedPeaks(trace, c)
           r == Ranked(S, {p \in S \X S : MoreCritical(p[1], p[2])})
           d == DetectPeaks(trace, c)
           kept == FoldLeft(LAMBDA k, p : Keep(c, k, p), <<>>, r)
<1>1. /\ S \in SUBSET Peak /\ r \in Seq(S)
      /\ \A p \in S : \E k \in 1..Len(r) : r[k] = p
      /\ \A k, l \in 1..Len(r) : k < l => r[k].margin <= r[l].margin
  BY FlaggedAreRanked
<1>2. d = IF Len(trace) < 3 THEN <<>> ELSE kept
  BY DEF DetectPeaks
<1>3. S = {Candidate(trace, c.limits, i) : i \in {j \in 1..Len(trace) : Flagged(trace, c, j)}}
  BY DEF FlaggedPeaks
<1> HIDE DEF S, r, d
<1>4. r \in Seq(Peak) /\ Len(r) \in Nat /\ \A k \in 1..Len(r) : r[k] \in S
  BY <1>1
<1>5. Chosen(c, kept, r, Len(r))
  BY <1>1, <1>4, AllCandidatesConsidered
<1> HIDE DEF kept
<1>6. Len(trace) \in Nat
  OBVIOUS
<1>7. CASE Len(trace) < 3
  <2>1. d = <<>> /\ ~(Len(trace) > 2)
    BY <1>2, <1>6, <1>7
  <2>2. c.maxCount \in Int
    BY ConfigurationsAssumption DEF ConfigurationsAssumption
  <2>3. Detected(c, trace, <<>>)
    BY <2>1, <2>2 DEF Detected
  <2> QED BY <2>1, <2>3 DEF d
<1>8. CASE ~(Len(trace) < 3)
  <2>1. d = kept /\ Len(trace) > 2
    BY <1>2, <1>6, <1>8
  <2>2. d \in Seq(Peak) /\ Len(d) <= c.maxCount
    BY <1>5, <2>1 DEF Chosen
  <2>3. \A k \in 1..Len(d) : \E i \in 1..Len(trace) :
          Flagged(trace, c, i) /\ d[k] = Candidate(trace, c.limits, i)
    <3> TAKE k \in 1..Len(d)
    <3>1. PICK j \in 1..Len(r) : d[k] = r[j]
      BY <1>5, <2>1 DEF Chosen
    <3>2. d[k] \in S
      BY <1>4, <3>1
    <3> QED BY <1>3, <3>2
  <2>4. \A k, l \in 1..Len(d) : k < l =>
          /\ d[k].margin <= d[l].margin
          /\ Distance(d[k].freq, d[l].freq) >= c.spacing
    BY <1>5, <2>1 DEF Chosen
  <2>5. ASSUME NEW i \in 1..Len(trace), Flagged(trace, c, i)
        PROVE  LET p == Candidate(trace, c.limits, i) IN
               \/ \E k \in 1..Len(d) :
                    /\ d[k].margin <= p.margin
                    /\ d[k] = p \/ Distance(d[k].freq, p.freq) < c.spacing
               \/ Len(d) = c.maxCount /\ \A k \in 1..Len(d) : d[k].margin <= p.margin
    <3> DEFINE p == Candidate(trace, c.limits, i)
    <3>1. p \in S
      BY <1>3, <2>5
    <3> HIDE DEF p
    <3>2. PICK j \in 1..Len(r) : r[j] = p
      BY <1>1, <3>1
    <3>3. \/ \E k \in 1..Len(d) :
               /\ d[k].margin <= p.margin
               /\ d[k] = p \/ Distance(d[k].freq, p.freq) < c.spacing
          \/ Len(d) = c.maxCount /\ \A k \in 1..Len(d) : d[k].margin <= p.margin
      BY <1>5, <2>1, <3>2 DEF Chosen
    <3> QED BY <3>3 DEF p
  <2>6. \A i \in 1..Len(trace) : Candidate(trace, c.limits, i).freq = trace[i].freq
    BY DEF Candidate
  <2>7. Detected(c, trace, d)
    BY <2>1, <2>2, <2>3, <2>4, <2>5, <2>6 DEF Detected
  <2> QED BY <2>7 DEF d
<1> QED BY <1>7, <1>8

-----------------------------------------------------------------------------
(* The invariant of a pass: what has been swept so far are the segments of *)
(* the plan, each as coerced; what follows is the analysis of all of them, *)
(* and the results and the candidates left are its peaks, in their order.  *)

Sweep(k) == Coerce(instrument, Phase1Params(config, segments[k]))

\* The sweep of a dwell at f; the peaks of the scan; the result that belongs to one of them.
Dwell(f) == Coerce(instrument, Phase2Params(config, f))
Peaks == DetectPeaks(Corrected(scan), config)
Measured(k) == Point(Peaks[k].freq, MaximumAmplitude(Acquire(Dwell(Peaks[k].freq))))

\* What is given is in numbers.
GivenTyped ==
  /\ config \in Configurations /\ instrument \in Instruments
  /\ IsFiniteSet(emissions)
  /\ \A e \in emissions : e.freq \in Int /\ e.level \in Int

\* The sweeps so far are those of the plan, each as coerced and accepted.
Swept ==
  /\ ConfigurationValid /\ segments = PlanSegments(config)
  /\ acquired \in Seq({Acquire(Sweep(k)) : k \in 1..Len(segments)})
  /\ Len(acquired) <= Len(segments)
  /\ \A k \in 1..Len(acquired) :
       acquired[k] = Acquire(Sweep(k)) /\ Accepts(instrument, Sweep(k))

\* The scan is analysed; the results and the candidates left are its peaks, in order.
Analysed ==
  /\ Len(acquired) = Len(segments) /\ scan = Stitch(acquired)
  /\ candidates \in Seq(Peak) /\ results \in Seq({Measured(k) : k \in 1..Len(Peaks)})
  /\ Len(results) + Len(candidates) = Len(Peaks)
  /\ \A k \in 1..Len(candidates) : candidates[k] = Peaks[Len(results) + k]
  /\ \A k \in 1..Len(results) :
       results[k] = Measured(k) /\ Accepts(instrument, Dwell(Peaks[k].freq))

\* How far each of these has come in every state.
PassInv ==
  /\ GivenTyped
  /\ pc \in {"idle", "scan", "dwell", "finished", "failed"}
  /\ pc = "idle" => acquired = <<>>
  /\ pc \in {"idle", "scan"} => results = <<>>
  /\ Planned \/ results # <<>> => Swept
  /\ pc \in {"dwell", "finished"} \/ results # <<>> => Analysed
  /\ pc = "dwell" => candidates # <<>>
  /\ pc = "finished" => candidates = <<>>

-----------------------------------------------------------------------------
(* Sweeps as the instrument takes them.                                    *)

LEMMA NearestIsPositive ==
  ASSUME NEW available, available \subseteq Nat \ {0}, IsFiniteSet(available),
         NEW wanted \in Nat \ {0}
  PROVE  NearestAtOrAbove(available, wanted) \in Nat \ {0}
<1> DEFINE above == {r \in available : r >= wanted}
<1>1. CASE available = {}
  BY <1>1 DEF NearestAtOrAbove
<1>2. CASE above # {}
  <2>1. above \in SUBSET Nat /\ available # {}
    BY <1>2
  <2>2. \E r \in above : \A q \in above : r <= q
    <3> HIDE DEF above
    <3> QED BY <1>2, <2>1, SmallestExists
  <2>3. NearestAtOrAbove(available, wanted) \in above
    BY <1>2, <2>1, <2>2 DEF NearestAtOrAbove
  <2> QED BY <2>3
<1>3. CASE available # {} /\ above = {}
  <2>1. available \in SUBSET Int
    OBVIOUS
  <2>2. Max(available) \in available /\ \A q \in available : q <= Max(available)
    BY <1>3, <2>1, ExtremesExist
  <2>3. \E r \in available : \A q \in available : r >= q
    BY <2>2
  <2>4. NearestAtOrAbove(available, wanted) \in available
    BY <1>3, <2>3 DEF NearestAtOrAbove
  <2> QED BY <2>4
<1> QED BY <1>1, <1>2, <1>3

\* A request in numbers, with a bandwidth, is one after coercion.
LEMMA CoercedTyped ==
  ASSUME instrument \in Instruments, NEW params,
         params.span.start \in Int, params.span.stop \in Int, params.points \in Int,
         params.rbw \in Nat \ {0}, NEW p, p = Coerce(instrument, params)
  PROVE  /\ p.span.start = Larger(params.span.start, instrument.range.start)
         /\ p.span.stop = Smaller(params.span.stop, instrument.range.stop)
         /\ p.points = Clamp(params.points, instrument.minPoints, instrument.maxPoints)
         /\ p.span.start \in Int /\ p.span.stop \in Int /\ p.points \in Int
         /\ p.rbw \in Nat \ {0}
         /\ instrument.range.start \in Int /\ instrument.range.stop \in Int
         /\ Accepts(instrument, p) => Span(p.span)
<1>1. /\ instrument.range.start \in Int /\ instrument.range.stop \in Int
      /\ instrument.minPoints \in Int /\ instrument.maxPoints \in Int
      /\ instrument.rbws \subseteq Nat \ {0} /\ IsFiniteSet(instrument.rbws)
  BY InstrumentsAssumption DEF InstrumentsAssumption
<1>2. /\ p.span.start = Larger(params.span.start, instrument.range.start)
      /\ p.span.stop = Smaller(params.span.stop, instrument.range.stop)
      /\ p.points = Clamp(params.points, instrument.minPoints, instrument.maxPoints)
      /\ p.rbw = NearestAtOrAbove(instrument.rbws, params.rbw)
  BY DEF Coerce
<1>3. p.rbw \in Nat \ {0}
  BY <1>1, <1>2, NearestIsPositive
<1>4. p.span.start \in Int /\ p.span.stop \in Int /\ p.points \in Int
  BY <1>1, <1>2 DEF Larger, Smaller, Clamp
<1>5. ASSUME Accepts(instrument, p)
      PROVE  Width(p.span) \in Nat
  BY <1>4, <1>5 DEF Accepts, IsValid, Width
<1> QED BY <1>1, <1>2, <1>3, <1>4, <1>5 DEF Span

\* A configuration is in numbers.
LEMMA ConfigurationTyped ==
  ASSUME NEW c \in Configurations
  PROVE  /\ c.span.start \in Int /\ c.span.stop \in Int /\ c.points \in Int /\ c.rbw \in Int
         /\ c.dwellSpan \in Int /\ c.dwellPoints \in Int /\ c.dwellRbw \in Int
         /\ c.spacing \in Int /\ c.maxCount \in Int /\ c.prominence \in Int
         /\ c.floor \in Int /\ c.threshold \in Int /\ c.marginal \in Int
         /\ c.threshold < Infinite
BY ConfigurationsAssumption DEF ConfigurationsAssumption

\* The parameters of a sweep over a segment ...
LEMMA SweepTyped ==
  ASSUME GivenTyped, NEW segment, segment.start \in Int, segment.stop \in Int,
         NEW p, p = Coerce(instrument, Phase1Params(config, segment))
  PROVE  /\ p.span.start = Larger(segment.start, instrument.range.start)
         /\ p.span.stop = Smaller(segment.stop, instrument.range.stop)
         /\ p.points = Clamp(config.points, instrument.minPoints, instrument.maxPoints)
         /\ p.span.start \in Int /\ p.span.stop \in Int /\ p.points \in Int
         /\ p.rbw \in Nat \ {0}
         /\ instrument.range.start \in Int /\ instrument.range.stop \in Int
         /\ Accepts(instrument, p) => Span(p.span)
<1> DEFINE r == Phase1Params(config, segment)
<1>1. config \in Configurations /\ instrument \in Instruments
  BY DEF GivenTyped
<1>2. config.points \in Int /\ config.rbw \in Int
  BY <1>1, ConfigurationTyped
<1>3. Centre(segment) \in Int
  BY DEF Centre, Width
<1>4. Rbw(config.rbw, Centre(segment)) \in Nat \ {0}
  BY <1>2, <1>3, MandatedIsPositive DEF Rbw
<1>5. r.span = segment /\ r.points = config.points /\ r.rbw \in Nat \ {0}
  BY <1>4 DEF Phase1Params
<1> HIDE DEF r
<1>6. /\ r.span.start \in Int /\ r.span.stop \in Int /\ r.points \in Int /\ r.rbw \in Nat \ {0}
      /\ p = Coerce(instrument, r)
  BY <1>2, <1>5 DEF r
<1>7. /\ p.span.start = Larger(r.span.start, instrument.range.start)
      /\ p.span.stop = Smaller(r.span.stop, instrument.range.stop)
      /\ p.points = Clamp(r.points, instrument.minPoints, instrument.maxPoints)
      /\ p.span.start \in Int /\ p.span.stop \in Int /\ p.points \in Int
      /\ p.rbw \in Nat \ {0}
      /\ instrument.range.start \in Int /\ instrument.range.stop \in Int
      /\ Accepts(instrument, p) => Span(p.span)
  BY <1>1, <1>6, CoercedTyped
<1> QED BY <1>5, <1>7

\* ... and those of a dwell at a peak.
LEMMA DwellTyped ==
  ASSUME GivenTyped, NEW f \in Int
  PROVE  /\ Dwell(f).span.start = Larger(f - config.dwellSpan \div 2, instrument.range.start)
         /\ Dwell(f).span.stop = Smaller(f + config.dwellSpan \div 2, instrument.range.stop)
         /\ Dwell(f).span.start \in Int /\ Dwell(f).span.stop \in Int /\ Dwell(f).points \in Int
         /\ Dwell(f).rbw \in Nat \ {0} /\ config.dwellSpan \div 2 \in Int
         /\ instrument.range.start \in Int /\ instrument.range.stop \in Int
         /\ Accepts(instrument, Dwell(f)) => Span(Dwell(f).span)
<1> DEFINE r == Phase2Params(config, f)
           p == Dwell(f)
           half == config.dwellSpan \div 2
<1>1. config \in Configurations /\ instrument \in Instruments
  BY DEF GivenTyped
<1>2. config.dwellPoints \in Int /\ config.dwellRbw \in Int /\ half \in Int
  BY <1>1, ConfigurationTyped
<1>3. Rbw(config.dwellRbw, f) \in Nat \ {0}
  BY <1>2, MandatedIsPositive DEF Rbw
<1>4. /\ r.span.start = f - half /\ r.span.stop = f + half
      /\ r.points = config.dwellPoints /\ r.rbw \in Nat \ {0}
  BY <1>3 DEF Phase2Params
<1>5. p = Coerce(instrument, r)
  BY DEF Dwell
<1> HIDE DEF r, p, half
<1>6. /\ r.span.start \in Int /\ r.span.stop \in Int /\ r.points \in Int /\ r.rbw \in Nat \ {0}
  BY <1>2, <1>4
<1>7. /\ p.span.start = Larger(r.span.start, instrument.range.start)
      /\ p.span.stop = Smaller(r.span.stop, instrument.range.stop)
      /\ p.span.start \in Int /\ p.span.stop \in Int /\ p.points \in Int
      /\ p.rbw \in Nat \ {0}
      /\ instrument.range.start \in Int /\ instrument.range.stop \in Int
      /\ Accepts(instrument, p) => Span(p.span)
  BY <1>1, <1>5, <1>6, CoercedTyped
<1> QED BY <1>2, <1>4, <1>7 DEF p, half

\* A reading is the noise or an emission near enough, and none of these is higher.
LEMMA ReadingIs ==
  ASSUME GivenTyped, NEW f \in Int, NEW rbw \in Int
  PROVE  /\ Reading(f, rbw) \in Int /\ Noise \in Int /\ Noise <= Reading(f, rbw)
         /\ \A e \in emissions : 2 * Distance(e.freq, f) <= rbw => e.level <= Reading(f, rbw)
         /\ \/ Reading(f, rbw) = Noise
            \/ \E e \in emissions : 2 * Distance(e.freq, f) <= rbw /\ Reading(f, rbw) = e.level
<1> DEFINE near == {d \in emissions : 2 * Distance(d.freq, f) <= rbw}
           levels == {e.level : e \in near}
           all == {Noise} \cup levels
           r == Reading(f, rbw)
<1>1. r = Max(all)
  BY DEF Reading
<1>2. Noise \in Int
  BY LevelsAssumption DEF LevelsAssumption
<1>3. all \in SUBSET Int /\ all # {}
  BY <1>2 DEF GivenTyped
<1>4. IsFiniteSet(all)
  <2>1. near \in SUBSET emissions
    OBVIOUS
  <2> DEFINE level == [e \in near |-> e.level]
  <2>2. levels = {level[e] : e \in near}
    OBVIOUS
  <2> HIDE DEF near, level
  <2>3. IsFiniteSet(near)
    BY <2>1, FS_Subset DEF GivenTyped
  <2>4. IsFiniteSet(levels)
    BY <2>2, <2>3, ImageIsFinite
  <2> HIDE DEF levels
  <2>5. IsFiniteSet({Noise})
    BY FS_Singleton
  <2> QED BY <2>4, <2>5, FS_Union
<1> HIDE DEF r
<1>5. r \in all /\ \A y \in all : y <= r
  <2> HIDE DEF all
  <2> QED BY <1>1, <1>3, <1>4, ExtremesExist
<1>6. r \in Int
  <2> HIDE DEF all
  <2> QED BY <1>3, <1>5
<1>7. \A e \in emissions : 2 * Distance(e.freq, f) <= rbw => e.level <= r
  BY <1>5
<1>8. r = Noise \/ \E e \in emissions : 2 * Distance(e.freq, f) <= rbw /\ r = e.level
  BY <1>5
<1> QED BY <1>2, <1>5, <1>6, <1>7, <1>8 DEF r

\* What a sweep returns.
LEMMA AcquiredIs ==
  ASSUME GivenTyped, NEW p, Span(p.span), p.points \in Int, p.rbw \in Int
  PROVE  /\ Acquire(p).params = p
         /\ Acquire(p).samples \in Seq(Sample)
         /\ DOMAIN Acquire(p).samples = 1..p.points
         /\ 1..Len(Acquire(p).samples) = 1..p.points
         /\ \A i \in 1..p.points :
              /\ FrequencyAt(p.span, p.points, i) \in Int
              /\ Acquire(p).samples[i].freq = FrequencyAt(p.span, p.points, i)
              /\ Acquire(p).samples[i].level = Reading(FrequencyAt(p.span, p.points, i), p.rbw)
<1> DEFINE s == Acquire(p).samples
           F(i) == FrequencyAt(p.span, p.points, i)
           n == Larger(p.points, 0)
<1>1. n \in Nat /\ 1..p.points = 1..n
  BY DEF Larger
<1>2. Acquire(p).params = p /\ s = [i \in 1..p.points |-> [freq |-> F(i), level |-> Reading(F(i), p.rbw)]]
  BY DEF Acquire
<1>3. \A i \in 1..p.points : F(i) \in Int
  BY SamplesInSpan
<1> HIDE DEF s, F, n
<1>4. \A i \in 1..p.points : [freq |-> F(i), level |-> Reading(F(i), p.rbw)] \in Sample
  BY <1>3, ReadingIs DEF Sample
<1>5. s \in [1..n -> Sample]
  BY <1>1, <1>2, <1>4
<1>6. s \in Seq(Sample) /\ Len(s) = n
  BY <1>1, <1>5
<1>7. \A i \in 1..p.points : s[i].freq = F(i) /\ s[i].level = Reading(F(i), p.rbw)
  BY <1>2
<1> QED BY <1>1, <1>2, <1>3, <1>5, <1>6, <1>7 DEF s, F

-----------------------------------------------------------------------------
(* From the plan to the scan.                                              *)

LEMMA PlanTyped ==
  ASSUME NEW c \in Configurations, IsValid(c.span)
  PROVE  /\ Tiles(PlanSegments(c), c.span)
         /\ Len(PlanSegments(c)) \in Nat \ {0}
         /\ \A k \in 1..Len(PlanSegments(c)) :
              PlanSegments(c)[k].start \in Int /\ PlanSegments(c)[k].stop \in Int
<1> DEFINE plan == PlanSegments(c)
           w == Width(c.span)
           n == SegmentCount(c)
<1>1. Tiles(plan, c.span)
  BY PlanIsSound
<1>2. c.span.start \in Int /\ c.span.stop \in Int /\ w \in Nat
  BY ConfigurationTyped DEF IsValid, Width
<1>3. CASE w <= MaximumWidth(c)
  <2>1. plan = <<c.span>>
    BY <1>3 DEF PlanSegments
  <2> QED BY <1>1, <1>2, <2>1
<1>4. CASE ~(w <= MaximumWidth(c))
  <2>1. plan = Parts(c.span, n)
    BY <1>4 DEF PlanSegments
  <2>2. n \in Int /\ n > 0
    <3> DEFINE max == MaximumWidth(c)
    <3>1. max \in Nat \ {0}
      BY MaximumWidthIsPositive
    <3>2. n = (w + max - 1) \div max
      BY DEF SegmentCount
    <3>3. w > max
      BY <1>2, <1>4, <3>1
    <3> HIDE DEF w, max, n
    <3>4. n \in Nat /\ w + max - 1 < max * n + max
      BY <1>2, <3>1, <3>2, Division
    <3>5. n # 0
      <4> SUFFICES ASSUME n = 0 PROVE FALSE
        OBVIOUS
      <4>1. max * n = 0
        BY <3>1
      <4> QED BY <1>2, <3>1, <3>3, <3>4, <4>1
    <3> QED BY <3>4, <3>5
  <2> DEFINE step == w \div n
  <2>3. plan = [i \in 1..n |-> [start |-> c.span.start + (i - 1) * step,
                                stop |-> IF i = n THEN c.span.stop
                                         ELSE c.span.start + i * step]]
    BY <2>1 DEF Parts
  <2> HIDE DEF step, n, plan
  <2>4. Len(plan) = n
    BY <2>2, <2>3
  <2>5. step \in Int
    BY <1>2, <2>2 DEF step
  <2>6. \A k \in 1..n : plan[k].start \in Int /\ plan[k].stop \in Int
    <3> TAKE k \in 1..n
    <3>1. (k - 1) * step \in Int /\ k * step \in Int
      <4>1. \A a, b \in Int : a * b \in Int
        OBVIOUS
      <4> QED BY <2>2, <2>5, <4>1
    <3> QED BY <1>2, <2>3, <3>1
  <2> QED BY <1>1, <2>2, <2>4, <2>6 DEF plan
<1> QED BY <1>3, <1>4

\* Of two segments of a plan the earlier ends where the later begins, or before.
LEMMA SegmentsInOrder ==
  ASSUME NEW s, NEW span, Tiles(s, span), Len(s) \in Nat,
         \A k \in 1..Len(s) : s[k].start \in Int /\ s[k].stop \in Int
  PROVE  \A k, l \in 1..Len(s) : k < l => s[k].stop <= s[l].start
<1> DEFINE n == Len(s)
<1>1. \A k \in 1..n : s[k].start < s[k].stop
  BY DEF Tiles, IsValid
<1>2. \A k \in 1..(n - 1) : s[k].stop = s[k + 1].start
  BY DEF Tiles
<1> SUFFICES ASSUME NEW k \in 1..n
             PROVE  \A l \in 1..n : k < l => s[k].stop <= s[l].start
  OBVIOUS
<1> HIDE DEF n
<1>3. n \in Nat /\ \A m \in 1..n : s[m].start \in Int /\ s[m].stop \in Int
  BY DEF n
<1> DEFINE T == {d \in Nat : k + d + 1 <= n => s[k].stop <= s[k + d + 1].start}
<1>4. 0 \in T
  <2> SUFFICES ASSUME k + 0 + 1 <= n
               PROVE  s[k].stop <= s[k + 0 + 1].start
    OBVIOUS
  <2>1. k \in 1..(n - 1) /\ k + 0 + 1 = k + 1
    BY <1>3
  <2> QED BY <1>2, <1>3, <2>1
<1>5. ASSUME NEW d \in Nat, d \in T
      PROVE  d + 1 \in T
  <2> SUFFICES ASSUME k + (d + 1) + 1 <= n
               PROVE  s[k].stop <= s[k + (d + 1) + 1].start
    OBVIOUS
  <2> DEFINE m == k + d + 1
  <2>1. m \in 1..(n - 1) /\ m \in 1..n /\ m + 1 \in 1..n /\ k + (d + 1) + 1 = m + 1 /\ m <= n
    BY <1>3
  <2>2. s[k].stop <= s[m].start
    BY <1>5, <2>1
  <2> HIDE DEF m
  <2>3. s[m].start < s[m].stop /\ s[m].stop = s[m + 1].start
    BY <1>1, <1>2, <2>1
  <2>4. s[k].stop <= s[m + 1].start
    BY <1>3, <2>1, <2>2, <2>3
  <2> QED BY <2>4 DEF m
<1> HIDE DEF T
<1>6. ASSUME NEW l \in 1..n, k < l
      PROVE  s[k].stop <= s[l].start
  <2>1. l - k - 1 \in Nat /\ k + (l - k - 1) + 1 = l /\ l <= n
    BY <1>3, <1>6
  <2>2. l - k - 1 \in T
    BY <1>4, <1>5, <2>1, SetInduction
  <2> QED BY <2>1, <2>2 DEF T
<1> QED BY <1>6

\* The segments on both sides of a frequency in the span.
LEMMA SegmentAround ==
  ASSUME NEW s, NEW span, Tiles(s, span), Len(s) \in Nat,
         \A k \in 1..Len(s) : s[k].start \in Int /\ s[k].stop \in Int,
         NEW x \in Int, span.start <= x, x <= span.stop
  PROVE  \E k \in 1..Len(s) : s[k].start <= x /\ x <= s[k].stop
<1> DEFINE n == Len(s)
           t == {k \in 1..n : s[k].start <= x}
           k == Max(t)
<1>1. n \in Nat /\ n > 0 /\ s[1].start = span.start /\ s[n].stop = span.stop
  BY DEF Tiles
<1>2. \A i \in 1..(n - 1) : s[i].stop = s[i + 1].start
  BY DEF Tiles
<1>3. \A i \in 1..n : s[i].start \in Int /\ s[i].stop \in Int
  OBVIOUS
<1> HIDE DEF n
<1>4. t \in SUBSET (1..n) /\ 1 \in t
  BY <1>1
<1>5. k \in t /\ \A y \in t : y <= k
  <2> HIDE DEF t
  <2> QED BY <1>1, <1>4, LargestExists
<1> HIDE DEF k
<1>6. k \in 1..n /\ s[k].start <= x
  BY <1>5
<1>7. CASE k = n
  BY <1>1, <1>6, <1>7 DEF n
<1>8. CASE k # n
  <2>1. k \in 1..(n - 1) /\ k + 1 \in 1..n /\ ~(k + 1 <= k)
    BY <1>1, <1>6, <1>8
  <2>2. k + 1 \notin t
    BY <1>5, <2>1
  <2>3. x <= s[k].stop
    BY <1>2, <1>3, <2>1, <2>2
  <2> QED BY <1>6, <2>3 DEF n
<1> QED BY <1>7, <1>8

\* What is known of the sweeps so far.
SweepFacts(k) ==
  /\ segments[k].start \in Int /\ segments[k].stop \in Int
  /\ Span(Sweep(k).span) /\ Sweep(k).points \in Int /\ Sweep(k).rbw \in Nat \ {0}
  /\ Sweep(k).points = Clamp(config.points, instrument.minPoints, instrument.maxPoints)
  /\ Sweep(k).span.start = Larger(segments[k].start, instrument.range.start)
  /\ Sweep(k).span.stop = Smaller(segments[k].stop, instrument.range.stop)
  /\ acquired[k] = Acquire(Sweep(k)) /\ acquired[k].params = Sweep(k)
  /\ acquired[k].samples \in Seq(Sample)
  /\ 1..Len(acquired[k].samples) = 1..Sweep(k).points

\* The plan and the sweeps taken of it, in numbers.
LEMMA SweepsKnown ==
  ASSUME GivenTyped, Swept
  PROVE  /\ Tiles(segments, config.span)
         /\ Len(segments) \in Nat \ {0} /\ Len(acquired) \in Nat
         /\ \A k \in 1..Len(segments) : segments[k].start \in Int /\ segments[k].stop \in Int
         /\ instrument.range.start \in Int /\ instrument.range.stop \in Int
         /\ config.span.start \in Int /\ config.span.stop \in Int
         /\ \A k \in 1..Len(acquired) : k \in 1..Len(segments) /\ SweepFacts(k)
<1>1. config \in Configurations /\ instrument \in Instruments /\ IsValid(config.span)
      /\ segments = PlanSegments(config)
  BY DEF GivenTyped, Swept, ConfigurationValid
<1>2. /\ Tiles(segments, config.span) /\ Len(segments) \in Nat \ {0}
      /\ \A k \in 1..Len(segments) : segments[k].start \in Int /\ segments[k].stop \in Int
  BY <1>1, PlanTyped
<1>3. /\ instrument.range.start \in Int /\ instrument.range.stop \in Int
      /\ config.span.start \in Int /\ config.span.stop \in Int
  BY <1>1, ConfigurationTyped, InstrumentsAssumption DEF InstrumentsAssumption
<1>4. Len(acquired) \in Nat /\ Len(acquired) <= Len(segments)
  BY DEF Swept
<1>5. ASSUME NEW k \in 1..Len(acquired)
      PROVE  k \in 1..Len(segments) /\ SweepFacts(k)
  <2> DEFINE p == Sweep(k)
             g == segments[k]
  <2>1. k \in 1..Len(segments)
    BY <1>2, <1>4
  <2>2. g.start \in Int /\ g.stop \in Int /\ p = Coerce(instrument, Phase1Params(config, g))
    BY <1>2, <2>1 DEF Sweep
  <2>3. acquired[k] = Acquire(p) /\ Accepts(instrument, p)
    BY DEF Swept
  <2> HIDE DEF p, g
  <2>4. /\ p.span.start = Larger(g.start, instrument.range.start)
        /\ p.span.stop = Smaller(g.stop, instrument.range.stop)
        /\ p.points = Clamp(config.points, instrument.minPoints, instrument.maxPoints)
        /\ p.points \in Int /\ p.rbw \in Nat \ {0} /\ Span(p.span)
    BY <2>2, <2>3, SweepTyped
  <2>5. /\ Acquire(p).params = p /\ Acquire(p).samples \in Seq(Sample)
        /\ 1..Len(Acquire(p).samples) = 1..p.points
    BY <2>4, AcquiredIs
  <2> QED BY <2>1, <2>2, <2>3, <2>4, <2>5 DEF SweepFacts, p, g
<1> QED BY <1>2, <1>3, <1>4, <1>5

\* The traces of the sweeps, one after the other.
Traces == [k \in 1..Len(acquired) |-> acquired[k].samples]

\* The traces of the sweeps follow each other in frequency.
LEMMA TracesInRow ==
  ASSUME GivenTyped, Swept
  PROVE  /\ Traces \in Seq(Seq(Sample)) /\ Len(Traces) = Len(acquired)
         /\ \A k \in 1..Len(acquired) : Traces[k] = acquired[k].samples
         /\ InRow(Traces)
<1> DEFINE n == Len(acquired)
           t == Traces
<1>1. n \in Nat /\ \A k \in 1..n : k \in 1..Len(segments) /\ SweepFacts(k)
  BY SweepsKnown
<1>2. t = [k \in 1..n |-> acquired[k].samples]
  BY DEF Traces
<1>3. \A k \in 1..n : acquired[k].samples \in Seq(Sample)
  BY <1>1 DEF SweepFacts
<1> HIDE DEF n, t
<1>4. t \in [1..n -> Seq(Sample)]
  BY <1>2, <1>3
<1>5. t \in Seq(Seq(Sample)) /\ Len(t) = n /\ \A k \in 1..n : t[k] = acquired[k].samples
  <2>1. \A k \in 1..n : t[k] = acquired[k].samples
    BY <1>2
  <2> QED BY <1>1, <1>4, <2>1
<1>6. ASSUME NEW k \in 1..n
      PROVE  /\ Sweep(k).span.start \in Int /\ Sweep(k).span.stop \in Int
             /\ \A i \in 1..Len(t[k]) :
                  t[k][i].freq \in Int /\ Sweep(k).span.start <= t[k][i].freq
                  /\ t[k][i].freq <= Sweep(k).span.stop
             /\ \A i, j \in 1..Len(t[k]) : i <= j => t[k][i].freq <= t[k][j].freq
  <2> DEFINE p == Sweep(k)
             F(i) == FrequencyAt(p.span, p.points, i)
  <2>1. /\ Span(p.span) /\ p.points \in Int /\ p.rbw \in Int
        /\ 1..Len(t[k]) = 1..p.points /\ t[k] = Acquire(p).samples
    <3>1. SweepFacts(k) /\ t[k] = acquired[k].samples
      BY <1>1, <1>5
    <3>2. Span(p.span) /\ p.points \in Int /\ p.rbw \in Nat \ {0} /\ acquired[k] = Acquire(p)
          /\ 1..Len(acquired[k].samples) = 1..p.points
      BY <3>1 DEF SweepFacts
    <3> HIDE DEF p
    <3>3. p.rbw \in Int
      BY <3>2
    <3> QED BY <3>1, <3>2, <3>3
  <2> HIDE DEF p
  <2>2. \A i \in 1..p.points : t[k][i].freq = F(i)
    BY <2>1, AcquiredIs
  <2>3. /\ \A i \in 1..p.points : F(i) \in Int /\ p.span.start <= F(i) /\ F(i) <= p.span.stop
        /\ \A i, j \in 1..p.points : i <= j => F(i) <= F(j)
    BY <2>1, SamplesInSpan
  <2> HIDE DEF F
  <2>4. p.span.start \in Int /\ p.span.stop \in Int
    BY <2>1 DEF Span
  <2> QED BY <2>1, <2>2, <2>3, <2>4 DEF p
<1>7. ASSUME NEW k \in 1..n, NEW l \in 1..n, k < l
      PROVE  Sweep(k).span.stop <= Sweep(l).span.start
  <2>1. /\ k \in 1..Len(segments) /\ l \in 1..Len(segments)
        /\ Sweep(k).span.stop = Smaller(segments[k].stop, instrument.range.stop)
        /\ Sweep(l).span.start = Larger(segments[l].start, instrument.range.start)
        /\ segments[k].stop \in Int /\ segments[l].start \in Int
    BY <1>1 DEF SweepFacts
  <2>2. segments[k].stop <= segments[l].start
    BY <1>7, <2>1, SweepsKnown, SegmentsInOrder
  <2>3. instrument.range.start \in Int /\ instrument.range.stop \in Int
    BY SweepsKnown
  <2> QED BY <2>1, <2>2, <2>3 DEF Smaller, Larger
<1>8. ASSUME NEW k \in 1..n, NEW l \in 1..n, k < l,
             NEW i \in 1..Len(t[k]), NEW j \in 1..Len(t[l])
      PROVE  t[k][i].freq <= t[l][j].freq
  <2>1. /\ Sweep(k).span.stop \in Int /\ t[k][i].freq \in Int
        /\ t[k][i].freq <= Sweep(k).span.stop
    BY <1>6
  <2>2. /\ Sweep(l).span.start \in Int /\ t[l][j].freq \in Int
        /\ Sweep(l).span.start <= t[l][j].freq
    BY <1>6
  <2>3. Sweep(k).span.stop <= Sweep(l).span.start
    BY <1>7, <1>8
  <2>4. \A a, b, c, d \in Int : a <= b /\ b <= c /\ c <= d => a <= d
    OBVIOUS
  <2> QED BY <2>1, <2>2, <2>3, <2>4
<1>9. InRow(t)
  BY <1>5, <1>6, <1>8 DEF InRow
<1> QED BY <1>5, <1>9 DEF t, n

\* The stitched trace has the samples of the sweeps, one for each frequency, and
\* none of them lower.
LEMMA StitchedIs ==
  ASSUME GivenTyped, Swept
  PROVE  /\ Stitch(acquired) \in Seq(Sample)
         /\ \A i, j \in 1..Len(Stitch(acquired)) :
              i < j => Stitch(acquired)[i].freq < Stitch(acquired)[j].freq
         /\ \A i \in 1..Len(Stitch(acquired)) :
              \E k \in 1..Len(acquired) : \E m \in 1..acquired[k].params.points :
                Stitch(acquired)[i] = acquired[k].samples[m]
         /\ \A k \in 1..Len(acquired) : \A m \in 1..acquired[k].params.points :
              \E i \in 1..Len(Stitch(acquired)) :
                /\ Stitch(acquired)[i].freq = acquired[k].samples[m].freq
                /\ acquired[k].samples[m].level <= Stitch(acquired)[i].level
<1> DEFINE t == Traces
           y == Stitch(acquired)
<1>1. /\ t \in Seq(Seq(Sample)) /\ Len(t) = Len(acquired) /\ InRow(t)
      /\ \A k \in 1..Len(acquired) : t[k] = acquired[k].samples
  BY TracesInRow
<1>2. t = [k \in 1..Len(acquired) |-> acquired[k].samples]
  BY DEF Traces
<1> HIDE DEF t
<1>3. Stitched(y, t)
  BY <1>1, <1>2, StitchKeepsWorst
<1>4. \A k \in 1..Len(acquired) : 1..Len(t[k]) = 1..acquired[k].params.points
  BY <1>1, SweepsKnown DEF SweepFacts
<1> HIDE DEF y
<1>5. \A i \in 1..Len(y) : \E k \in 1..Len(acquired) : \E m \in 1..acquired[k].params.points :
        y[i] = acquired[k].samples[m]
  <2> TAKE i \in 1..Len(y)
  <2>1. PICK k \in 1..Len(t) : \E m \in 1..Len(t[k]) : y[i] = t[k][m]
    BY <1>3 DEF Stitched
  <2> QED BY <1>1, <1>4, <2>1
<1>6. \A k \in 1..Len(acquired) : \A m \in 1..acquired[k].params.points : \E i \in 1..Len(y) :
        y[i].freq = acquired[k].samples[m].freq /\ acquired[k].samples[m].level <= y[i].level
  <2> TAKE k \in 1..Len(acquired)
  <2> TAKE m \in 1..acquired[k].params.points
  <2>1. k \in 1..Len(t) /\ m \in 1..Len(t[k]) /\ t[k] = acquired[k].samples
    BY <1>1, <1>4
  <2>2. \E i \in 1..Len(y) : y[i].freq = t[k][m].freq /\ t[k][m].level <= y[i].level
    BY <1>3, <2>1 DEF Stitched
  <2> QED BY <2>1, <2>2
<1>7. y \in Seq(Sample) /\ \A i, j \in 1..Len(y) : i < j => y[i].freq < y[j].freq
  BY <1>3 DEF Stitched
<1> QED BY <1>5, <1>6, <1>7 DEF y

\* What Corrected() leaves as it is, and what it adds.
LEMMA CorrectedIs ==
  ASSUME config \in Configurations, NEW trace \in Seq(Sample)
  PROVE  /\ Corrected(trace) \in Seq(Sample) /\ Len(Corrected(trace)) = Len(trace)
         /\ \A i \in 1..Len(trace) :
              /\ trace[i].freq \in Int /\ trace[i].level \in Int
              /\ TotalCorrection(config.corrections, trace[i].freq) \in Int
              /\ Corrected(trace)[i].freq = trace[i].freq
              /\ Corrected(trace)[i].level
                   = trace[i].level + TotalCorrection(config.corrections, trace[i].freq)
<1> DEFINE n == Len(trace)
           C == [i \in 1..n |-> TotalCorrection(config.corrections, trace[i].freq)]
           y == Corrected(trace)
<1>1. n \in Nat /\ \A i \in 1..n : trace[i] \in Sample
  OBVIOUS
<1>2. \A i \in 1..n : trace[i].freq \in Int /\ trace[i].level \in Int
  BY <1>1 DEF Sample
<1>3. \A i \in 1..n : C[i] \in Int
  BY <1>2, TotalCorrectionIsNumber
<1>4. y = [i \in 1..n |-> [trace[i] EXCEPT !.level = @ + C[i]]]
  BY DEF Corrected
<1> HIDE DEF C, y, n
<1>5. \A i \in 1..n : [trace[i] EXCEPT !.level = @ + C[i]]
                        = [freq |-> trace[i].freq, level |-> trace[i].level + C[i]]
  <2>1. \A s \in Sample, v \in Int : [s EXCEPT !.level = v] = [freq |-> s.freq, level |-> v]
    BY DEF Sample
  <2>2. \A i \in 1..n : trace[i].level + C[i] \in Int
    BY <1>2, <1>3
  <2> QED BY <1>1, <2>1, <2>2
<1>6. \A i \in 1..n : y[i] = [freq |-> trace[i].freq, level |-> trace[i].level + C[i]]
  BY <1>4, <1>5
<1>7. \A i \in 1..n : y[i] \in Sample
  <2>1. \A a, b \in Int : [freq |-> a, level |-> b] \in Sample
    BY DEF Sample
  <2>2. \A i \in 1..n : trace[i].level + C[i] \in Int
    BY <1>2, <1>3
  <2> QED BY <1>2, <1>6, <2>1, <2>2
<1>8. y \in Seq(Sample) /\ Len(y) = n
  BY <1>1, <1>4, <1>7
<1>9. \A i \in 1..n : y[i].freq = trace[i].freq /\ y[i].level = trace[i].level + C[i]
  <2>1. \A a, b : [freq |-> a, level |-> b].freq = a /\ [freq |-> a, level |-> b].level = b
    OBVIOUS
  <2> TAKE i \in 1..n
  <2>2. y[i] = [freq |-> trace[i].freq, level |-> trace[i].level + C[i]]
    BY <1>6
  <2> QED BY <2>1, <2>2
<1> QED BY <1>2, <1>3, <1>8, <1>9 DEF n, y, C

\* What does not touch the sweeps keeps what is known of them, ...
LEMMA SweptUnchanged ==
  ASSUME Swept, UNCHANGED <<given, segments, acquired>>
  PROVE  Swept'
<1>1. UNCHANGED <<config, instrument, emissions, segments, acquired>>
  BY DEF given
<1>2. \A k : Sweep(k)' = Sweep(k)
  BY <1>1 DEF Sweep
<1>3. \A p : Acquire(p)' = Acquire(p)
  BY <1>1 DEF Acquire, Reading
<1>4. ConfigurationValid'
  BY <1>1 DEF Swept, ConfigurationValid
<1>5. acquired' \in Seq({Acquire(Sweep(k)) : k \in 1..Len(segments)})'
  BY <1>1, <1>2, <1>3 DEF Swept
<1> QED BY <1>1, <1>2, <1>3, <1>4, <1>5 DEF Swept

\* ... and likewise for the analysis.
LEMMA AnalysedUnchanged ==
  ASSUME Analysed, UNCHANGED <<given, segments, acquired, scan, candidates, results>>
  PROVE  Analysed'
<1>1. UNCHANGED <<config, instrument, emissions, segments, acquired, scan, candidates, results>>
  BY DEF given
<1>2. Peaks' = Peaks
  BY <1>1 DEF Peaks, Corrected
<1>3. \A f : Dwell(f)' = Dwell(f)
  BY <1>1 DEF Dwell
<1>4. \A p : Acquire(p)' = Acquire(p)
  BY <1>1 DEF Acquire, Reading
<1>5. \A k : Measured(k)' = Measured(k)
  BY <1>1, <1>2, <1>3, <1>4 DEF Measured, Point
<1>6. results' \in Seq({Measured(k) : k \in 1..Len(Peaks)})'
  BY <1>1, <1>2, <1>5 DEF Analysed
<1> QED BY <1>1, <1>2, <1>3, <1>5, <1>6 DEF Analysed

\* One more sweep.
LEMMA SweepAdded ==
  ASSUME GivenTyped, Swept, SweepSegment
  PROVE  Swept'
<1> DEFINE n == Len(acquired)
           S == {Acquire(Sweep(k)) : k \in 1..Len(segments)}
           m == n + 1
<1>1. UNCHANGED <<config, instrument, emissions, segments>>
  BY DEF SweepSegment, given
<1>2. \A k : Sweep(k)' = Sweep(k)
  BY <1>1 DEF Sweep
<1>3. \A p : Acquire(p)' = Acquire(p)
  BY <1>1 DEF Acquire, Reading
<1>4. ConfigurationValid' /\ segments' = PlanSegments(config')
  BY <1>1 DEF Swept, ConfigurationValid
<1>5. /\ n < Len(segments) /\ Accepts(instrument, Sweep(m))
      /\ acquired' = Append(acquired, Acquire(Sweep(m)))
  BY DEF SweepSegment, NextSweep, Sweep
<1>6. n \in Nat /\ Len(segments) \in Nat /\ acquired \in Seq(S)
  BY SweepsKnown DEF Swept
<1>7. m \in 1..Len(segments)
  BY <1>5, <1>6
<1>8. Acquire(Sweep(m)) \in S
  BY <1>7
<1>9. \A k \in 1..n : acquired[k] = Acquire(Sweep(k)) /\ Accepts(instrument, Sweep(k))
  BY DEF Swept
<1> HIDE DEF S
<1>10. /\ acquired' \in Seq(S) /\ Len(acquired') = m /\ acquired'[m] = Acquire(Sweep(m))
       /\ \A k \in 1..n : acquired'[k] = acquired[k]
  BY <1>5, <1>6, <1>8
<1>11. S = {Acquire(Sweep(k)) : k \in 1..Len(segments)}'
  BY <1>1, <1>2, <1>3 DEF S
<1>12. \A k \in 1..m : acquired'[k] = Acquire(Sweep(k)) /\ Accepts(instrument, Sweep(k))
  <2> TAKE k \in 1..m
  <2>1. k \in 1..n \/ k = m
    BY <1>6
  <2> HIDE DEF m, n
  <2> QED BY <1>5, <1>9, <1>10, <2>1
<1>13. m <= Len(segments)
  BY <1>7, <1>6
<1> HIDE DEF m
<1> QED BY <1>1, <1>2, <1>3, <1>4, <1>10, <1>11, <1>12, <1>13 DEF Swept

\* The peaks of a scan, wherever it has been analysed.
LEMMA PeaksAre ==
  ASSUME GivenTyped, Swept, Analysed
  PROVE  /\ scan \in Seq(Sample) /\ Corrected(scan) \in Seq(Sample)
         /\ Detected(config, Corrected(scan), Peaks)
         /\ Peaks \in Seq(Peak)
<1>1. config \in Configurations /\ config.maxCount > 0
  BY DEF GivenTyped, Swept, ConfigurationValid
<1>2. scan \in Seq(Sample)
  BY StitchedIs DEF Analysed
<1>3. Corrected(scan) \in Seq(Sample)
  BY <1>1, <1>2, CorrectedIs
<1>4. Detected(config, Corrected(scan), Peaks)
  BY <1>1, <1>3, PeaksDetected DEF Peaks
<1> QED BY <1>2, <1>3, <1>4 DEF Detected

\* The analysis of all the sweeps.
LEMMA ScanAnalysed ==
  ASSUME GivenTyped, Swept, results = <<>>, Analyse
  PROVE  Analysed'
<1> DEFINE stitched == Stitch(acquired)
           d == DetectPeaks(Corrected(stitched), config)
<1>1. /\ UNCHANGED <<config, instrument, emissions, segments, acquired, results>>
      /\ Len(acquired) = Len(segments) /\ scan' = stitched /\ candidates' = d
  BY DEF Analyse, given
<1>2. config \in Configurations /\ config.maxCount > 0
  BY DEF GivenTyped, Swept, ConfigurationValid
<1>3. stitched \in Seq(Sample)
  BY StitchedIs
<1>4. Corrected(stitched) \in Seq(Sample)
  BY <1>2, <1>3, CorrectedIs
<1>5. d \in Seq(Peak)
  BY <1>2, <1>4, PeaksDetected DEF Detected
<1>6. Corrected(stitched) = [i \in 1..Len(stitched) |->
        [stitched[i] EXCEPT !.level = @ + TotalCorrection(config.corrections, stitched[i].freq)]]
  BY DEF Corrected
<1> HIDE DEF stitched
<1>7. Corrected(scan)' = Corrected(stitched)
  BY <1>1, <1>6 DEF Corrected
<1>8. Peaks' = d
  BY <1>1, <1>7 DEF Peaks
<1> HIDE DEF d
<1>9. scan' = Stitch(acquired')
  BY <1>1 DEF stitched
<1>10. results' = <<>> /\ Len(results') = 0 /\ Len(d) \in Nat
  BY <1>1, <1>5
<1>11. results' \in Seq({Measured(k) : k \in 1..Len(Peaks)})'
  BY <1>10
<1>12. \A k \in 1..Len(candidates') : candidates'[k] = Peaks'[Len(results') + k]
  BY <1>1, <1>5, <1>8, <1>10
<1>13. Len(results') + Len(candidates') = Len(Peaks') /\ candidates' \in Seq(Peak)
  BY <1>1, <1>5, <1>8, <1>10
<1>14. \A k \in 1..Len(results') : FALSE
  BY <1>10
<1> QED BY <1>1, <1>9, <1>11, <1>12, <1>13, <1>14 DEF Analysed

\* One more peak is measured: it moves from the candidates to the results.
LEMMA PeakMeasured ==
  ASSUME GivenTyped, Swept, Analysed, candidates # <<>>, VerifyPeak
  PROVE  Analysed'
<1> DEFINE n == Len(results)
           m == n + 1
           S == {Measured(k) : k \in 1..Len(Peaks)}
<1>1. UNCHANGED <<config, instrument, emissions, segments, acquired, scan>>
  BY DEF VerifyPeak, given
<1>2. Peaks' = Peaks
  BY <1>1 DEF Peaks, Corrected
<1>3. \A f : Dwell(f)' = Dwell(f)
  BY <1>1 DEF Dwell
<1>4. \A p : Acquire(p)' = Acquire(p)
  BY <1>1 DEF Acquire, Reading
<1>5. \A k : Measured(k)' = Measured(k)
  BY <1>1, <1>2, <1>3, <1>4 DEF Measured, Point
<1>6. /\ candidates \in Seq(Peak) /\ results \in Seq(S) /\ n \in Nat
      /\ n + Len(candidates) = Len(Peaks)
      /\ \A k \in 1..Len(candidates) : candidates[k] = Peaks[n + k]
      /\ \A k \in 1..n : results[k] = Measured(k) /\ Accepts(instrument, Dwell(Peaks[k].freq))
      /\ Len(acquired) = Len(segments) /\ scan = Stitch(acquired)
  <2>1. n \in Nat
    BY DEF Analysed
  <2> QED BY <2>1 DEF Analysed
<1>7. Len(candidates) \in Nat /\ 1 \in 1..Len(candidates) /\ Head(candidates) = candidates[1]
  BY <1>6
<1>8. Head(candidates) = Peaks[m]
  BY <1>6, <1>7
<1>9. /\ Accepts(instrument, Dwell(Peaks[m].freq))
      /\ results' = Append(results, Measured(m)) /\ candidates' = Tail(candidates)
  BY <1>8 DEF VerifyPeak, NextDwell, Dwell, Measured
<1>10. m \in 1..Len(Peaks)
  BY <1>6, <1>7
<1>11. Measured(m) \in S
  BY <1>10
<1>12. S = {Measured(k) : k \in 1..Len(Peaks)}'
  BY <1>2, <1>5
<1> HIDE DEF S
<1>13. /\ results' \in Seq(S) /\ Len(results') = m /\ results'[m] = Measured(m)
       /\ \A k \in 1..n : results'[k] = results[k]
  BY <1>6, <1>9, <1>11
<1>14. /\ candidates' \in Seq(Peak) /\ Len(candidates') = Len(candidates) - 1
       /\ \A k \in 1..(Len(candidates) - 1) : candidates'[k] = candidates[k + 1]
  BY <1>6, <1>7, <1>9
<1>15. \A k \in 1..m : results'[k] = Measured(k) /\ Accepts(instrument, Dwell(Peaks[k].freq))
  <2> TAKE k \in 1..m
  <2>1. k \in 1..n \/ k = m
    BY <1>6
  <2> HIDE DEF m, n
  <2> QED BY <1>6, <1>9, <1>13, <2>1
<1>16. \A k \in 1..Len(candidates') : candidates'[k] = Peaks[Len(results') + k]
  <2> TAKE k \in 1..Len(candidates')
  <2>1. k \in 1..(Len(candidates) - 1) /\ k + 1 \in 1..Len(candidates)
    BY <1>7, <1>14
  <2>2. candidates'[k] = Peaks[n + (k + 1)]
    BY <1>6, <1>14, <2>1
  <2>3. n + (k + 1) = Len(results') + k
    BY <1>6, <1>13, <2>1
  <2> HIDE DEF n, m
  <2> QED BY <2>2, <2>3
<1>17. Len(results') + Len(candidates') = Len(Peaks)
  <2>1. /\ Len(results') = n + 1 /\ Len(candidates') = Len(candidates) - 1
        /\ n + Len(candidates) = Len(Peaks) /\ n \in Nat /\ Len(candidates) \in Nat
    BY <1>6, <1>7, <1>13, <1>14
  <2> HIDE DEF n, m
  <2> QED BY <2>1
<1>18. \A k \in 1..Len(results') :
         results'[k] = Measured(k)' /\ Accepts(instrument, Dwell(Peaks[k].freq))'
  <2> TAKE k \in 1..Len(results')
  <2>1. results'[k] = Measured(k) /\ Accepts(instrument, Dwell(Peaks[k].freq))
    BY <1>13, <1>15
  <2>2. Dwell(Peaks[k].freq)' = Dwell(Peaks[k].freq)
    BY <1>2, <1>1 DEF Dwell
  <2>3. Accepts(instrument, Dwell(Peaks[k].freq))' = Accepts(instrument, Dwell(Peaks[k].freq))
    BY <1>1, <2>2
  <2> QED BY <1>5, <2>1, <2>3
<1>19. /\ Len(acquired') = Len(segments') /\ scan' = Stitch(acquired')
       /\ candidates' \in Seq(Peak) /\ results' \in Seq({Measured(k) : k \in 1..Len(Peaks)})'
  BY <1>1, <1>6, <1>12, <1>13, <1>14
<1> QED BY <1>2, <1>16, <1>17, <1>18, <1>19 DEF Analysed

\* What is given at the start of a run stays as it is.
LEMMA GivenUnchanged ==
  ASSUME GivenTyped, UNCHANGED given
  PROVE  GivenTyped'
<1>1. UNCHANGED <<config, instrument, emissions>>
  BY DEF given
<1> QED BY <1>1 DEF GivenTyped

\* The invariant holds in every reachable state: one case per action.
LEMMA PassInvariant == Spec => []PassInv
<1>1. ASSUME Init
      PROVE  PassInv
  <2>1. config \in Configurations /\ instrument \in Instruments
    BY <1>1 DEF Init
  <2>2. ASSUME NEW e \in Emission
        PROVE  e.freq \in Int /\ e.level \in Int
    <3>1. e.freq \in (config.span.start .. config.span.stop) /\ e.level \in EmissionLevels
      BY DEF Emission
    <3>2. config.span.start \in Int /\ config.span.stop \in Int
      BY <2>1, ConfigurationTyped
    <3>3. e.freq \in Int
      BY <3>1, <3>2
    <3>4. e.level \in Int
      BY <3>1, LevelsAssumption DEF LevelsAssumption
    <3> QED BY <3>3, <3>4
  <2>3. IsFiniteSet(emissions) /\ \A e \in emissions : e.freq \in Int /\ e.level \in Int
    <3>1. emissions = {} \/ emissions \in {{d, e} : d, e \in Emission}
      BY <1>1 DEF Init
    <3>2. CASE emissions = {}
      BY <3>2, FS_EmptySet
    <3>3. CASE emissions \in {{d, e} : d, e \in Emission}
      <4>1. PICK d \in Emission, e \in Emission : emissions = {d, e}
        BY <3>3
      <4>2. IsFiniteSet({d}) /\ IsFiniteSet({e})
        BY FS_Singleton
      <4>3. IsFiniteSet({d} \cup {e})
        BY <4>2, FS_Union
      <4>4. {d, e} = {d} \cup {e}
        OBVIOUS
      <4> QED BY <2>2, <4>1, <4>3, <4>4
    <3> QED BY <3>1, <3>2, <3>3
  <2>4. GivenTyped
    BY <2>1, <2>3 DEF GivenTyped
  <2> QED BY <1>1, <2>4 DEF Init, PassInv, Planned
<1>2. ASSUME PassInv, [Next]_vars
      PROVE  PassInv'
  <2> USE <1>2 DEF PassInv
  <2>1. CASE RefuseRun
    <3>1. /\ UNCHANGED given /\ pc' = "failed" /\ results' = <<>>
      BY <2>1 DEF RefuseRun
    <3> QED BY <3>1, GivenUnchanged DEF Planned
  <2>2. CASE PlanScan
    <3>1. /\ UNCHANGED given /\ pc' = "scan" /\ results' = <<>> /\ acquired' = <<>>
          /\ segments' = PlanSegments(config) /\ ConfigurationValid
      BY <2>2 DEF PlanScan
    <3>2. UNCHANGED <<config, instrument, emissions>>
      BY <3>1 DEF given
    <3>3. Len(segments') \in Nat
      <4>1. config \in Configurations /\ IsValid(config.span)
        BY <3>1 DEF GivenTyped, ConfigurationValid
      <4> QED BY <3>1, <4>1, PlanTyped
    <3>4. Swept'
      <4>1. ConfigurationValid'
        BY <3>1, <3>2 DEF ConfigurationValid
      <4>2. acquired' \in Seq({Acquire(Sweep(k)) : k \in 1..Len(segments)})'
        BY <3>1
      <4>3. Len(acquired') = 0
        BY <3>1
      <4> QED BY <3>1, <3>2, <3>3, <4>1, <4>2, <4>3 DEF Swept
    <3> QED BY <3>1, <3>4, GivenUnchanged
  <2>3. CASE SweepSegment
    <3>1. /\ UNCHANGED given /\ pc = "scan" /\ pc' = "scan" /\ results' = <<>>
      BY <2>3 DEF SweepSegment
    <3>2. Swept'
      BY <2>3, <3>1, SweepAdded DEF Planned
    <3> QED BY <3>1, <3>2, GivenUnchanged
  <2>4. CASE SweepRefused
    <3>1. UNCHANGED given /\ pc' = "failed" /\ results' = <<>>
      BY <2>4 DEF SweepRefused
    <3> QED BY <3>1, GivenUnchanged DEF Planned
  <2>5. CASE Analyse
    <3>1. /\ UNCHANGED <<given, segments, acquired, results>> /\ pc = "scan" /\ results = <<>>
          /\ pc' = IF candidates' = <<>> THEN "finished" ELSE "dwell"
      BY <2>5 DEF Analyse
    <3>2. Swept
      BY <3>1 DEF Planned
    <3>3. Swept' /\ Analysed'
      BY <2>5, <3>1, <3>2, SweptUnchanged, ScanAnalysed
    <3> QED BY <3>1, <3>3, GivenUnchanged
  <2>6. CASE VerifyPeak
    <3>1. /\ UNCHANGED <<given, segments, acquired, scan>> /\ pc = "dwell" /\ candidates # <<>>
          /\ pc' = IF candidates' = <<>> THEN "finished" ELSE "dwell"
      BY <2>6 DEF VerifyPeak
    <3>2. Swept /\ Analysed
      BY <3>1 DEF Planned
    <3>3. Swept' /\ Analysed'
      BY <2>6, <3>1, <3>2, SweptUnchanged, PeakMeasured
    <3> QED BY <3>1, <3>3, GivenUnchanged
  <2>7. CASE VerifyRefused
    <3>1. /\ UNCHANGED <<given, segments, acquired, scan, candidates, results>>
          /\ pc = "dwell" /\ pc' = "failed"
      BY <2>7 DEF VerifyRefused
    <3>2. Swept /\ Analysed
      BY <3>1 DEF Planned
    <3>3. Swept' /\ Analysed'
      BY <3>1, <3>2, SweptUnchanged, AnalysedUnchanged
    <3> QED BY <3>1, <3>3, GivenUnchanged
  <2>8. CASE UNCHANGED vars
    <3>1. UNCHANGED <<given, pc, segments, acquired, scan, candidates, results>>
      BY <2>8 DEF vars
    <3>2. (Swept => Swept') /\ (Analysed => Analysed')
      BY <3>1, SweptUnchanged, AnalysedUnchanged
    <3> QED BY <3>1, <3>2, GivenUnchanged DEF Planned
  <2> QED BY <2>1, <2>2, <2>3, <2>4, <2>5, <2>6, <2>7, <2>8 DEF Next
<1> QED BY <1>1, <1>2, PTL DEF Spec

-----------------------------------------------------------------------------
(* The scan.                                                               *)

\* The stitched trace of every pass is one strictly increasing axis with the
\* samples of all its sweeps, the highest of those at one frequency.
THEOREM ScanIsWhole == Spec => []ScanKeepsWorst
<1>1. PassInv => ScanKeepsWorst
  <2> SUFFICES ASSUME PassInv, pc \in {"dwell", "finished"}
               PROVE  LET taken == UNION {{acquired[k].samples[i] : i \in 1..acquired[k].params.points} :
                                            k \in 1..Len(acquired)}
                      IN  /\ \A i \in 2..Len(scan) : scan[i - 1].freq < scan[i].freq
                          /\ \A i \in 1..Len(scan) : scan[i] \in taken
                          /\ \A s \in taken : \E i \in 1..Len(scan) :
                               scan[i].freq = s.freq /\ scan[i].level >= s.level
    BY DEF ScanKeepsWorst
  <2> DEFINE taken == UNION {{acquired[k].samples[i] : i \in 1..acquired[k].params.points} :
                               k \in 1..Len(acquired)}
  <2>1. GivenTyped /\ Swept /\ scan = Stitch(acquired)
    BY DEF PassInv, Planned, Analysed
  <2>2. /\ scan \in Seq(Sample)
        /\ \A i, j \in 1..Len(scan) : i < j => scan[i].freq < scan[j].freq
        /\ \A i \in 1..Len(scan) : \E k \in 1..Len(acquired) :
             \E m \in 1..acquired[k].params.points : scan[i] = acquired[k].samples[m]
        /\ \A k \in 1..Len(acquired) : \A m \in 1..acquired[k].params.points :
             \E i \in 1..Len(scan) : /\ scan[i].freq = acquired[k].samples[m].freq
                                     /\ acquired[k].samples[m].level <= scan[i].level
    BY <2>1, StitchedIs
  <2>3. ASSUME NEW i \in 2..Len(scan)
        PROVE  scan[i - 1].freq < scan[i].freq
    <3>1. i - 1 \in 1..Len(scan) /\ i \in 1..Len(scan) /\ i - 1 < i
      BY <2>2
    <3> QED BY <2>2, <3>1
  <2>4. \A i \in 1..Len(scan) : scan[i] \in taken
    <3> TAKE i \in 1..Len(scan)
    <3>1. PICK k \in 1..Len(acquired) :
                 \E m \in 1..acquired[k].params.points : scan[i] = acquired[k].samples[m]
      BY <2>2
    <3> QED BY <3>1
  <2>5. \A s \in taken : \E i \in 1..Len(scan) :
          scan[i].freq = s.freq /\ scan[i].level >= s.level
    <3> TAKE s \in taken
    <3>1. PICK k \in 1..Len(acquired) :
                 \E m \in 1..acquired[k].params.points : s = acquired[k].samples[m]
      OBVIOUS
    <3>2. PICK m \in 1..acquired[k].params.points : s = acquired[k].samples[m]
      BY <3>1
    <3>3. \E i \in 1..Len(scan) : scan[i].freq = s.freq /\ s.level <= scan[i].level
      BY <2>2, <3>2
    <3> QED BY <3>3
  <2> QED BY <2>3, <2>4, <2>5
<1> QED BY <1>1, PassInvariant, PTL

-----------------------------------------------------------------------------
(* The peaks.                                                              *)

\* The critical samples of a trace are those the code flags.
LEMMA CriticalIsFlagged ==
  ASSUME config \in Configurations, NEW trace \in Seq(Sample), NEW i \in 1..Len(trace)
  PROVE  LET Room == Margin(config.limits, trace[i].freq, trace[i].level)
         IN  /\ Room = Candidate(trace, config.limits, i).margin /\ Room \in Int
             /\ Flagged(trace, config, i) <=>
                  /\ StandsOut(trace, i)
                  /\ trace[i].level >= config.floor
                  /\ \/ Room <= config.threshold
                     \/ Room = Infinite /\ ~config.requireLimit
<1> DEFINE m == Margin(config.limits, trace[i].freq, trace[i].level)
<1>1. m = Candidate(trace, config.limits, i).margin
  BY DEF Candidate
<1>2. Candidate(trace, config.limits, i) \in Peak
  BY CandidateIsPeak
<1>3. m \in Int
  BY <1>1, <1>2 DEF Peak
<1>4. config.threshold < Infinite /\ config.threshold \in Int /\ Infinite \in Int
  BY ConfigurationTyped, LevelsAssumption DEF LevelsAssumption
<1>5. StandsOut(trace, i) <=>
        IsLocalMaximum(trace, i) /\ Prominence(trace, i) >= config.prominence
  BY StandingOut
<1>6. Flagged(trace, config, i) <=>
        /\ trace[i].level >= config.floor
        /\ IsLocalMaximum(trace, i)
        /\ Prominence(trace, i) >= config.prominence
        /\ IF m = Infinite THEN ~config.requireLimit ELSE m <= config.threshold
  BY <1>1 DEF Flagged
<1> HIDE DEF m
<1>7. (IF m = Infinite THEN ~config.requireLimit ELSE m <= config.threshold)
        <=> (m <= config.threshold \/ (m = Infinite /\ ~config.requireLimit))
  BY <1>3, <1>4
<1> QED BY <1>1, <1>3, <1>5, <1>6, <1>7 DEF m

\* Sample i of the trace is the peak of that number.
IsPeak(trace, k, i) ==
  /\ i \in 1..Len(trace) /\ Len(trace) > 2 /\ Flagged(trace, config, i)
  /\ Peaks[k] = Candidate(trace, config.limits, i)
  /\ Peaks[k].freq = trace[i].freq
  /\ Peaks[k].margin = Margin(config.limits, trace[i].freq, trace[i].level)

\* Every peak is a sample of the corrected scan.
LEMMA PeakIsSample ==
  ASSUME GivenTyped, Swept, Analysed, NEW k \in 1..Len(Peaks)
  PROVE  \E i \in 1..Len(Corrected(scan)) : IsPeak(Corrected(scan), k, i)
<1> DEFINE trace == Corrected(scan)
<1>1. Detected(config, trace, Peaks)
  BY PeaksAre
<1> HIDE DEF trace
<1>2. PICK i \in 1..Len(trace) :
        Len(trace) > 2 /\ Flagged(trace, config, i)
        /\ Peaks[k] = Candidate(trace, config.limits, i)
  BY <1>1 DEF Detected
<1>3. IsPeak(trace, k, i)
  BY <1>2 DEF IsPeak, Candidate
<1> QED BY <1>3 DEF trace

\* The peaks are the critical samples, but for those that had to give way.
LEMMA PeaksFlagged ==
  ASSUME GivenTyped, Swept, Analysed
  PROVE  CriticalPeaksFlagged
<1> DEFINE trace == Corrected(scan)
           At(f) == CHOOSE i \in 1..Len(trace) : trace[i].freq = f
           Room(i) == Margin(config.limits, trace[i].freq, trace[i].level)
           critical == {i \in 1..Len(trace) :
                          /\ Len(trace) > 2 /\ StandsOut(trace, i)
                          /\ trace[i].level >= config.floor
                          /\ \/ Room(i) <= config.threshold
                             \/ Room(i) = Infinite /\ ~config.requireLimit}
           kept == [k \in 1..Len(results) |-> At(results[k].freq)]
                     \o [k \in 1..Len(candidates) |-> At(candidates[k].freq)]
           Apart(i, j) == Distance(trace[i].freq, trace[j].freq) >= config.spacing
           Better(i) == {k \in 1..Len(kept) : Room(kept[k]) <= Room(i)}
           n == Len(trace)
           K == Len(Peaks)
           at == [k \in 1..K |-> At(Peaks[k].freq)]
<1>1. config \in Configurations
  BY DEF GivenTyped
<1>2. /\ scan \in Seq(Sample) /\ trace \in Seq(Sample)
      /\ Detected(config, trace, Peaks) /\ Peaks \in Seq(Peak)
  BY PeaksAre
<1>3. /\ Len(trace) = Len(scan)
      /\ \A i \in 1..Len(scan) : scan[i].freq \in Int /\ trace[i].freq = scan[i].freq
  BY <1>1, <1>2, CorrectedIs
<1>4. \A i, j \in 1..Len(scan) : i < j => scan[i].freq < scan[j].freq
  BY StitchedIs DEF Analysed
<1>5. /\ candidates \in Seq(Peak) /\ results \in Seq({Measured(k) : k \in 1..K})
      /\ Len(results) + Len(candidates) = K
      /\ \A k \in 1..Len(candidates) : candidates[k] = Peaks[Len(results) + k]
      /\ \A k \in 1..Len(results) : results[k] = Measured(k)
  BY DEF Analysed
<1>6. \A k : Measured(k).freq = Peaks[k].freq
  BY DEF Measured, Point
<1>7. \A k \in 1..Len(results) : results[k].freq = Peaks[k].freq
  BY <1>5, <1>6
<1>8. n \in Nat /\ K \in Nat /\ Len(results) \in Nat /\ Len(candidates) \in Nat
  <2>1. n \in Nat /\ K \in Nat /\ Len(candidates) \in Nat
    BY <1>2, <1>5
  <2>2. Len(results) \in Nat
    BY <1>5
  <2> QED BY <2>1, <2>2
<1> HIDE DEF trace
<1>9. \A i \in 1..n : At(trace[i].freq) = i
  <2> SUFFICES ASSUME NEW i \in 1..n PROVE At(trace[i].freq) = i
    OBVIOUS
  <2>1. ASSUME NEW j \in 1..n, trace[j].freq = trace[i].freq
        PROVE  j = i
    <3>1. i \in 1..Len(scan) /\ j \in 1..Len(scan) /\ scan[i].freq = scan[j].freq
          /\ scan[i].freq \in Int /\ scan[j].freq \in Int
      BY <1>3, <2>1
    <3>2. ~(scan[i].freq < scan[j].freq) /\ ~(scan[j].freq < scan[i].freq)
      BY <3>1
    <3>3. ~(i < j) /\ ~(j < i)
      BY <1>4, <3>1, <3>2
    <3> QED BY <1>8, <3>3
  <2> QED BY <2>1
<1> HIDE DEF At, n, K
<1>10. Len(kept) = K /\ \A k \in 1..K : kept[k] = at[k]
  <2> DEFINE a == [k \in 1..Len(results) |-> At(results[k].freq)]
             b == [k \in 1..Len(candidates) |-> At(candidates[k].freq)]
             S == {At(results[k].freq) : k \in 1..Len(results)}
                    \cup {At(candidates[k].freq) : k \in 1..Len(candidates)}
  <2>1. Len(a) = Len(results) /\ Len(b) = Len(candidates) /\ a \in Seq(S) /\ b \in Seq(S)
    BY <1>8
  <2>2. \A k \in 1..Len(a) : a[k] = at[k]
    <3> TAKE k \in 1..Len(a)
    <3>1. k \in 1..Len(results) /\ k \in 1..K
      BY <1>5, <1>8, <2>1
    <3> QED BY <1>7, <3>1
  <2>3. \A k \in 1..Len(b) : b[k] = at[Len(a) + k]
    <3> TAKE k \in 1..Len(b)
    <3>1. k \in 1..Len(candidates) /\ Len(results) + k \in 1..K
      BY <1>5, <1>8, <2>1
    <3> QED BY <1>5, <2>1, <3>1
  <2>4. kept = a \o b /\ Len(a) \in Nat /\ Len(b) \in Nat /\ Len(a) + Len(b) = K
    BY <1>5, <1>8, <2>1
  <2> HIDE DEF a, b, kept, at, S
  <2>5. Len(kept) = K
    <3>1. Len(a \o b) = Len(a) + Len(b)
      BY <2>1
    <3> QED BY <2>4, <3>1
  <2>6. ASSUME NEW k \in 1..K PROVE kept[k] = at[k]
    <3>1. CASE k <= Len(a)
      <4>1. k \in 1..Len(a)
        BY <3>1, <1>8
      <4>2. kept[k] = a[k]
        BY <2>1, <2>4, <4>1
      <4> QED BY <2>2, <4>1, <4>2
    <3>2. CASE k > Len(a)
      <4>1. k - Len(a) \in 1..Len(b) /\ Len(a) + (k - Len(a)) = k
        BY <1>8, <2>4, <3>2
      <4>2. kept[k] = b[k - Len(a)]
        BY <1>8, <2>1, <2>4, <3>2, <4>1
      <4>3. b[k - Len(a)] = at[Len(a) + (k - Len(a))]
        BY <2>3, <4>1
      <4> QED BY <4>1, <4>2, <4>3
    <3> QED BY <1>8, <2>4, <3>1, <3>2
  <2> QED BY <2>5, <2>6
<1> HIDE DEF kept
<1>11. \A k \in 1..K : IsPeak(trace, k, kept[k])
  <2> TAKE k \in 1..K
  <2>1. PICK i \in 1..n : IsPeak(trace, k, i)
    BY PeakIsSample DEF K, n, trace
  <2>2. Peaks[k].freq = trace[i].freq
    BY <2>1 DEF IsPeak
  <2>3. kept[k] = i
    BY <1>9, <1>10, <2>2
  <2> QED BY <2>1, <2>3
<1>12. \A i \in 1..n : /\ Room(i) \in Int /\ Room(i) = Candidate(trace, config.limits, i).margin
                       /\ i \in critical <=> Len(trace) > 2 /\ Flagged(trace, config, i)
  <2> TAKE i \in 1..n
  <2>1. /\ Room(i) \in Int /\ Room(i) = Candidate(trace, config.limits, i).margin
        /\ Flagged(trace, config, i) <=>
                  /\ StandsOut(trace, i)
                  /\ trace[i].level >= config.floor
                  /\ \/ Room(i) <= config.threshold
                     \/ Room(i) = Infinite /\ ~config.requireLimit
    BY <1>1, <1>2, CriticalIsFlagged DEF n
  <2> HIDE DEF Room
  <2> QED BY <2>1 DEF n
<1>13. \A k \in 1..K : /\ kept[k] \in 1..n /\ kept[k] \in critical
                       /\ Peaks[k].margin = Room(kept[k])
                       /\ Peaks[k].freq = trace[kept[k]].freq
                       /\ Peaks[k] = Candidate(trace, config.limits, kept[k])
  <2> TAKE k \in 1..K
  <2>1. IsPeak(trace, k, kept[k])
    BY <1>11
  <2>2. /\ kept[k] \in 1..n /\ Len(trace) > 2 /\ Flagged(trace, config, kept[k])
        /\ Peaks[k].margin = Room(kept[k])
        /\ Peaks[k].freq = trace[kept[k]].freq
        /\ Peaks[k] = Candidate(trace, config.limits, kept[k])
    BY <2>1 DEF IsPeak, n
  <2> HIDE DEF Room, critical
  <2> QED BY <1>12, <2>2
<1> HIDE DEF critical, Room
<1>14. Len(kept) <= config.maxCount
  BY <1>2, <1>10 DEF Detected, K
<1>15. \A k, l \in 1..Len(kept) :
         k < l => Room(kept[k]) <= Room(kept[l]) /\ Apart(kept[k], kept[l])
  <2> TAKE k, l \in 1..Len(kept)
  <2> HAVE k < l
  <2>1. /\ Peaks[k].margin <= Peaks[l].margin
        /\ Distance(Peaks[k].freq, Peaks[l].freq) >= config.spacing
    BY <1>2, <1>10 DEF Detected, K
  <2> QED BY <1>10, <1>13, <2>1
<1>16. ASSUME NEW i \in critical
       PROVE  \/ \E k \in Better(i) : kept[k] = i \/ ~Apart(kept[k], i)
              \/ Cardinality(Better(i)) = config.maxCount
  <2>1. i \in 1..n /\ Len(trace) > 2 /\ Flagged(trace, config, i)
    <3>1. i \in 1..n
      BY DEF critical, n
    <3> QED BY <1>12, <1>16, <3>1
  <2>2. Candidate(trace, config.limits, i).margin = Room(i)
        /\ Candidate(trace, config.limits, i).freq = trace[i].freq
    BY <1>12, <2>1 DEF Candidate
  <2>3. \/ \E k \in 1..K :
             /\ Peaks[k].margin <= Room(i)
             /\ \/ Peaks[k] = Candidate(trace, config.limits, i)
                \/ Distance(Peaks[k].freq, trace[i].freq) < config.spacing
        \/ K = config.maxCount /\ \A k \in 1..K : Peaks[k].margin <= Room(i)
    BY <1>2, <2>1, <2>2 DEF Detected, K, n
  <2>4. CASE \E k \in 1..K :
             /\ Peaks[k].margin <= Room(i)
             /\ \/ Peaks[k] = Candidate(trace, config.limits, i)
                \/ Distance(Peaks[k].freq, trace[i].freq) < config.spacing
    <3>1. PICK k \in 1..K :
             /\ Peaks[k].margin <= Room(i)
             /\ \/ Peaks[k] = Candidate(trace, config.limits, i)
                \/ Distance(Peaks[k].freq, trace[i].freq) < config.spacing
      BY <2>4
    <3>2. k \in Better(i)
      BY <1>10, <1>13, <3>1
    <3>3. CASE Peaks[k] = Candidate(trace, config.limits, i)
      <4>1. Peaks[k].freq = trace[i].freq
        BY <2>2, <3>3
      <4>2. kept[k] = i
        BY <1>9, <1>13, <2>1, <4>1
      <4> QED BY <3>2, <4>2
    <3>4. CASE Distance(Peaks[k].freq, trace[i].freq) < config.spacing
      <4>1. Distance(trace[kept[k]].freq, trace[i].freq) < config.spacing
        BY <1>13, <3>4
      <4>2. /\ trace[i].freq \in Int /\ trace[kept[k]].freq \in Int
        BY <1>3, <1>13, <2>1 DEF n
      <4>3. config.spacing \in Int /\ Distance(trace[kept[k]].freq, trace[i].freq) \in Int
        BY <1>1, <4>2, ConfigurationTyped DEF Distance, Larger
      <4>4. ~Apart(kept[k], i)
        BY <4>1, <4>3
      <4> QED BY <3>2, <4>4
    <3> QED BY <3>1, <3>3, <3>4
  <2>5. CASE K = config.maxCount /\ \A k \in 1..K : Peaks[k].margin <= Room(i)
    <3>1. Better(i) = 1..K
      BY <1>10, <1>13, <2>5
    <3>2. Cardinality(1..K) = K
      BY <1>8, FS_Interval
    <3> QED BY <2>5, <3>1, <3>2
  <2> QED BY <2>3, <2>4, <2>5
<1>17. /\ Len(kept) <= config.maxCount
       /\ \A k \in 1..Len(kept) : kept[k] \in critical
       /\ \A k, l \in 1..Len(kept) :
            k < l => Room(kept[k]) <= Room(kept[l]) /\ Apart(kept[k], kept[l])
       /\ \A i \in critical :
            \/ \E k \in Better(i) : kept[k] = i \/ ~Apart(kept[k], i)
            \/ Cardinality(Better(i)) = config.maxCount
  BY <1>10, <1>13, <1>14, <1>15, <1>16
<1> QED BY <1>17 DEF CriticalPeaksFlagged, trace, At, Room, critical, kept, Apart, Better

-----------------------------------------------------------------------------
(* What a scan sees.                                                       *)

\* The bandwidths of the sweeps, and where a scan reaches.
LEMMA WidestIs ==
  ASSUME GivenTyped, Swept, Analysed
  PROVE  /\ WidestRbw \in Nat \ {0}
         /\ \A k \in 1..Len(acquired) : Sweep(k).rbw <= WidestRbw
<1> DEFINE n == Len(acquired)
           rbw == [k \in 1..n |-> acquired[k].params.rbw]
           S == {rbw[k] : k \in 1..n}
<1>1. n \in Nat \ {0}
  BY SweepsKnown DEF Analysed
<1>2. \A k \in 1..n : rbw[k] = Sweep(k).rbw /\ Sweep(k).rbw \in Nat \ {0}
  BY SweepsKnown DEF SweepFacts
<1>3. WidestRbw = Max({acquired[k].params.rbw : k \in 1..n})
  BY DEF WidestRbw
<1>4. {acquired[k].params.rbw : k \in 1..n} = S
  OBVIOUS
<1> HIDE DEF n, rbw
<1>5. S \subseteq Nat \ {0} /\ S # {}
  <2>1. \A k \in 1..n : rbw[k] \in Nat \ {0}
    BY <1>2
  <2>2. 1 \in 1..n
    BY <1>1
  <2> QED BY <2>1, <2>2
<1>6. IsFiniteSet(S)
  <2>1. IsFiniteSet(1..n)
    BY <1>1, FS_Interval
  <2> QED BY <2>1, ImageIsFinite DEF S
<1> HIDE DEF S
<1>7. WidestRbw = Max(S) /\ S \in SUBSET Int
  <2>1. WidestRbw = Max(S)
    BY <1>3, <1>4
  <2>2. S \in SUBSET Int
    BY <1>5
  <2> QED BY <2>1, <2>2
<1>8. WidestRbw \in S /\ \A y \in S : y <= WidestRbw
  BY <1>5, <1>6, <1>7, ExtremesExist
<1>9. \A k \in 1..n : Sweep(k).rbw \in S
  BY <1>2 DEF S
<1> QED BY <1>5, <1>8, <1>9 DEF n

\* A scan reaches as far as both its span and the instrument's range do.
LEMMA ReachIs ==
  ASSUME GivenTyped, Swept
  PROVE  /\ Reach.start = Larger(config.span.start, instrument.range.start)
         /\ Reach.stop = Smaller(config.span.stop, instrument.range.stop)
         /\ Reach.start \in Int /\ Reach.stop \in Int
<1>1. config.span.start \in Int /\ config.span.stop \in Int
  BY SweepsKnown
<1>2. Reach = Coerce(instrument, Phase1Params(config, config.span)).span
  BY DEF Reach
<1> DEFINE p == Coerce(instrument, Phase1Params(config, config.span))
<1>3. /\ p.span.start = Larger(config.span.start, instrument.range.start)
      /\ p.span.stop = Smaller(config.span.stop, instrument.range.stop)
      /\ p.span.start \in Int /\ p.span.stop \in Int
  BY <1>1, SweepTyped
<1> QED BY <1>2, <1>3

\* The frequency of sample i of the sweep of segment k.
FrequencyOf(k, i) == FrequencyAt(Sweep(k).span, Sweep(k).points, i)

\* Every sample of a sweep has one in the scan, not below it; ...
LEMMA SweepIsScanned ==
  ASSUME GivenTyped, Swept, Analysed,
         NEW k \in 1..Len(acquired), NEW i \in 1..Sweep(k).points
  PROVE  /\ FrequencyOf(k, i) \in Int
         /\ \E m \in 1..Len(scan) :
              /\ scan[m].freq = FrequencyOf(k, i)
              /\ Reading(FrequencyOf(k, i), Sweep(k).rbw) <= scan[m].level
<1>1. SweepFacts(k)
  BY SweepsKnown
<1> DEFINE p == Sweep(k)
<1>2. Span(p.span) /\ p.points \in Int /\ p.rbw \in Int
      /\ acquired[k] = Acquire(p) /\ acquired[k].params = p
  BY <1>1 DEF SweepFacts
<1>3. /\ FrequencyAt(p.span, p.points, i) \in Int
      /\ acquired[k].samples[i].freq = FrequencyAt(p.span, p.points, i)
      /\ acquired[k].samples[i].level = Reading(FrequencyAt(p.span, p.points, i), p.rbw)
  <2> HIDE DEF p
  <2>1. i \in 1..p.points
    BY DEF p
  <2> QED BY <1>2, <2>1, AcquiredIs
<1>4. \E m \in 1..Len(scan) :
        /\ scan[m].freq = acquired[k].samples[i].freq
        /\ acquired[k].samples[i].level <= scan[m].level
  <2>1. scan = Stitch(acquired) /\ i \in 1..acquired[k].params.points
    BY <1>2 DEF Analysed
  <2> HIDE DEF p
  <2> QED BY <2>1, StitchedIs
<1> QED BY <1>3, <1>4 DEF FrequencyOf

\* ... and every sample of the scan is the reading of a sweep.
IsReadingOf(m, k) ==
  /\ k \in 1..Len(acquired)
  /\ scan[m].freq \in Int /\ scan[m].level \in Int
  /\ scan[m].level = Reading(scan[m].freq, Sweep(k).rbw)
  /\ Sweep(k).span.start <= scan[m].freq /\ scan[m].freq <= Sweep(k).span.stop

\* No sample of the scan comes from anywhere else.
LEMMA ScanIsSwept ==
  ASSUME GivenTyped, Swept, Analysed, NEW m \in 1..Len(scan)
  PROVE  \E k \in 1..Len(acquired) : IsReadingOf(m, k)
<1>1. PICK k \in 1..Len(acquired) : \E i \in 1..acquired[k].params.points :
             scan[m] = acquired[k].samples[i]
  <2>1. scan = Stitch(acquired)
    BY DEF Analysed
  <2> QED BY <2>1, StitchedIs
<1>2. SweepFacts(k)
  BY SweepsKnown
<1> DEFINE p == Sweep(k)
<1>3. Span(p.span) /\ p.points \in Int /\ p.rbw \in Int
      /\ acquired[k] = Acquire(p) /\ acquired[k].params = p
  BY <1>2 DEF SweepFacts
<1> HIDE DEF p
<1>4. PICK i \in 1..p.points : scan[m] = acquired[k].samples[i]
  BY <1>1, <1>3
<1>5. /\ FrequencyAt(p.span, p.points, i) \in Int
      /\ scan[m].freq = FrequencyAt(p.span, p.points, i)
      /\ scan[m].level = Reading(FrequencyAt(p.span, p.points, i), p.rbw)
  BY <1>3, <1>4, AcquiredIs
<1>6. p.span.start <= scan[m].freq /\ scan[m].freq <= p.span.stop
  <2>1. /\ p.span.start <= FrequencyAt(p.span, p.points, i)
        /\ FrequencyAt(p.span, p.points, i) <= p.span.stop
    BY <1>3, SamplesInSpan
  <2> QED BY <1>5, <2>1
<1>7. scan[m].level \in Int
  <2> DEFINE f == FrequencyAt(p.span, p.points, i)
             rbw == p.rbw
  <2>1. f \in Int /\ rbw \in Int /\ scan[m].level = Reading(f, rbw)
    BY <1>3, <1>5
  <2> HIDE DEF f, rbw
  <2>2. Reading(f, rbw) \in Int
    BY <2>1, ReadingIs
  <2> QED BY <2>1, <2>2
<1> QED BY <1>5, <1>6, <1>7 DEF p, IsReadingOf

\* What lies beside x in the scan, on both sides, where its sweeps resolve.
LEMMA SamplesBeside ==
  ASSUME GivenTyped, Swept, Analysed, AllResolve, NEW x \in Int,
         Reach.start <= x, x <= Reach.stop
  PROVE  \E k \in 1..Len(acquired) : \E i, j \in 1..Sweep(k).points :
           /\ FrequencyOf(k, i) <= x /\ x <= FrequencyOf(k, j)
           /\ FrequencyOf(k, j) - FrequencyOf(k, i) <= Sweep(k).rbw
<1>1. /\ Tiles(segments, config.span) /\ Len(segments) \in Nat
      /\ \A k \in 1..Len(segments) : segments[k].start \in Int /\ segments[k].stop \in Int
      /\ instrument.range.start \in Int /\ instrument.range.stop \in Int
      /\ config.span.start \in Int /\ config.span.stop \in Int
  BY SweepsKnown
<1>2. /\ config.span.start <= x /\ x <= config.span.stop
      /\ instrument.range.start <= x /\ x <= instrument.range.stop
  BY <1>1, ReachIs DEF Larger, Smaller
<1>3. PICK k \in 1..Len(segments) : segments[k].start <= x /\ x <= segments[k].stop
  BY <1>1, <1>2, SegmentAround
<1>4. k \in 1..Len(acquired)
  BY DEF Analysed
<1>5. SweepFacts(k)
  BY <1>4, SweepsKnown
<1> DEFINE p == Sweep(k)
<1>6. /\ Span(p.span) /\ p.points \in Int /\ p.rbw \in Nat \ {0}
      /\ p.span.start = Larger(segments[k].start, instrument.range.start)
      /\ p.span.stop = Smaller(segments[k].stop, instrument.range.stop)
      /\ acquired[k].params = p
  BY <1>5 DEF SweepFacts
<1>7. Resolves(p)
  BY <1>4, <1>6 DEF AllResolve
<1> HIDE DEF p
<1>8. x \in p.span.start..p.span.stop
  <2>1. p.span.start <= x /\ x <= p.span.stop
    BY <1>2, <1>3, <1>6 DEF Larger, Smaller
  <2> QED BY <1>6, <2>1 DEF Span
<1>9. \E i, j \in 1..p.points :
        /\ FrequencyAt(p.span, p.points, i) <= x
        /\ x <= FrequencyAt(p.span, p.points, j)
        /\ FrequencyAt(p.span, p.points, j) - FrequencyAt(p.span, p.points, i) <= p.rbw
  BY <1>6, <1>7, <1>8, SweepCovers
<1> QED BY <1>4, <1>9 DEF FrequencyOf, p

\* An emission reads at least its level in one of the samples beside it.
LEMMA EmissionsAreSeen ==
  ASSUME GivenTyped, Swept, Analysed, AllResolve, NEW e \in emissions,
         Reach.start <= e.freq, e.freq <= Reach.stop
  PROVE  \E i \in 1..Len(scan) :
           scan[i].level >= e.level /\ 2 * Distance(scan[i].freq, e.freq) <= WidestRbw
<1> DEFINE x == e.freq
<1>1. x \in Int /\ e.level \in Int
  BY DEF GivenTyped
<1>2. PICK k \in 1..Len(acquired) : \E i, j \in 1..Sweep(k).points :
           /\ FrequencyOf(k, i) <= x /\ x <= FrequencyOf(k, j)
           /\ FrequencyOf(k, j) - FrequencyOf(k, i) <= Sweep(k).rbw
  BY <1>1, SamplesBeside
<1>3. PICK i, j \in 1..Sweep(k).points :
           /\ FrequencyOf(k, i) <= x /\ x <= FrequencyOf(k, j)
           /\ FrequencyOf(k, j) - FrequencyOf(k, i) <= Sweep(k).rbw
  BY <1>2
<1>4. WidestRbw \in Nat /\ Sweep(k).rbw <= WidestRbw /\ Sweep(k).rbw \in Int
  BY WidestIs, SweepsKnown DEF SweepFacts
<1>5. FrequencyOf(k, i) \in Int /\ FrequencyOf(k, j) \in Int
  BY SweepIsScanned
<1>6. PICK s \in {i, j} : /\ 2 * Distance(e.freq, FrequencyOf(k, s)) <= Sweep(k).rbw
                          /\ 2 * Distance(FrequencyOf(k, s), e.freq) <= Sweep(k).rbw
  <2>1. \A a, b, c, r \in Int : a <= c /\ c <= b /\ b - a <= r =>
          \/ 2 * Distance(c, a) <= r /\ 2 * Distance(a, c) <= r
          \/ 2 * Distance(c, b) <= r /\ 2 * Distance(b, c) <= r
    BY DEF Distance, Larger
  <2>2. \/ /\ 2 * Distance(e.freq, FrequencyOf(k, i)) <= Sweep(k).rbw
           /\ 2 * Distance(FrequencyOf(k, i), e.freq) <= Sweep(k).rbw
        \/ /\ 2 * Distance(e.freq, FrequencyOf(k, j)) <= Sweep(k).rbw
           /\ 2 * Distance(FrequencyOf(k, j), e.freq) <= Sweep(k).rbw
    BY <1>1, <1>3, <1>4, <1>5, <2>1
  <2> QED BY <2>2
<1>7. s \in 1..Sweep(k).points /\ FrequencyOf(k, s) \in Int
  BY <1>5
<1>8. e.level <= Reading(FrequencyOf(k, s), Sweep(k).rbw)
      /\ Reading(FrequencyOf(k, s), Sweep(k).rbw) \in Int
  BY <1>4, <1>6, <1>7, ReadingIs
<1>9. PICK m \in 1..Len(scan) : /\ scan[m].freq = FrequencyOf(k, s)
                                /\ Reading(FrequencyOf(k, s), Sweep(k).rbw) <= scan[m].level
  BY <1>7, SweepIsScanned
<1>10. scan[m].level \in Int
  BY ScanIsSwept DEF IsReadingOf
<1>11. scan[m].level >= e.level
  BY <1>1, <1>8, <1>9, <1>10
<1>12. Distance(FrequencyOf(k, s), e.freq) \in Int
  BY <1>1, <1>7 DEF Distance, Larger
<1>13. 2 * Distance(scan[m].freq, e.freq) <= WidestRbw
  BY <1>4, <1>6, <1>9, <1>12
<1> QED BY <1>11, <1>13

\* Every emission within reach is read, stitching loses no reading, and the peaks
\* that matter are flagged: from the emissions to the peaks of a run.
THEOREM EmissionsAreFlagged == Spec => []CriticalEmissionsFlagged
<1>1. PassInv => EmissionsSeen
  <2> SUFFICES ASSUME PassInv, pc \in {"dwell", "finished"}, AllResolve,
                      NEW e \in {d \in emissions : d.freq \in Reach.start..Reach.stop}
               PROVE  \E i \in 1..Len(scan) :
                        scan[i].level >= e.level /\ 2 * Distance(scan[i].freq, e.freq) <= WidestRbw
    BY DEF EmissionsSeen
  <2>1. GivenTyped /\ Swept /\ Analysed
    BY DEF PassInv, Planned
  <2>2. e \in emissions /\ Reach.start <= e.freq /\ e.freq <= Reach.stop
    BY <2>1, ReachIs
  <2> QED BY <2>1, <2>2, EmissionsAreSeen
<1>2. PassInv => CriticalPeaksFlagged
  <2>1. CASE pc \in {"dwell", "finished"}
    BY <2>1, PeaksFlagged DEF PassInv, Planned
  <2>2. CASE ~(pc \in {"dwell", "finished"})
    BY <2>2 DEF CriticalPeaksFlagged
  <2> QED BY <2>1, <2>2
<1> QED BY <1>1, <1>2, PassInvariant, ScanIsWhole, PTL DEF CriticalEmissionsFlagged

-----------------------------------------------------------------------------
(* What a dwell measures.                                                  *)

\* It is at least every one of its readings.
LEMMA MaximumIs ==
  ASSUME GivenTyped, NEW p, Span(p.span), p.points \in Int, p.rbw \in Int, 1 \in 1..p.points
  PROVE  /\ MaximumAmplitude(Acquire(p)) \in Int
         /\ \A i \in 1..p.points :
              Reading(FrequencyAt(p.span, p.points, i), p.rbw) <= MaximumAmplitude(Acquire(p))
<1> DEFINE s == Acquire(p).samples
           level == [i \in 1..p.points |-> s[i].level]
           S == {level[i] : i \in 1..p.points}
           M == MaximumAmplitude(Acquire(p))
<1>1. /\ 1..Len(s) = 1..p.points
      /\ \A i \in 1..p.points :
           /\ FrequencyAt(p.span, p.points, i) \in Int
           /\ s[i].level = Reading(FrequencyAt(p.span, p.points, i), p.rbw)
  BY AcquiredIs
<1>2. M = Max({s[i].level : i \in 1..Len(s)})
  BY DEF MaximumAmplitude
<1> HIDE DEF s
<1>3. M = Max(S)
  <2>1. {s[i].level : i \in 1..Len(s)} = S
    BY <1>1
  <2> QED BY <1>2, <2>1
<1>4. \A i \in 1..p.points : level[i] = Reading(FrequencyAt(p.span, p.points, i), p.rbw)
  BY <1>1
<1> HIDE DEF level, M
<1>5. \A i \in 1..p.points : level[i] \in Int
  <2> TAKE i \in 1..p.points
  <2> DEFINE f == FrequencyAt(p.span, p.points, i)
             r == p.rbw
  <2>1. f \in Int /\ r \in Int /\ level[i] = Reading(f, r)
    BY <1>1, <1>4
  <2> HIDE DEF f, r
  <2>2. Reading(f, r) \in Int
    BY <2>1, ReadingIs
  <2> QED BY <2>1, <2>2
<1>6. S \in SUBSET Int /\ S # {}
  BY <1>5
<1>7. IsFiniteSet(S)
  <2>1. IsFiniteSet(1..p.points)
    BY FS_Interval
  <2> QED BY <2>1, ImageIsFinite
<1> HIDE DEF S
<1>8. M \in S /\ \A y \in S : y <= M
  BY <1>3, <1>6, <1>7, ExtremesExist
<1>9. \A i \in 1..p.points : level[i] <= M
  BY <1>8 DEF S
<1>10. M \in Int
  BY <1>6, <1>8
<1> QED BY <1>4, <1>9, <1>10 DEF M

\* Where the dwell at the frequency of a sample reaches as far as the scan did, what
\* the scan read there is read again.
LEMMA DwellReads ==
  ASSUME GivenTyped, Swept, Analysed, NEW m \in 1..Len(scan),
         Accepts(instrument, Dwell(scan[m].freq)), DwellReaches(scan[m].freq)
  PROVE  /\ MaximumAmplitude(Acquire(Dwell(scan[m].freq))) \in Int
         /\ scan[m].level <= MaximumAmplitude(Acquire(Dwell(scan[m].freq)))
<1> DEFINE f == scan[m].freq
           p == Dwell(f)
           half == config.dwellSpan \div 2
           F(i) == FrequencyAt(p.span, p.points, i)
           M == MaximumAmplitude(Acquire(p))
           low == instrument.range.start
           high == instrument.range.stop
<1>1. PICK k \in 1..Len(acquired) : IsReadingOf(m, k)
  BY ScanIsSwept
<1>2. /\ f \in Int /\ scan[m].level \in Int
      /\ scan[m].level = Reading(f, Sweep(k).rbw)
      /\ Sweep(k).span.start <= f /\ f <= Sweep(k).span.stop
  BY <1>1 DEF IsReadingOf
<1>3. /\ p.span.start = Larger(f - half, low) /\ p.span.stop = Smaller(f + half, high)
      /\ p.points \in Int /\ p.rbw \in Nat \ {0} /\ half \in Int /\ low \in Int /\ high \in Int
      /\ Span(p.span)
  BY <1>2, DwellTyped
<1>4. /\ Resolves(p) /\ WidestRbw <= 2 * half + p.rbw
      /\ \/ WidestRbw <= p.rbw
         \/ \A e \in emissions : 2 * Distance(e.freq, f) <= WidestRbw => e.freq \in low..high
  BY DEF DwellReaches, Dwell
<1>5. low <= f /\ f <= high
  <2>1. SweepFacts(k)
    BY SweepsKnown
  <2>2. /\ segments[k].start \in Int /\ segments[k].stop \in Int
        /\ Sweep(k).span.start = Larger(segments[k].start, low)
        /\ Sweep(k).span.stop = Smaller(segments[k].stop, high)
    BY <2>1 DEF SweepFacts
  <2> HIDE DEF low, high, f
  <2>3. low <= Sweep(k).span.start /\ Sweep(k).span.start \in Int
    BY <1>3, <2>2 DEF Larger
  <2>4. Sweep(k).span.stop <= high /\ Sweep(k).span.stop \in Int
    BY <1>3, <2>2 DEF Smaller
  <2>5. f \in Int /\ Sweep(k).span.start <= f /\ f <= Sweep(k).span.stop
    BY <1>2
  <2>6. \A a, b, c \in Int : a <= b /\ b <= c => a <= c
    OBVIOUS
  <2>7. low \in Int /\ high \in Int
    BY <1>3
  <2> QED BY <2>3, <2>4, <2>5, <2>6, <2>7
<1>6. /\ Sweep(k).rbw <= WidestRbw /\ WidestRbw \in Nat /\ Sweep(k).rbw \in Int
  BY WidestIs, SweepsKnown DEF SweepFacts
<1> HIDE DEF p, f, half, low, high
<1>7. /\ 1 \in 1..p.points /\ p.points \in 1..p.points
      /\ F(1) = p.span.start /\ F(p.points) = p.span.stop
      /\ \A x \in p.span.start..p.span.stop : \E i, j \in 1..p.points :
           F(i) <= x /\ x <= F(j) /\ F(j) - F(i) <= p.rbw
  BY <1>3, <1>4, SweepCovers
<1>8. M \in Int /\ \A i \in 1..p.points : Reading(F(i), p.rbw) <= M
  BY <1>3, <1>7, MaximumIs
<1>9. \A i \in 1..p.points : F(i) \in Int
  BY <1>3, SamplesInSpan
<1>10. p.span.start \in Int /\ p.span.stop \in Int /\ p.span.start <= p.span.stop
  BY <1>3 DEF Span, Width
<1> HIDE DEF M, F
<1>11. ASSUME NEW i \in 1..p.points
       PROVE  /\ Noise <= M
              /\ \A e \in emissions : 2 * Distance(e.freq, F(i)) <= p.rbw => e.level <= M
  <2> DEFINE g == F(i)
             r == p.rbw
  <2>1. g \in Int /\ r \in Int /\ Reading(g, r) <= M
    BY <1>3, <1>8, <1>9
  <2>2. \A e \in emissions : e.level \in Int
    BY DEF GivenTyped
  <2> HIDE DEF g, r
  <2>3. /\ Reading(g, r) \in Int /\ Noise \in Int /\ Noise <= Reading(g, r)
        /\ \A e \in emissions : 2 * Distance(e.freq, g) <= r => e.level <= Reading(g, r)
    BY <2>1, ReadingIs
  <2>4. \A e \in emissions : 2 * Distance(e.freq, g) <= r => e.level <= M
    BY <1>8, <2>1, <2>2, <2>3
  <2>5. Noise <= M
    BY <1>8, <2>1, <2>3
  <2> QED BY <2>4, <2>5 DEF g, r
<1>12. ASSUME scan[m].level = Noise
       PROVE  scan[m].level <= M
  BY <1>7, <1>11, <1>12
<1>13. ASSUME NEW e \in emissions,
              2 * Distance(e.freq, f) <= Sweep(k).rbw, scan[m].level = e.level
       PROVE  scan[m].level <= M
  <2> DEFINE x == e.freq
  <2>1. x \in Int
    BY DEF GivenTyped
  <2>2. 2 * Distance(x, f) <= WidestRbw
    <3>1. Distance(x, f) \in Int
      BY <1>2, <2>1 DEF Distance, Larger
    <3> HIDE DEF x
    <3>2. 2 * Distance(x, f) <= Sweep(k).rbw
      BY <1>13 DEF x
    <3> QED BY <1>6, <3>1, <3>2
  <2>3. WidestRbw <= p.rbw \/ (low <= x /\ x <= high)
    BY <1>4, <2>2
  <2> HIDE DEF x
  <2>4. \E i \in 1..p.points : 2 * Distance(x, F(i)) <= p.rbw
    <3>1. CASE p.span.start <= x /\ x <= p.span.stop
      <4>1. PICK i, j \in 1..p.points : F(i) <= x /\ x <= F(j) /\ F(j) - F(i) <= p.rbw
        BY <1>7, <1>10, <2>1, <3>1
      <4>2. 2 * Distance(x, F(i)) <= p.rbw \/ 2 * Distance(x, F(j)) <= p.rbw
        <5>1. \A a, b, c, r \in Int : a <= c /\ c <= b /\ b - a <= r =>
                2 * Distance(c, a) <= r \/ 2 * Distance(c, b) <= r
          BY DEF Distance, Larger
        <5>2. F(i) \in Int /\ F(j) \in Int /\ p.rbw \in Int
          BY <1>3, <1>9
        <5> QED BY <2>1, <4>1, <5>1, <5>2
      <4> QED BY <4>2
    <3>2. CASE x < p.span.start
      <4>1. 2 * Distance(x, p.span.start) <= p.rbw
        BY <1>2, <1>3, <1>4, <1>5, <1>6, <1>10, <2>1, <2>2, <2>3, <3>2 DEF Distance, Larger, Smaller
      <4> QED BY <1>7, <4>1
    <3>3. CASE x > p.span.stop
      <4>1. 2 * Distance(x, p.span.stop) <= p.rbw
        BY <1>2, <1>3, <1>4, <1>5, <1>6, <1>10, <2>1, <2>2, <2>3, <3>3 DEF Distance, Larger, Smaller
      <4> QED BY <1>7, <4>1
    <3> QED BY <1>10, <2>1, <3>1, <3>2, <3>3
  <2>5. PICK i \in 1..p.points : 2 * Distance(x, F(i)) <= p.rbw
    BY <2>4
  <2> QED BY <1>11, <1>13, <2>5 DEF x
<1>14. \/ scan[m].level = Noise
       \/ \E e \in emissions : 2 * Distance(e.freq, f) <= Sweep(k).rbw /\ scan[m].level = e.level
  <2> DEFINE r == Sweep(k).rbw
  <2>1. r \in Int /\ scan[m].level = Reading(f, r)
    BY <1>2, <1>6
  <2> HIDE DEF r
  <2>2. \/ Reading(f, r) = Noise
        \/ \E e \in emissions : 2 * Distance(e.freq, f) <= r /\ Reading(f, r) = e.level
    BY <1>2, <2>1, ReadingIs
  <2> QED BY <2>1, <2>2 DEF r
<1>15. scan[m].level <= M
  BY <1>12, <1>13, <1>14
<1> QED BY <1>8, <1>15 DEF M, p, f

\* The result of a peak: its frequency is that of a sample of the scan, and what the
\* dwell there reads is at least what that sample does.
MeasuredAt(k, m) ==
  /\ m \in 1..Len(scan) /\ IsPeak(Corrected(scan), k, m)
  /\ results[k].freq = scan[m].freq
  /\ DwellReaches(results[k].freq) =>
       results[k].raw \in Int /\ scan[m].level <= results[k].raw

\* Every result is a peak that was measured.
LEMMA ResultIsMeasured ==
  ASSUME GivenTyped, Swept, Analysed, NEW k \in 1..Len(results)
  PROVE  k \in 1..Len(Peaks) /\ \E m \in 1..Len(scan) : MeasuredAt(k, m)
<1>1. results[k] = Measured(k) /\ Accepts(instrument, Dwell(Peaks[k].freq))
  BY DEF Analysed
<1>2. k \in 1..Len(Peaks)
  <2>1. Peaks \in Seq(Peak)
    BY PeaksAre
  <2>2. /\ Len(results) + Len(candidates) = Len(Peaks)
        /\ results \in Seq({Measured(l) : l \in 1..Len(Peaks)}) /\ candidates \in Seq(Peak)
    BY DEF Analysed
  <2>3. Len(results) \in Nat
    BY <2>2
  <2>4. Len(candidates) \in Nat /\ Len(Peaks) \in Nat
    BY <2>1, <2>2
  <2> QED BY <2>2, <2>3, <2>4
<1>3. PICK m \in 1..Len(Corrected(scan)) : IsPeak(Corrected(scan), k, m)
  BY <1>2, PeakIsSample
<1>4. scan \in Seq(Sample) /\ config \in Configurations
  BY PeaksAre DEF GivenTyped
<1>5. m \in 1..Len(scan) /\ Corrected(scan)[m].freq = scan[m].freq
  BY <1>4, CorrectedIs
<1>6. Peaks[k].freq = scan[m].freq
  BY <1>3, <1>5 DEF IsPeak
<1>7. /\ results[k].freq = scan[m].freq
      /\ results[k].raw = MaximumAmplitude(Acquire(Dwell(scan[m].freq)))
  BY <1>1, <1>6 DEF Measured, Point
<1>8. ASSUME DwellReaches(scan[m].freq)
      PROVE  results[k].raw \in Int /\ scan[m].level <= results[k].raw
  BY <1>1, <1>5, <1>6, <1>7, <1>8, DwellReads
<1>9. MeasuredAt(k, m)
  BY <1>3, <1>5, <1>7, <1>8 DEF MeasuredAt
<1> QED BY <1>2, <1>5, <1>9

\* A dwell measures at least what the scan had read at its peak.
LEMMA DwellsSeePeaks == PassInv => DwellSeesPeak
<1> SUFFICES ASSUME PassInv, NEW k \in 1..Len(results), DwellReaches(results[k].freq)
             PROVE  \E i \in 1..Len(scan) :
                      scan[i].freq = results[k].freq /\ scan[i].level <= results[k].raw
  BY DEF DwellSeesPeak
<1>1. results # <<>>
  <2> SUFFICES ASSUME results = <<>> PROVE FALSE
    OBVIOUS
  <2>1. Len(results) = 0
    OBVIOUS
  <2> QED BY <2>1
<1>2. GivenTyped /\ Swept /\ Analysed
  BY <1>1 DEF PassInv
<1>3. PICK m \in 1..Len(scan) : MeasuredAt(k, m)
  BY <1>2, ResultIsMeasured
<1> QED BY <1>3 DEF MeasuredAt

-----------------------------------------------------------------------------
(* From an emission above a limit to a failed point.                       *)

\* A segment of the plan lies in the span.
LEMMA SegmentsInside ==
  ASSUME NEW s, NEW span, Tiles(s, span), Len(s) \in Nat,
         \A k \in 1..Len(s) : s[k].start \in Int /\ s[k].stop \in Int,
         NEW k \in 1..Len(s)
  PROVE  span.start <= s[k].start /\ s[k].stop <= span.stop
<1> DEFINE n == Len(s)
<1>1. /\ s[1].start = span.start /\ s[n].stop = span.stop
      /\ \A i \in 1..n : s[i].stop > s[i].start
  BY DEF Tiles, IsValid
<1>2. \A i, j \in 1..n : i < j => s[i].stop <= s[j].start
  BY SegmentsInOrder
<1>3. 1 \in 1..n /\ n \in 1..n
  OBVIOUS
<1>4. span.start <= s[k].start
  <2>1. CASE k = 1
    BY <1>1, <2>1
  <2>2. CASE k > 1
    BY <1>1, <1>2, <1>3, <2>2
  <2> QED BY <2>1, <2>2
<1>5. s[k].stop <= span.stop
  <2>1. CASE k = n
    BY <1>1, <1>3, <2>1
  <2>2. CASE k < n
    BY <1>1, <1>2, <1>3, <2>2
  <2> QED BY <2>1, <2>2
<1> QED BY <1>4, <1>5

\* Where its sweeps resolve, a scan leaves no gap wider than a bandwidth, and reaches
\* from one end to the other.
LEMMA GapsAreNarrow ==
  ASSUME GivenTyped, Swept, Analysed, AllResolve, Reach.start <= Reach.stop
  PROVE  /\ \E m \in 1..Len(scan) : scan[m].freq <= Reach.start
         /\ \E m \in 1..Len(scan) : Reach.stop <= scan[m].freq
         /\ \A i \in 1..(Len(scan) - 1) : scan[i + 1].freq - scan[i].freq <= WidestRbw
<1> DEFINE n == Len(scan)
<1>1. n \in Nat
  <2>1. scan \in Seq(Sample)
    BY PeaksAre
  <2> QED BY <2>1
<1>2. Reach.start \in Int /\ Reach.stop \in Int
  BY ReachIs
<1>3. WidestRbw \in Nat \ {0}
  BY WidestIs
<1>4. \A m \in 1..n : scan[m].freq \in Int /\ Reach.start <= scan[m].freq /\ scan[m].freq <= Reach.stop
  <2> TAKE m \in 1..n
  <2>1. PICK k \in 1..Len(acquired) : IsReadingOf(m, k)
    BY ScanIsSwept
  <2>2. SweepFacts(k) /\ k \in 1..Len(segments)
    BY SweepsKnown
  <2>3. /\ segments[k].start \in Int /\ segments[k].stop \in Int
        /\ Sweep(k).span.start = Larger(segments[k].start, instrument.range.start)
        /\ Sweep(k).span.stop = Smaller(segments[k].stop, instrument.range.stop)
    BY <2>2 DEF SweepFacts
  <2>4. /\ scan[m].freq \in Int
        /\ Sweep(k).span.start <= scan[m].freq /\ scan[m].freq <= Sweep(k).span.stop
    BY <2>1 DEF IsReadingOf
  <2>5. config.span.start <= segments[k].start /\ segments[k].stop <= config.span.stop
    <3>1. /\ Tiles(segments, config.span) /\ Len(segments) \in Nat
          /\ \A l \in 1..Len(segments) : segments[l].start \in Int /\ segments[l].stop \in Int
      BY SweepsKnown
    <3> QED BY <2>2, <3>1, SegmentsInside
  <2>6. instrument.range.start \in Int /\ instrument.range.stop \in Int
        /\ config.span.start \in Int /\ config.span.stop \in Int
    BY SweepsKnown
  <2>7. Reach.start <= Sweep(k).span.start /\ Sweep(k).span.start \in Int
    BY <2>3, <2>5, <2>6, ReachIs DEF Larger
  <2>8. Sweep(k).span.stop <= Reach.stop /\ Sweep(k).span.stop \in Int
    BY <2>3, <2>5, <2>6, ReachIs DEF Smaller
  <2> QED BY <1>2, <2>4, <2>7, <2>8
<1>5. ASSUME NEW x \in Int, Reach.start <= x, x <= Reach.stop
      PROVE  \E a, b \in 1..n : /\ scan[a].freq <= x /\ x <= scan[b].freq
                                /\ scan[b].freq - scan[a].freq <= WidestRbw
  <2>1. PICK k \in 1..Len(acquired) : \E i, j \in 1..Sweep(k).points :
           /\ FrequencyOf(k, i) <= x /\ x <= FrequencyOf(k, j)
           /\ FrequencyOf(k, j) - FrequencyOf(k, i) <= Sweep(k).rbw
    BY <1>5, SamplesBeside
  <2>2. PICK i, j \in 1..Sweep(k).points :
           /\ FrequencyOf(k, i) <= x /\ x <= FrequencyOf(k, j)
           /\ FrequencyOf(k, j) - FrequencyOf(k, i) <= Sweep(k).rbw
    BY <2>1
  <2>3. PICK a \in 1..n : scan[a].freq = FrequencyOf(k, i)
    BY SweepIsScanned
  <2>4. PICK b \in 1..n : scan[b].freq = FrequencyOf(k, j)
    BY SweepIsScanned
  <2>5. Sweep(k).rbw <= WidestRbw /\ Sweep(k).rbw \in Int
    BY WidestIs, SweepsKnown DEF SweepFacts
  <2>6. scan[b].freq - scan[a].freq <= WidestRbw
    <3>1. scan[b].freq - scan[a].freq <= Sweep(k).rbw
      BY <2>2, <2>3, <2>4
    <3>2. scan[b].freq \in Int /\ scan[a].freq \in Int /\ WidestRbw \in Int
      BY <1>3, <1>4
    <3> QED BY <2>5, <3>1, <3>2
  <2> QED BY <2>2, <2>3, <2>4, <2>6
<1>6. \E m \in 1..n : scan[m].freq <= Reach.start
  BY <1>2, <1>5
<1>7. \E m \in 1..n : Reach.stop <= scan[m].freq
  BY <1>2, <1>5
<1>8. \A i, j \in 1..n : i < j => scan[i].freq < scan[j].freq
  BY StitchedIs DEF Analysed
<1>9. ASSUME NEW i \in 1..(n - 1)
      PROVE  scan[i + 1].freq - scan[i].freq <= WidestRbw
  <2> DEFINE f == scan[i].freq
             g == scan[i + 1].freq
  <2>1. i \in 1..n /\ i + 1 \in 1..n
    BY <1>1
  <2>2. f \in Int /\ g \in Int /\ f < g /\ Reach.start <= f /\ g <= Reach.stop
    BY <1>4, <1>8, <2>1
  <2>3. f + 1 \in Int /\ Reach.start <= f + 1 /\ f + 1 <= Reach.stop
    BY <1>2, <2>2
  <2>4. PICK a, b \in 1..n : /\ scan[a].freq <= f + 1 /\ f + 1 <= scan[b].freq
                             /\ scan[b].freq - scan[a].freq <= WidestRbw
    BY <1>5, <2>3
  <2>5. scan[a].freq \in Int /\ scan[b].freq \in Int
    BY <1>4
  <2>6. g <= scan[b].freq
    <3>1. ~(b < i) /\ b # i
      BY <1>8, <2>1, <2>2, <2>4, <2>5
    <3>2. b = i + 1 \/ i + 1 < b
      BY <1>1, <2>1, <3>1
    <3> QED BY <1>8, <2>1, <2>2, <2>5, <3>2
  <2>7. scan[a].freq <= f \/ scan[a].freq = f + 1
    <3>1. \A y, z \in Int : y <= z + 1 => y <= z \/ y = z + 1
      OBVIOUS
    <3> HIDE DEF f, g
    <3> QED BY <2>2, <2>4, <2>5, <3>1
  <2>8. CASE scan[a].freq = f + 1
    <3>1. ~(a < i) /\ a # i
      BY <1>8, <2>1, <2>2, <2>5, <2>8
    <3>2. a = i + 1 \/ i + 1 < a
      BY <1>1, <2>1, <3>1
    <3>3. g <= f + 1
      BY <1>8, <2>1, <2>2, <2>5, <2>8, <3>2
    <3> QED BY <1>3, <2>2, <3>3
  <2>9. CASE scan[a].freq <= f
    <3>1. \A u, v, y, z, w \in Int : z <= v /\ u <= y /\ v - u <= w => z - y <= w
      OBVIOUS
    <3>2. f \in Int /\ g \in Int /\ WidestRbw \in Int
      BY <1>3, <2>2
    <3> HIDE DEF f, g
    <3>3. g - f <= WidestRbw
      BY <2>4, <2>5, <2>6, <2>9, <3>1, <3>2
    <3> QED BY <3>3 DEF f, g
  <2> QED BY <2>7, <2>8, <2>9
<1> QED BY <1>6, <1>7, <1>9

\* Near an emission clear of the others, a sample of the scan reads the noise, or that
\* emission if it is within half a bandwidth.
LEMMA NearReadings ==
  ASSUME GivenTyped, Swept, Analysed, NEW e \in emissions, NEW i \in 1..Len(scan),
         \A d \in emissions \ {e} : Distance(d.freq, e.freq) > 2 * WidestRbw,
         2 * Distance(scan[i].freq, e.freq) <= 3 * WidestRbw
  PROVE  \/ scan[i].level = Noise
         \/ /\ scan[i].level = e.level
            /\ 2 * Distance(scan[i].freq, e.freq) <= WidestRbw
<1> DEFINE f == scan[i].freq
           W == WidestRbw
<1>1. PICK k \in 1..Len(acquired) : IsReadingOf(i, k)
  BY ScanIsSwept
<1> DEFINE r == Sweep(k).rbw
<1>2. f \in Int /\ scan[i].level = Reading(f, r)
  BY <1>1 DEF IsReadingOf
<1>3. W \in Nat /\ r <= W /\ r \in Int
  BY WidestIs, SweepsKnown DEF SweepFacts
<1>4. 2 * Distance(f, e.freq) <= 3 * W /\ e.freq \in Int
  BY DEF GivenTyped
<1>5. \A d \in emissions \ {e} : Distance(d.freq, e.freq) > 2 * W
  OBVIOUS
<1> HIDE DEF f, r, W
<1>6. \/ Reading(f, r) = Noise
      \/ \E d \in emissions : 2 * Distance(d.freq, f) <= r /\ Reading(f, r) = d.level
  BY <1>2, <1>3, ReadingIs
<1>7. ASSUME NEW d \in emissions, 2 * Distance(d.freq, f) <= r
      PROVE  d = e /\ 2 * Distance(f, e.freq) <= W
  <2>1. d.freq \in Int
    BY DEF GivenTyped
  <2>2. \A a, b, c \in Int : 2 * Distance(a, c) <= r /\ 2 * Distance(c, b) <= 3 * W
                               => ~(Distance(a, b) > 2 * W)
    BY <1>3 DEF Distance, Larger
  <2>3. ~(Distance(d.freq, e.freq) > 2 * W)
    BY <1>2, <1>4, <1>7, <2>1, <2>2
  <2>4. d = e
    BY <1>5, <2>3
  <2>5. \A a, c \in Int : 2 * Distance(a, c) <= r => 2 * Distance(c, a) <= W
    BY <1>3 DEF Distance, Larger
  <2>6. 2 * Distance(f, e.freq) <= W
    BY <1>2, <1>4, <1>7, <2>4, <2>5
  <2> QED BY <2>4, <2>6
<1> QED BY <1>2, <1>6, <1>7 DEF f, W

\* Among samples that are higher than those beside them by the prominence asked for, one
\* stands out: the first of the highest.
LEMMA HillStandsOut ==
  ASSUME config \in Configurations, NEW trace \in Seq(Sample),
         NEW Q \in SUBSET (2..(Len(trace) - 1)), Q # {},
         \A i \in Q : \A j \in 1..Len(trace) : j \notin Q /\ (j + 1 \in Q \/ j - 1 \in Q) =>
           /\ trace[j].level < trace[i].level
           /\ trace[j].level <= trace[i].level - config.prominence
  PROVE  \E i \in Q : StandsOut(trace, i)
<1> DEFINE n == Len(trace)
           H(j) == trace[j].level
           p == config.prominence
<1>1. n \in Nat /\ p \in Int /\ \A j \in 1..n : H(j) \in Int
  <2>1. n \in Nat /\ \A j \in 1..n : trace[j] \in Sample
    OBVIOUS
  <2>2. p \in Int
    BY ConfigurationTyped
  <2> QED BY <2>1, <2>2 DEF Sample
<1>2. Q \in SUBSET (1..n) /\ Q \in SUBSET Nat /\ 1 \notin Q /\ n \notin Q
  BY <1>1
<1>3. \A i \in Q : \A j \in 1..n : j \notin Q /\ (j + 1 \in Q \/ j - 1 \in Q) =>
        H(j) < H(i) /\ H(j) <= H(i) - p
  OBVIOUS
<1> HIDE DEF n, p
<1>4. PICK top \in Q : \A j \in Q : H(j) <= H(top)
  <2> DEFINE level == [j \in Q |-> H(j)]
             S == {level[j] : j \in Q}
  <2>1. IsFiniteSet(Q)
    <3>1. IsFiniteSet(1..n)
      BY <1>1, FS_Interval
    <3> QED BY <1>2, <3>1, FS_Subset
  <2>2. \A j \in Q : level[j] = H(j) /\ H(j) \in Int
    BY <1>1, <1>2
  <2> HIDE DEF level, H
  <2>3. S \in SUBSET Int /\ S # {}
    BY <2>2
  <2>4. IsFiniteSet(S)
    BY <2>1, ImageIsFinite
  <2>5. Max(S) \in S /\ \A y \in S : y <= Max(S)
    <3> HIDE DEF S
    <3> QED BY <2>3, <2>4, ExtremesExist
  <2> DEFINE M == Max(S)
  <2> HIDE DEF M
  <2>6. M \in S /\ \A y \in S : y <= M
    BY <2>5 DEF M
  <2>7. PICK top \in Q : level[top] = M
    BY <2>6
  <2>8. \A j \in Q : H(j) <= H(top)
    BY <2>2, <2>6, <2>7
  <2> QED BY <2>8
<1> DEFINE T == {j \in Q : H(j) = H(top)}
<1>5. PICK i \in T : \A j \in T : i <= j
  <2>1. T \in SUBSET Nat /\ T # {}
    BY <1>2
  <2> HIDE DEF T
  <2> QED BY <2>1, SmallestExists
<1>6. i \in Q /\ i \in 1..n /\ i > 1 /\ i < n
  BY <1>1, <1>2
<1>7. \A j \in Q : H(j) <= H(i) /\ (j < i => H(j) < H(i))
  <2> TAKE j \in Q
  <2>1. H(j) <= H(i) /\ H(i) = H(top) /\ H(j) \in Int /\ H(i) \in Int
    BY <1>1, <1>2, <1>4
  <2>2. ASSUME j < i PROVE H(j) # H(i)
    BY <1>2, <1>5, <1>6, <2>1, <2>2
  <2> HIDE DEF H
  <2> QED BY <2>1, <2>2
<1> HIDE DEF T
<1>8. i - 1 \in 1..n /\ i + 1 \in 1..n /\ i - 1 < i /\ (i - 1) + 1 = i /\ (i + 1) - 1 = i
  BY <1>1, <1>6
<1>9. H(i - 1) < H(i)
  <2>1. CASE i - 1 \in Q
    BY <1>7, <1>8, <2>1
  <2>2. CASE i - 1 \notin Q
    BY <1>3, <1>6, <1>8, <2>2
  <2> QED BY <2>1, <2>2
<1>10. H(i + 1) <= H(i)
  <2>1. CASE i + 1 \in Q
    BY <1>7, <2>1
  <2>2. CASE i + 1 \notin Q
    <3>1. H(i + 1) < H(i)
      BY <1>3, <1>6, <1>8, <2>2
    <3> QED BY <1>1, <1>6, <1>8, <3>1
  <2> QED BY <2>1, <2>2
\* The nearest sample outside Q on each side.
<1>11. \E a \in 1..i : H(a) <= H(i) - p /\ \A m \in a..i : H(m) <= H(i)
  <2> DEFINE A == {m \in 1..i : m \notin Q}
  <2>1. A \in SUBSET (1..i) /\ 1 \in A /\ i \in Nat
    BY <1>2, <1>6
  <2>2. PICK a \in A : \A m \in A : m <= a
    <3> HIDE DEF A
    <3> QED BY <2>1, LargestExists
  <2>3. a \in 1..i /\ a \notin Q /\ a # i /\ a \in 1..n
    BY <1>1, <1>6, <2>2
  <2>4. \A m \in (a + 1)..i : m \in Q
    BY <2>2, <2>3
  <2>5. a + 1 \in Q
    <3>1. a + 1 \in (a + 1)..i
      BY <1>6, <2>3
    <3> QED BY <2>4, <3>1
  <2>6. H(a) < H(i) /\ H(a) <= H(i) - p
    BY <1>3, <1>6, <2>3, <2>5
  <2>7. \A m \in a..i : H(m) <= H(i)
    <3> TAKE m \in a..i
    <3>1. m = a \/ m \in (a + 1)..i
      BY <2>3
    <3>2. CASE m = a
      BY <1>1, <1>6, <2>3, <2>6, <3>2
    <3>3. CASE m \in (a + 1)..i
      BY <1>7, <2>4, <3>3
    <3> QED BY <3>1, <3>2, <3>3
  <2> QED BY <2>3, <2>6, <2>7
<1>12. \E b \in i..n : H(b) <= H(i) - p /\ \A m \in i..b : H(m) <= H(i)
  <2> DEFINE B == {m \in i..n : m \notin Q}
  <2>1. B \in SUBSET Nat /\ n \in B
    BY <1>1, <1>2, <1>6
  <2>2. PICK b \in B : \A m \in B : b <= m
    <3> HIDE DEF B
    <3> QED BY <2>1, SmallestExists
  <2>3. b \in i..n /\ b \notin Q /\ b # i /\ b \in 1..n
    BY <1>1, <1>6, <2>2
  <2>4. \A m \in i..(b - 1) : m \in Q
    BY <1>1, <2>2, <2>3
  <2>5. b - 1 \in Q
    BY <1>6, <2>3, <2>4
  <2>6. H(b) < H(i) /\ H(b) <= H(i) - p
    BY <1>3, <1>6, <2>3, <2>5
  <2>7. \A m \in i..b : H(m) <= H(i)
    <3> TAKE m \in i..b
    <3>1. m = b \/ m \in i..(b - 1)
      BY <2>3
    <3>2. CASE m = b
      BY <1>1, <1>6, <2>3, <2>6, <3>2
    <3>3. CASE m \in i..(b - 1)
      BY <1>7, <2>4, <3>3
    <3> QED BY <3>1, <3>2, <3>3
  <2> QED BY <2>3, <2>6, <2>7
<1>13. /\ \A a \in 1..i : Smaller(a, i) = a /\ Larger(a, i) = i
       /\ \A b \in i..n : Smaller(b, i) = i /\ Larger(b, i) = b
  BY <1>6 DEF Smaller, Larger
<1>14. \E a \in 1..i : /\ H(a) <= H(i) - p
                       /\ \A m \in Smaller(a, i)..Larger(a, i) : H(m) <= H(i)
  BY <1>11, <1>13
<1>15. \E b \in i..n : /\ H(b) <= H(i) - p
                       /\ \A m \in Smaller(b, i)..Larger(b, i) : H(m) <= H(i)
  BY <1>12, <1>13
<1>16. StandsOut(trace, i)
  BY <1>9, <1>10, <1>14, <1>15 DEF StandsOut, n, p
<1> QED BY <1>6, <1>16

\* A negative margin stays one at a higher level.
LEMMA HigherFails ==
  ASSUME NEW c \in Configurations, NEW f \in Int, NEW low \in Int, NEW high \in Int,
         low <= high, Margin(c.limits, f, low) < 0
  PROVE  Classify(Margin(c.limits, f, high), c.marginal) = "Fail"
<1> DEFINE m == Margin(c.limits, f, low)
           k == Margin(c.limits, f, high)
<1>1. Infinite \in Nat
  BY LevelsAssumption DEF LevelsAssumption
<1>2. m \in Int /\ k \in Int
  BY MarginIs
<1>3. m # Infinite
  BY <1>1, <1>2
<1>4. \E i \in 1..Len(c.limits) : Covers(c.limits[i], f)
  BY <1>3, MarginIs
<1>5. PICK i \in 1..Len(c.limits) : Covers(c.limits[i], f) /\ m = LimitAt(c.limits[i], f) - low
  BY <1>4, MarginIs
<1>6. k <= LimitAt(c.limits[i], f) - high
  BY <1>5, MarginIs
<1>7. LimitAt(c.limits[i], f) \in Int
  BY <1>5, PointsInterpolable, LimitIsNumber
<1> HIDE DEF m, k
<1>8. m < 0
  BY DEF m
<1>9. k < 0
  <2> DEFINE l == LimitAt(c.limits[i], f)
  <2> HIDE DEF l
  <2>1. l \in Int /\ m = l - low /\ k <= l - high
    BY <1>5, <1>6, <1>7 DEF l
  <2> QED BY <1>2, <1>8, <2>1
<1>10. k # Infinite
  BY <1>1, <1>2, <1>9
<1> QED BY <1>9, <1>10 DEF Classify, k

\* A peak of the trace is flagged, or one with no more margin is; all of them have been
\* measured when the run has finished.
LEMMA CriticalIsMeasured ==
  ASSUME GivenTyped, Swept, Analysed, candidates = <<>>,
         NEW i \in 1..Len(scan), Len(scan) > 2, StandsOut(Corrected(scan), i),
         Corrected(scan)[i].level >= config.floor,
         Margin(config.limits, scan[i].freq, Corrected(scan)[i].level) < 0,
         config.threshold >= 0
  PROVE  \E k \in 1..Len(results) : Peaks[k].margin < 0
<1> DEFINE trace == Corrected(scan)
           m == Margin(config.limits, trace[i].freq, trace[i].level)
           K == Len(Peaks)
<1>1. config \in Configurations /\ config.maxCount > 0
  BY DEF GivenTyped, Swept, ConfigurationValid
<1>2. /\ scan \in Seq(Sample) /\ trace \in Seq(Sample)
      /\ Detected(config, trace, Peaks) /\ Peaks \in Seq(Peak)
  BY PeaksAre
<1>3. Len(trace) = Len(scan) /\ trace[i].freq = scan[i].freq
  BY <1>1, <1>2, CorrectedIs
<1>4. m < 0
  BY <1>3
<1>5. StandsOut(trace, i) /\ trace[i].level >= config.floor
  OBVIOUS
<1> HIDE DEF trace
<1>6. i \in 1..Len(trace) /\ Len(trace) > 2
  BY <1>3
<1>7. /\ m = Candidate(trace, config.limits, i).margin /\ m \in Int
      /\ Flagged(trace, config, i) <=>
           /\ StandsOut(trace, i)
           /\ trace[i].level >= config.floor
           /\ \/ m <= config.threshold
              \/ m = Infinite /\ ~config.requireLimit
  BY <1>1, <1>2, <1>6, CriticalIsFlagged
<1> HIDE DEF m
<1>8. m <= config.threshold
  <2>1. config.threshold \in Int
    BY <1>1, ConfigurationTyped
  <2> QED BY <1>4, <1>7, <2>1
<1>9. Flagged(trace, config, i)
  BY <1>5, <1>7, <1>8
<1>10. \/ \E k \in 1..K : Peaks[k].margin <= m
       \/ K = config.maxCount /\ \A k \in 1..K : Peaks[k].margin <= m
  BY <1>2, <1>6, <1>7, <1>9 DEF Detected
<1>11. \E k \in 1..K : Peaks[k].margin <= m
  <2>1. ASSUME K = config.maxCount PROVE 1 \in 1..K
    <3>1. config.maxCount \in Int
      BY <1>1, ConfigurationTyped
    <3> QED BY <1>1, <2>1, <3>1
  <2> QED BY <1>10, <2>1
<1>12. PICK k \in 1..K : Peaks[k].margin <= m
  BY <1>11
<1>13. Peaks[k].margin < 0
  <2>1. Peaks[k] \in Peak
    BY <1>2
  <2>2. Peaks[k].margin \in Int
    BY <2>1 DEF Peak
  <2> QED BY <1>4, <1>7, <1>12, <2>2
<1>14. Len(results) = K
  <2>1. Len(results) + Len(candidates) = K /\ Len(candidates) = 0
    BY DEF Analysed
  <2>2. results \in Seq({Measured(l) : l \in 1..K})
    BY DEF Analysed
  <2>3. Len(results) \in Nat
    BY <2>2
  <2> QED BY <2>1, <2>3
<1> QED BY <1>12, <1>13, <1>14

\* A peak with a negative margin fails when its dwell reaches as far as the scan.
LEMMA MeasuredFails ==
  ASSUME GivenTyped, Swept, Analysed, NEW k \in 1..Len(results),
         Peaks[k].margin < 0, DwellReaches(results[k].freq)
  PROVE  results[k].verdict = "Fail"
<1>1. PICK m \in 1..Len(scan) : MeasuredAt(k, m)
  BY ResultIsMeasured
<1> DEFINE f == scan[m].freq
           c == TotalCorrection(config.corrections, f)
           raw == results[k].raw
<1>2. /\ results[k].freq = f /\ raw \in Int /\ scan[m].level <= raw
      /\ Peaks[k].margin = Margin(config.limits, Corrected(scan)[m].freq, Corrected(scan)[m].level)
  BY <1>1 DEF MeasuredAt, IsPeak
<1>3. config \in Configurations /\ scan \in Seq(Sample)
  BY PeaksAre DEF GivenTyped
<1>4. /\ f \in Int /\ scan[m].level \in Int /\ c \in Int
      /\ Corrected(scan)[m].freq = f /\ Corrected(scan)[m].level = scan[m].level + c
  BY <1>3, CorrectedIs
<1>5. Margin(config.limits, f, scan[m].level + c) < 0
  BY <1>2, <1>4
<1>6. results[k].verdict = Classify(Margin(config.limits, f, raw + c), config.marginal)
  <2>1. results[k] = Measured(k)
    BY DEF Analysed
  <2>2. results[k].freq = Peaks[k].freq
    BY <2>1 DEF Measured, Point
  <2>3. /\ raw = MaximumAmplitude(Acquire(Dwell(Peaks[k].freq)))
        /\ results[k].verdict
             = Classify(Margin(config.limits, Peaks[k].freq,
                               MaximumAmplitude(Acquire(Dwell(Peaks[k].freq)))
                                 + TotalCorrection(config.corrections, Peaks[k].freq)),
                        config.marginal)
    BY <2>1 DEF Measured, Point
  <2> QED BY <1>2, <2>2, <2>3
<1> HIDE DEF f, c, raw
<1>7. scan[m].level + c \in Int /\ raw + c \in Int /\ scan[m].level + c <= raw + c
  BY <1>2, <1>4
<1> QED BY <1>3, <1>4, <1>5, <1>6, <1>7, HigherFails

\* The samples that read an emission, which noise and nothing else surrounds.
Hill(e) == {i \in 1..Len(scan) : /\ 2 * Distance(scan[i].freq, e.freq) <= WidestRbw
                                 /\ scan[i].level = e.level}

\* An emission that emerges is a hill of the corrected scan, between two flanks of noise.
LEMMA EmissionIsHill ==
  ASSUME GivenTyped, Swept, Analysed, AllResolve, NEW e \in emissions, Emerges(e),
         2 * (e.freq - Reach.start) > WidestRbw, 2 * (Reach.stop - e.freq) > WidestRbw,
         \A d \in emissions \ {e} : Distance(d.freq, e.freq) > 2 * WidestRbw
  PROVE  /\ Hill(e) # {} /\ Hill(e) \in SUBSET (2..(Len(scan) - 1))
         /\ \A i \in Hill(e) : \A j \in 1..Len(scan) :
              j \notin Hill(e) /\ (j + 1 \in Hill(e) \/ j - 1 \in Hill(e)) =>
                /\ Corrected(scan)[j].level < Corrected(scan)[i].level
                /\ Corrected(scan)[j].level <= Corrected(scan)[i].level - config.prominence
<1> DEFINE n == Len(scan)
           W == WidestRbw
           x == e.freq
           Q == Hill(e)
           F(i) == scan[i].freq
           C(i) == TotalCorrection(config.corrections, F(i))
           trace == Corrected(scan)
<1>1. /\ x \in Int /\ e.level \in Int /\ W \in Nat
      /\ Reach.start \in Int /\ Reach.stop \in Int
  BY WidestIs, ReachIs DEF GivenTyped
<1>2. config \in Configurations /\ scan \in Seq(Sample) /\ n \in Nat
  BY PeaksAre DEF GivenTyped
<1>3. \A i \in 1..n : /\ F(i) \in Int /\ C(i) \in Int
                      /\ trace[i].level = scan[i].level + C(i)
  BY <1>2, CorrectedIs
<1>4. \A i, j \in 1..n : i < j => F(i) < F(j)
  BY StitchedIs DEF Analysed
<1>5. /\ 2 * (x - Reach.start) > W /\ 2 * (Reach.stop - x) > W
  OBVIOUS
<1>6. Reach.start <= x /\ x <= Reach.stop /\ Reach.start <= Reach.stop
  BY <1>1, <1>5
<1>7. /\ \E m \in 1..n : F(m) <= Reach.start
      /\ \E m \in 1..n : Reach.stop <= F(m)
      /\ \A i \in 1..(n - 1) : F(i + 1) - F(i) <= W
  BY <1>6, GapsAreNarrow
<1>8. PICK seen \in 1..n : scan[seen].level >= e.level /\ 2 * Distance(F(seen), x) <= W
  BY <1>6, EmissionsAreSeen
<1>9. \A i \in 1..n : 2 * Distance(F(i), x) <= 3 * W =>
        scan[i].level = Noise \/ (scan[i].level = e.level /\ 2 * Distance(F(i), x) <= W)
  BY NearReadings
<1>10. \A i, j \in 1..n : 2 * Distance(F(i), x) <= W /\ 2 * Distance(F(j), x) <= 3 * W =>
        /\ Noise + C(j) < e.level + C(i)
        /\ Noise + C(j) <= e.level + C(i) - config.prominence
  BY DEF Emerges
<1>11. \A i \in 1..n : i \in Q <=> 2 * Distance(F(i), x) <= W /\ scan[i].level = e.level
  BY DEF Hill
<1>12. Noise \in Int /\ config.prominence \in Int
  BY <1>2, ConfigurationTyped, LevelsAssumption DEF LevelsAssumption
<1>13. Q \in SUBSET (1..n)
  BY DEF Hill
<1> HIDE DEF n, W, x, Q, F, C, trace
<1>14. \A i \in 1..n : Distance(F(i), x) \in Int
  BY <1>1, <1>3 DEF Distance, Larger
<1>15. seen \in Q
  <2>1. 2 * Distance(F(seen), x) <= 3 * W
    BY <1>1, <1>8, <1>14
  <2>2. scan[seen].level = Noise \/ scan[seen].level = e.level
    BY <1>8, <1>9, <2>1
  <2>3. Noise + C(seen) < e.level + C(seen)
    BY <1>8, <1>10, <2>1
  <2>4. scan[seen].level # Noise
    BY <1>1, <1>3, <1>8, <1>12, <2>3
  <2> QED BY <1>8, <1>11, <2>2, <2>4
<1>16. ASSUME NEW i \in Q
       PROVE  /\ i \in 2..(n - 1)
              /\ 2 * (F(i) - x) <= W /\ 2 * (x - F(i)) <= W
  <2>1. i \in 1..n /\ 2 * Distance(F(i), x) <= W
    BY <1>11, <1>13
  <2>2. 2 * (F(i) - x) <= W /\ 2 * (x - F(i)) <= W
    BY <1>1, <1>3, <2>1 DEF Distance, Larger
  <2>3. PICK a \in 1..n : F(a) <= Reach.start
    BY <1>7
  <2>4. PICK b \in 1..n : Reach.stop <= F(b)
    BY <1>7
  <2>5. F(i) \in Int /\ F(a) \in Int /\ F(b) \in Int
    BY <1>3, <2>1
  <2>6. F(a) < F(i) /\ F(i) < F(b)
    BY <1>1, <1>5, <2>2, <2>3, <2>4, <2>5
  <2>7. a < i
    <3>1. ~(i < a) /\ a # i
      BY <1>4, <2>1, <2>5, <2>6
    <3> QED BY <2>1, <3>1
  <2>8. i < b
    <3>1. ~(b < i) /\ b # i
      BY <1>4, <2>1, <2>5, <2>6
    <3> QED BY <2>1, <3>1
  <2>9. i \in 2..(n - 1)
    BY <1>2, <2>1, <2>7, <2>8 DEF n
  <2> QED BY <2>2, <2>9
<1>17. ASSUME NEW i \in Q, NEW j \in 1..n, j \notin Q, j + 1 \in Q \/ j - 1 \in Q
       PROVE  trace[j].level < trace[i].level /\ trace[j].level <= trace[i].level - config.prominence
  <2>1. 2 * Distance(F(j), x) <= 3 * W
    <3>1. \A a, b \in Int : (a - b <= W /\ b - a <= W /\ 2 * (b - x) <= W /\ 2 * (x - b) <= W)
                              => 2 * Distance(a, x) <= 3 * W
      BY <1>1 DEF Distance, Larger
    <3>2. CASE j + 1 \in Q
      <4>1. j + 1 \in 2..(n - 1) /\ 2 * (F(j + 1) - x) <= W /\ 2 * (x - F(j + 1)) <= W
        BY <1>16, <3>2
      <4>2. j \in 1..(n - 1) /\ j + 1 \in 1..n /\ j < j + 1
        BY <1>2, <4>1 DEF n
      <4>3. F(j + 1) - F(j) <= W /\ F(j) < F(j + 1)
        BY <1>4, <1>7, <4>2
      <4>4. F(j) \in Int /\ F(j + 1) \in Int
        BY <1>3, <4>2
      <4>5. F(j) - F(j + 1) <= W
        BY <1>1, <4>3, <4>4
      <4> QED BY <3>1, <4>1, <4>3, <4>4, <4>5
    <3>3. CASE j - 1 \in Q
      <4> DEFINE h == j - 1
      <4>1. h \in 2..(n - 1) /\ 2 * (F(h) - x) <= W /\ 2 * (x - F(h)) <= W
        BY <1>16, <3>3
      <4>2. h \in 1..(n - 1) /\ h \in 1..n /\ h < j /\ h + 1 = j
        BY <1>2, <4>1 DEF n
      <4> HIDE DEF h
      <4>3. F(j) - F(h) <= W /\ F(h) < F(j)
        BY <1>4, <1>7, <4>2
      <4>4. F(j) \in Int /\ F(h) \in Int
        BY <1>3, <4>2
      <4>5. F(h) - F(j) <= W
        BY <1>1, <4>3, <4>4
      <4> QED BY <3>1, <4>1, <4>3, <4>4, <4>5
    <3> QED BY <1>17, <3>2, <3>3
  <2>2. scan[j].level = Noise
    BY <1>9, <1>11, <1>17, <2>1
  <2>3. i \in 1..n /\ 2 * Distance(F(i), x) <= W /\ scan[i].level = e.level
    BY <1>11, <1>13
  <2>4. Noise + C(j) < e.level + C(i) /\ Noise + C(j) <= e.level + C(i) - config.prominence
    BY <1>10, <2>1, <2>3
  <2>5. trace[i].level = e.level + C(i) /\ trace[j].level = Noise + C(j)
    BY <1>3, <2>2, <2>3
  <2>6. C(i) \in Int /\ C(j) \in Int
    BY <1>3, <2>3
  <2>7. trace[j].level < trace[i].level
    BY <2>4, <2>5
  <2>8. trace[j].level <= trace[i].level - config.prominence
    BY <1>1, <1>12, <2>4, <2>5, <2>6
  <2> QED BY <2>7, <2>8
<1>18. Q # {} /\ Q \in SUBSET (2..(n - 1))
  BY <1>15, <1>16
<1> QED BY <1>17, <1>18 DEF Q, n, trace

\* An emission above a limit that stands clear makes the finished run fail.
LEMMA EmissionFails ==
  ASSUME GivenTyped, Swept, Analysed, candidates = <<>>, AllResolve, config.threshold >= 0,
         \A k \in 1..Len(results) : DwellReaches(results[k].freq),
         NEW e \in emissions, Emerges(e),
         2 * (e.freq - Reach.start) > WidestRbw, 2 * (Reach.stop - e.freq) > WidestRbw,
         \A d \in emissions \ {e} : Distance(d.freq, e.freq) > 2 * WidestRbw,
         \A i \in 1..Len(scan) : 2 * Distance(scan[i].freq, e.freq) <= WidestRbw
                                   => Exceeds(scan[i].freq, e.level)
  PROVE  \E k \in 1..Len(results) : results[k].verdict = "Fail"
<1> DEFINE trace == Corrected(scan)
           Q == Hill(e)
           n == Len(scan)
<1>1. config \in Configurations /\ scan \in Seq(Sample) /\ trace \in Seq(Sample)
  BY PeaksAre DEF GivenTyped
<1>2. /\ Q # {} /\ Q \in SUBSET (2..(n - 1))
      /\ \A i \in Q : \A j \in 1..n : j \notin Q /\ (j + 1 \in Q \/ j - 1 \in Q) =>
           /\ trace[j].level < trace[i].level
           /\ trace[j].level <= trace[i].level - config.prominence
  BY EmissionIsHill
<1>3. Len(trace) = n /\ n \in Nat
  BY <1>1, CorrectedIs
<1>4. PICK i \in Q : StandsOut(trace, i)
  <2> HIDE DEF trace, Q, n
  <2> QED BY <1>1, <1>2, <1>3, HillStandsOut
<1>5. /\ i \in 1..n /\ n > 2 /\ scan[i].level = e.level
      /\ 2 * Distance(scan[i].freq, e.freq) <= WidestRbw
  <2>1. i \in 2..(n - 1)
    BY <1>2
  <2>2. scan[i].level = e.level /\ 2 * Distance(scan[i].freq, e.freq) <= WidestRbw
    BY DEF Hill
  <2> QED BY <1>3, <2>1, <2>2
<1> DEFINE f == scan[i].freq
           c == TotalCorrection(config.corrections, f)
<1>6. f \in Int /\ c \in Int /\ trace[i].level = e.level + c /\ e.level \in Int
  BY <1>1, <1>5, CorrectedIs
<1>7. trace[i].level >= config.floor
  <2>1. 2 * Distance(f, e.freq) <= 3 * WidestRbw
    <3>1. WidestRbw \in Nat
      BY WidestIs
    <3>2. Distance(f, e.freq) \in Int
      BY <1>6 DEF GivenTyped, Distance, Larger
    <3> HIDE DEF f
    <3>3. 2 * Distance(f, e.freq) <= WidestRbw
      BY <1>5 DEF f
    <3> QED BY <3>1, <3>2, <3>3
  <2>2. e.level + c >= config.floor
    BY <1>5, <2>1 DEF Emerges
  <2> QED BY <1>6, <2>2
<1>8. Margin(config.limits, f, trace[i].level) < 0
  <2>1. PICK l \in 1..Len(config.limits) :
             Covers(config.limits[l], f) /\ LimitAt(config.limits[l], f) < e.level + c
    BY <1>5 DEF Exceeds
  <2> DEFINE lim == LimitAt(config.limits[l], f)
  <2>2. lim \in Int
    BY <1>1, <1>6, <2>1, PointsInterpolable, LimitIsNumber
  <2> HIDE DEF f, c, trace
  <2>3. Margin(config.limits, f, e.level + c) \in Int
        /\ Margin(config.limits, f, e.level + c) <= lim - (e.level + c)
    <3>1. e.level + c \in Int
      BY <1>6
    <3> QED BY <1>1, <1>6, <2>1, <3>1, MarginIs
  <2> DEFINE m == Margin(config.limits, f, e.level + c)
  <2>4. m < 0
    <3> HIDE DEF lim, m
    <3>1. lim < e.level + c
      BY <2>1 DEF lim
    <3>2. m \in Int /\ m <= lim - (e.level + c)
      BY <2>3 DEF m
    <3> QED BY <1>6, <2>2, <3>1, <3>2
  <2> QED BY <1>6, <2>4
<1>9. PICK k \in 1..Len(results) : Peaks[k].margin < 0
  BY <1>4, <1>5, <1>7, <1>8, CriticalIsMeasured
<1>10. results[k].verdict = "Fail"
  BY <1>9, MeasuredFails
<1> QED BY <1>10

\* A dwell loses no level of what the scan read, and an emission above a limit that
\* stands clear of everything else makes the run fail: the verdict can be relied on.
THEOREM ExceedancesAreMeasured == Spec => []ExceedanceMeasured
<1>1. PassInv => ExceedanceFails
  <2> SUFFICES ASSUME PassInv, pc = "finished", AllResolve, config.threshold >= 0,
                      \A k \in 1..Len(results) : DwellReaches(results[k].freq),
                      NEW e \in emissions, Emerges(e),
                      2 * (e.freq - Reach.start) > WidestRbw,
                      2 * (Reach.stop - e.freq) > WidestRbw,
                      \A d \in emissions \ {e} : Distance(d.freq, e.freq) > 2 * WidestRbw,
                      \A i \in 1..Len(scan) : 2 * Distance(scan[i].freq, e.freq) <= WidestRbw
                                                => Exceeds(scan[i].freq, e.level)
               PROVE  \E k \in 1..Len(results) : results[k].verdict = "Fail"
    BY DEF ExceedanceFails
  <2>1. GivenTyped /\ Swept /\ Analysed /\ candidates = <<>>
    BY DEF PassInv, Planned
  <2> QED BY <2>1, EmissionFails
<1> QED BY <1>1, DwellsSeePeaks, PassInvariant, PTL DEF ExceedanceMeasured
=============================================================================
