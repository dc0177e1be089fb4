----------------------- MODULE DatasetLifecycleProofs -----------------------
(***************************************************************************)
(* Proofs about DatasetLifecycle, for any number of servers, any inputs    *)
(* and any first contents of the directory: a server serves a whole file   *)
(* (WholeAlwaysServed); and, as long as the files of the directory stand   *)
(* for datasets and no converted one is converted again (AsBuilt), it      *)
(* serves the whole dataset (DatasetsServed), each record where a query    *)
(* with its features looks (RecordsServedNearby) and in one bucket, once,  *)
(* as the search assumes (ServedStoresArePlaced).                          *)
(***************************************************************************)
EXTENDS DatasetLifecycle, NumberLemmas, FunctionTheorems, FiniteSetTheorems,
        TLAPS

\* Loading succeeds only on a whole file.
LEMMA OnlyWholeLoads == \A f : Outcome(f) = "ok" => f.part = "whole"
  BY DEF Outcome

\* Why it is so at every moment: the directory is written only by a job, a
\* job starts when nobody serves, and while it runs nobody starts.
WritesApart ==
    /\ server = [v \in Servers |-> server[v]]
    /\ job.phase # "idle" => Serving = {}

WholeInv == WritesApart /\ WholeFileServed

\* Before the first job and the first start nobody serves.
LEMMA WholeInit == Init => WholeInv
  BY DEF Init, WholeInv, WritesApart, WholeFileServed, Serving, Down, Idle

\* No step, a crash or a failure of a job included, breaks the invariant.
LEMMA WholeStep == WholeInv /\ [Next]_vars => WholeInv'
<1> SUFFICES ASSUME WholeInv, [Next]_vars PROVE WholeInv'
  OBVIOUS
<1> USE DEF WholeInv, WritesApart, Serving
<1>1. ASSUME NEW input \in Inputs, LoadInput(input) PROVE WholeInv'
  BY <1>1 DEF LoadInput, WholeFileServed
<1>2. CASE CreateOutput
  <2>1. Serving = {} /\ server' = server
    BY <1>2 DEF CreateOutput
  <2> QED  BY <2>1 DEF WholeFileServed
<1>3. CASE WriteMore
  <2>1. Serving = {} /\ server' = server
    BY <1>3 DEF WriteMore
  <2> QED  BY <2>1 DEF WholeFileServed
<1>4. CASE Crash
  BY <1>4 DEF Crash, Idle, WholeFileServed
<1>5. ASSUME NEW v \in Servers, Start(v) PROVE WholeInv'
  <2> DEFINE outcome == Outcome(disk[ReferencesPath])
             started == CASE outcome = "error" -> Down("exited")
                          [] outcome = "panic" -> Down("panicked")
                          [] outcome = "ok"    ->
                                [phase |-> "serving", path |-> ReferencesPath,
                                 store |-> Loaded(disk[ReferencesPath])]
  <2>1. /\ server' = [server EXCEPT ![v] = started]
        /\ disk' = disk /\ job' = job /\ job.phase = "idle"
    BY <1>5 DEF Start
  <2>2. started.phase = "serving" =>
            disk[started.path].part = "whole"
    <3>1. outcome \in {"error", "panic", "ok"}
      BY DEF Outcome
    <3>2. CASE outcome = "ok"
      BY <3>2, OnlyWholeLoads
    <3>3. CASE outcome \in {"error", "panic"}
      BY <3>3 DEF Down
    <3> QED  BY <3>1, <3>2, <3>3
  <2> HIDE DEF started
  <2>3. server' = [w \in Servers |-> server'[w]]
    BY <2>1
  <2>4. \A w \in Servers : server'[w] = IF w = v THEN started ELSE server[w]
    BY <2>1
  <2>5. WholeFileServed'
    BY <2>1, <2>2, <2>4 DEF WholeFileServed
  <2> QED  BY <2>1, <2>3, <2>5
<1>6. ASSUME NEW v \in Servers, Stop(v) PROVE WholeInv'
  <2>1. \A w \in Servers :
            server'[w] = IF w = v THEN Down("down") ELSE server[w]
    BY <1>6 DEF Stop
  <2>2. /\ server' = [w \in Servers |-> server'[w]]
        /\ disk' = disk /\ job' = job
    BY <1>6 DEF Stop
  <2>3. Serving' \subseteq Serving
    BY <2>1 DEF Down
  <2>4. WholeFileServed'
    BY <2>1, <2>2, <2>3 DEF WholeFileServed, Down
  <2> QED  BY <2>2, <2>3, <2>4
<1>7. CASE UNCHANGED vars
  BY <1>7 DEF vars, WholeFileServed
<1> QED  BY <1>1, <1>2, <1>3, <1>4, <1>5, <1>6, <1>7 DEF Next

\* Whatever crashes have left, a server serves only a whole file.
THEOREM WholeAlwaysServed == Spec => []WholeFileServed
<1>1. WholeInv => WholeFileServed
  BY DEF WholeInv
<1> QED  BY WholeInit, WholeStep, <1>1, PTL DEF Spec

-----------------------------------------------------------------------------
(***************************************************************************)
(* The buckets of a value and of its code.                                 *)
(***************************************************************************)
\* The whole part of a quotient, bounded from both sides.
LEMMA Quotient ==
    ASSUME NEW a \in Int, NEW w \in Nat \ {0}
    PROVE  /\ a \div w \in Int
           /\ (a \div w) * w <= a /\ a < (a \div w) * w + w
OBVIOUS

\* Multiplying by a positive number keeps an order.
LEMMA Times ==
    ASSUME NEW a \in Int, NEW b \in Int, NEW w \in Nat \ {0}
    PROVE  /\ a <= b <=> a * w <= b * w
           /\ a < b <=> a * w < b * w
OBVIOUS

\* A bucket is a bucket.
LEMMA BucketType ==
    ASSUME NEW num \in Int, NEW den \in Nat \ {0}
    PROVE  ScalarBucket(num, den) \in Buckets
<1> DEFINE c == (num * BucketCount) \div den
<1>0. BucketCount \in Nat \ {0}
  BY StoreAssumption
<1>1. CASE num <= 0 \/ num >= den
  BY <1>0, <1>1 DEF ScalarBucket, Buckets
<1>2. CASE 0 < num /\ num < den
  <2>1. /\ c \in Int /\ c * den <= num * BucketCount
        /\ num * BucketCount < c * den + den
    BY <1>0, Quotient
  <2>2. num * BucketCount < den * BucketCount
    BY <1>0, <1>2, Times
  <2>3. c < BucketCount
    <3> HIDE DEF c
    <3>1. c * den < BucketCount * den
      BY <1>0, <2>1, <2>2
    <3> QED BY <1>0, <2>1, <3>1, Times
  <2>4. -1 < c
    <3> HIDE DEF c
    <3>1. 0 < num * BucketCount
      BY <1>0, <1>2, Times
    <3>2. (c + 1) * den = c * den + den /\ 0 * den = 0
      BY <2>1
    <3>3. num * BucketCount \in Int /\ c * den \in Int
      BY <1>0, <2>1
    <3>4. 0 * den < (c + 1) * den
      BY <2>1, <3>1, <3>2, <3>3
    <3>5. 0 < c + 1
      BY <2>1, <3>4, Times
    <3> QED BY <2>1, <3>5
  <2>5. ScalarBucket(num, den) = c
    BY <1>2 DEF ScalarBucket
  <2> QED BY <1>0, <2>1, <2>3, <2>4, <2>5 DEF Buckets
<1> QED BY <1>0, <1>1, <1>2

\* A code is at most half a step away from its float.
LEMMA CodeNear ==
    ASSUME NEW v \in Int, -Unit < v, v < Unit
    PROVE  LET L == Levels - 1
               x == 2 * Quantize(v) - L
           IN  /\ Quantize(v) \in Int
               /\ Unit * x <= v * L + Unit
               /\ v * L < Unit * x + Unit
<1> DEFINE L == Levels - 1
           a == (v + Unit) * L + Unit
           q == a \div (2 * Unit)
<1>0. Unit \in Nat \ {0} /\ L \in Nat \ {0}
  BY StoreAssumption
<1>1. Quantize(v) = q
  BY <1>0 DEF Quantize
<1>2. a \in Int /\ 2 * Unit \in Nat \ {0}
  BY <1>0
<1>3. q \in Int /\ q * (2 * Unit) <= a /\ a < q * (2 * Unit) + 2 * Unit
  BY <1>2, Quotient
<1>4. a = v * L + Unit * L + Unit
  BY <1>0
<1>5. Unit * (2 * q - L) = q * (2 * Unit) - Unit * L
  <2> HIDE DEF q, L
  <2> QED BY <1>0, <1>3
<1> HIDE DEF q, L
<1>6. /\ Unit * (2 * q - L) <= v * L + Unit
      /\ v * L < Unit * (2 * q - L) + Unit
  <2> HIDE DEF a
  <2>1. Unit * L \in Int /\ v * L \in Int /\ q * (2 * Unit) \in Int
    BY <1>0, <1>3
  <2> QED BY <1>0, <1>2, <1>3, <1>4, <1>5, <2>1
<1> QED BY <1>1, <1>3, <1>6 DEF L

\* The bucket of a code is at most one away from that of its float, as long as
\* an axis has no more buckets than code steps.
LEMMA BucketsNear ==
    ASSUME NEW v \in Int
    PROVE  FloatBucket(v) - CodeBucket(Quantize(v)) \in -1 .. 1
<1> DEFINE L == Levels - 1
           N == BucketCount
           x == 2 * Quantize(v) - L
           a == FloatBucket(v)
           c == CodeBucket(Quantize(v))
<1> SUFFICES a - c \in -1 .. 1
  OBVIOUS
<1>0. /\ Unit \in Nat \ {0} /\ L \in Nat \ {0}
      /\ N \in Nat \ {0} /\ N <= L
  BY StoreAssumption
<1>1. CASE v <= -Unit
  <2>1. Quantize(v) = 0
    BY <1>0, <1>1 DEF Quantize
  <2>2. a = 0
    BY <1>0, <1>1 DEF FloatBucket, ScalarBucket
  <2>3. c = 0
    BY <1>0, <2>1 DEF CodeBucket, ScalarBucket
  <2> QED BY <2>2, <2>3
<1>2. CASE v >= Unit
  <2>1. Quantize(v) = L
    BY <1>0, <1>2 DEF Quantize
  <2>2. a = N - 1
    BY <1>0, <1>2 DEF FloatBucket, ScalarBucket
  <2>3. c = N - 1
    BY <1>0, <2>1 DEF CodeBucket, ScalarBucket
  <2> QED BY <1>0, <2>2, <2>3
<1>3. CASE -Unit < v /\ v < Unit
  <2>1. /\ Quantize(v) \in Int
        /\ Unit * x <= v * L + Unit
        /\ v * L < Unit * x + Unit
    BY <1>3, CodeNear
  <2>2. a = IF v <= 0 THEN 0 ELSE (v * N) \div Unit
    BY <1>0, <1>3 DEF FloatBucket, ScalarBucket
  <2>3. c = IF x <= 0 THEN 0 ELSE IF x >= L THEN N - 1 ELSE (x * N) \div L
    BY DEF CodeBucket, ScalarBucket
  <2>4. x \in Int
    BY <1>0, <2>1
  <2>5. a \in 0 .. (N - 1) /\ c \in 0 .. (N - 1)
    <3>1. 2 * Quantize(v) - (Levels - 1) \in Int /\ Levels - 1 \in Nat \ {0}
      BY <1>0, <2>4
    <3> QED BY <1>0, <3>1, BucketType DEF FloatBucket, CodeBucket, Buckets
  <2> HIDE DEF x, a, c, L, N
  <2>6. CASE v <= 0
    <3>1. a = 0
      BY <2>2, <2>6
    <3>2. x <= 1
      <4>1. v * L <= 0 * L
        BY <1>0, <2>6, Times
      <4>2. x * Unit <= 1 * Unit
        BY <1>0, <2>1, <2>4, <4>1
      <4>3. \A i, j \in Int : i <= j <=> i * Unit <= j * Unit
        BY <1>0, Times
      <4> QED BY <2>4, <4>2, <4>3
    <3>3. CASE x <= 0
      BY <2>3, <3>1, <3>3
    <3>4. CASE x = 1 /\ L = 1
      <4>1. N - 1 = 0
        BY <1>0, <3>4
      <4>2. c = 0
        BY <2>5, <4>1
      <4> QED BY <3>1, <4>2
    <3>5. CASE x = 1 /\ L > 1
      <4>1. c = N \div L
        BY <1>0, <2>3, <3>5
      <4>2. c \in Int /\ c * L <= N
        BY <1>0, <4>1, Quotient
      <4>3. c * L <= 1 * L
        BY <1>0, <4>2
      <4>4. c <= 1
        BY <1>0, <4>2, <4>3, Times
      <4> QED BY <2>5, <3>1, <4>4
    <3> QED BY <1>0, <2>4, <3>2, <3>3, <3>4, <3>5
  <2>7. CASE v > 0
    <3>1. a = (v * N) \div Unit
      BY <2>2, <2>7
    <3>2. a * Unit <= v * N /\ v * N < a * Unit + Unit
      BY <1>0, <3>1, Quotient
    <3>3. v * N <= v * L
      BY <1>0, <2>7, Times
    <3>4. CASE x <= 0
      <4>1. c = 0
        BY <2>3, <3>4
      <4>2. x * Unit <= 0 * Unit
        BY <1>0, <2>4, <3>4, Times
      <4>3. v * L < Unit
        BY <1>0, <2>1, <2>4, <4>2
      <4>4. a * Unit < 1 * Unit
        BY <1>0, <2>5, <3>2, <3>3, <4>3
      <4>5. a < 1
        BY <1>0, <2>5, <4>4, Times
      <4> QED BY <1>0, <2>5, <4>1, <4>5
    <3>5. CASE x >= L
      <4>1. c = N - 1
        BY <1>0, <2>3, <2>4, <3>5
      <4>2. Unit * L <= Unit * x
        BY <1>0, <2>4, <3>5, Times
      <4>3. (Unit - v) * L <= Unit
        BY <1>0, <2>1, <2>4, <4>2
      <4>4. (Unit - v) * N <= (Unit - v) * L
        BY <1>0, <1>3, Times
      <4>5. Unit * N - Unit <= v * N
        BY <1>0, <4>3, <4>4
      <4>6. (N - 2) * Unit < a * Unit
        BY <1>0, <2>5, <3>2, <4>5
      <4>7. N - 2 < a
        BY <1>0, <2>5, <4>6, Times
      <4> QED BY <1>0, <2>5, <4>1, <4>7
    <3>6. CASE 0 < x /\ x < L
      <4>1. c = (x * N) \div L
        BY <1>0, <2>3, <2>4, <3>6
      <4>2. c * L <= x * N /\ x * N < c * L + L
        BY <1>0, <2>4, <4>1, Quotient
      <4> DEFINE xn == x * N
                 vn == v * N
                 ul == Unit * L
      <4>3. xn \in Int /\ vn \in Int /\ ul \in Nat \ {0}
        BY <1>0, <2>4
      <4>4. xn * Unit <= vn * L + Unit * N
        <5>1. (Unit * x) * N <= (v * L + Unit) * N
          BY <1>0, <2>1, <2>4, Times
        <5>2. (Unit * x) * N = xn * Unit
          BY <1>0, <2>4
        <5>3. (v * L + Unit) * N = vn * L + Unit * N
          BY <1>0
        <5> QED BY <5>1, <5>2, <5>3
      <4>5. vn * L < xn * Unit + Unit * N
        <5>1. (v * L) * N < (Unit * x + Unit) * N
          BY <1>0, <2>1, <2>4, Times
        <5>2. (Unit * x + Unit) * N = xn * Unit + Unit * N
          BY <1>0, <2>4
        <5>3. (v * L) * N = vn * L
          BY <1>0
        <5> QED BY <5>1, <5>2, <5>3
      <4>6. Unit * N <= ul
        BY <1>0, Times
      <4>7. (a * ul) <= vn * L /\ vn * L < (a + 1) * ul
        <5>1. (a * Unit) * L <= vn * L /\ vn * L < (a * Unit + Unit) * L
          BY <1>0, <2>5, <3>2, <4>3, Times
        <5>2. (a * Unit) * L = a * ul /\ (a * Unit + Unit) * L = (a + 1) * ul
          BY <1>0, <2>5
        <5> QED BY <5>1, <5>2
      <4>8. (c * ul) <= xn * Unit /\ xn * Unit < (c + 1) * ul
        <5>1. (c * L) * Unit <= xn * Unit /\ xn * Unit < (c * L + L) * Unit
          BY <1>0, <2>5, <4>2, <4>3, Times
        <5>2. (c * L) * Unit = c * ul /\ (c * L + L) * Unit = (c + 1) * ul
          BY <1>0, <2>5
        <5> QED BY <5>1, <5>2
      <4> DEFINE vnl == vn * L
                 xnu == xn * Unit
                 un == Unit * N
      <4>9. vnl \in Int /\ xnu \in Int /\ un \in Int
        BY <1>0, <4>3
      <4> HIDE DEF vnl, xnu, un, xn, vn, ul
      <4>10. c * ul < (a + 2) * ul
        <5>1. (a + 2) * ul = (a + 1) * ul + ul
          BY <2>5, <4>3
        <5> QED BY <2>5, <4>3, <4>4, <4>6, <4>7, <4>8, <4>9, <5>1
                DEF vnl, xnu, un
      <4>11. a * ul < (c + 2) * ul
        <5>1. (c + 2) * ul = (c + 1) * ul + ul
          BY <2>5, <4>3
        <5> QED BY <2>5, <4>3, <4>5, <4>6, <4>7, <4>8, <4>9, <5>1
                DEF vnl, xnu, un
      <4>12. c < a + 2 /\ a < c + 2
        BY <2>5, <4>3, <4>10, <4>11, Times
      <4> QED BY <1>0, <2>5, <4>12
    <3> QED BY <1>0, <2>4, <3>4, <3>5, <3>6
  <2> QED BY <2>6, <2>7 DEF a, c
<1> QED BY <1>0, <1>1, <1>2, <1>3
-----------------------------------------------------------------------------
(***************************************************************************)
(* Order: ranks in a finite set, the lists of the index, the places that   *)
(* records are copied to.                                                  *)
(***************************************************************************)
\* In a finite set with a total order, each element has a rank of its own, and
\* the ranks are 1 up to the number of elements.  The order is given by the
\* elements up to each.
LEMMA RankBijective ==
    ASSUME NEW S, IsFiniteSet(S), NEW Upto \in [S -> SUBSET S],
           \A x, y \in S : x \in Upto[y] \/ y \in Upto[x],
           \A x, y \in S : x \in Upto[y] /\ y \in Upto[x] => x = y,
           \A x, y \in S : x \in Upto[y] => Upto[x] \subseteq Upto[y]
    PROVE  [x \in S |-> Cardinality(Upto[x])]
                \in Bijection(S, 1 .. Cardinality(S))
<1> DEFINE rank == [x \in S |-> Cardinality(Upto[x])]
           N == Cardinality(S)
<1>0. N \in Nat
  BY FS_CardinalityType
<1>1. ASSUME NEW x \in S
      PROVE  /\ IsFiniteSet(Upto[x]) /\ Cardinality(Upto[x]) \in 1 .. N
             /\ x \in Upto[x]
  <2>1. Upto[x] \in SUBSET S /\ x \in Upto[x]
    OBVIOUS
  <2>2. IsFiniteSet(Upto[x]) /\ Cardinality(Upto[x]) <= N
    BY <2>1, FS_Subset
  <2>3. Cardinality(Upto[x]) \in Nat /\ Cardinality(Upto[x]) # 0
    BY <2>1, <2>2, FS_CardinalityType, FS_EmptySet
  <2> QED BY <1>0, <2>1, <2>2, <2>3
<1>2. ASSUME NEW x \in S, NEW y \in S, x # y, x \in Upto[y]
      PROVE  rank[x] # rank[y]
  <2>1. Upto[x] \in SUBSET Upto[y] /\ y \notin Upto[x]
    BY <1>1, <1>2
  <2>2. IsFiniteSet(Upto[y]) /\ y \in Upto[y]
    BY <1>1
  <2>3. Upto[x] # Upto[y]
    BY <2>1, <2>2
  <2>4. rank[x] = Cardinality(Upto[x]) /\ rank[y] = Cardinality(Upto[y])
    OBVIOUS
  <2> HIDE DEF rank
  <2> QED BY <2>1, <2>2, <2>3, <2>4, FS_Subset
<1>3. rank \in Injection(S, 1 .. N)
  <2>1. rank \in [S -> 1 .. N]
    BY <1>1
  <2>2. \A x, y \in S : rank[x] = rank[y] => x = y
    <3> HIDE DEF rank
    <3> QED BY <1>2
  <2> HIDE DEF rank, N
  <2> QED BY <2>1, <2>2, Fun_IsInj
<1>4. IsFiniteSet(1 .. N) /\ Cardinality(1 .. N) = N
  <2> HIDE DEF N
  <2> QED BY <1>0, FS_Interval
<1>5. rank \in Surjection(S, 1 .. N)
  <2> HIDE DEF rank
  <2> QED BY <1>3, <1>4, FS_Injection
<1>6. rank \in Bijection(S, 1 .. N)
  <2> HIDE DEF rank, N
  <2> QED BY <1>3, <1>5, Fun_IsBij
<1> QED BY <1>6

\* The members of a set in order: each has its place.
LEMMA InOrderBijective ==
    ASSUME NEW S \in SUBSET Nat, IsFiniteSet(S)
    PROVE  /\ InOrder(S) \in Bijection(1 .. Cardinality(S), S)
           /\ Len(InOrder(S)) = Cardinality(S)
<1> DEFINE Upto == [i \in S |-> {j \in S : j <= i}]
           rank == [i \in S |-> Cardinality(Upto[i])]
           N == Cardinality(S)
<1>0. N \in Nat
  BY FS_CardinalityType
<1>1. rank \in Bijection(S, 1 .. N)
  <2>1. Upto \in [S -> SUBSET S]
    OBVIOUS
  <2>2. \A x, y \in S : x \in Upto[y] <=> x <= y
    OBVIOUS
  <2> HIDE DEF Upto
  <2>3. /\ \A x, y \in S : x \in Upto[y] \/ y \in Upto[x]
        /\ \A x, y \in S : x \in Upto[y] /\ y \in Upto[x] => x = y
    BY <2>2
  <2>4. \A x, y \in S : x \in Upto[y] => Upto[x] \subseteq Upto[y]
    <3>1. ASSUME NEW x \in S, NEW y \in S, x \in Upto[y], NEW z \in Upto[x]
          PROVE  z \in Upto[y]
      <4>1. z \in S
        BY <2>1, <3>1
      <4>2. x <= y /\ z <= x
        BY <2>2, <3>1, <4>1
      <4>3. x \in Nat /\ y \in Nat /\ z \in Nat
        BY <3>1, <4>1
      <4>4. z <= y
        BY <4>2, <4>3
      <4> QED BY <2>2, <4>1, <4>4
    <3> QED BY <3>1
  <2> QED BY <2>1, <2>3, <2>4, RankBijective
<1>2. \A i \in S : rank[i] = Cardinality({j \in S : j <= i})
  OBVIOUS
<1>3. /\ \A i \in S : rank[i] \in 1 .. N
      /\ \A i, j \in S : rank[i] = rank[j] => i = j
      /\ \A k \in 1 .. N : \E i \in S : rank[i] = k
  <2> DEFINE T == 1 .. N
  <2> HIDE DEF rank, N
  <2>1. rank \in [S -> 1 .. N]
    BY <1>1, Fun_BijectionProperties
  <2>2. \A i, j \in S : rank[i] = rank[j] => i = j
    BY <1>1, Fun_BijectionProperties
  <2>3. \A k \in T : \E i \in S : rank[i] = k
    <3>1. rank \in Bijection(S, T)
      BY <1>1
    <3> HIDE DEF T
    <3> QED BY <3>1 DEF Bijection, Surjection
  <2> QED BY <2>1, <2>2, <2>3
<1> HIDE DEF rank
<1>4. ASSUME NEW k \in 1 .. N
      PROVE  InOrder(S)[k] \in S /\ rank[InOrder(S)[k]] = k
  <2> DEFINE P(i) == Cardinality({j \in S : j <= i}) = k
  <2>1. InOrder(S)[k] = CHOOSE i \in S : P(i)
    BY DEF InOrder
  <2>2. \E i \in S : P(i)
    BY <1>2, <1>3
  <2>3. \A i \in S : P(i) => rank[i] = k
    BY <1>2
  <2> HIDE DEF P
  <2>4. InOrder(S)[k] \in S /\ P(InOrder(S)[k])
    BY <2>1, <2>2
  <2> QED BY <2>3, <2>4
<1>5. InOrder(S) = [k \in 1 .. N |-> InOrder(S)[k]]
  <2> DEFINE Member(k) == CHOOSE i \in S : Cardinality({j \in S : j <= i}) = k
  <2>1. InOrder(S) = [k \in 1 .. N |-> Member(k)]
    BY DEF InOrder
  <2> HIDE DEF Member
  <2> QED BY <2>1
<1>6. InOrder(S) \in [1 .. N -> S]
  BY <1>4, <1>5
<1>7. \A k, m \in 1 .. N : InOrder(S)[k] = InOrder(S)[m] => k = m
  BY <1>4
<1>8. \A i \in S : \E k \in 1 .. N : InOrder(S)[k] = i
  BY <1>3, <1>4
<1>9. InOrder(S) \in Bijection(1 .. N, S)
  <2> HIDE DEF N
  <2> QED BY <1>6, <1>7, <1>8, Fun_IsBij
<1>10. Len(InOrder(S)) = N
  BY <1>0, <1>6
<1> QED BY <1>9, <1>10

\* The records of a bucket.
InBucket(s, b) == {i \in 1 .. s.count : BucketOf(s, i) = b}

\* A store whose index is that of BuildBucketIndex.
Indexed(s) ==
    /\ s.count \in Nat \ {0}
    /\ \A i \in 1 .. s.count : BucketOf(s, i) \in Buckets
    /\ s.index = [b \in Buckets |-> InOrder(InBucket(s, b))]

\* The index of a bucket lists its records, each once.
LEMMA BucketListed ==
    ASSUME NEW s, Indexed(s), NEW b \in Buckets
    PROVE  /\ Len(s.index[b]) \in 0 .. s.count
           /\ Len(s.index[b]) = Cardinality(InBucket(s, b))
           /\ s.index[b] \in Bijection(1 .. Len(s.index[b]), InBucket(s, b))
<1> DEFINE S == InBucket(s, b)
<1>0. s.count \in Nat /\ s.index[b] = InOrder(S)
  BY DEF Indexed
<1>1. S \in SUBSET (1 .. s.count)
  BY DEF InBucket
<1> HIDE DEF S
<1>2. IsFiniteSet(1 .. s.count) /\ Cardinality(1 .. s.count) = s.count
  BY <1>0, UptoFinite
<1>3. IsFiniteSet(S) /\ Cardinality(S) <= s.count /\ Cardinality(S) \in Nat
  <2>1. IsFiniteSet(S) /\ Cardinality(S) <= Cardinality(1 .. s.count)
    BY <1>1, <1>2, FS_Subset
  <2>2. Cardinality(S) \in Nat
    BY <2>1, FS_CardinalityType
  <2> QED BY <1>2, <2>1, <2>2
<1>4. S \in SUBSET Nat
  BY <1>0, <1>1
<1>5. /\ InOrder(S) \in Bijection(1 .. Cardinality(S), S)
      /\ Len(InOrder(S)) = Cardinality(S)
  BY <1>3, <1>4, InOrderBijective
<1> QED BY <1>0, <1>3, <1>5 DEF S

\* The entries are the places of the buckets' lists.
LEMMA EntryIs ==
    ASSUME NEW s, Indexed(s), NEW b \in Buckets, NEW k \in Nat
    PROVE  <<b, k>> \in Entries(s) <=> k \in 1 .. Len(s.index[b])
<1>1. s.count \in Nat /\ Len(s.index[b]) \in 0 .. s.count
  BY BucketListed DEF Indexed
<1> QED BY <1>1 DEF Entries

\* Every record is at one entry.
LEMMA EntriesBijective ==
    ASSUME NEW s, Indexed(s)
    PROVE  /\ [e \in Entries(s) |-> s.index[e[1]][e[2]]]
                    \in Bijection(Entries(s), 1 .. s.count)
           /\ IsFiniteSet(Entries(s)) /\ Cardinality(Entries(s)) = s.count
<1> DEFINE E == Entries(s)
           T == 1 .. s.count
           f == [e \in E |-> s.index[e[1]][e[2]]]
<1>0. s.count \in Nat
  BY DEF Indexed
<1>1. ASSUME NEW e \in E
      PROVE  /\ e[1] \in Buckets /\ e[2] \in 1 .. Len(s.index[e[1]])
             /\ e = <<e[1], e[2]>>
  <2>1. e \in Buckets \X (1 .. s.count) /\ e[2] <= Len(s.index[e[1]])
    BY DEF Entries
  <2>2. Len(s.index[e[1]]) \in Nat
    BY <2>1, BucketListed, <1>0
  <2> QED BY <1>0, <2>1, <2>2
<1>2. ASSUME NEW e \in E
      PROVE  f[e] \in T /\ BucketOf(s, f[e]) = e[1]
  <2>1. s.index[e[1]][e[2]] \in InBucket(s, e[1])
    BY <1>1, BucketListed, Fun_BijectionProperties
  <2> QED BY <2>1 DEF InBucket
<1>3. ASSUME NEW d \in E, NEW e \in E, f[d] = f[e]
      PROVE  d = e
  <2>1. d[1] = e[1]
    BY <1>2, <1>3
  <2>2. s.index[e[1]][d[2]] = s.index[e[1]][e[2]]
    BY <1>3, <2>1
  <2>3. d[2] = e[2]
    BY <1>1, <2>1, <2>2, BucketListed, Fun_BijectionProperties
  <2> QED BY <1>1, <2>1, <2>3
<1>4. ASSUME NEW i \in T
      PROVE  \E e \in E : f[e] = i
  <2> DEFINE b == BucketOf(s, i)
  <2>1. b \in Buckets /\ i \in InBucket(s, b)
    BY DEF Indexed, InBucket
  <2>2. PICK k \in 1 .. Len(s.index[b]) : s.index[b][k] = i
    <3> DEFINE K == 1 .. Len(s.index[b])
    <3>1. s.index[b] \in Bijection(K, InBucket(s, b))
      BY <2>1, BucketListed
    <3> HIDE DEF K, b
    <3>2. \E k \in K : s.index[b][k] = i
      BY <2>1, <3>1 DEF Bijection, Surjection
    <3> QED BY <3>2 DEF K
  <2>3. k \in Nat
    BY <2>1, <2>2, BucketListed, <1>0
  <2>4. <<b, k>> \in E
    BY <2>1, <2>2, <2>3, EntryIs
  <2>5. f[<<b, k>>] = i
    BY <2>2, <2>4
  <2> QED BY <2>4, <2>5
<1>5. f \in [E -> T]
  BY <1>2
<1>6. f \in Bijection(E, T)
  <2> HIDE DEF f, E, T
  <2> QED BY <1>3, <1>4, <1>5, Fun_IsBij
<1>7. IsFiniteSet(T) /\ Cardinality(T) = s.count
  BY <1>0, UptoFinite
<1>8. IsFiniteSet(E) /\ Cardinality(E) = Cardinality(T)
  <2> HIDE DEF f, E, T
  <2>1. ExistsBijection(T, E)
    BY <1>6, Fun_ExistsBijSymmetric DEF ExistsBijection
  <2> QED BY <1>7, <2>1, FS_Bijection
<1> QED BY <1>6, <1>7, <1>8

\* The places they are copied to are all different, from 1 to the last.
LEMMA PlacesBijective ==
    ASSUME NEW s, Indexed(s)
    PROVE  [e \in Entries(s) |-> OffsetAfter(s, e[1], e[2])]
                \in Bijection(Entries(s), 1 .. s.count)
<1> DEFINE E == Entries(s)
           Upto == [e \in E |->
                {d \in E : d[1] < e[1] \/ (d[1] = e[1] /\ d[2] <= e[2])}]
           rank == [e \in E |-> Cardinality(Upto[e])]
<1>1. IsFiniteSet(E) /\ Cardinality(E) = s.count
  BY EntriesBijective
<1>2. \A e \in E : e[1] \in Int /\ e[2] \in Int /\ e = <<e[1], e[2]>>
  BY StoreAssumption DEF Entries, Buckets, Indexed
<1>3. Upto \in [E -> SUBSET E]
  OBVIOUS
<1>4. \A d, e \in E :
        d \in Upto[e] <=> d[1] < e[1] \/ (d[1] = e[1] /\ d[2] <= e[2])
  OBVIOUS
<1>5. \A e \in E : Upto[e] =
        {d \in Entries(s) : d[1] < e[1] \/ (d[1] = e[1] /\ d[2] <= e[2])}
  OBVIOUS
<1> HIDE DEF E, Upto
<1>6. /\ \A d, e \in E : d \in Upto[e] \/ e \in Upto[d]
      /\ \A d, e \in E : d \in Upto[e] /\ e \in Upto[d] => d = e
  BY <1>2, <1>4
<1>7. ASSUME NEW d \in E, NEW e \in E, d \in Upto[e], NEW c \in Upto[d]
      PROVE  c \in Upto[e]
  <2>1. c \in E
    BY <1>3
  <2> QED BY <1>2, <1>4, <1>7, <2>1
<1>8. rank \in Bijection(E, 1 .. s.count)
  BY <1>1, <1>3, <1>6, <1>7, RankBijective
<1>9. rank = [e \in E |-> OffsetAfter(s, e[1], e[2])]
  BY <1>5 DEF OffsetAfter
<1> QED BY <1>8, <1>9 DEF E

\* What is copied where: each entry's record to the place the counter gives.
LEMMA CopyOrderIs ==
    ASSUME NEW s, Indexed(s)
    PROVE  /\ CopyOrder(s) \in [1 .. s.count -> 1 .. s.count]
           /\ \A e \in Entries(s) :
                /\ OffsetAfter(s, e[1], e[2]) \in 1 .. s.count
                /\ CopyOrder(s)[OffsetAfter(s, e[1], e[2])] =
                        s.index[e[1]][e[2]]
           /\ \A p \in 1 .. s.count : \E e \in Entries(s) :
                OffsetAfter(s, e[1], e[2]) = p
           /\ \A d, e \in Entries(s) :
                OffsetAfter(s, d[1], d[2]) = OffsetAfter(s, e[1], e[2]) => d = e
<1> DEFINE E == Entries(s)
           T == 1 .. s.count
           At(e) == OffsetAfter(s, e[1], e[2])
           Rec(e) == s.index[e[1]][e[2]]
           rank == [e \in E |-> At(e)]
           f == [e \in E |-> Rec(e)]
<1>1. rank \in Bijection(E, T) /\ f \in Bijection(E, T)
  BY PlacesBijective, EntriesBijective
<1>2. /\ \A e \in E : rank[e] \in T /\ f[e] \in T
      /\ \A d, e \in E : rank[d] = rank[e] => d = e
      /\ \A p \in T : \E e \in E : rank[e] = p
  <2> HIDE DEF rank, f, E, T
  <2>1. rank \in [E -> T] /\ f \in [E -> T]
    BY <1>1, Fun_BijectionProperties
  <2>2. \A d, e \in E : rank[d] = rank[e] => d = e
    BY <1>1, Fun_BijectionProperties
  <2>3. \A p \in T : \E e \in E : rank[e] = p
    BY <1>1 DEF Bijection, Surjection
  <2> QED BY <2>1, <2>2, <2>3
<1>3. /\ \A e \in E : At(e) \in T /\ Rec(e) \in T
      /\ \A d, e \in E : At(d) = At(e) => d = e
      /\ \A p \in T : \E e \in E : At(e) = p
  <2> HIDE DEF At, Rec, E, T
  <2> QED BY <1>2
<1>4. ASSUME NEW p \in T
      PROVE  EntryFor(s, p) \in E /\ At(EntryFor(s, p)) = p
  <2>1. EntryFor(s, p) = CHOOSE e \in E : At(e) = p
    BY DEF EntryFor
  <2> HIDE DEF At, E, T
  <2> QED BY <1>3, <2>1
<1>5. \A e \in E : EntryFor(s, At(e)) = e
  <2> HIDE DEF At, E, T
  <2> QED BY <1>3, <1>4
<1>6. s.index # Absent
  <2>1. s.index = [b \in Buckets |-> InOrder(InBucket(s, b))] /\ 0 \in Buckets
    BY StoreAssumption DEF Indexed, Buckets
  <2>2. 0 \in DOMAIN s.index
    BY <2>1
  <2> QED BY <2>2 DEF Absent
<1>7. CopyOrder(s) = [p \in T |-> Rec(EntryFor(s, p))]
  <2>1. Cardinality(E) = s.count
    BY EntriesBijective
  <2> QED BY <1>6, <2>1 DEF CopyOrder
<1>8. CopyOrder(s) \in [T -> T]
  <2> HIDE DEF Rec, E, T
  <2> QED BY <1>3, <1>4, <1>7
<1>9. \A e \in E : CopyOrder(s)[At(e)] = Rec(e)
  <2> HIDE DEF Rec, At, E, T
  <2> QED BY <1>3, <1>5, <1>7
<1> QED BY <1>3, <1>8, <1>9

\* A bucket's records are copied one behind the other: counted back from the
\* bucket's end, each is where its slice says.
LEMMA Consecutive ==
    ASSUME NEW s, Indexed(s), NEW b \in Buckets,
           NEW k \in 1 .. Len(s.index[b])
    PROVE  OffsetAfter(s, b, k) =
                OffsetAfter(s, b, Len(s.index[b])) - Len(s.index[b]) + k
<1> DEFINE n == Len(s.index[b])
           Upto(m) == {e \in Entries(s) : e[1] < b \/ (e[1] = b /\ e[2] <= m)}
           rest == {e \in Entries(s) : e[1] = b /\ k < e[2] /\ e[2] <= n}
           f == [i \in (k + 1) .. n |-> <<b, i>>]
<1>0. n \in Nat /\ k \in Nat /\ k <= n /\ b \in Int
  BY BucketListed DEF Indexed, Buckets
<1>1. \A e \in Entries(s) : e[1] \in Int /\ e[2] \in Nat /\ e = <<e[1], e[2]>>
  BY StoreAssumption DEF Entries, Buckets, Indexed
<1>2. IsFiniteSet(Entries(s))
  BY EntriesBijective
<1> HIDE DEF n
<1>3. Upto(n) = Upto(k) \cup rest /\ Upto(k) \cap rest = {}
  BY <1>0, <1>1
<1>4. IsFiniteSet(Upto(k)) /\ IsFiniteSet(rest)
  BY <1>2, FS_Subset
<1>5. Cardinality(rest) = n - k
  <2> DEFINE T == (k + 1) .. n
  <2>1. \A i \in T : <<b, i>> \in rest
    <3> SUFFICES ASSUME NEW i \in T PROVE <<b, i>> \in rest
      OBVIOUS
    <3>1. i \in Nat /\ i \in 1 .. Len(s.index[b])
      BY <1>0 DEF n
    <3>2. <<b, i>> \in Entries(s)
      BY <3>1, EntryIs
    <3> QED BY <1>0, <3>2
  <2>2. f \in [T -> rest]
    BY <2>1
  <2>3. \A i, j \in T : f[i] = f[j] => i = j
    OBVIOUS
  <2>4. \A e \in rest : \E i \in T : f[i] = e
    <3> SUFFICES ASSUME NEW e \in rest PROVE \E i \in T : f[i] = e
      OBVIOUS
    <3>1. e \in Entries(s) /\ e[1] = b /\ k < e[2] /\ e[2] <= n
      OBVIOUS
    <3>2. e[2] \in T /\ e = <<b, e[2]>>
      BY <1>0, <1>1, <3>1
    <3>3. f[e[2]] = e
      BY <3>2
    <3> QED BY <3>2, <3>3
  <2>5. f \in Bijection(T, rest)
    <3> HIDE DEF f, T, rest
    <3> QED BY <2>2, <2>3, <2>4, Fun_IsBij
  <2>6. IsFiniteSet(T) /\ Cardinality(T) = n - k
    <3>1. Cardinality(T) = IF k + 1 > n THEN 0 ELSE n - (k + 1) + 1
      BY <1>0, FS_Interval
    <3> QED BY <1>0, <3>1, FS_Interval
  <2> HIDE DEF f, T, rest
  <2> QED BY <2>5, <2>6, FS_Bijection DEF ExistsBijection
<1>6. Cardinality(Upto(n)) = Cardinality(Upto(k)) + (n - k)
  <2>1. Cardinality({}) = 0
    BY FS_EmptySet
  <2>2. Cardinality(Upto(k)) \in Nat
    <3> HIDE DEF Upto
    <3> QED BY <1>4, FS_CardinalityType
  <2> HIDE DEF Upto, rest
  <2>3. Cardinality(Upto(k) \cup rest) =
            Cardinality(Upto(k)) + Cardinality(rest)
                - Cardinality(Upto(k) \cap rest)
    BY <1>4, FS_Union
  <2>4. Cardinality(Upto(n)) = Cardinality(Upto(k)) + Cardinality(rest) - 0
    BY <1>3, <2>1, <2>3
  <2>5. n - k \in Int
    BY <1>0
  <2> QED BY <1>5, <2>2, <2>4, <2>5
<1>7. Cardinality(Upto(k)) \in Nat
  <2> HIDE DEF Upto
  <2> QED BY <1>4, FS_CardinalityType
<1>8. /\ OffsetAfter(s, b, k) = Cardinality(Upto(k))
      /\ OffsetAfter(s, b, n) = Cardinality(Upto(n))
  BY DEF OffsetAfter
<1> HIDE DEF Upto
<1>9. OffsetAfter(s, b, k) = OffsetAfter(s, b, n) - n + k
  BY <1>0, <1>6, <1>7, <1>8
<1> QED BY <1>9 DEF n

-----------------------------------------------------------------------------
(***************************************************************************)
(* Stores: what loading and converting make of a dataset.                  *)
(***************************************************************************)
\* Every value has a code.
LEMMA QuantizeType == \A v \in Int : Quantize(v) \in Int
<1> SUFFICES ASSUME NEW v \in Int PROVE Quantize(v) \in Int
  OBVIOUS
<1>0. Unit \in Nat \ {0} /\ Levels \in Nat \ {0, 1}
  BY StoreAssumption
<1>1. CASE v <= -Unit
  BY <1>0, <1>1 DEF Quantize
<1>2. CASE v >= Unit
  BY <1>0, <1>2 DEF Quantize
<1>3. CASE -Unit < v /\ v < Unit
  BY <1>3, CodeNear
<1> QED BY <1>0, <1>1, <1>2, <1>3

\* A function of numbers up to a positive one is not the empty sequence.
LEMMA NotAbsent ==
    /\ \A n \in Nat \ {0} : \A f : DOMAIN f = 1 .. n => f # << >>
    /\ \A f : DOMAIN f = Buckets => f # << >>
<1>1. 0 \in Buckets
  BY StoreAssumption DEF Buckets
<1>2. DOMAIN << >> = {}
  OBVIOUS
<1> QED BY <1>1, <1>2

\* What a store that was not converted yet holds.
LEMMA RawFields ==
    ASSUME NEW s, RawStore(s)
    PROVE  /\ s = [vectors |-> s.vectors, quantized |-> s.quantized,
                   labels |-> s.labels, count |-> s.count, meta |-> Absent,
                   index |-> Absent, of |-> s.of]
           /\ s.count \in Nat /\ DOMAIN s.of = 1 .. s.count
           /\ s.labels = LabelsOf(s.of) /\ Len(s.labels) = s.count
           /\ \A i \in 1 .. s.count :
                /\ s.of[i].value \in Int
                /\ s.labels[i] = s.of[i].label
                /\ CodeOf(s, i) = Quantize(s.of[i].value)
                /\ BucketOf(s, i) \in {FloatBucket(s.of[i].value),
                                       CodeBucket(Quantize(s.of[i].value))}
<1> DEFINE d == s.of
           n == Len(d)
           vs == [i \in DOMAIN d |-> d[i].value]
           qs == [i \in DOMAIN d |-> Quantize(d[i].value)]
<1>1. /\ d \in Seq([value : Int, label : {Legit, Fraud}])
      /\ s \in {FloatStore(d), CodeStore(d)}
  BY DEF RawStore
<1>2. n \in Nat /\ DOMAIN d = 1 .. n
  BY <1>1
<1>3. \A i \in 1 .. n : d[i].value \in Int
  <2> DEFINE R == [value : Int, label : {Legit, Fraud}]
  <2>1. d \in Seq(R)
    BY <1>1
  <2>2. \A i \in 1 .. n : d[i] \in R
    <3> HIDE DEF R, d
    <3> QED BY <2>1
  <2> QED BY <2>2
<1>4. LabelsOf(d) = [i \in 1 .. n |-> d[i].label]
  BY <1>2 DEF LabelsOf
<1>5. Len(LabelsOf(d)) = n
  <2> HIDE DEF n
  <2> QED BY <1>2, <1>4
<1>6. /\ s.labels = LabelsOf(d) /\ s.count = n
      /\ s = [vectors |-> s.vectors, quantized |-> s.quantized,
              labels |-> s.labels, count |-> s.count, meta |-> Absent,
              index |-> Absent, of |-> s.of]
      /\ \/ s.quantized = << >> /\ s.vectors = vs
         \/ s.quantized = qs
  <2>1. CASE s = FloatStore(d)
    <3>1. s = [vectors |-> vs, quantized |-> << >>, labels |-> LabelsOf(d),
               count |-> n, meta |-> Absent, index |-> Absent, of |-> d]
      BY <1>5, <2>1 DEF FloatStore, Store
    <3> HIDE DEF vs, qs, n, d
    <3> QED BY <3>1
  <2>2. CASE s = CodeStore(d)
    <3>1. s = [vectors |-> << >>, quantized |-> qs, labels |-> LabelsOf(d),
               count |-> n, meta |-> Absent, index |-> Absent, of |-> d]
      BY <1>5, <2>2 DEF CodeStore, Store
    <3> HIDE DEF vs, qs, n, d
    <3> QED BY <3>1
  <2> QED BY <1>1, <2>1, <2>2
<1>7. ASSUME NEW i \in 1 .. n
      PROVE  /\ CodeOf(s, i) = Quantize(d[i].value)
             /\ BucketOf(s, i) \in {FloatBucket(d[i].value),
                                    CodeBucket(Quantize(d[i].value))}
  <2>1. vs[i] = d[i].value /\ qs[i] = Quantize(d[i].value)
    BY <1>2
  <2>2. qs # << >>
    <3>1. DOMAIN qs = 1 .. n /\ n \in Nat \ {0}
      BY <1>2
    <3> HIDE DEF qs, n
    <3> QED BY <3>1, NotAbsent
  <2> HIDE DEF vs, qs, n, d
  <2>3. CASE s.quantized = << >> /\ s.vectors = vs
    BY <2>1, <2>3 DEF CodeOf, BucketOf
  <2>4. CASE s.quantized = qs
    BY <2>1, <2>2, <2>4 DEF CodeOf, BucketOf
  <2> QED BY <1>6, <2>3, <2>4
<1>8. \A i \in 1 .. n : s.labels[i] = d[i].label
  BY <1>4, <1>6
<1> QED BY <1>2, <1>3, <1>5, <1>6, <1>7, <1>8

\* Every record of a store that was not converted yet has a label.
LEMMA RawLabels ==
    ASSUME NEW s, RawStore(s), NEW i \in 1 .. s.count
    PROVE  s.labels[i] \in {Legit, Fraud}
<1> DEFINE R == [value : Int, label : {Legit, Fraud}]
<1>1. s.of \in Seq(R)
  BY DEF RawStore
<1>2. DOMAIN s.of = 1 .. s.count /\ s.labels[i] = s.of[i].label
  BY RawFields
<1> HIDE DEF R
<1>3. s.of \in [1 .. Len(s.of) -> R]
  BY <1>1
<1>4. s.of[i] \in R
  BY <1>2, <1>3
<1> QED BY <1>2, <1>4 DEF R

\* A bucket of a record that was not converted yet: near the query's.
LEMMA RawBuckets ==
    ASSUME NEW s, RawStore(s), NEW i \in 1 .. s.count
    PROVE  /\ BucketOf(s, i) \in Buckets
           /\ FloatBucket(s.of[i].value) - BucketOf(s, i) \in -1 .. 1
<1> DEFINE v == s.of[i].value
           q == Quantize(v)
<1>1. /\ v \in Int
      /\ BucketOf(s, i) \in {FloatBucket(v), CodeBucket(q)}
  BY RawFields
<1>2. q \in Int
  BY <1>1, QuantizeType
<1>3. Unit \in Nat \ {0} /\ Levels - 1 \in Nat \ {0}
  BY StoreAssumption
<1> HIDE DEF v, q
<1>4. FloatBucket(v) \in Buckets
  BY <1>1, <1>3, BucketType DEF FloatBucket
<1>5. CodeBucket(q) \in Buckets
  <2>1. 2 * q - (Levels - 1) \in Int
    BY <1>2, <1>3
  <2> QED BY <1>3, <2>1, BucketType DEF CodeBucket
<1>6. FloatBucket(v) - CodeBucket(q) \in -1 .. 1
  BY <1>1, BucketsNear DEF q
<1>7. FloatBucket(v) - FloatBucket(v) \in -1 .. 1
  BY <1>4 DEF Buckets
<1> QED BY <1>1, <1>4, <1>5, <1>6, <1>7 DEF v

\* What loading makes of it: the same store with an index.
LEMMA RawIndexed ==
    ASSUME NEW s, RawStore(s), s.count # 0
    PROVE  LET t == BuildBucketIndex(s) IN
           /\ t = [vectors |-> s.vectors, quantized |-> s.quantized,
                   labels |-> s.labels, count |-> s.count, meta |-> Absent,
                   index |-> [b \in Buckets |-> InOrder(InBucket(s, b))],
                   of |-> s.of]
           /\ Indexed(t)
           /\ \A i : /\ CodeOf(t, i) = CodeOf(s, i)
                     /\ BucketOf(t, i) = BucketOf(s, i)
<1> DEFINE t == BuildBucketIndex(s)
           idx == [b \in Buckets |-> InOrder(InBucket(s, b))]
<1>1. s = [vectors |-> s.vectors, quantized |-> s.quantized,
           labels |-> s.labels, count |-> s.count, meta |-> Absent,
           index |-> Absent, of |-> s.of] /\ s.count \in Nat
  BY RawFields
<1>2. t = [s EXCEPT !.index = idx]
  BY <1>1 DEF BuildBucketIndex, InBucket
<1>3. t = [vectors |-> s.vectors, quantized |-> s.quantized,
           labels |-> s.labels, count |-> s.count, meta |-> Absent,
           index |-> idx, of |-> s.of]
  <2> HIDE DEF idx, t
  <2> QED BY <1>1, <1>2
<1>4. \A i : CodeOf(t, i) = CodeOf(s, i) /\ BucketOf(t, i) = BucketOf(s, i)
  <2>1. t.vectors = s.vectors /\ t.quantized = s.quantized
    <3> HIDE DEF idx, t
    <3> QED BY <1>3
  <2> HIDE DEF idx, t
  <2> QED BY <2>1 DEF CodeOf, BucketOf
<1>5. t.count = s.count /\ t.index = idx
  <2> HIDE DEF idx, t
  <2> QED BY <1>3
<1>6. \A b : InBucket(t, b) = InBucket(s, b)
  <2> HIDE DEF idx, t
  <2> QED BY <1>4, <1>5 DEF InBucket
<1>7. Indexed(t)
  <2>1. \A i \in 1 .. t.count : BucketOf(t, i) \in Buckets
    <3> HIDE DEF t, idx
    <3> QED BY <1>4, <1>5, RawBuckets
  <2>2. t.index = [b \in Buckets |-> InOrder(InBucket(t, b))]
    <3> HIDE DEF t
    <3> QED BY <1>5, <1>6
  <2> HIDE DEF t, idx
  <2> QED BY <1>1, <1>5, <2>1, <2>2 DEF Indexed
<1> QED BY <1>3, <1>4, <1>7

\* The places of a store: where a search finds a record.
Places(s) == {p \in Buckets \X (1 .. s.count) : p[2] \in Slice(s, p[1])}

\* A store is faithful to its dataset if its places are the records, one for
\* one, each with the record's code and label and in or next to its bucket.
Matches(s, p, r) ==
    /\ <<CodeOf(s, p[2]), s.labels[p[2]]>> = Image(r)
    /\ FloatBucket(r.value) - p[1] \in -1 .. 1

Faithful(s) ==
    /\ s.count \in Nat /\ DOMAIN s.of = 1 .. s.count
    /\ s.count > 0 =>
        /\ \A b \in Buckets : Slice(s, b) \subseteq 1 .. s.count
        /\ \E g \in Bijection(Places(s), 1 .. s.count) :
            \A p \in Places(s) : Matches(s, p, s.of[g[p]])

\* What is asked of a served store, one store at a time.
Complete(s) ==
    \A r \in Range(s.of) : s.count > 0 /\ Copies(s, Image(r)) =
        Cardinality({i \in DOMAIN s.of : Image(s.of[i]) = Image(r)})

Nearby(s) ==
    \A r \in Range(s.of) : \E b \in Buckets : \E i \in Slice(s, b) :
        /\ <<CodeOf(s, i), s.labels[i]>> = Image(r)
        /\ FloatBucket(r.value) - b \in -1 .. 1

\* A bijection maps what is chosen by its image onto what is chosen.
LEMMA BijectionOfChosen ==
    ASSUME NEW S, NEW T, NEW g \in Bijection(S, T), IsFiniteSet(T),
           NEW A \in SUBSET S, NEW B \in SUBSET T,
           \A x \in S : x \in A <=> g[x] \in B
    PROVE  Cardinality(A) = Cardinality(B)
<1> DEFINE h == [x \in A |-> g[x]]
<1>1. /\ \A x \in S : g[x] \in T
      /\ \A x, y \in S : g[x] = g[y] => x = y
  <2>1. g \in [S -> T]
    BY Fun_BijectionProperties
  <2> QED BY <2>1, Fun_BijectionProperties
<1>2. \A y \in T : \E x \in S : g[x] = y
  BY DEF Bijection, Surjection
<1>3. h \in [A -> B]
  BY <1>1
<1>4. \A x, y \in A : h[x] = h[y] => x = y
  BY <1>1
<1>5. \A y \in B : \E x \in A : h[x] = y
  BY <1>2
<1>6. h \in Bijection(A, B)
  <2> HIDE DEF h
  <2> QED BY <1>3, <1>4, <1>5, Fun_IsBij
<1>7. ExistsBijection(B, A)
  <2>1. ExistsBijection(A, B)
    BY <1>6 DEF ExistsBijection
  <2> QED BY <2>1, Fun_ExistsBijSymmetric
<1>8. IsFiniteSet(B)
  BY FS_Subset
<1> QED BY <1>7, <1>8, FS_Bijection

\* A faithful store is all that is asked of it.
LEMMA FaithfulServes ==
    ASSUME NEW s, Faithful(s)
    PROVE  Served(s) /\ Complete(s) /\ Nearby(s)
<1>1. s.count \in Nat /\ DOMAIN s.of = 1 .. s.count
  BY DEF Faithful
<1>2. Served(s)
  BY DEF Faithful, Served
<1>3. ASSUME NEW r \in Range(s.of)
      PROVE  /\ s.count > 0
             /\ Copies(s, Image(r)) =
                    Cardinality({i \in DOMAIN s.of : Image(s.of[i]) = Image(r)})
             /\ \E b \in Buckets : \E i \in Slice(s, b) :
                    /\ <<CodeOf(s, i), s.labels[i]>> = Image(r)
                    /\ FloatBucket(r.value) - b \in -1 .. 1
  <2>1. PICK i \in 1 .. s.count : r = s.of[i]
    BY <1>1, <1>3 DEF Range
  <2>2. s.count > 0
    BY <1>1, <2>1
  <2> DEFINE S == Places(s)
             T == 1 .. s.count
  <2>3. PICK g \in Bijection(S, T) :
            \A p \in S : Matches(s, p, s.of[g[p]])
    BY <2>2 DEF Faithful
  <2>4. Copies(s, Image(r)) =
            Cardinality({j \in DOMAIN s.of : Image(s.of[j]) = Image(r)})
    <3> DEFINE A == {p \in S :
                        <<CodeOf(s, p[2]), s.labels[p[2]]>> = Image(r)}
               B == {j \in T : Image(s.of[j]) = Image(r)}
    <3>1. Copies(s, Image(r)) = Cardinality(A)
      <4> DEFINE C == {p \in Buckets \X (1 .. s.count) :
                        /\ p[2] \in Slice(s, p[1])
                        /\ <<CodeOf(s, p[2]), s.labels[p[2]]>> = Image(r)}
      <4>1. C = A
        BY DEF Places
      <4>2. Copies(s, Image(r)) = Cardinality(C)
        BY DEF Copies
      <4> QED BY <4>1, <4>2
    <3>2. IsFiniteSet(T)
      BY <1>1, FS_Interval
    <3>3. g \in [S -> T]
      BY Fun_BijectionProperties
    <3>4. \A p \in S : p \in A <=> g[p] \in B
      <4> SUFFICES ASSUME NEW p \in S PROVE p \in A <=> g[p] \in B
        OBVIOUS
      <4>1. <<CodeOf(s, p[2]), s.labels[p[2]]>> = Image(s.of[g[p]])
        BY <2>3 DEF Matches
      <4>2. g[p] \in T
        BY <3>3
      <4> HIDE DEF S, T
      <4> QED BY <4>1, <4>2
    <3>5. A \in SUBSET S /\ B \in SUBSET T
      OBVIOUS
    <3>6. Cardinality(A) = Cardinality(B)
      <4> HIDE DEF A, B, S, T
      <4> QED BY <3>2, <3>4, <3>5, BijectionOfChosen
    <3> QED BY <1>1, <3>1, <3>6
  <2>5. PICK p \in S : g[p] = i
    <3>1. i \in T
      OBVIOUS
    <3> HIDE DEF S, T
    <3> QED BY <2>3, <3>1 DEF Bijection, Surjection
  <2>6. p[1] \in Buckets /\ p[2] \in Slice(s, p[1])
    BY DEF Places
  <2>7. Matches(s, p, r)
    BY <2>1, <2>3, <2>5
  <2> QED BY <2>2, <2>4, <2>6, <2>7 DEF Matches
<1> QED BY <1>2, <1>3 DEF Complete, Nearby

\* A dataset that is loaded is served faithfully: its records are where they
\* were, under the index.
LEMMA RawFaithful ==
    ASSUME NEW s, RawStore(s)
    PROVE  Faithful(BuildBucketIndex(s))
<1>1. CASE s.count = 0
  <2>1. BuildBucketIndex(s) = s
    BY <1>1 DEF BuildBucketIndex
  <2> QED BY <1>1, <2>1, RawFields DEF Faithful
<1>2. CASE s.count # 0
  <2> DEFINE t == BuildBucketIndex(s)
             T == 1 .. s.count
             S == Places(t)
             g == [p \in S |-> p[2]]
  <2>1. /\ t = [vectors |-> s.vectors, quantized |-> s.quantized,
                labels |-> s.labels, count |-> s.count, meta |-> Absent,
                index |-> [b \in Buckets |-> InOrder(InBucket(s, b))],
                of |-> s.of]
        /\ Indexed(t)
        /\ \A i : CodeOf(t, i) = CodeOf(s, i) /\ BucketOf(t, i) = BucketOf(s, i)
    BY <1>2, RawIndexed
  <2> HIDE DEF t
  <2>2. /\ t.count = s.count /\ t.of = s.of
        /\ t.meta = Absent /\ t.labels = s.labels
    BY <2>1
  <2>3. s.count \in Nat /\ DOMAIN s.of = T
    BY RawFields
  <2>4. ASSUME NEW b \in Buckets
        PROVE  Slice(t, b) = InBucket(t, b)
    <3> DEFINE K == 1 .. Len(t.index[b])
    <3>1. t.index[b] \in Bijection(K, InBucket(t, b))
      BY <2>1, BucketListed
    <3>2. Slice(t, b) = {t.index[b][k] : k \in K}
      BY <2>2 DEF Slice
    <3> HIDE DEF K
    <3>3. /\ \A k \in K : t.index[b][k] \in InBucket(t, b)
          /\ \A i \in InBucket(t, b) : \E k \in K : t.index[b][k] = i
      BY <3>1 DEF Bijection, Surjection
    <3> QED BY <3>2, <3>3
  <2>5. \A b \in Buckets : \A i :
            i \in Slice(t, b) <=> i \in T /\ BucketOf(s, i) = b
    BY <2>1, <2>2, <2>4 DEF InBucket
  <2>6. \A p \in S : /\ p[1] \in Buckets /\ p[2] \in T /\ p = <<p[1], p[2]>>
                     /\ BucketOf(s, p[2]) = p[1]
    BY <2>2, <2>5 DEF Places
  <2>7. g \in Bijection(S, T)
    <3>1. g \in [S -> T]
      BY <2>6
    <3>2. \A p, q \in S : g[p] = g[q] => p = q
      <4> SUFFICES ASSUME NEW p \in S, NEW q \in S, p[2] = q[2] PROVE p = q
        OBVIOUS
      <4> QED BY <2>6
    <3>3. \A i \in T : \E p \in S : g[p] = i
      <4> SUFFICES ASSUME NEW i \in T PROVE \E p \in S : g[p] = i
        OBVIOUS
      <4> DEFINE p == <<BucketOf(s, i), i>>
      <4>1. BucketOf(s, i) \in Buckets
        BY RawBuckets
      <4>2. p \in S
        BY <2>2, <2>5, <4>1 DEF Places
      <4>3. g[p] = i
        BY <4>2
      <4> QED BY <4>2, <4>3
    <3> HIDE DEF g, S, T
    <3> QED BY <3>1, <3>2, <3>3, Fun_IsBij
  <2>8. ASSUME NEW p \in S
        PROVE  Matches(t, p, t.of[g[p]])
    <3>1. g[p] = p[2] /\ p[2] \in T
      BY <2>6
    <3>2. CodeOf(t, p[2]) = Quantize(s.of[p[2]].value)
      BY <2>1, <3>1, RawFields
    <3>3. t.labels[p[2]] = s.of[p[2]].label
      BY <2>2, <3>1, RawFields
    <3>4. FloatBucket(s.of[p[2]].value) - p[1] \in -1 .. 1
      BY <2>6, <3>1, RawBuckets
    <3> HIDE DEF g, S, T
    <3> QED BY <2>2, <3>1, <3>2, <3>3, <3>4 DEF Matches, Image
  <2>9. \A b \in Buckets : Slice(t, b) \subseteq T
    BY <2>5
  <2>10. Faithful(t)
    <3> HIDE DEF g, S
    <3> QED BY <2>2, <2>3, <2>7, <2>8, <2>9 DEF Faithful, S
  <2> QED BY <2>10 DEF t
<1> QED BY <1>1, <1>2

\* Small numbers are their own remainders.
LEMMA SmallMod ==
    ASSUME NEW n \in Nat, NEW w \in Nat \ {0}, n < w
    PROVE  n % w = n
OBVIOUS

\* It makes no difference to the converter whether the index is there.
LEMMA ReorderLoaded ==
    ASSUME NEW s, RawStore(s)
    PROVE  ReorderStoreByBucket(BuildBucketIndex(s)) = ReorderStoreByBucket(s)
<1> DEFINE t == BuildBucketIndex(s)
<1>1. CASE s.count = 0
  <2>1. t = s
    BY <1>1 DEF BuildBucketIndex
  <2> HIDE DEF t
  <2> QED BY <2>1 DEF t
<1>2. CASE s.count # 0
  <2>1. s.index = Absent
    BY RawFields
  <2>2. t.count = s.count /\ t.index # Absent
    <3> DEFINE idx == [b \in Buckets |-> InOrder(InBucket(s, b))]
    <3>1. t = [vectors |-> s.vectors, quantized |-> s.quantized,
               labels |-> s.labels, count |-> s.count, meta |-> Absent,
               index |-> idx, of |-> s.of]
      BY <1>2, RawIndexed
    <3>2. idx # Absent
      <4>1. DOMAIN idx = Buckets
        OBVIOUS
      <4> HIDE DEF idx
      <4> QED BY <4>1, NotAbsent DEF Absent
    <3> HIDE DEF t, idx
    <3> QED BY <3>1, <3>2
  <2> HIDE DEF t
  <2> QED BY <1>2, <2>1, <2>2 DEF ReorderStoreByBucket, t
<1> QED BY <1>1, <1>2

\* What the converter writes of a dataset with records.
LEMMA SavedFields ==
    ASSUME NEW s, RawStore(s), s.count # 0
    PROVE  LET t == BuildBucketIndex(s)
               c == Saved(ReorderStoreByBucket(s)).body
           IN  /\ c = [vectors |-> << >>, quantized |-> c.quantized,
                       labels |-> c.labels, count |-> s.count,
                       meta |-> ReorderedMeta(t), index |-> Absent, of |-> s.of]
               /\ \A p \in 1 .. s.count :
                    /\ CodeOf(c, p) = CodeOf(t, CopyOrder(t)[p])
                    /\ c.labels[p] = t.labels[CopyOrder(t)[p]]
<1> DEFINE t == BuildBucketIndex(s)
           u == ReorderStoreByBucket(s)
           T == 1 .. s.count
           qs == CopiedVectors(t)
           ls == CopiedLabels(t)
           m == ReorderedMeta(t)
<1>1. s.index = Absent /\ s.count \in Nat
  BY RawFields
<1>2. /\ t = [vectors |-> s.vectors, quantized |-> s.quantized,
              labels |-> s.labels, count |-> s.count, meta |-> Absent,
              index |-> [b \in Buckets |-> InOrder(InBucket(s, b))],
              of |-> s.of]
      /\ Indexed(t)
  BY RawIndexed
<1>3. u = [t EXCEPT !.labels = ls, !.quantized = qs, !.vectors = << >>,
                    !.meta = m, !.index = Absent]
  BY <1>1 DEF ReorderStoreByBucket
<1> HIDE DEF t
<1>4. t.count = s.count /\ t.of = s.of
  BY <1>2
<1>5. CopyOrder(t) \in [T -> T]
  BY <1>2, <1>4, CopyOrderIs
<1>6. Len(CopyOrder(t)) = s.count
  BY <1>1, <1>5
<1>7. qs = [p \in T |-> CodeOf(t, CopyOrder(t)[p])]
  <2>1. \A p \in T : p <= Len(CopyOrder(t))
    BY <1>1, <1>6
  <2> QED BY <1>4, <2>1 DEF CopiedVectors
<1>8. ls = [p \in T |-> t.labels[CopyOrder(t)[p]]]
  <2>1. \A p \in T : p <= Len(CopyOrder(t))
    BY <1>1, <1>6
  <2> QED BY <1>4, <2>1 DEF CopiedLabels
<1>9. m # Absent
  <2>1. DOMAIN m = Buckets
    BY DEF ReorderedMeta
  <2> HIDE DEF m
  <2> QED BY <2>1, NotAbsent DEF Absent
<1>10. DOMAIN qs = T /\ DOMAIN ls = T /\ qs # << >>
  <2>1. DOMAIN qs = T /\ DOMAIN ls = T
    BY <1>7, <1>8
  <2> HIDE DEF qs
  <2> QED BY <1>1, <2>1, NotAbsent
<1>11. Len(ls) = s.count
  <2> HIDE DEF ls
  <2> QED BY <1>1, <1>8
<1> HIDE DEF qs, ls, m
<1>12. u = [vectors |-> << >>, quantized |-> qs, labels |-> ls,
            count |-> s.count, meta |-> m, index |-> Absent, of |-> s.of]
  <2> HIDE DEF u
  <2> QED BY <1>2, <1>3, <1>4
<1> HIDE DEF u
<1> DEFINE c == Saved(u).body
           ws == [i \in 1 .. u.count |-> CodeOf(u, i)]
<1>13. c = [vectors |-> << >>, quantized |-> ws, labels |-> ls,
            count |-> s.count, meta |-> m, index |-> Absent, of |-> s.of]
  <2>1. c = Store(<< >>, ws, u.labels,
                  IF u.meta # Absent THEN u.meta
                  ELSE [b \in Buckets |-> [offset |-> 0, count |-> 0]], u.of)
    BY DEF Saved
  <2> HIDE DEF c, ws
  <2> QED BY <1>9, <1>11, <1>12, <2>1 DEF Store
<1>14. \A p \in T : ws[p] = qs[p]
  BY <1>10, <1>12 DEF CodeOf
<1>15. ws # << >>
  <2>1. DOMAIN ws = T
    BY <1>12
  <2> HIDE DEF ws
  <2> QED BY <1>1, <2>1, NotAbsent
<1> HIDE DEF c, ws
<1>16. \A p \in T : CodeOf(c, p) = qs[p] /\ c.labels[p] = ls[p]
  BY <1>13, <1>14, <1>15 DEF CodeOf
<1>17. c = [vectors |-> << >>, quantized |-> c.quantized,
            labels |-> c.labels, count |-> s.count,
            meta |-> m, index |-> Absent, of |-> s.of]
  BY <1>13
<1>18. \A p \in T : /\ qs[p] = CodeOf(t, CopyOrder(t)[p])
                    /\ ls[p] = t.labels[CopyOrder(t)[p]]
  BY <1>7, <1>8
<1> QED BY <1>16, <1>17, <1>18 DEF c, m, t, u

\* Where the converter says a bucket's records are is where it copied them.
LEMMA ConvertedSlices ==
    ASSUME NEW s, RawStore(s), s.count # 0
    PROVE  LET t == BuildBucketIndex(s)
               c == Saved(ReorderStoreByBucket(s)).body
               m == ReorderedMeta(t)
           IN  /\ c.count = s.count /\ c.of = s.of /\ c.index = Absent
               /\ c.meta = m /\ m # Absent /\ m = [b \in Buckets |-> m[b]]
               /\ BuildBucketIndex(c) = c
               /\ \A b \in Buckets : LET n == Len(t.index[b]) IN
                    /\ m[b] = [offset |-> OffsetAfter(t, b, n) - n, count |-> n]
                    /\ Slice(c, b) = {OffsetAfter(t, b, k) : k \in 1 .. n}
<1> DEFINE t == BuildBucketIndex(s)
           c == Saved(ReorderStoreByBucket(s)).body
           m == ReorderedMeta(t)
<1>1. c = [vectors |-> << >>, quantized |-> c.quantized,
           labels |-> c.labels, count |-> s.count,
           meta |-> m, index |-> Absent, of |-> s.of]
  BY SavedFields
<1>2. /\ t = [vectors |-> s.vectors, quantized |-> s.quantized,
              labels |-> s.labels, count |-> s.count, meta |-> Absent,
              index |-> [b \in Buckets |-> InOrder(InBucket(s, b))],
              of |-> s.of]
      /\ Indexed(t)
      /\ \A i : CodeOf(t, i) = CodeOf(s, i) /\ BucketOf(t, i) = BucketOf(s, i)
  BY RawIndexed
<1> HIDE DEF c, t
<1>3. s.count \in Nat
  BY RawFields
<1>4. t.count = s.count /\ t.index # Absent
  <2>1. DOMAIN t.index = Buckets /\ t.count = s.count
    BY <1>2
  <2> QED BY <2>1, NotAbsent DEF Absent
<1>5. m # Absent /\ m = [b \in Buckets |-> m[b]]
  <2>1. DOMAIN m = Buckets /\ m = [b \in Buckets |-> m[b]]
    BY DEF ReorderedMeta
  <2> HIDE DEF m
  <2> QED BY <2>1, NotAbsent DEF Absent
<1>6. /\ c.count = s.count /\ c.meta = m /\ c.index = Absent /\ c.of = s.of
  <2> HIDE DEF m
  <2> QED BY <1>1
<1>7. BuildBucketIndex(c) = c
  <2>1. BuildBucketIndex(c) = [c EXCEPT !.index = Absent]
    <3> HIDE DEF m
    <3> QED BY <1>5, <1>6 DEF BuildBucketIndex
  <2> HIDE DEF m
  <2> QED BY <1>1, <2>1
<1>8. ASSUME NEW b \in Buckets
      PROVE  LET n == Len(t.index[b]) IN
             /\ m[b] = [offset |-> OffsetAfter(t, b, n) - n, count |-> n]
             /\ Slice(c, b) = {OffsetAfter(t, b, k) : k \in 1 .. n}
  <2> DEFINE n == Len(t.index[b])
             o == OffsetAfter(t, b, n)
  <2>1. n \in Nat /\ n = Cardinality(InBucket(t, b))
    BY <1>2, <1>3, <1>4, BucketListed
  <2>2. n < CountWord /\ CountWord \in Nat \ {0}
    <3>1. InBucket(t, b) = {i \in 1 .. s.count : BucketOf(s, i) = b}
      BY <1>2, <1>4 DEF InBucket
    <3> HIDE DEF n
    <3> QED BY <2>1, <3>1, StoreAssumption DEF RawStore
  <2>3. n % CountWord = n
    <3> HIDE DEF n
    <3> QED BY <2>1, <2>2, SmallMod
  <2>4. m[b] = [offset |-> o - n, count |-> n]
    <3>1. m[b] = [offset |-> o - (n % CountWord), count |-> n % CountWord]
      BY <1>4 DEF ReorderedMeta
    <3> HIDE DEF n, m, o
    <3> QED BY <2>3, <3>1
  <2>5. \A k \in 1 .. n : (o - n) + k = OffsetAfter(t, b, k)
    BY <1>2, Consecutive
  <2>6. Slice(c, b) = {m[b].offset + k : k \in 1 .. m[b].count}
    <3> HIDE DEF m
    <3> QED BY <1>5, <1>6 DEF Slice
  <2> HIDE DEF m, n, o
  <2>7. m[b].offset = o - n /\ m[b].count = n
    BY <2>4
  <2>8. Slice(c, b) = {(o - n) + k : k \in 1 .. n}
    BY <2>6, <2>7
  <2>9. Slice(c, b) = {OffsetAfter(t, b, k) : k \in 1 .. n}
    BY <2>5, <2>8
  <2> QED BY <2>4, <2>9 DEF n, o
<1> HIDE DEF m
<1> QED BY <1>5, <1>6, <1>7, <1>8 DEF c, t, m

\* A dataset that is converted is served faithfully: the records of a bucket
\* are where its offset and its count say.
LEMMA ConvertedFaithful ==
    ASSUME NEW s, RawStore(s)
    PROVE  Faithful(BuildBucketIndex(Saved(ReorderStoreByBucket(s)).body))
<1> DEFINE c == Saved(ReorderStoreByBucket(s)).body
<1>1. CASE s.count = 0
  <2>1. /\ s.count \in Nat /\ Len(s.labels) = s.count
        /\ DOMAIN s.of = 1 .. s.count
    BY RawFields
  <2>2. ReorderStoreByBucket(s) = s
    BY <1>1 DEF ReorderStoreByBucket
  <2>3. c.count = 0 /\ c.of = s.of
    BY <1>1, <2>1, <2>2 DEF Saved, Store
  <2> HIDE DEF c
  <2>4. BuildBucketIndex(c) = c
    BY <2>3 DEF BuildBucketIndex
  <2>5. Faithful(c)
    BY <1>1, <2>1, <2>3 DEF Faithful
  <2> QED BY <2>4, <2>5 DEF c
<1>2. CASE s.count # 0
  <2> DEFINE t == BuildBucketIndex(s)
             T == 1 .. s.count
             S == Places(c)
             At(e) == OffsetAfter(t, e[1], e[2])
             g == [p \in S |-> CopyOrder(t)[p[2]]]
             m == ReorderedMeta(t)
  <2>1. /\ c = [vectors |-> << >>, quantized |-> c.quantized,
                labels |-> c.labels, count |-> s.count,
                meta |-> m, index |-> Absent, of |-> s.of]
        /\ \A p \in T : /\ CodeOf(c, p) = CodeOf(t, CopyOrder(t)[p])
                        /\ c.labels[p] = t.labels[CopyOrder(t)[p]]
    BY <1>2, SavedFields
  <2>2. /\ t = [vectors |-> s.vectors, quantized |-> s.quantized,
                labels |-> s.labels, count |-> s.count, meta |-> Absent,
                index |-> [b \in Buckets |-> InOrder(InBucket(s, b))],
                of |-> s.of]
        /\ Indexed(t)
        /\ \A i : CodeOf(t, i) = CodeOf(s, i) /\ BucketOf(t, i) = BucketOf(s, i)
    BY <1>2, RawIndexed
  <2> HIDE DEF c, t
  <2>3. s.count \in Nat /\ DOMAIN s.of = T
    BY RawFields
  <2>4. t.count = s.count /\ t.labels = s.labels /\ t.index # Absent
    <3>1. DOMAIN t.index = Buckets /\ t.count = s.count /\ t.labels = s.labels
      BY <2>2
    <3> QED BY <3>1, NotAbsent DEF Absent
  <2>6. c.count = s.count /\ c.of = s.of
    BY <1>2, ConvertedSlices DEF c
  <2>7. BuildBucketIndex(c) = c
    BY <1>2, ConvertedSlices DEF c
  <2>8. \A b \in Buckets :
            Slice(c, b) = {OffsetAfter(t, b, k) : k \in 1 .. Len(t.index[b])}
    BY <1>2, ConvertedSlices DEF c, t
  <2>9. /\ CopyOrder(t) \in [T -> T]
        /\ \A e \in Entries(t) :
             At(e) \in T /\ CopyOrder(t)[At(e)] = t.index[e[1]][e[2]]
    BY <2>2, <2>4, CopyOrderIs
  <2>10. \A b \in Buckets : \A k \in 1 .. Len(t.index[b]) :
            <<b, k>> \in Entries(t) /\ t.index[b][k] \in InBucket(t, b)
    <3> SUFFICES ASSUME NEW b \in Buckets, NEW k \in 1 .. Len(t.index[b])
                 PROVE  /\ <<b, k>> \in Entries(t)
                        /\ t.index[b][k] \in InBucket(t, b)
      OBVIOUS
    <3>1. Len(t.index[b]) \in 0 .. t.count
      BY <2>2, BucketListed
    <3>2. k \in Nat
      BY <2>3, <2>4, <3>1
    <3>3. t.index[b] \in [1 .. Len(t.index[b]) -> InBucket(t, b)]
      BY <2>2, BucketListed, Fun_BijectionProperties
    <3> QED BY <2>2, <3>2, <3>3, EntryIs
  <2>11. ASSUME NEW p \in S
         PROVE  \E e \in Entries(t) :
                    /\ p = <<e[1], At(e)>> /\ g[p] = t.index[e[1]][e[2]]
                    /\ e[1] \in Buckets /\ p[2] \in T
                    /\ g[p] \in T /\ BucketOf(s, g[p]) = p[1]
    <3>1. p[1] \in Buckets /\ p[2] \in Slice(c, p[1]) /\ p = <<p[1], p[2]>>
      BY DEF Places
    <3>2. PICK k \in 1 .. Len(t.index[p[1]]) : p[2] = OffsetAfter(t, p[1], k)
      BY <2>8, <3>1
    <3> DEFINE e == <<p[1], k>>
    <3>3. e \in Entries(t) /\ t.index[p[1]][k] \in InBucket(t, p[1])
      BY <2>10, <3>1
    <3>4. At(e) = p[2] /\ p = <<e[1], At(e)>>
      BY <3>1, <3>2
    <3>5. g[p] = CopyOrder(t)[p[2]]
      OBVIOUS
    <3>6. g[p] = t.index[e[1]][e[2]] /\ p[2] \in T
      <4> HIDE DEF e, g, At, T
      <4> QED BY <2>9, <3>3, <3>4, <3>5
    <3>7. g[p] \in InBucket(t, p[1])
      BY <3>3, <3>6
    <3>8. g[p] \in T /\ BucketOf(s, g[p]) = p[1]
      <4> HIDE DEF g
      <4> QED BY <2>2, <2>4, <3>7 DEF InBucket
    <3>9. e[1] \in Buckets
      BY <3>1
    <3> HIDE DEF e, g, At, T, S
    <3> QED BY <3>3, <3>4, <3>6, <3>8, <3>9
  <2> DEFINE E == Entries(t)
             f == [e \in E |-> t.index[e[1]][e[2]]]
  <2>12. f \in Bijection(E, T)
    BY <2>2, <2>4, EntriesBijective
  <2>13. /\ \A d, e \in E : f[d] = f[e] => d = e
         /\ \A i \in T : \E e \in E : f[e] = i
    <3> HIDE DEF f, E, T
    <3>1. \A d, e \in E : f[d] = f[e] => d = e
      BY <2>12, Fun_BijectionProperties
    <3> QED BY <2>12, <3>1 DEF Bijection, Surjection
  <2>14. g \in Bijection(S, T)
    <3>1. g \in [S -> T]
      <4>1. \A p \in S : g[p] \in T
        BY <2>11
      <4> HIDE DEF S, T
      <4> QED BY <4>1
    <3>2. ASSUME NEW p \in S, NEW q \in S, g[p] = g[q]
          PROVE  p = q
      <4>1. PICK d \in E : p = <<d[1], At(d)>> /\ g[p] = f[d]
        BY <2>11
      <4>2. PICK e \in E : q = <<e[1], At(e)>> /\ g[q] = f[e]
        BY <2>11
      <4>3. d = e
        <5> HIDE DEF f, E, g
        <5> QED BY <2>13, <3>2, <4>1, <4>2
      <4> QED BY <4>1, <4>2, <4>3
    <3>3. ASSUME NEW i \in T
          PROVE  \E p \in S : g[p] = i
      <4>1. PICK e \in E : f[e] = i
        BY <2>13
      <4> DEFINE p == <<e[1], At(e)>>
      <4>2. /\ e[1] \in Buckets /\ e[2] \in 1 .. Len(t.index[e[1]])
        <5>1. e \in Buckets \X (1 .. t.count) /\ e[2] <= Len(t.index[e[1]])
          BY DEF Entries
        <5>2. Len(t.index[e[1]]) \in 0 .. t.count
          BY <2>2, <5>1, BucketListed
        <5> QED BY <2>3, <2>4, <5>1, <5>2
      <4>3. At(e) \in Slice(c, e[1])
        BY <2>8, <4>2
      <4>4. At(e) \in T /\ CopyOrder(t)[At(e)] = t.index[e[1]][e[2]]
        BY <2>9
      <4>5. p \in S
        BY <2>6, <4>2, <4>3, <4>4 DEF Places
      <4>6. g[p] = CopyOrder(t)[At(e)]
        BY <4>5
      <4>7. g[p] = i
        BY <4>1, <4>4, <4>6
      <4> QED BY <4>5, <4>7
    <3> HIDE DEF g, S, T
    <3> QED BY <3>1, <3>2, <3>3, Fun_IsBij
  <2>15. ASSUME NEW p \in S
         PROVE  Matches(c, p, c.of[g[p]])
    <3>1. p[2] \in T /\ g[p] \in T /\ BucketOf(s, g[p]) = p[1]
      BY <2>11
    <3>2. g[p] = CopyOrder(t)[p[2]]
      OBVIOUS
    <3> HIDE DEF g, S
    <3>3. CodeOf(c, p[2]) = Quantize(s.of[g[p]].value)
      <4>1. CodeOf(c, p[2]) = CodeOf(t, g[p])
        BY <2>1, <3>1, <3>2
      <4>2. CodeOf(t, g[p]) = CodeOf(s, g[p])
        BY <2>2
      <4>3. CodeOf(s, g[p]) = Quantize(s.of[g[p]].value)
        BY <3>1, RawFields
      <4> QED BY <4>1, <4>2, <4>3
    <3>4. c.labels[p[2]] = s.of[g[p]].label
      BY <2>1, <2>4, <3>1, <3>2, RawFields
    <3>5. FloatBucket(s.of[g[p]].value) - p[1] \in -1 .. 1
      BY <3>1, RawBuckets
    <3> HIDE DEF T
    <3> QED BY <2>6, <3>3, <3>4, <3>5 DEF Matches, Image
  <2>16. \A b \in Buckets : Slice(c, b) \subseteq T
    <3> SUFFICES ASSUME NEW b \in Buckets, NEW k \in 1 .. Len(t.index[b])
                 PROVE  OffsetAfter(t, b, k) \in T
      BY <2>8
    <3>1. <<b, k>> \in Entries(t)
      BY <2>10
    <3> QED BY <2>9, <3>1
  <2>17. Faithful(c)
    <3> HIDE DEF g
    <3> QED BY <2>3, <2>6, <2>14, <2>15, <2>16 DEF Faithful
  <2> QED BY <2>7, <2>17 DEF c
<1> QED BY <1>1, <1>2

-----------------------------------------------------------------------------
(***************************************************************************)
(* What the search relies on.  A store is shelved if every record is in    *)
(* the slice of one bucket, once, and the bounds of the slices, or the     *)
(* lists, are numbers.                                                     *)
(***************************************************************************)
NoRepeats(l) == \A i, j \in 1 .. Len(l) : l[i] = l[j] => i = j

Listed(s) ==
    /\ s.meta = Absent
    /\ s.index \in [Buckets -> Seq(Nat \ {0})]
    /\ \A b \in Buckets : NoRepeats(s.index[b])

Ranged(s) ==
    /\ s.index = Absent
    /\ s.meta \in [Buckets -> [offset : Nat, count : Nat]]

Shelved(s) ==
    /\ s.count \in Nat
    /\ s.count > 0 =>
        /\ \A b \in Buckets : Slice(s, b) \subseteq 1 .. s.count
        /\ \A i \in 1 .. s.count : \E b \in Buckets : i \in Slice(s, b)
        /\ \A a, b \in Buckets : \A i :
                i \in Slice(s, a) /\ i \in Slice(s, b) => a = b
        /\ \A i \in 1 .. s.count : s.labels[i] \in {Legit, Fraud}
        /\ Listed(s) \/ Ranged(s)

\* The buckets of the axis are those of the grid.
LEMMA GridOfAxis ==
    /\ Grid!Buckets = Buckets
    /\ \A b \in Buckets : CellOf(b) \in Grid!Cells
                          /\ Grid!BucketID(CellOf(b)) = b
    /\ \A c \in Grid!Cells : \E b \in Buckets : c = CellOf(b)
<1> DEFINE N == [x \in 1 .. 6 |-> IF x = 1 THEN BucketCount ELSE 1]
<1>1. /\ N[1] = BucketCount /\ N[2] = 1 /\ N[3] = 1 /\ N[4] = 1
      /\ N[5] = 1 /\ N[6] = 1 /\ BucketCount \in Nat \ {0}
  BY StoreAssumption
<1> HIDE DEF N
<1>2. N[1] * N[2] * N[3] * N[4] * N[5] * N[6] = BucketCount
  BY <1>1
<1>3. Grid!Buckets = Buckets
  BY <1>2 DEF Grid!Buckets, Grid!BucketIndexCount, Buckets, N
<1>4. \A b \in Buckets : ((((b * N[2] + 0) * N[3] + 0) * N[4] + 0) * N[5] + 0) * N[6] + 0 = b
  BY <1>1 DEF Buckets
<1>5. \A b \in Buckets : Grid!BucketID(CellOf(b)) = b
  BY <1>4 DEF Grid!BucketID, CellOf, N
<1>6. 0 .. (N[2] - 1) = {0} /\ 0 .. (N[3] - 1) = {0} /\ 0 .. (N[4] - 1) = {0}
      /\ 0 .. (N[5] - 1) = {0} /\ 0 .. (N[6] - 1) = {0}
      /\ 0 .. (N[1] - 1) = Buckets
  BY <1>1 DEF Buckets
<1>7. ASSUME NEW c \in Grid!Cells
      PROVE  \E b \in Buckets : c = CellOf(b)
  <2>1. PICK a \in 0 .. (N[1] - 1), m \in 0 .. (N[2] - 1),
             k \in 0 .. (N[3] - 1), t \in 0 .. (N[4] - 1),
             v \in 0 .. (N[5] - 1), r \in 0 .. (N[6] - 1) :
                c = <<a, m, k, t, v, r>>
    BY DEF Grid!Cells, N
  <2>2. a \in Buckets /\ m = 0 /\ k = 0 /\ t = 0 /\ v = 0 /\ r = 0
    BY <1>6
  <2> QED BY <2>1, <2>2 DEF CellOf
<1>8. ASSUME NEW b \in Buckets
      PROVE  CellOf(b) \in Grid!Cells
  <2>1. /\ b \in 0 .. (N[1] - 1) /\ 0 \in 0 .. (N[2] - 1)
        /\ 0 \in 0 .. (N[3] - 1) /\ 0 \in 0 .. (N[4] - 1)
        /\ 0 \in 0 .. (N[5] - 1) /\ 0 \in 0 .. (N[6] - 1)
    BY <1>6
  <2>2. \E a \in 0 .. (N[1] - 1), m \in 0 .. (N[2] - 1),
           k \in 0 .. (N[3] - 1), t \in 0 .. (N[4] - 1),
           v \in 0 .. (N[5] - 1), r \in 0 .. (N[6] - 1) :
              CellOf(b) = <<a, m, k, t, v, r>>
    BY <2>1 DEF CellOf
  <2> QED BY <2>2 DEF Grid!Cells, N
<1> QED BY <1>3, <1>5, <1>7, <1>8

\* A function on the first n numbers is a list.
LEMMA IsList ==
    ASSUME NEW S, NEW n \in Nat, NEW f \in [1 .. n -> S]
    PROVE  f \in Seq(S) /\ Len(f) = n
OBVIOUS

\* A store that is shelved is what a search relies on.
LEMMA ShelvedPlaced ==
    ASSUME NEW s, Shelved(s), s.count > 0
    PROVE  /\ AsSearched(s) \in Grid!StoreType
           /\ s.meta # Absent \/ s.index # Absent
           /\ Grid!Placed(AsSearched(s))
<1> DEFINE a == AsSearched(s)
           T == 1 .. s.count
           recs == [i \in T |->
                [cell |-> CellOf(HeldIn(s, i)), label |-> s.labels[i],
                 dist |-> [k \in 1 .. 4 |-> 0]]]
<1>1. /\ s.count \in Nat
      /\ \A b \in Buckets : Slice(s, b) \subseteq T
      /\ \A i \in T : \E b \in Buckets : i \in Slice(s, b)
      /\ \A b, d \in Buckets : \A i :
            i \in Slice(s, b) /\ i \in Slice(s, d) => b = d
      /\ \A i \in T : s.labels[i] \in {Legit, Fraud}
      /\ Listed(s) \/ Ranged(s)
  BY DEF Shelved
<1>2. /\ a.recs = recs /\ a.meta = s.meta /\ a.index = s.index
      /\ a = [recs |-> recs, quantized |-> s.quantized # << >>,
              meta |-> s.meta, index |-> s.index]
  BY DEF AsSearched
<1>3. \A i \in T : HeldIn(s, i) \in Buckets /\ i \in Slice(s, HeldIn(s, i))
  BY <1>1 DEF HeldIn
<1>4. \A i \in T : \A b \in Buckets : HeldIn(s, i) = b <=> i \in Slice(s, b)
  BY <1>1, <1>3
<1>5. recs \in Seq(Grid!Record) /\ Len(recs) = s.count
  <2>1. \A i \in T : recs[i] \in Grid!Record
    BY <1>1, <1>3, GridOfAxis DEF Grid!Record, Grid!Stages
  <2>2. recs = [i \in T |-> recs[i]]
    OBVIOUS
  <2> HIDE DEF recs
  <2>3. recs \in [T -> Grid!Record]
    BY <2>1, <2>2
  <2> QED BY <1>1, <2>3, IsList
<1>6. \A i \in T : recs[i].cell = CellOf(HeldIn(s, i))
  OBVIOUS
<1> HIDE DEF a, recs
<1>7. /\ (Listed(s) => s.meta = Absent /\ s.index # Absent)
      /\ (Ranged(s) => s.meta # Absent /\ s.index = Absent)
  BY NotAbsent DEF Listed, Ranged, Absent
<1>8. ASSUME NEW b \in Buckets
      PROVE  LET l == Grid!Candidates(a, CellOf(b)) IN
             /\ Len(l) \in Nat /\ NoRepeats(l)
             /\ \A i : i \in Slice(s, b) <=> \E k \in 1 .. Len(l) : l[k] = i
  <2> DEFINE l == Grid!Candidates(a, CellOf(b))
  <2>1. Grid!BucketID(CellOf(b)) = b
    BY GridOfAxis
  <2>2. CASE Listed(s)
    <3>1. l = s.index[b]
      BY <1>2, <1>7, <2>1, <2>2 DEF Grid!Candidates, Absent, Grid!Absent
    <3>2. s.index[b] \in Seq(Nat \ {0}) /\ NoRepeats(s.index[b])
      BY <2>2 DEF Listed
    <3>3. Slice(s, b) = {s.index[b][k] : k \in 1 .. Len(s.index[b])}
      BY <1>7, <2>2 DEF Slice
    <3> HIDE DEF l
    <3> QED BY <3>1, <3>2, <3>3 DEF l
  <2>3. CASE Ranged(s)
    <3> DEFINE o == s.meta[b].offset
               n == s.meta[b].count
    <3>1. o \in Nat /\ n \in Nat
      BY <2>3 DEF Ranged
    <3>2. l = [k \in 1 .. n |-> o + k]
      BY <1>2, <1>7, <2>1, <2>3 DEF Grid!Candidates, Absent, Grid!Absent
    <3>3. Slice(s, b) = {o + k : k \in 1 .. n}
      BY <1>7, <2>3 DEF Slice
    <3> HIDE DEF l, o, n
    <3>4. Len(l) = n /\ \A k \in 1 .. n : l[k] = o + k
      BY <3>1, <3>2
    <3>5. NoRepeats(l)
      BY <3>1, <3>4 DEF NoRepeats
    <3>6. \A i : i \in Slice(s, b) <=> \E k \in 1 .. Len(l) : l[k] = i
      BY <3>3, <3>4
    <3> QED BY <3>1, <3>4, <3>5, <3>6 DEF l
  <2> QED BY <1>1, <2>2, <2>3
<1>9. \A c \in Grid!Cells : \E b \in Buckets : c = CellOf(b)
  BY GridOfAxis
<1>10. \A b, d \in Buckets : CellOf(b) = CellOf(d) => b = d
  <2>1. ASSUME NEW b \in Buckets, NEW d \in Buckets, CellOf(b) = CellOf(d)
        PROVE  b = d
    BY <2>1, GridOfAxis
  <2> QED BY <2>1
<1>11. a \in Grid!StoreType
  <2>1. a.quantized \in BOOLEAN
    BY <1>2
  <2>2. a \in [recs : Seq(Grid!Record), quantized : BOOLEAN,
               meta : {Grid!Absent} \cup
                        [Grid!Buckets -> [offset : Nat, count : Nat]],
               index : {Grid!Absent} \cup [Grid!Buckets -> Seq(Nat \ {0})]]
    BY <1>1, <1>2, <1>5, GridOfAxis
       DEF Listed, Ranged, Absent, Grid!Absent
  <2>3. a.meta = Grid!Absent \/ a.index = Grid!Absent
    BY <1>1, <1>2 DEF Listed, Ranged, Absent, Grid!Absent
  <2>4. ASSUME NEW c \in Grid!Cells,
               NEW i \in 1 .. Len(Grid!Candidates(a, c))
        PROVE  Grid!Candidates(a, c)[i] \in 1 .. Len(a.recs)
    <3>1. PICK b \in Buckets : c = CellOf(b)
      BY <1>9
    <3>2. Grid!Candidates(a, c)[i] \in Slice(s, b)
      BY <1>8, <3>1
    <3> QED BY <1>1, <1>2, <1>5, <3>2
  <2> QED BY <2>2, <2>3, <2>4 DEF Grid!StoreType
<1>12. Grid!Placed(a)
  <2>1. SUFFICES ASSUME NEW c \in Grid!Cells
                 PROVE  LET l == Grid!Candidates(a, c) IN
                        /\ \A p \in 1 .. Len(a.recs) :
                            a.recs[p].cell = c <=>
                                \E i \in 1 .. Len(l) : l[i] = p
                        /\ \A i, j \in 1 .. Len(l) : l[i] = l[j] => i = j
    BY DEF Grid!Placed
  <2>2. PICK b \in Buckets : c = CellOf(b)
    BY <1>9
  <2>3. ASSUME NEW p \in T
        PROVE  recs[p].cell = c <=> p \in Slice(s, b)
    <3>1. recs[p].cell = CellOf(HeldIn(s, p)) /\ HeldIn(s, p) \in Buckets
      BY <1>3, <1>6
    <3> QED BY <1>4, <1>10, <2>2, <3>1
  <2>4. \A i, j \in 1 .. Len(Grid!Candidates(a, c)) :
            Grid!Candidates(a, c)[i] = Grid!Candidates(a, c)[j] => i = j
    BY <1>8, <2>2 DEF NoRepeats
  <2> QED BY <1>2, <1>5, <1>8, <2>2, <2>3, <2>4
<1> QED BY <1>1, <1>7, <1>11, <1>12 DEF a

\* A dataset that is loaded is shelved by its index.
LEMMA RawShelved ==
    ASSUME NEW s, RawStore(s)
    PROVE  Shelved(BuildBucketIndex(s))
<1>0. s.count \in Nat
  BY RawFields
<1>1. CASE s.count = 0
  <2>1. BuildBucketIndex(s) = s
    BY <1>1 DEF BuildBucketIndex
  <2> QED BY <1>1, <2>1 DEF Shelved
<1>2. CASE s.count # 0
  <2> DEFINE t == BuildBucketIndex(s)
             T == 1 .. s.count
  <2>1. /\ t = [vectors |-> s.vectors, quantized |-> s.quantized,
                labels |-> s.labels, count |-> s.count, meta |-> Absent,
                index |-> [b \in Buckets |-> InOrder(InBucket(s, b))],
                of |-> s.of]
        /\ Indexed(t)
        /\ \A i : BucketOf(t, i) = BucketOf(s, i)
    BY <1>2, RawIndexed
  <2> HIDE DEF t
  <2>2. /\ t.count = s.count /\ t.meta = Absent /\ t.labels = s.labels
        /\ DOMAIN t.index = Buckets /\ t.index = [b \in Buckets |-> t.index[b]]
    BY <2>1
  <2>3. ASSUME NEW b \in Buckets
        PROVE  /\ Slice(t, b) = InBucket(t, b)
               /\ t.index[b] \in Seq(Nat \ {0}) /\ NoRepeats(t.index[b])
    <3> DEFINE n == Len(t.index[b])
               B == InBucket(t, b)
    <3>1. n \in Nat /\ t.index[b] \in Bijection(1 .. n, B)
      BY <1>0, <2>1, <2>2, BucketListed
    <3>2. Slice(t, b) = {t.index[b][k] : k \in 1 .. n}
      BY <2>2 DEF Slice
    <3>3. B \in SUBSET (Nat \ {0})
      BY <1>0, <2>2 DEF InBucket
    <3> HIDE DEF n, B
    <3>4. /\ t.index[b] \in [1 .. n -> B]
          /\ \A i, j \in 1 .. n : t.index[b][i] = t.index[b][j] => i = j
      BY <3>1, Fun_BijectionProperties
    <3>5. \A i \in B : \E k \in 1 .. n : t.index[b][k] = i
      BY <3>1 DEF Bijection, Surjection
    <3>6. t.index[b] \in Seq(Nat \ {0})
      <4>1. t.index[b] \in [1 .. n -> Nat \ {0}]
        BY <3>3, <3>4
      <4> QED BY <3>1, <4>1, IsList
    <3>7. Slice(t, b) = B
      <4> DEFINE l == t.index[b]
      <4>1. /\ \A k \in 1 .. n : l[k] \in B
            /\ \A i \in B : \E k \in 1 .. n : l[k] = i
            /\ Slice(t, b) = {l[k] : k \in 1 .. n}
        BY <3>2, <3>4, <3>5
      <4> HIDE DEF l
      <4> QED BY <4>1
    <3> QED BY <3>4, <3>6, <3>7 DEF NoRepeats, n, B
  <2>4. \A b \in Buckets : \A i :
            i \in Slice(t, b) <=> i \in T /\ BucketOf(s, i) = b
    BY <2>1, <2>2, <2>3 DEF InBucket
  <2>5. \A i \in T : BucketOf(s, i) \in Buckets
    BY RawBuckets
  <2>6. \A i \in T : t.labels[i] \in {Legit, Fraud}
    BY <2>2, RawLabels
  <2>7. Listed(t)
    BY <2>2, <2>3 DEF Listed
  <2>8. Shelved(t)
    BY <1>0, <2>2, <2>4, <2>5, <2>6, <2>7 DEF Shelved
  <2> QED BY <2>8 DEF t
<1> QED BY <1>1, <1>2

\* A dataset that is converted is shelved by its metadata.
LEMMA ConvertedShelved ==
    ASSUME NEW s, RawStore(s)
    PROVE  Shelved(BuildBucketIndex(Saved(ReorderStoreByBucket(s)).body))
<1> DEFINE c == Saved(ReorderStoreByBucket(s)).body
<1>0. s.count \in Nat
  BY RawFields
<1>1. CASE s.count = 0
  <2>1. Len(s.labels) = s.count
    BY RawFields
  <2>2. ReorderStoreByBucket(s) = s
    BY <1>1 DEF ReorderStoreByBucket
  <2>3. c.count = 0
    BY <1>1, <2>1, <2>2 DEF Saved, Store
  <2> HIDE DEF c
  <2>4. BuildBucketIndex(c) = c
    BY <2>3 DEF BuildBucketIndex
  <2> QED BY <2>3, <2>4 DEF c, Shelved
<1>2. CASE s.count # 0
  <2> DEFINE t == BuildBucketIndex(s)
             T == 1 .. s.count
             m == ReorderedMeta(t)
             At(e) == OffsetAfter(t, e[1], e[2])
  <2>1. /\ Indexed(t) /\ t.count = s.count /\ t.labels = s.labels
    BY <1>2, RawIndexed
  <2>2. /\ c.count = s.count /\ c.index = Absent
        /\ c.meta = m /\ m = [b \in Buckets |-> m[b]]
        /\ BuildBucketIndex(c) = c
        /\ \A b \in Buckets :
            /\ m[b] = [offset |-> OffsetAfter(t, b, Len(t.index[b]))
                                    - Len(t.index[b]),
                       count |-> Len(t.index[b])]
            /\ Slice(c, b) =
                {OffsetAfter(t, b, k) : k \in 1 .. Len(t.index[b])}
    BY <1>2, ConvertedSlices
  <2>3. \A p \in T : c.labels[p] = t.labels[CopyOrder(t)[p]]
    BY <1>2, SavedFields
  <2> HIDE DEF c, t, m
  <2>4. /\ CopyOrder(t) \in [T -> T]
        /\ \A e \in Entries(t) : At(e) \in T
        /\ \A p \in T : \E e \in Entries(t) : At(e) = p
        /\ \A d, e \in Entries(t) : At(d) = At(e) => d = e
    BY <2>1, CopyOrderIs
  <2>5. \A b \in Buckets : Len(t.index[b]) \in Nat
    BY <1>0, <2>1, BucketListed
  <2>6. ASSUME NEW b \in Buckets, NEW k \in 1 .. Len(t.index[b])
        PROVE  <<b, k>> \in Entries(t)
    BY <2>1, <2>5, EntryIs
  <2>7. \A e \in Entries(t) :
            e[1] \in Buckets /\ e[2] \in 1 .. Len(t.index[e[1]])
    <3> SUFFICES ASSUME NEW e \in Entries(t)
                 PROVE  e[1] \in Buckets /\ e[2] \in 1 .. Len(t.index[e[1]])
      OBVIOUS
    <3>1. e[1] \in Buckets /\ e[2] \in 1 .. s.count
          /\ e[2] <= Len(t.index[e[1]])
      BY <2>1 DEF Entries
    <3> QED BY <1>0, <2>5, <3>1
  <2>8. \A b \in Buckets : Slice(c, b) \subseteq T
    <3> SUFFICES ASSUME NEW b \in Buckets, NEW k \in 1 .. Len(t.index[b])
                 PROVE  OffsetAfter(t, b, k) \in T
      BY <2>2
    <3>1. <<b, k>> \in Entries(t)
      BY <2>6
    <3>2. At(<<b, k>>) \in T
      BY <2>4, <3>1
    <3> QED BY <3>2
  <2>9. \A i \in T : \E b \in Buckets : i \in Slice(c, b)
    <3> SUFFICES ASSUME NEW i \in T PROVE \E b \in Buckets : i \in Slice(c, b)
      OBVIOUS
    <3>1. PICK e \in Entries(t) : At(e) = i
      BY <2>4
    <3>2. e[1] \in Buckets /\ e[2] \in 1 .. Len(t.index[e[1]])
      BY <2>7
    <3>3. i \in Slice(c, e[1])
      BY <2>2, <3>1, <3>2
    <3> QED BY <3>2, <3>3
  <2>10. ASSUME NEW a \in Buckets, NEW b \in Buckets, NEW i,
                i \in Slice(c, a), i \in Slice(c, b)
         PROVE  a = b
    <3>1. PICK k \in 1 .. Len(t.index[a]) : i = OffsetAfter(t, a, k)
      BY <2>2, <2>10
    <3>2. PICK n \in 1 .. Len(t.index[b]) : i = OffsetAfter(t, b, n)
      BY <2>2, <2>10
    <3>3. <<a, k>> \in Entries(t) /\ <<b, n>> \in Entries(t)
      BY <2>6
    <3>4. At(<<a, k>>) = At(<<b, n>>)
      BY <3>1, <3>2
    <3>5. <<a, k>> = <<b, n>>
      <4> HIDE DEF At
      <4> QED BY <2>4, <3>3, <3>4
    <3> QED BY <3>5
  <2>11. \A i \in T : c.labels[i] \in {Legit, Fraud}
    BY <2>1, <2>3, <2>4, RawLabels
  <2>12. \A b \in Buckets : m[b] \in [offset : Nat, count : Nat]
    <3> SUFFICES ASSUME NEW b \in Buckets
                 PROVE  m[b] \in [offset : Nat, count : Nat]
      OBVIOUS
    <3> DEFINE n == Len(t.index[b])
               o == OffsetAfter(t, b, n)
    <3>1. n \in Nat
      BY <2>5
    <3>2. o \in Nat
      <4> DEFINE U == {e \in Entries(t) : e[1] < b \/ (e[1] = b /\ e[2] <= n)}
      <4>1. IsFiniteSet(Entries(t))
        BY <2>1, EntriesBijective
      <4>2. IsFiniteSet(U)
        BY <4>1, FS_Subset
      <4>3. o = Cardinality(U)
        BY DEF OffsetAfter
      <4> HIDE DEF U, o
      <4> QED BY <4>2, <4>3, FS_CardinalityType
    <3>3. n > 0 => o - n >= 0
      <4> SUFFICES ASSUME n > 0 PROVE o - n >= 0
        OBVIOUS
      <4>1. 1 \in 1 .. n
        BY <3>1
      <4>2. OffsetAfter(t, b, 1) = o - n + 1
        BY <2>1, <4>1, Consecutive
      <4>3. <<b, 1>> \in Entries(t)
        BY <2>6, <4>1
      <4>4. At(<<b, 1>>) \in T
        BY <2>4, <4>3
      <4>5. OffsetAfter(t, b, 1) \in T
        BY <4>4
      <4> HIDE DEF n, o
      <4> QED BY <1>0, <3>1, <3>2, <4>2, <4>5
    <3>4. m[b] = [offset |-> o - n, count |-> n]
      BY <2>2
    <3> HIDE DEF n, o
    <3>5. o - n \in Nat
      BY <3>1, <3>2, <3>3
    <3> QED BY <3>1, <3>4, <3>5
  <2>13. Ranged(c)
    <3>1. m \in [Buckets -> [offset : Nat, count : Nat]]
      BY <2>2, <2>12
    <3> QED BY <2>2, <3>1 DEF Ranged
  <2>14. Shelved(c)
    BY <1>0, <2>2, <2>8, <2>9, <2>10, <2>11, <2>13 DEF Shelved
  <2> QED BY <2>2, <2>14 DEF c
<1> QED BY <1>1, <1>2

-----------------------------------------------------------------------------
(***************************************************************************)
(* The states: the files of the directory stand for datasets at every      *)
(* moment, and so does what a job holds and what a server serves.          *)
(***************************************************************************)
StandsForDataset(f) == f = Missing \/ RawFile(f) \/ ConvertedFile(f)

DiskInv ==
    /\ AsBuilt(disk)
    /\ disk = [n \in DOMAIN disk |-> disk[n]]
    /\ {Bin, Compressed, Example} \cup Inputs \subseteq DOMAIN disk

JobInv ==
    /\ job.phase \in {"idle", "loaded", "writing"}
    /\ job.phase = "loaded" =>
        \E s : RawStore(s) /\ job.store = BuildBucketIndex(s)
    /\ job.phase = "writing" => ConvertedFile(disk[Bin])

Up(state) ==
    /\ state.phase \in {"down", "serving", "exited", "panicked"}
    /\ state.phase = "serving" =>
        Faithful(state.store) /\ Shelved(state.store)

ServerInv ==
    /\ server = [v \in Servers |-> server[v]]
    /\ \A v \in Servers : Up(server[v])

StoreInv == DiskInv /\ JobInv /\ ServerInv

\* A file that loads is there, and is loaded faithfully and shelved.
LEMMA LoadsFaithfully ==
    ASSUME NEW f, StandsForDataset(f), Outcome(f) = "ok"
    PROVE  f # Missing /\ Faithful(Loaded(f)) /\ Shelved(Loaded(f))
<1>1. f # Missing
  BY DEF Outcome
<1>2. CASE RawFile(f)
  BY <1>1, <1>2, RawFaithful, RawShelved DEF RawFile, Loaded
<1>3. CASE ConvertedFile(f)
  <2>1. PICK s : /\ RawStore(s)
                 /\ f = [Saved(ReorderStoreByBucket(s)) EXCEPT !.part = f.part]
    BY <1>3 DEF ConvertedFile
  <2> DEFINE c == Saved(ReorderStoreByBucket(s))
  <2>2. c = [version |-> c.version, part |-> c.part, body |-> c.body]
    BY DEF Saved
  <2>3. f = [c EXCEPT !.part = f.part]
    BY <2>1
  <2> HIDE DEF c
  <2>4. f.body = c.body
    BY <2>2, <2>3
  <2> QED BY <1>1, <2>1, <2>4, ConvertedFaithful, ConvertedShelved
          DEF Loaded, c
<1> QED BY <1>1, <1>2, <1>3 DEF StandsForDataset

\* What the converter writes stands for the dataset it has loaded.
LEMMA SavedConverted ==
    ASSUME NEW s, RawStore(s)
    PROVE  ConvertedFile(Saved(ReorderStoreByBucket(s)))
<1> DEFINE c == Saved(ReorderStoreByBucket(s))
<1>1. c = [version |-> c.version, part |-> c.part, body |-> c.body]
  BY DEF Saved
<1>2. c.body.of = s.of
  <2>1. CASE s.count = 0
    BY <2>1 DEF ReorderStoreByBucket, Saved, Store
  <2>2. CASE s.count # 0
    <3> DEFINE b == c.body
    <3>1. b = [vectors |-> << >>, quantized |-> b.quantized,
               labels |-> b.labels, count |-> s.count,
               meta |-> ReorderedMeta(BuildBucketIndex(s)),
               index |-> Absent, of |-> s.of]
      BY <2>2, SavedFields
    <3> HIDE DEF b
    <3>2. b.of = s.of
      BY <3>1
    <3> QED BY <3>2 DEF b
  <2> QED BY <2>1, <2>2
<1>3. s \in {FloatStore(s.of), CodeStore(s.of)}
  BY DEF RawStore
<1>4. c = [c EXCEPT !.part = c.part]
  <2> HIDE DEF c
  <2> QED BY <1>1
<1> HIDE DEF c
<1>5. c = [Saved(ReorderStoreByBucket(s)) EXCEPT !.part = c.part]
  BY <1>4 DEF c
<1>6. ConvertedFile(c)
  BY <1>2, <1>3, <1>5 DEF ConvertedFile
<1> QED BY <1>6 DEF c

\* However much of a converted file is written, it is a converted file.
LEMMA ConvertedInPart ==
    ASSUME NEW f, ConvertedFile(f), NEW part
    PROVE  ConvertedFile([f EXCEPT !.part = part])
<1>1. PICK s \in {FloatStore(f.body.of), CodeStore(f.body.of)} :
            /\ RawStore(s)
            /\ f = [Saved(ReorderStoreByBucket(s)) EXCEPT !.part = f.part]
  BY DEF ConvertedFile
<1> DEFINE c == Saved(ReorderStoreByBucket(s))
           g == [f EXCEPT !.part = part]
<1>2. c = [version |-> c.version, part |-> c.part, body |-> c.body]
  BY DEF Saved
<1>3. f = [c EXCEPT !.part = f.part]
  BY <1>1
<1> HIDE DEF c
<1>4. g = [c EXCEPT !.part = g.part] /\ g.body = f.body
  BY <1>2, <1>3
<1> HIDE DEF g
<1>5. ConvertedFile(g)
  BY <1>1, <1>4 DEF ConvertedFile, c
<1> QED BY <1>5 DEF g

\* At first only the directory holds anything.
LEMMA StoreInit == (\A d \in Disks : AsBuilt(d)) /\ Init => StoreInv
<1> SUFFICES ASSUME \A d \in Disks : AsBuilt(d), Init PROVE StoreInv
  OBVIOUS
<1>1. DiskInv
  BY DiskAssumption DEF Init, DiskInv
<1>2. JobInv
  BY DEF Init, Idle, JobInv
<1>3. ServerInv
  BY DEF Init, Down, ServerInv, Up
<1> QED BY <1>1, <1>2, <1>3 DEF StoreInv

\* A new file in the place of references.bin, which is no input, leaves the
\* directory as it must be.
LEMMA DiskWritten ==
    ASSUME DiskInv, NEW f, ConvertedFile(f), disk' = [disk EXCEPT ![Bin] = f]
    PROVE  DiskInv' /\ ConvertedFile(disk'[Bin])
<1>1. Bin \in DOMAIN disk /\ Bin \notin Inputs /\ DOMAIN disk' = DOMAIN disk
  BY DEF DiskInv, AsBuilt
<1>2. disk'[Bin] = f /\ \A n \in DOMAIN disk \ {Bin} : disk'[n] = disk[n]
  BY <1>1
<1>3. disk' = [n \in DOMAIN disk' |-> disk'[n]]
  OBVIOUS
<1>4. AsBuilt(disk')
  BY <1>1, <1>2 DEF DiskInv, AsBuilt
<1> QED BY <1>1, <1>2, <1>3, <1>4 DEF DiskInv

\* No step, a crash included, leaves anything that stands for no dataset.
LEMMA StoreStep == StoreInv /\ [Next]_vars => StoreInv'
<1> SUFFICES ASSUME StoreInv, [Next]_vars PROVE StoreInv'
  OBVIOUS
<1> USE DEF StoreInv
<1>1. ASSUME NEW input \in Inputs, LoadInput(input) PROVE StoreInv'
  <2>1. disk' = disk /\ server' = server
    BY <1>1 DEF LoadInput
  <2>2. DiskInv' /\ ServerInv'
    BY <2>1 DEF DiskInv, ServerInv
  <2> DEFINE f == disk[input]
  <2>3. job' = [phase |-> "loaded", store |-> Loaded(f)] /\ Outcome(f) = "ok"
    BY <1>1 DEF LoadInput
  <2>4. f = Missing \/ RawFile(f)
    BY DEF DiskInv, AsBuilt
  <2> HIDE DEF f
  <2>5. RawFile(f)
    BY <2>3, <2>4, LoadsFaithfully DEF StandsForDataset
  <2>6. RawStore(f.body) /\ job'.store = BuildBucketIndex(f.body)
    BY <2>3, <2>5 DEF RawFile, Loaded
  <2>7. JobInv'
    BY <2>3, <2>6 DEF JobInv
  <2> QED BY <2>2, <2>7
<1>2. CASE CreateOutput
  <2>1. server' = server
    BY <1>2 DEF CreateOutput
  <2>2. ServerInv'
    BY <2>1 DEF ServerInv
  <2>3. PICK s : RawStore(s) /\ job.store = BuildBucketIndex(s)
    BY <1>2 DEF CreateOutput, JobInv
  <2> DEFINE u == ReorderStoreByBucket(job.store)
  <2>4. u = ReorderStoreByBucket(s)
    BY <2>3, ReorderLoaded
  <2> HIDE DEF u
  <2>5. ConvertedFile(Saved(u))
    BY <2>3, <2>4, SavedConverted
  <2>6. CASE Savable(u)
    <3>1. /\ disk' = [disk EXCEPT ![Bin] = Saved(u)]
          /\ job' = [phase |-> "writing", store |-> u]
      BY <1>2, <2>6 DEF CreateOutput, u
    <3>2. DiskInv' /\ ConvertedFile(disk'[Bin])
      BY <2>5, <3>1, DiskWritten
    <3>3. JobInv'
      BY <3>1, <3>2 DEF JobInv
    <3> QED BY <2>2, <3>2, <3>3
  <2>7. CASE ~Savable(u)
    <3>1. disk' = disk /\ job' = Idle
      BY <1>2, <2>7 DEF CreateOutput, u
    <3>2. DiskInv' /\ JobInv'
      BY <3>1 DEF DiskInv, JobInv, Idle
    <3> QED BY <2>2, <3>2
  <2> QED BY <2>6, <2>7
<1>3. CASE WriteMore
  <2>1. server' = server
    BY <1>3 DEF WriteMore
  <2>2. ServerInv'
    BY <2>1 DEF ServerInv
  <2>3. PICK k \in 1 .. (Len(Parts) - 1) :
            /\ disk' = [disk EXCEPT ![Bin].part = Parts[k + 1]]
            /\ job' = IF k + 1 = Len(Parts) THEN Idle ELSE job
    BY <1>3 DEF WriteMore
  <2>4. ConvertedFile(disk[Bin]) /\ job.phase = "writing"
    BY <1>3 DEF WriteMore, JobInv
  <2> DEFINE f == [disk[Bin] EXCEPT !.part = Parts[k + 1]]
  <2>5. disk' = [disk EXCEPT ![Bin] = f]
    BY <2>3
  <2>6. ConvertedFile(f)
    BY <2>4, ConvertedInPart
  <2> HIDE DEF f
  <2>7. DiskInv' /\ ConvertedFile(disk'[Bin])
    BY <2>5, <2>6, DiskWritten
  <2>8. JobInv'
    BY <2>3, <2>4, <2>7 DEF JobInv, Idle
  <2> QED BY <2>2, <2>7, <2>8
<1>4. CASE Crash
  BY <1>4 DEF Crash, Idle, DiskInv, JobInv, ServerInv
<1>5. ASSUME NEW v \in Servers, Start(v) PROVE StoreInv'
  <2> DEFINE f == disk[ReferencesPath]
             outcome == Outcome(f)
             started == CASE outcome = "error" -> Down("exited")
                          [] outcome = "panic" -> Down("panicked")
                          [] outcome = "ok"    ->
                                [phase |-> "serving", path |-> ReferencesPath,
                                 store |-> Loaded(f)]
  <2>1. /\ server' = [server EXCEPT ![v] = started]
        /\ disk' = disk /\ job' = job
    BY <1>5 DEF Start
  <2>2. DiskInv' /\ JobInv'
    BY <2>1 DEF DiskInv, JobInv
  <2>3. StandsForDataset(f)
    <3>1. ReferencesPath \in DOMAIN disk
      BY DEF ReferencesPath, DiskInv
    <3> QED BY <3>1 DEF DiskInv, AsBuilt, StandsForDataset
  <2>4. Up(started)
    <3>1. outcome \in {"error", "panic", "ok"}
      BY DEF Outcome
    <3>2. CASE outcome = "ok"
      <4>1. Faithful(Loaded(f)) /\ Shelved(Loaded(f))
        BY <2>3, <3>2, LoadsFaithfully
      <4>2. started.phase = "serving" /\ started.store = Loaded(f)
        BY <3>2
      <4> QED BY <4>1, <4>2 DEF Up
    <3>3. CASE outcome \in {"error", "panic"}
      BY <3>3 DEF Down, Up
    <3> QED BY <3>1, <3>2, <3>3
  <2> HIDE DEF started
  <2>5. ServerInv'
    BY <2>1, <2>4 DEF ServerInv
  <2> QED BY <2>2, <2>5
<1>6. ASSUME NEW v \in Servers, Stop(v) PROVE StoreInv'
  <2>1. /\ server' = [server EXCEPT ![v] = Down("down")]
        /\ disk' = disk /\ job' = job
    BY <1>6 DEF Stop
  <2>2. Up(Down("down"))
    BY DEF Up, Down
  <2>3. ServerInv'
    BY <2>1, <2>2 DEF ServerInv
  <2> QED BY <2>1, <2>3 DEF DiskInv, JobInv
<1>7. CASE UNCHANGED vars
  BY <1>7 DEF vars, DiskInv, JobInv, ServerInv
<1> QED BY <1>1, <1>2, <1>3, <1>4, <1>5, <1>6, <1>7 DEF Next

\* What the invariant says of every server that serves.
LEMMA StoreInvServes ==
    StoreInv => TypeOK /\ ServedComplete /\ ServedNearby /\ ServedPlaced
<1> SUFFICES ASSUME StoreInv
             PROVE  TypeOK /\ ServedComplete /\ ServedNearby /\ ServedPlaced
  OBVIOUS
<1>1. \A v \in Serving : LET s == server[v].store IN
            Served(s) /\ Complete(s) /\ Nearby(s)
  BY FaithfulServes DEF StoreInv, ServerInv, Up, Serving
<1>2. TypeOK
  BY <1>1 DEF StoreInv, JobInv, ServerInv, Up, TypeOK
<1>3. ServedComplete
  BY <1>1 DEF ServedComplete, Complete
<1>4. ServedNearby
  BY <1>1 DEF ServedNearby, Nearby
<1>5. ServedPlaced
  <2>1. SUFFICES ASSUME NEW v \in Serving, server[v].store.count > 0
                 PROVE  LET s == server[v].store IN
                        /\ AsSearched(s) \in Grid!StoreType
                        /\ s.meta # Absent \/ s.index # Absent
                        /\ Grid!Placed(AsSearched(s))
    BY DEF ServedPlaced
  <2>2. Shelved(server[v].store)
    BY DEF StoreInv, ServerInv, Up, Serving
  <2> QED BY <2>1, <2>2, ShelvedPlaced
<1> QED BY <1>2, <1>3, <1>4, <1>5

\* Type correctness: the slices of a served store lie within its records.
THEOREM StoresTypeCorrect == (\A d \in Disks : AsBuilt(d)) /\ Spec => []TypeOK
BY StoreInit, StoreStep, StoreInvServes, PTL DEF Spec

\* Whatever is converted, crashes and restarts, a server serves every record of
\* its dataset, with its label, as often as the dataset has it.
THEOREM DatasetsServed ==
    (\A d \in Disks : AsBuilt(d)) /\ Spec => []ServedComplete
BY StoreInit, StoreStep, StoreInvServes, PTL DEF Spec

\* A query with the features of a record finds it in its own bucket or in one
\* next to it, whether the record was sorted by its floats or by its codes.
THEOREM RecordsServedNearby ==
    (\A d \in Disks : AsBuilt(d)) /\ Spec => []ServedNearby
BY StoreInit, StoreStep, StoreInvServes, PTL DEF Spec

(***************************************************************************)
(* Every store that is served, loaded or mapped, is one the search may be  *)
(* run on: what BucketSearch assumes of the placement of a store is what   *)
(* indexing, converting and loading leave.                                 *)
(***************************************************************************)
THEOREM ServedStoresArePlaced ==
    (\A d \in Disks : AsBuilt(d)) /\ Spec => []ServedPlaced
BY StoreInit, StoreStep, StoreInvServes, PTL DEF Spec
=============================================================================
