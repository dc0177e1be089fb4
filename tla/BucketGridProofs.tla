-------------------------- MODULE BucketGridProofs --------------------------
(***************************************************************************)
(* The grid, for every number of buckets per axis: bucketID gives each     *)
(* cell an index of the bucket arrays of its own, in the order in which    *)
(* the nested loops visit the cells.                                       *)
(***************************************************************************)
EXTENDS BucketGrid, NumberLemmas

\* Every axis of the grid has at least one value.
LEMMA SizeType == \A x \in Axes : Size[x] \in Nat /\ Size[x] > 0
BY SizeAssumption

\* A cell is a tuple of six digits, the x-th below Size[x].
LEMMA CellType ==
    ASSUME NEW c \in Cells
    PROVE  /\ c = <<c[1], c[2], c[3], c[4], c[5], c[6]>>
           /\ \A x \in Axes : c[x] \in Nat /\ c[x] < Size[x]
<1>1. PICK a \in 0 .. (Size[1] - 1), m \in 0 .. (Size[2] - 1),
           k \in 0 .. (Size[3] - 1), t \in 0 .. (Size[4] - 1),
           v \in 0 .. (Size[5] - 1), r \in 0 .. (Size[6] - 1) :
        c = <<a, m, k, t, v, r>>
  BY DEF Cells
<1>2. c[1] = a /\ c[2] = m /\ c[3] = k /\ c[4] = t /\ c[5] = v /\ c[6] = r
  BY <1>1
<1>3. \A x \in Axes : Size[x] \in Nat
  BY SizeType
<1> QED BY <1>1, <1>2, <1>3 DEF Axes

\* One digit more keeps an index in range and the order of the indices.
LEMMA NextDigit ==
    ASSUME NEW n \in Nat, NEW i \in Nat, i < n,
           NEW s \in Nat, NEW d \in Nat, d < s
    PROVE  i * s + d \in Nat /\ i * s + d < n * s
<1>1. (i + 1) * s <= n * s
  OBVIOUS
<1>2. (i + 1) * s = i * s + s
  OBVIOUS
<1>3. i * s \in Nat /\ n * s \in Nat
  OBVIOUS
<1> QED BY <1>1, <1>2, <1>3

\* A greater leading digit, or an equal one and a greater last digit,
\* makes the greater number.
LEMMA DigitOrder ==
    ASSUME NEW i \in Nat, NEW j \in Nat, NEW s \in Nat,
           NEW d \in Nat, NEW e \in Nat, d < s, e < s
    PROVE  /\ i < j => i * s + d < j * s + e
           /\ i = j /\ d < e => i * s + d < j * s + e
           /\ i = j /\ d = e => i * s + d = j * s + e
<1>1. i * s \in Nat /\ j * s \in Nat
  OBVIOUS
<1>2. CASE i < j
  BY <1>1, <1>2, NextDigit
<1>3. CASE i = j
  BY <1>1, <1>3
<1> QED BY <1>2, <1>3

\* bucketID indexes an array of BucketIndexCount entries within its bounds.
LEMMA BucketIDRange ==
    ASSUME NEW c \in Cells
    PROVE  BucketID(c) \in Buckets
<1> DEFINE i2 == c[1] * Size[2] + c[2]
           i3 == i2 * Size[3] + c[3]
           i4 == i3 * Size[4] + c[4]
           i5 == i4 * Size[5] + c[5]
           n2 == Size[1] * Size[2]
           n3 == n2 * Size[3]
           n4 == n3 * Size[4]
           n5 == n4 * Size[5]
<1>1. \A x \in Axes : Size[x] \in Nat /\ c[x] \in Nat /\ c[x] < Size[x]
  BY SizeType, CellType
<1>2. \A x \in 1 .. 6 : x \in Axes
  BY DEF Axes
<1>3. i2 \in Nat /\ n2 \in Nat /\ i2 < n2
  BY <1>1, <1>2, NextDigit
<1> HIDE DEF i2, n2
<1>4. i3 \in Nat /\ n3 \in Nat /\ i3 < n3
  BY <1>1, <1>2, <1>3, NextDigit
<1> HIDE DEF i3, n3
<1>5. i4 \in Nat /\ n4 \in Nat /\ i4 < n4
  BY <1>1, <1>2, <1>4, NextDigit
<1> HIDE DEF i4, n4
<1>6. i5 \in Nat /\ n5 \in Nat /\ i5 < n5
  BY <1>1, <1>2, <1>5, NextDigit
<1> HIDE DEF i5, n5
<1>7. i5 * Size[6] + c[6] \in Nat /\ i5 * Size[6] + c[6] < n5 * Size[6]
  BY <1>1, <1>2, <1>6, NextDigit
<1>8. n5 * Size[6] \in Nat
  BY <1>1, <1>2, <1>6
<1>9. BucketID(c) = i5 * Size[6] + c[6]
  BY DEF BucketID, i5, i4, i3, i2
<1>10. BucketIndexCount = n5 * Size[6]
  BY DEF BucketIndexCount, n5, n4, n3, n2
<1> QED BY <1>7, <1>8, <1>9, <1>10 DEF Buckets

\* The loops visit the cells in the order of their indices.
LEMMA BucketIDOrder ==
    ASSUME NEW c \in Cells, NEW d \in Cells, Before(c, d)
    PROVE  BucketID(c) < BucketID(d)
<1> DEFINE i2(e) == e[1] * Size[2] + e[2]
           i3(e) == i2(e) * Size[3] + e[3]
           i4(e) == i3(e) * Size[4] + e[4]
           i5(e) == i4(e) * Size[5] + e[5]
           i6(e) == i5(e) * Size[6] + e[6]
<1>1. \A x \in Axes : /\ Size[x] \in Nat
                     /\ c[x] \in Nat /\ c[x] < Size[x]
                     /\ d[x] \in Nat /\ d[x] < Size[x]
  BY SizeType, CellType
<1>2. \A x \in 1 .. 6 : x \in Axes
  BY DEF Axes
<1>3. /\ i2(c) \in Nat /\ i2(d) \in Nat
      /\ c[1] < d[1] => i2(c) < i2(d)
      /\ c[1] = d[1] /\ c[2] < d[2] => i2(c) < i2(d)
      /\ c[1] = d[1] /\ c[2] = d[2] => i2(c) = i2(d)
  BY <1>1, <1>2, DigitOrder, NextDigit
<1> HIDE DEF i2
<1>4. /\ i3(c) \in Nat /\ i3(d) \in Nat
      /\ i2(c) < i2(d) => i3(c) < i3(d)
      /\ i2(c) = i2(d) /\ c[3] < d[3] => i3(c) < i3(d)
      /\ i2(c) = i2(d) /\ c[3] = d[3] => i3(c) = i3(d)
  BY <1>1, <1>2, <1>3, DigitOrder
<1> HIDE DEF i3
<1>5. /\ i4(c) \in Nat /\ i4(d) \in Nat
      /\ i3(c) < i3(d) => i4(c) < i4(d)
      /\ i3(c) = i3(d) /\ c[4] < d[4] => i4(c) < i4(d)
      /\ i3(c) = i3(d) /\ c[4] = d[4] => i4(c) = i4(d)
  BY <1>1, <1>2, <1>4, DigitOrder
<1> HIDE DEF i4
<1>6. /\ i5(c) \in Nat /\ i5(d) \in Nat
      /\ i4(c) < i4(d) => i5(c) < i5(d)
      /\ i4(c) = i4(d) /\ c[5] < d[5] => i5(c) < i5(d)
      /\ i4(c) = i4(d) /\ c[5] = d[5] => i5(c) = i5(d)
  BY <1>1, <1>2, <1>5, DigitOrder
<1> HIDE DEF i5
<1>7. /\ i5(c) < i5(d) => i6(c) < i6(d)
      /\ i5(c) = i5(d) /\ c[6] < d[6] => i6(c) < i6(d)
  BY <1>1, <1>2, <1>6, DigitOrder
<1> HIDE DEF i6
<1>8. PICK x \in Axes : c[x] < d[x] /\ \A y \in 1 .. (x - 1) : c[y] = d[y]
  BY DEF Before
<1>9. i6(c) < i6(d)
  <2>1. x \in {1, 2, 3, 4, 5, 6}
    BY DEF Axes
  <2>2. CASE x = 1
    BY <1>8, <2>2, <1>3, <1>4, <1>5, <1>6, <1>7
  <2>3. CASE x = 2
    <3>1. c[1] = d[1]
      BY <1>8, <2>3
    <3> QED BY <3>1, <1>8, <2>3, <1>3, <1>4, <1>5, <1>6, <1>7
  <2>4. CASE x = 3
    <3>1. c[1] = d[1] /\ c[2] = d[2]
      BY <1>8, <2>4
    <3> QED BY <3>1, <1>8, <2>4, <1>3, <1>4, <1>5, <1>6, <1>7
  <2>5. CASE x = 4
    <3>1. c[1] = d[1] /\ c[2] = d[2] /\ c[3] = d[3]
      BY <1>8, <2>5
    <3> QED BY <3>1, <1>8, <2>5, <1>3, <1>4, <1>5, <1>6, <1>7
  <2>6. CASE x = 5
    <3>1. c[1] = d[1] /\ c[2] = d[2] /\ c[3] = d[3] /\ c[4] = d[4]
      BY <1>8, <2>6
    <3> QED BY <3>1, <1>8, <2>6, <1>3, <1>4, <1>5, <1>6, <1>7
  <2>7. CASE x = 6
    <3>1. c[1] = d[1] /\ c[2] = d[2] /\ c[3] = d[3] /\ c[4] = d[4] /\ c[5] = d[5]
      BY <1>8, <2>7
    <3> QED BY <3>1, <1>8, <2>7, <1>3, <1>4, <1>5, <1>6, <1>7
  <2> QED BY <2>1, <2>2, <2>3, <2>4, <2>5, <2>6, <2>7
<1>10. BucketID(c) = i6(c) /\ BucketID(d) = i6(d)
  BY DEF BucketID, i6, i5, i4, i3, i2
<1> QED BY <1>9, <1>10

\* Two cells differ first on some axis, where one of them comes first.
LEMMA BeforeIsTotal ==
    ASSUME NEW c \in Cells, NEW d \in Cells, c # d
    PROVE  Before(c, d) \/ Before(d, c)
<1>1. \E x \in Axes : c[x] # d[x]
  BY CellType DEF Axes
<1> DEFINE Differ == {x \in Axes : c[x] # d[x]}
<1>2. PICK x \in Differ : \A y \in Differ : x <= y
  BY <1>1, LeastExists DEF Axes
<1>3. \A y \in 1 .. (x - 1) : c[y] = d[y]
  BY <1>2 DEF Axes
<1>4. c[x] < d[x] \/ d[x] < c[x]
  BY <1>2, CellType
<1> QED BY <1>2, <1>3, <1>4 DEF Before

(***************************************************************************)
(* Each cell of the grid has an index of the bucket arrays of its own.     *)
(***************************************************************************)
THEOREM CellsHaveOwnBuckets ==
    /\ \A c \in Cells : BucketID(c) \in Buckets
    /\ \A c, d \in Cells : BucketID(c) = BucketID(d) => c = d
<1>1. ASSUME NEW c \in Cells, NEW d \in Cells, c # d
      PROVE  BucketID(c) # BucketID(d)
  <2>1. BucketID(c) \in Int /\ BucketID(d) \in Int
    BY BucketIDRange DEF Buckets
  <2> QED BY <1>1, <2>1, BeforeIsTotal, BucketIDOrder
<1> QED BY <1>1, BucketIDRange

(***************************************************************************)
(* The loops visit the cells of a window one by one, in the order of their *)
(* indices: the next cell is the one with the least index.                 *)
(***************************************************************************)
THEOREM FirstHasLeastIndex ==
    ASSUME NEW cs \in SUBSET Cells, cs # {}
    PROVE  /\ First(cs) \in cs
           /\ \A d \in cs \ {First(cs)} : BucketID(First(cs)) < BucketID(d)
<1> DEFINE ids == {BucketID(c) : c \in cs}
<1>1. ids \in SUBSET Nat /\ ids # {}
  BY BucketIDRange DEF Buckets
<1>2. PICK i \in ids : \A j \in ids : i <= j
  <2> HIDE DEF ids
  <2> QED BY <1>1, LeastExists
<1>3. PICK c \in cs : \A d \in cs : BucketID(c) <= BucketID(d)
  BY <1>2
<1>4. \A d \in cs \ {c} : Before(c, d)
  <2>1. SUFFICES ASSUME NEW d \in cs, d # c, Before(d, c) PROVE FALSE
    BY BeforeIsTotal
  <2>2. BucketID(d) < BucketID(c)
    BY <2>1, BucketIDOrder
  <2>3. BucketID(c) \in Int /\ BucketID(d) \in Int
    BY BucketIDRange DEF Buckets
  <2> QED BY <1>3, <2>2, <2>3
<1>5. First(cs) \in cs /\ \A d \in cs \ {First(cs)} : Before(First(cs), d)
  BY <1>4 DEF First
<1> QED BY <1>5, BucketIDOrder
=============================================================================
