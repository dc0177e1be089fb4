-------------------------- MODULE PrefixSumsProofs --------------------------
(***************************************************************************)
(* The prefix sums, for every grid, every size of the buckets and every    *)
(* width of the sums: the sweeps leave in each entry the sum of its box    *)
(* (SweepsAreExact), and the 64 corners of a window count its records      *)
(* (WindowsAreCounted).                                                    *)
(*                                                                         *)
(* The sums are folds of the library over sets, recursive functions that   *)
(* the prover knows nothing about: that they exist and are unique, and     *)
(* what they yield for disjoint and for renamed sets, is proved here by    *)
(* taking a smallest counterexample.                                       *)
(***************************************************************************)
EXTENDS PrefixSums, BucketGridProofs, FunctionTheorems

\* A tuple of six is the function of its places.
LEMMA Tuple6 ==
    ASSUME NEW q \in [Axes -> Int]
    PROVE  q = <<q[1], q[2], q[3], q[4], q[5], q[6]>>
BY DEF Axes

\* The cells are the functions below the sizes.
LEMMA CellIs ==
    ASSUME NEW c
    PROVE  c \in Cells <=> c \in [Axes -> Nat] /\ \A x \in Axes : c[x] < Size[x]
<1>0. \A x \in Axes : Size[x] \in Nat
  BY SizeType
<1>1. ASSUME c \in Cells
      PROVE  c \in [Axes -> Nat] /\ \A x \in Axes : c[x] < Size[x]
  <2>1. /\ c = <<c[1], c[2], c[3], c[4], c[5], c[6]>>
        /\ \A x \in Axes : c[x] \in Nat /\ c[x] < Size[x]
    BY <1>1, CellType
  <2>2. c \in [Axes -> Nat]
    BY <2>1 DEF Axes
  <2> QED BY <2>1, <2>2
<1>2. ASSUME c \in [Axes -> Nat], \A x \in Axes : c[x] < Size[x]
      PROVE  c \in Cells
  <2>1. c = <<c[1], c[2], c[3], c[4], c[5], c[6]>>
    BY <1>2, Tuple6
  <2>2. \A x \in Axes : c[x] \in 0 .. (Size[x] - 1)
    BY <1>0, <1>2
  <2>3. /\ c[1] \in 0 .. (Size[1] - 1) /\ c[2] \in 0 .. (Size[2] - 1)
        /\ c[3] \in 0 .. (Size[3] - 1) /\ c[4] \in 0 .. (Size[4] - 1)
        /\ c[5] \in 0 .. (Size[5] - 1) /\ c[6] \in 0 .. (Size[6] - 1)
    BY <2>2 DEF Axes
  <2> QED BY <2>1, <2>3 DEF Cells
<1> QED BY <1>1, <1>2

\* The points are the functions up to the sizes.
LEMMA PointIs ==
    ASSUME NEW p
    PROVE  p \in Points <=> p \in [Axes -> Nat] /\ \A x \in Axes : p[x] <= Size[x]
<1>0. \A x \in Axes : Size[x] \in Nat
  BY SizeType
<1>1. ASSUME p \in Points
      PROVE  p \in [Axes -> Nat] /\ \A x \in Axes : p[x] <= Size[x]
  <2>1. PICK a \in 0 .. Size[1], m \in 0 .. Size[2], k \in 0 .. Size[3],
             t \in 0 .. Size[4], v \in 0 .. Size[5], r \in 0 .. Size[6] :
          p = <<a, m, k, t, v, r>>
    <3>1. \A x \in Axes : [z \in Axes |-> Size[z] + 1][x] - 1 = Size[x]
      BY <1>0
    <3>2. /\ 1 \in Axes /\ 2 \in Axes /\ 3 \in Axes
          /\ 4 \in Axes /\ 5 \in Axes /\ 6 \in Axes
      BY DEF Axes
    <3> QED BY <1>1, <3>1, <3>2 DEF Points, Extended!Cells
  <2> QED BY <1>0, <2>1 DEF Axes
<1>2. ASSUME p \in [Axes -> Nat], \A x \in Axes : p[x] <= Size[x]
      PROVE  p \in Points
  <2>1. p = <<p[1], p[2], p[3], p[4], p[5], p[6]>>
    BY <1>2, Tuple6
  <2>2. \A x \in Axes : p[x] \in 0 .. ((Size[x] + 1) - 1)
    BY <1>0, <1>2
  <2>3. /\ p[1] \in 0 .. ((Size[1] + 1) - 1) /\ p[2] \in 0 .. ((Size[2] + 1) - 1)
        /\ p[3] \in 0 .. ((Size[3] + 1) - 1) /\ p[4] \in 0 .. ((Size[4] + 1) - 1)
        /\ p[5] \in 0 .. ((Size[5] + 1) - 1) /\ p[6] \in 0 .. ((Size[6] + 1) - 1)
    BY <2>2 DEF Axes
  <2>4. <<p[1], p[2], p[3], p[4], p[5], p[6]>> \in Extended!Cells
    BY <2>3 DEF Extended!Cells, Axes
  <2> QED BY <2>1, <2>4 DEF Points
<1> QED BY <1>1, <1>2

\* There are finitely many cells: each has an index of its own.
LEMMA CellsFinite == IsFiniteSet(Cells)
<1> DEFINE f == [c \in Cells |-> BucketID(c)]
<1>1. f \in Injection(Cells, Buckets)
  <2>1. f \in [Cells -> Buckets] /\ \A c, d \in Cells : f[c] = f[d] => c = d
    BY CellsHaveOwnBuckets
  <2> QED BY <2>1, Fun_IsInj
<1>2. IsFiniteSet(Buckets)
  <2>1. BucketIndexCount \in Int
    BY SizeType DEF BucketIndexCount, Axes
  <2>2. 0 \in Int /\ BucketIndexCount - 1 \in Int
    BY <2>1
  <2> QED BY <2>2, FS_Interval DEF Buckets
<1> QED BY <1>1, <1>2, FS_Injection

-----------------------------------------------------------------------------
\* The element a fold takes first.
Chosen(s) == CHOOSE x \in s : TRUE

\* g is the fold of f over the sets of D.
IsFoldOf(f, D, g) ==
    g = [s \in D |-> IF s = {} THEN 0 ELSE f[Chosen(s)] + g[s \ {Chosen(s)}]]

\* A sum is the value of the fold at the whole set.
LEMMA SumIsFold ==
    ASSUME NEW f, NEW S
    PROVE  Sum(f, S) = (CHOOSE g : IsFoldOf(f, SUBSET S, g))[S]
BY DEF Sum, MapThenSumSet, MapThenFoldSet, IsFoldOf, Chosen

\* A fold over the subsets of a greater set has the same value.
LEMMA FoldUnique ==
    ASSUME NEW f, NEW S, NEW T, NEW g, NEW h, IsFiniteSet(S), T \subseteq S,
           IsFoldOf(f, SUBSET S, g), IsFoldOf(f, SUBSET T, h)
    PROVE  g[T] = h[T]
<1> DEFINE Bad == {s \in SUBSET T : g[s] # h[s]}
           Sizes == {Cardinality(s) : s \in Bad}
<1>1. SUFFICES ASSUME Bad # {} PROVE FALSE
  <2>1. T \in SUBSET T
    OBVIOUS
  <2> QED BY <2>1
<1>2. \A s \in SUBSET T : IsFiniteSet(s) /\ Cardinality(s) \in Nat
  BY FS_Subset, FS_CardinalityType
<1>3. PICK n \in Sizes : \A m \in Sizes : n <= m
  <2>1. Sizes \in SUBSET Nat /\ Sizes # {}
    BY <1>1, <1>2
  <2> HIDE DEF Sizes
  <2> QED BY <2>1, LeastExists
<1>4. PICK s \in Bad : Cardinality(s) = n
  BY <1>3
<1>5. s # {} /\ Chosen(s) \in s
  BY <1>4 DEF IsFoldOf, Chosen
<1>6. s \ {Chosen(s)} \in SUBSET T /\ s \ {Chosen(s)} \notin Bad
  <2>1. Cardinality(s \ {Chosen(s)}) = n - 1 /\ n \in Nat
    BY <1>2, <1>4, <1>5, FS_RemoveElement
  <2> QED BY <1>3, <1>4, <2>1
<1>7. g[s] = f[Chosen(s)] + g[s \ {Chosen(s)}]
  BY <1>4, <1>5 DEF IsFoldOf
<1>8. h[s] = f[Chosen(s)] + h[s \ {Chosen(s)}]
  BY <1>4, <1>5 DEF IsFoldOf
<1> QED BY <1>4, <1>6, <1>7, <1>8

\* There is a fold over the subsets of a finite set.
LEMMA FoldExists ==
    ASSUME NEW f, NEW S, IsFiniteSet(S)
    PROVE  \E g : IsFoldOf(f, SUBSET S, g)
<1> DEFINE D(n) == {s \in SUBSET S : Cardinality(s) <= n}
           Bad == {n \in Nat : ~ \E g : IsFoldOf(f, D(n), g)}
<1>1. \A s \in SUBSET S : IsFiniteSet(s) /\ Cardinality(s) \in Nat
                          /\ Cardinality(s) <= Cardinality(S)
  BY FS_Subset, FS_CardinalityType
<1>2. ASSUME Bad # {} PROVE FALSE
  <2>1. PICK n \in Bad : \A m \in Bad : n <= m
    <3>1. Bad \in SUBSET Nat
      OBVIOUS
    <3> HIDE DEF Bad
    <3> QED BY <1>2, <3>1, LeastExists
  <2>2. n # 0
    <3>1. SUFFICES ASSUME n = 0 PROVE FALSE
      OBVIOUS
    <3>2. D(0) = {{}}
      <4>1. \A s \in SUBSET S : Cardinality(s) <= 0 <=> s = {}
        BY <1>1, FS_EmptySet
      <4> QED BY <4>1
    <3>3. IsFoldOf(f, {{}}, [s \in {{}} |-> 0])
      BY DEF IsFoldOf
    <3>4. ~ \E g : IsFoldOf(f, D(0), g)
      BY <2>1, <3>1
    <3> QED BY <3>2, <3>3, <3>4
  <2>3. PICK g : IsFoldOf(f, D(n - 1), g)
    <3>1. n - 1 \in Nat /\ ~ (n <= n - 1)
      BY <2>1, <2>2
    <3>2. n - 1 \notin Bad
      BY <2>1, <3>1
    <3> QED BY <3>1, <3>2
  <2> DEFINE h == [s \in D(n) |-> IF s = {} THEN 0
                       ELSE f[Chosen(s)] + g[s \ {Chosen(s)}]]
  <2>4. ASSUME NEW s \in D(n), s # {}
        PROVE  h[s \ {Chosen(s)}] = g[s \ {Chosen(s)}]
    <3> DEFINE t == s \ {Chosen(s)}
    <3>1. t \in D(n - 1) /\ t \in D(n)
      <4>1. Chosen(s) \in s
        BY <2>4 DEF Chosen
      <4>2. Cardinality(t) = Cardinality(s) - 1 /\ t \in SUBSET S
        BY <1>1, <4>1, FS_RemoveElement
      <4> QED BY <1>1, <2>1, <4>2
    <3>2. h[t] = IF t = {} THEN 0 ELSE f[Chosen(t)] + g[t \ {Chosen(t)}]
      BY <3>1
    <3>3. g[t] = IF t = {} THEN 0 ELSE f[Chosen(t)] + g[t \ {Chosen(t)}]
      BY <2>3, <3>1 DEF IsFoldOf
    <3> QED BY <3>2, <3>3
  <2>5. IsFoldOf(f, D(n), h)
    <3>1. h = [s \in D(n) |-> IF s = {} THEN 0
                       ELSE f[Chosen(s)] + h[s \ {Chosen(s)}]]
      BY <2>4
    <3> QED BY <3>1 DEF IsFoldOf
  <2> QED BY <2>1, <2>5
<1>3. D(Cardinality(S)) = SUBSET S
  BY <1>1
<1>4. Cardinality(S) \in Nat
  BY FS_CardinalityType
<1> QED BY <1>2, <1>3, <1>4

\* A sum is its chosen term and the sum of the others.
LEMMA SumChosen ==
    ASSUME NEW f, NEW S, IsFiniteSet(S)
    PROVE  /\ S = {} => Sum(f, S) = 0
           /\ S # {} => /\ Chosen(S) \in S
                        /\ Sum(f, S) = f[Chosen(S)] + Sum(f, S \ {Chosen(S)})
<1> DEFINE T == S \ {Chosen(S)}
           g == CHOOSE g : IsFoldOf(f, SUBSET S, g)
           h == CHOOSE h : IsFoldOf(f, SUBSET T, h)
<1>1. IsFoldOf(f, SUBSET S, g)
  BY FoldExists
<1>2. IsFoldOf(f, SUBSET T, h)
  <2>1. IsFiniteSet(T)
    BY FS_RemoveElement
  <2> QED BY <2>1, FoldExists
<1>3. Sum(f, S) = g[S] /\ Sum(f, T) = h[T]
  BY SumIsFold
<1> HIDE DEF g, h
<1>4. g[T] = h[T]
  <2>1. T \subseteq S
    OBVIOUS
  <2> HIDE DEF T
  <2> QED BY <1>1, <1>2, <2>1, FoldUnique
<1>5. g[S] = IF S = {} THEN 0 ELSE f[Chosen(S)] + g[T]
  BY <1>1 DEF IsFoldOf
<1> QED BY <1>3, <1>4, <1>5 DEF Chosen

\* Some set of a collection of subsets leaves it by losing any element.
LEMMA Smallest ==
    ASSUME NEW S, IsFiniteSet(S), NEW Q \in SUBSET SUBSET S, Q # {}
    PROVE  \E s \in Q : \A x \in s : s \ {x} \notin Q
<1> DEFINE Sizes == {Cardinality(s) : s \in Q}
<1>1. \A s \in SUBSET S : IsFiniteSet(s) /\ Cardinality(s) \in Nat
  BY FS_Subset, FS_CardinalityType
<1>2. PICK n \in Sizes : \A m \in Sizes : n <= m
  <2>1. Sizes \in SUBSET Nat /\ Sizes # {}
    BY <1>1
  <2> HIDE DEF Sizes
  <2> QED BY <2>1, LeastExists
<1>3. PICK s \in Q : Cardinality(s) = n
  BY <1>2
<1>4. ASSUME NEW x \in s, s \ {x} \in Q PROVE FALSE
  <2>1. Cardinality(s \ {x}) = n - 1 /\ n \in Nat
    BY <1>1, <1>3, FS_RemoveElement
  <2> QED BY <1>2, <1>4, <2>1
<1> QED BY <1>4

\* A sum stays in a set of numbers closed under addition.
LEMMA SumClosed ==
    ASSUME NEW f, NEW S, IsFiniteSet(S), NEW N, 0 \in N,
           \A a, b \in N : a + b \in N, \A x \in S : f[x] \in N
    PROVE  Sum(f, S) \in N
<1> DEFINE Q == {s \in SUBSET S : Sum(f, s) \notin N}
<1>1. ASSUME Q # {} PROVE FALSE
  <2>1. PICK s \in Q : \A x \in s : s \ {x} \notin Q
    <3>1. Q \in SUBSET SUBSET S
      OBVIOUS
    <3> HIDE DEF Q
    <3> QED BY <1>1, <3>1, Smallest
  <2>2. IsFiniteSet(s) /\ s \in SUBSET S
    BY <2>1, FS_Subset
  <2>3. /\ s = {} => Sum(f, s) = 0
        /\ s # {} => /\ Chosen(s) \in s
                     /\ Sum(f, s) = f[Chosen(s)] + Sum(f, s \ {Chosen(s)})
    BY <2>2, SumChosen
  <2> QED BY <2>1, <2>2, <2>3
<1> QED BY <1>1

\* So the sum of integers is one, and the sum of naturals is.
LEMMA SumType ==
    ASSUME NEW f, NEW S, IsFiniteSet(S)
    PROVE  /\ (\A x \in S : f[x] \in Int) => Sum(f, S) \in Int
           /\ (\A x \in S : f[x] \in Nat) => Sum(f, S) \in Nat
<1>1. 0 \in Int /\ \A a, b \in Int : a + b \in Int
  OBVIOUS
<1>2. 0 \in Nat /\ \A a, b \in Nat : a + b \in Nat
  OBVIOUS
<1> QED BY <1>1, <1>2, SumClosed

\* A sum is any of its terms and the sum of the others.
LEMMA SumTakeOut ==
    ASSUME NEW f, NEW S, IsFiniteSet(S), \A x \in S : f[x] \in Int, NEW x \in S
    PROVE  Sum(f, S) = f[x] + Sum(f, S \ {x})
<1> DEFINE Q == {s \in SUBSET S : \E y \in s :
                    Sum(f, s) # f[y] + Sum(f, s \ {y})}
<1>1. ASSUME Q # {} PROVE FALSE
  <2>1. PICK s \in Q : \A y \in s : s \ {y} \notin Q
    <3>1. Q \in SUBSET SUBSET S
      OBVIOUS
    <3> HIDE DEF Q
    <3> QED BY <1>1, <3>1, Smallest
  <2>2. PICK y \in s : Sum(f, s) # f[y] + Sum(f, s \ {y})
    BY <2>1
  <2> DEFINE c == Chosen(s)
             t == s \ {c}
             u == s \ {y}
             v == s \ {c, y}
  <2>3. /\ IsFiniteSet(s) /\ s \in SUBSET S /\ v \in SUBSET S /\ IsFiniteSet(v)
        /\ t \in SUBSET S /\ u \in SUBSET S
    BY <2>1, FS_Subset
  <2>4. c \in s /\ Sum(f, s) = f[c] + Sum(f, t)
    BY <2>2, <2>3, SumChosen
  <2>5. y # c
    BY <2>2, <2>4
  <2>6. Sum(f, t) = f[y] + Sum(f, v)
    <3>1. t \notin Q /\ y \in t /\ v = t \ {y}
      BY <2>1, <2>2, <2>4, <2>5
    <3> QED BY <2>3, <3>1
  <2>7. Sum(f, u) = f[c] + Sum(f, v)
    <3>1. u \notin Q /\ c \in u /\ v = u \ {c}
      BY <2>1, <2>2, <2>4, <2>5
    <3> QED BY <2>3, <3>1
  <2>8. Sum(f, v) \in Int /\ f[c] \in Int /\ f[y] \in Int
    BY <2>2, <2>3, <2>4, SumType
  <2> QED BY <2>2, <2>4, <2>6, <2>7, <2>8
<1> QED BY <1>1

\* The sum over two disjoint sets is the sum of their sums.
LEMMA SumDisjoint ==
    ASSUME NEW f, NEW S, NEW T, IsFiniteSet(S), IsFiniteSet(T), S \cap T = {},
           \A x \in S \cup T : f[x] \in Int
    PROVE  Sum(f, S \cup T) = Sum(f, S) + Sum(f, T)
<1> DEFINE Q == {t \in SUBSET T : Sum(f, S \cup t) # Sum(f, S) + Sum(f, t)}
<1>1. ASSUME Q # {} PROVE FALSE
  <2>1. PICK t \in Q : \A y \in t : t \ {y} \notin Q
    <3>1. Q \in SUBSET SUBSET T
      OBVIOUS
    <3> HIDE DEF Q
    <3> QED BY <1>1, <3>1, Smallest
  <2>2. IsFiniteSet(t) /\ t \in SUBSET T /\ IsFiniteSet(S \cup t)
        /\ Sum(f, S) \in Int
    BY <2>1, FS_Subset, FS_Union, SumType
  <2>3. ASSUME t = {} PROVE FALSE
    <3>1. Sum(f, {}) = 0
      BY FS_EmptySet, SumChosen
    <3>2. S \cup {} = S
      OBVIOUS
    <3> QED BY <2>1, <2>2, <2>3, <3>1, <3>2
  <2>4. PICK y \in t : TRUE
    BY <2>3
  <2> DEFINE u == t \ {y}
  <2>5. u \notin Q /\ u \in SUBSET T /\ IsFiniteSet(u) /\ S \cup u = (S \cup t) \ {y}
    BY <2>1, <2>2, <2>4, FS_Subset
  <2>6. Sum(f, t) = f[y] + Sum(f, u) /\ Sum(f, S \cup t) = f[y] + Sum(f, S \cup u)
    BY <2>2, <2>4, <2>5, SumTakeOut
  <2>7. Sum(f, u) \in Int /\ f[y] \in Int
    BY <2>2, <2>4, <2>5, SumType
  <2> QED BY <2>1, <2>2, <2>5, <2>6, <2>7
<1> QED BY <1>1

\* Renaming the terms does not change a sum, and a factor comes out of it.
LEMMA SumRenamed ==
    ASSUME NEW f, NEW g, NEW h, NEW S, NEW T, IsFiniteSet(S),
           NEW sign \in Int,
           h \in Bijection(S, T),
           \A x \in T : f[x] \in Int,
           \A x \in S : g[x] = sign * f[h[x]]
    PROVE  Sum(g, S) = sign * Sum(f, T)
<1> DEFINE Im(s) == {h[x] : x \in s}
           Q == {s \in SUBSET S : Sum(g, s) # sign * Sum(f, Im(s))}
<1>0. /\ h \in [S -> T] /\ IsFiniteSet(T) /\ \A x, y \in S : h[x] = h[y] => x = y
      /\ Im(S) = T
  <2>1. IsFiniteSet(T)
    BY FS_Bijection DEF ExistsBijection
  <2>2. h \in [S -> T] /\ \A x, y \in S : h[x] = h[y] => x = y
    BY DEF Bijection, Injection, IsInjective
  <2>3. \A t \in T : \E x \in S : h[x] = t
    BY DEF Bijection, Surjection
  <2> QED BY <2>1, <2>2, <2>3
<1>1. ASSUME Q # {} PROVE FALSE
  <2>1. PICK s \in Q : \A y \in s : s \ {y} \notin Q
    <3>1. Q \in SUBSET SUBSET S
      OBVIOUS
    <3> HIDE DEF Q
    <3> QED BY <1>1, <3>1, Smallest
  <2>2. IsFiniteSet(s) /\ s \in SUBSET S /\ Im(s) \in SUBSET T /\ IsFiniteSet(Im(s))
    BY <1>0, <2>1, FS_Subset
  <2>3. ASSUME s = {} PROVE FALSE
    <3>1. Sum(f, {}) = 0 /\ Sum(g, {}) = 0
      BY FS_EmptySet, SumChosen
    <3>2. Im({}) = {}
      OBVIOUS
    <3>3. Sum(g, s) = 0 /\ Sum(f, Im(s)) = 0 /\ sign * 0 = 0
      BY <2>3, <3>1, <3>2
    <3> QED BY <2>1, <3>3
  <2>4. PICK y \in s : TRUE
    BY <2>3
  <2> DEFINE u == s \ {y}
  <2>5. u \notin Q /\ u \in SUBSET S /\ Im(u) = Im(s) \ {h[y]} /\ h[y] \in Im(s)
    BY <1>0, <2>1, <2>2, <2>4
  <2>6. \A x \in S : g[x] \in Int /\ f[h[x]] \in Int
    BY <1>0
  <2>7. Sum(g, s) = g[y] + Sum(g, u)
    BY <2>2, <2>4, <2>6, SumTakeOut
  <2>8. Sum(f, Im(s)) = f[h[y]] + Sum(f, Im(u))
    <3>1. \A x \in Im(s) : f[x] \in Int
      BY <2>2
    <3>2. IsFiniteSet(Im(s)) /\ h[y] \in Im(s) /\ Im(u) = Im(s) \ {h[y]}
      BY <2>2, <2>5
    <3> HIDE DEF Im, u
    <3>3. Sum(f, Im(s)) = f[h[y]] + Sum(f, Im(s) \ {h[y]})
      BY <3>1, <3>2, SumTakeOut
    <3> QED BY <3>2, <3>3
  <2>9. Sum(f, Im(u)) \in Int
    <3>1. IsFiniteSet(Im(u)) /\ \A x \in Im(u) : f[x] \in Int
      BY <2>2, <2>5, FS_Subset
    <3> HIDE DEF Im
    <3> QED BY <3>1, SumType
  <2>10. Sum(g, u) = sign * Sum(f, Im(u))
    BY <2>5
  <2>11. g[y] = sign * f[h[y]] /\ f[h[y]] \in Int
    BY <2>2, <2>4, <2>6
  <2>12. Sum(g, s) = sign * Sum(f, Im(s))
    <3> HIDE DEF Im, u
    <3> QED BY <2>7, <2>8, <2>9, <2>10, <2>11
  <2> QED BY <2>1, <2>12
<1>2. Sum(g, S) = sign * Sum(f, Im(S))
  BY <1>1
<1> QED BY <1>0, <1>2
-----------------------------------------------------------------------------
\* What is assumed of the constants.
LEMMA WordType == Word \in Nat \ {0} /\ Counts \subseteq Nat
BY PrefixAssumption

\* The size of a bucket is a number.
LEMMA CountType ==
    ASSUME TypeOK, NEW c \in Cells
    PROVE  counts[c] \in Nat
<1>1. counts \in [Cells -> Counts]
  BY DEF TypeOK
<1> QED BY <1>1, WordType

\* The sums of records, over sets of buckets.
LEMMA SumOfRecords ==
    ASSUME TypeOK, NEW S \in SUBSET Cells, NEW T \in SUBSET Cells
    PROVE  /\ SumOf(S) \in Nat
           /\ SumOf({}) = 0
           /\ \A c \in Cells : SumOf({c}) = counts[c]
           /\ S \cap T = {} => SumOf(S \cup T) = SumOf(S) + SumOf(T)
<1>1. IsFiniteSet(S) /\ IsFiniteSet(T) /\ \A c \in Cells : counts[c] \in Nat
  BY CellsFinite, FS_Subset, CountType
<1>2. SumOf({}) = 0
  BY FS_EmptySet, SumChosen DEF SumOf
<1>3. ASSUME NEW c \in Cells PROVE SumOf({c}) = counts[c]
  <2>1. IsFiniteSet({c}) /\ {c} \ {c} = {} /\ c \in {c}
    BY FS_Singleton
  <2>2. \A x \in {c} : counts[x] \in Int
    BY <1>1
  <2>3. Sum(counts, {c}) = counts[c] + Sum(counts, {c} \ {c})
    BY <2>1, <2>2, SumTakeOut
  <2> QED BY <1>1, <1>2, <2>1, <2>3 DEF SumOf
<1>4. SumOf(S) \in Nat
  BY <1>1, SumType DEF SumOf
<1>5. S \cap T = {} => SumOf(S \cup T) = SumOf(S) + SumOf(T)
  BY <1>1, SumDisjoint DEF SumOf
<1> QED BY <1>2, <1>3, <1>4, <1>5

\* The layer swept is one of the axis swept.
LayerInv ==
    /\ axis = 0 => layer = 1
    /\ axis \in Axes => layer >= 1 /\ layer <= Size[axis]

\* The neighbour of a point that a sweep adds to it.
Lower(p, a) == [p EXCEPT ![a] = @ - 1]

\* It is a point, one lower on that axis.
LEMMA LowerPoint ==
    ASSUME NEW p \in Points, NEW a \in Axes, p[a] >= 1
    PROVE  /\ Lower(p, a) \in Points
           /\ Lower(p, a)[a] = p[a] - 1
           /\ \A x \in Axes \ {a} : Lower(p, a)[x] = p[x]
<1>1. p \in [Axes -> Nat] /\ \A x \in Axes : p[x] <= Size[x] /\ Size[x] \in Nat
  BY PointIs, SizeType
<1>2. /\ Lower(p, a)[a] = p[a] - 1
      /\ \A x \in Axes \ {a} : Lower(p, a)[x] = p[x]
  BY <1>1 DEF Lower
<1>3. Lower(p, a) \in [Axes -> Nat]
  BY <1>1 DEF Lower
<1>4. \A x \in Axes : Lower(p, a)[x] <= Size[x]
  BY <1>1, <1>2
<1> QED BY <1>2, <1>3, <1>4, PointIs

\* Every step keeps the types and the layer on its axis.
LEMMA NextTypes ==
    ASSUME TypeOK, LayerInv, [Next]_vars
    PROVE  TypeOK' /\ LayerInv'
<1>0. Word \in Nat \ {0} /\ 0 \in 0 .. (Word - 1)
  BY WordType
<1>1. CASE Place
  <2>1. ASSUME NEW p \in Points
        PROVE  (IF Below(p) \in Cells THEN counts[Below(p)] % Word ELSE 0)
                 \in 0 .. (Word - 1)
    <3>1. CASE Below(p) \in Cells
      <4>1. counts[Below(p)] \in Int
        BY <3>1, CountType
      <4> QED BY <1>0, <3>1, <4>1, ModType
    <3> QED BY <1>0, <3>1
  <2>2. prefix' \in [Points -> 0 .. (Word - 1)]
    BY <1>1, <2>1 DEF Place
  <2>3. axis' = 1 /\ layer' = layer /\ axis = 0 /\ counts' = counts
    BY <1>1 DEF Place
  <2> QED BY <2>2, <2>3, SizeType DEF TypeOK, LayerInv, Axes
<1>2. CASE SweepLayer
  <2>1. ASSUME NEW p \in Points
        PROVE  (IF Swept(p)
                THEN (prefix[p] + prefix[[p EXCEPT ![axis] = @ - 1]]) % Word
                ELSE prefix[p]) \in 0 .. (Word - 1)
    <3>1. CASE Swept(p)
      <4>1. axis \in Axes /\ p[axis] >= 1
        BY <1>2, <3>1 DEF SweepLayer, Swept, LayerInv
      <4>2. Lower(p, axis) \in Points
        BY <4>1, LowerPoint
      <4>3. prefix[p] + prefix[Lower(p, axis)] \in Int
        BY <1>0, <4>2 DEF TypeOK
      <4>4. (prefix[p] + prefix[Lower(p, axis)]) % Word \in 0 .. (Word - 1)
        BY <1>0, <4>3, ModType
      <4> QED BY <3>1, <4>4 DEF Lower
    <3>2. CASE ~ Swept(p)
      BY <3>2 DEF TypeOK
    <3> QED BY <3>1, <3>2
  <2>2. prefix' \in [Points -> 0 .. (Word - 1)]
    BY <1>2, <2>1 DEF SweepLayer
  <2>3. counts' = counts /\ axis \in 1 .. 6 /\ layer \in Nat
        /\ layer >= 1 /\ layer <= Size[axis]
    BY <1>2 DEF SweepLayer, Axes, TypeOK, LayerInv
  <2>4. \A x \in 1 .. 6 : Size[x] \in Nat /\ Size[x] >= 1
    BY SizeType DEF Axes
  <2>5. \/ layer < Size[axis] /\ layer' = layer + 1 /\ axis' = axis
        \/ layer' = 1 /\ axis' = axis + 1
    BY <1>2 DEF SweepLayer
  <2>6. /\ axis' \in 0 .. 7 /\ layer' \in Nat
        /\ axis' # 0 /\ (axis' \in 1 .. 6 => layer' >= 1 /\ layer' <= Size[axis'])
    BY <2>3, <2>4, <2>5
  <2> QED BY <2>2, <2>3, <2>6 DEF TypeOK, LayerInv, Axes
<1>3. CASE UNCHANGED vars
  BY <1>3 DEF vars, TypeOK, LayerInv
<1> QED BY <1>1, <1>2, <1>3 DEF Next

\* They hold at first.
LEMMA InitTypes == Init => TypeOK /\ LayerInv
<1>1. 0 \in 0 .. (Word - 1)
  BY WordType
<1> QED BY <1>1 DEF Init, TypeOK, LayerInv, Axes

(***************************************************************************)
(* The array holds 32-bit sums at every point.                             *)
(***************************************************************************)
THEOREM SumsTypeCorrect == Spec => []TypeOK
BY InitTypes, NextTypes, PTL DEF Spec

-----------------------------------------------------------------------------
\* The buckets whose sum a point holds.
Box(p) ==
    {c \in Cells : \A x \in Axes :
        IF Cumulative(p, x) THEN c[x] < p[x] ELSE c[x] = p[x] - 1}

\* Placing the sizes gives every point the bucket below it.
LEMMA PlaceSums ==
    ASSUME TypeOK, LayerInv, Place
    PROVE  SweepsExact'
<1>1. /\ axis' = 1 /\ layer' = 1 /\ counts' = counts
      /\ \A p \in Points : prefix'[p] =
            IF Below(p) \in Cells THEN counts[Below(p)] % Word ELSE 0
  BY DEF Place, LayerInv
<1> SUFFICES ASSUME NEW p \in Points
             PROVE  prefix'[p] = SumOf(Box(p))' % Word
  BY DEF SweepsExact, Box
<1>2. p \in [Axes -> Nat] /\ \A x \in Axes : p[x] <= Size[x]
  BY PointIs
<1>3. Word \in Nat \ {0}
  BY WordType
<1>4. SumOf(Box(p))' = SumOf(Box(p)')
  BY <1>1 DEF SumOf
<1>5. ASSUME NEW c \in Cells
      PROVE  c \in Box(p)' <=> c = Below(p)
  <2>1. c \in [Axes -> Nat]
    BY CellIs
  <2>2. c \in Box(p)' <=> \A x \in Axes : c[x] = p[x] - 1
    <3>1. ASSUME NEW x \in Axes
          PROVE  (IF Cumulative(p, x)' THEN c[x] < p[x] ELSE c[x] = p[x] - 1)
                    <=> c[x] = p[x] - 1
      BY <1>1, <1>2, <2>1 DEF Cumulative, Axes
    <3> QED BY <3>1 DEF Box
  <2> QED BY <2>1, <2>2 DEF Below
<1>6. CASE Below(p) \in Cells
  <2>1. Box(p)' = {Below(p)}
    BY <1>5, <1>6 DEF Box
  <2> QED BY <1>1, <1>4, <1>6, <2>1, SumOfRecords
<1>7. CASE Below(p) \notin Cells
  <2>1. Box(p)' = {}
    BY <1>5, <1>7 DEF Box
  <2>2. SumOf({}) = 0
    BY SumOfRecords
  <2>3. 0 % Word = 0
    BY <1>3
  <2> QED BY <1>1, <1>4, <1>7, <2>1, <2>2, <2>3
<1> QED BY <1>6, <1>7

\* The sweep of a layer makes the sums of its points one axis longer.
LEMMA SweepSums ==
    ASSUME TypeOK, LayerInv, SweepsExact, SweepLayer
    PROVE  SweepsExact'
<1> DEFINE After(p, c) ==
              \A x \in Axes : IF x < axis \/ (x = axis /\ p[x] <= layer)
                             THEN c[x] < p[x] ELSE c[x] = p[x] - 1
<1>1. /\ axis \in Axes /\ layer \in Nat /\ layer >= 1 /\ layer <= Size[axis]
      /\ counts' = counts
      /\ \A p \in Points : prefix'[p] =
            IF Swept(p) THEN (prefix[p] + prefix[Lower(p, axis)]) % Word
                        ELSE prefix[p]
      /\ \/ layer' = layer + 1 /\ axis' = axis
         \/ layer' = 1 /\ axis' = axis + 1 /\ layer = Size[axis]
  <2>1. axis \in Axes /\ layer \in Nat /\ layer >= 1 /\ layer <= Size[axis]
    BY DEF SweepLayer, LayerInv, TypeOK
  <2>2. counts' = counts /\ \A p \in Points : prefix'[p] =
            IF Swept(p) THEN (prefix[p] + prefix[Lower(p, axis)]) % Word
                        ELSE prefix[p]
    BY DEF SweepLayer, Lower
  <2>3. \/ layer' = layer + 1 /\ axis' = axis
        \/ layer' = 1 /\ axis' = axis + 1 /\ layer = Size[axis]
    BY <2>1, SizeType DEF SweepLayer
  <2> QED BY <2>1, <2>2, <2>3
<1>2. \A p \in Points, x \in Axes :
          p[x] \in Nat /\ p[x] <= Size[x] /\ Size[x] \in Nat
  BY PointIs, SizeType
<1>3. \A c \in Cells, x \in Axes : c[x] \in Nat
  BY CellIs
<1>4. ASSUME NEW p \in Points, NEW c \in Cells
      PROVE  c \in Box(p)' <=> After(p, c)
  <2>1. ASSUME NEW x \in Axes
        PROVE  (IF Cumulative(p, x)' THEN c[x] < p[x] ELSE c[x] = p[x] - 1)
                 <=> (IF x < axis \/ (x = axis /\ p[x] <= layer)
                      THEN c[x] < p[x] ELSE c[x] = p[x] - 1)
    <3>1. p[x] \in Nat /\ c[x] \in Nat /\ p[x] <= Size[x] /\ Size[x] \in Nat
      BY <1>2, <1>3
    <3>2. x \in Int /\ axis \in Int
      BY <1>1 DEF Axes
    <3>3. CASE layer' = layer + 1 /\ axis' = axis
      BY <1>1, <3>1, <3>2, <3>3 DEF Cumulative
    <3>4. CASE layer' = 1 /\ axis' = axis + 1 /\ layer = Size[axis]
      BY <1>1, <3>1, <3>2, <3>4 DEF Cumulative
    <3> QED BY <1>1, <3>3, <3>4
  <2> QED BY <2>1 DEF Box
<1>5. \A p \in Points : SumOf(Box(p))' = SumOf(Box(p)')
  BY <1>1 DEF SumOf
<1>6. \A p \in Points : /\ prefix[p] = SumOf(Box(p)) % Word
                        /\ SumOf(Box(p)) \in Int /\ Box(p) \in SUBSET Cells
  <2>1. axis > 0
    BY <1>1 DEF Axes
  <2>2. \A p \in Points : Box(p) \in SUBSET Cells
    BY DEF Box
  <2>3. \A p \in Points : SumOf(Box(p)) \in Int
    BY <2>2, SumOfRecords
  <2> QED BY <2>1, <2>2, <2>3 DEF SweepsExact, Box
<1> SUFFICES ASSUME NEW p \in Points
             PROVE  prefix'[p] = SumOf(Box(p)') % Word
  BY <1>5 DEF SweepsExact, Box
<1>7. CASE p[axis] # layer
  <2>1. ~ Swept(p)
    BY <1>7 DEF Swept
  <2>2. ASSUME NEW c \in Cells PROVE After(p, c) <=> c \in Box(p)
    <3>1. \A x \in Axes : (x < axis \/ (x = axis /\ p[x] <= layer))
                             <=> Cumulative(p, x)
      BY <1>1, <1>2, <1>7 DEF Cumulative, Axes
    <3> QED BY <3>1 DEF Box
  <2>3. Box(p)' = Box(p)
    BY <1>4, <2>2 DEF Box
  <2> QED BY <1>1, <1>6, <2>1, <2>3
<1>8. CASE p[axis] = layer /\ ~ Swept(p)
  <2>1. PICK y \in Axes : y > axis /\ p[y] = 0
    BY <1>2, <1>8 DEF Swept
  <2>2. ASSUME NEW c \in Cells PROVE ~ After(p, c) /\ c \notin Box(p)
    <3>1. c[y] # p[y] - 1 /\ ~ (y < axis) /\ y # axis
      BY <1>1, <1>3, <2>1 DEF Axes
    <3> QED BY <3>1 DEF Box, Cumulative
  <2>3. Box(p)' = Box(p)
    BY <1>4, <2>2 DEF Box
  <2> QED BY <1>1, <1>6, <1>8, <2>3
<1>9. CASE p[axis] = layer /\ Swept(p)
  <2> DEFINE q == Lower(p, axis)
  <2>1. /\ q \in Points /\ q[axis] = layer - 1
        /\ \A x \in Axes \ {axis} : q[x] = p[x]
    BY <1>1, <1>9, LowerPoint
  <2> HIDE DEF q
  <2>2. ASSUME NEW c \in Cells
        PROVE  /\ c \in Box(p) <=> After(p, c) /\ c[axis] = layer - 1
               /\ c \in Box(q) <=> After(p, c) /\ c[axis] < layer - 1
    <3>1. c[axis] \in Nat
      BY <1>1, <1>3
    <3>2. After(p, c) <=>
            /\ c[axis] < layer
            /\ \A x \in Axes \ {axis} :
                IF x < axis THEN c[x] < p[x] ELSE c[x] = p[x] - 1
      BY <1>1, <1>9
    <3>3. c \in Box(p) <=>
            /\ c[axis] = layer - 1
            /\ \A x \in Axes \ {axis} :
                IF x < axis THEN c[x] < p[x] ELSE c[x] = p[x] - 1
      BY <1>1, <1>9 DEF Box, Cumulative, Axes
    <3>4. c \in Box(q) <=>
            /\ c[axis] < layer - 1
            /\ \A x \in Axes \ {axis} :
                IF x < axis THEN c[x] < p[x] ELSE c[x] = p[x] - 1
      BY <1>1, <2>1 DEF Box, Cumulative, Axes
    <3> HIDE DEF After
    <3> QED BY <1>1, <3>1, <3>2, <3>3, <3>4
  <2>3. ASSUME NEW c \in Cells, After(p, c)
        PROVE  c[axis] = layer - 1 \/ c[axis] < layer - 1
    BY <1>1, <1>3, <1>9, <2>3 DEF Axes
  <2>4. Box(p)' = Box(p) \cup Box(q) /\ Box(p) \cap Box(q) = {}
    <3>1. \A c \in Cells : c \in Box(p)' <=> c \in Box(p) \/ c \in Box(q)
      BY <1>4, <2>2, <2>3
    <3>2. \A c \in Cells : ~ (c \in Box(p) /\ c \in Box(q))
      BY <1>1, <2>2
    <3>3. Box(p) \subseteq Cells /\ Box(q) \subseteq Cells /\ Box(p)' \subseteq Cells
      BY DEF Box
    <3> QED BY <3>1, <3>2, <3>3
  <2>5. SumOf(Box(p)') = SumOf(Box(p)) + SumOf(Box(q))
    BY <1>6, <2>1, <2>4, SumOfRecords
  <2>6. prefix'[p] = ((SumOf(Box(p)) % Word) + (SumOf(Box(q)) % Word)) % Word
    BY <1>1, <1>6, <1>9, <2>1 DEF q
  <2> QED BY <1>6, <2>1, <2>5, <2>6, ModSum, WordType
<1> QED BY <1>7, <1>8, <1>9

\* Every step keeps the sums exact.
LEMMA NextSums ==
    ASSUME TypeOK, LayerInv, SweepsExact, [Next]_vars
    PROVE  SweepsExact'
<1>1. CASE UNCHANGED vars
  BY <1>1 DEF vars, SweepsExact, SumOf, Cumulative
<1> QED BY <1>1, PlaceSums, SweepSums DEF Next

(***************************************************************************)
(* Half-way through the sweeps every entry is the sum, modulo the word, of *)
(* the buckets of a box, for every grid and every size of the buckets.     *)
(***************************************************************************)
THEOREM SweepsAreExact == Spec => []SweepsExact
<1>1. Init => SweepsExact
  BY DEF Init, SweepsExact
<1> QED BY <1>1, InitTypes, NextTypes, NextSums, PTL DEF Spec

-----------------------------------------------------------------------------
(***************************************************************************)
(* The count of a window.  The corners are taken in one axis at a time:    *)
(* Term(lo, hi, A, k) is the sum over the corners that are low on the axes *)
(* of A and on any of the first k, and Part(lo, hi, A, k) are the buckets  *)
(* it counts, those of the window on the first k axes.                     *)
(***************************************************************************)
Corners(lo, hi, A, k) ==
    [S \in SUBSET (1 .. k) |-> Sign(S) * prefix[Corner(lo, hi, S \cup A)]]

Term(lo, hi, A, k) == Sum(Corners(lo, hi, A, k), SUBSET (1 .. k))

Part(lo, hi, A, k) ==
    {c \in Cells : \A x \in Axes :
        IF x <= k THEN lo[x] <= c[x] /\ c[x] <= hi[x]
        ELSE IF x \in A THEN c[x] < lo[x] ELSE c[x] <= hi[x]}

\* Equal numbers of the arithmetic of uint32.
Congruent(a, b) == \E z \in Int : a = z * Word + b

\* Every corner of a window is a point of the array.
LEMMA CornerPoint ==
    ASSUME NEW lo \in Cells, NEW hi \in Cells, NEW S
    PROVE  Corner(lo, hi, S) \in Points
<1>1. \A x \in Axes : /\ lo[x] \in Nat /\ lo[x] < Size[x]
                     /\ hi[x] \in Nat /\ hi[x] < Size[x] /\ Size[x] \in Nat
  BY CellIs, SizeType
<1>2. Corner(lo, hi, S) \in [Axes -> Nat]
  BY <1>1 DEF Corner
<1>3. \A x \in Axes : Corner(lo, hi, S)[x] <= Size[x]
  BY <1>1 DEF Corner
<1> QED BY <1>2, <1>3, PointIs

\* One more low axis turns the sign.
LEMMA SignTurns ==
    ASSUME NEW k \in Axes, NEW S \in SUBSET (1 .. (k - 1))
    PROVE  /\ Sign(S) \in Int /\ Sign(S \cup {k}) = -Sign(S)
           /\ Sign({}) = 1
<1>1. k \in Nat /\ k <= 6 /\ k - 1 \in Int /\ 1 <= k
  BY DEF Axes
<1>2. IsFiniteSet(1 .. (k - 1)) /\ Cardinality(1 .. (k - 1)) = k - 1
  BY <1>1, FS_Interval
<1>3. IsFiniteSet(S) /\ Cardinality(S) <= k - 1 /\ Cardinality(S) \in Nat
  BY <1>2, FS_Subset, FS_CardinalityType
<1>4. k \notin S
  BY <1>1
<1>5. Cardinality(S \cup {k}) = Cardinality(S) + 1
  BY <1>3, <1>4, FS_AddElement
<1>6. Cardinality({}) = 0
  BY FS_EmptySet
<1> HIDE DEF Axes
<1>7. Cardinality(S) \in {0, 1, 2, 3, 4, 5}
  BY <1>1, <1>3
<1> QED BY <1>5, <1>6, <1>7 DEF Sign

\* The corners of the k-th axis come from those of the axes before: the high
\* ones less the low ones.
LEMMA TermStep ==
    ASSUME TypeOK, NEW lo \in Cells, NEW hi \in Cells,
           NEW k \in Axes, NEW A
    PROVE  /\ Term(lo, hi, A, k) \in Int
           /\ Term(lo, hi, A, k - 1) \in Int
           /\ Term(lo, hi, A, k) =
                Term(lo, hi, A, k - 1) - Term(lo, hi, A \cup {k}, k - 1)
<1> DEFINE B == A \cup {k}
           U == SUBSET (1 .. (k - 1))
           V == {S \cup {k} : S \in U}
           F == Corners(lo, hi, A, k)
           G == Corners(lo, hi, A, k - 1)
           H == Corners(lo, hi, B, k - 1)
           same == [S \in U |-> S]
           low == [S \in U |-> S \cup {k}]
<1>1. k \in Nat /\ k - 1 \in Nat /\ 1 .. k = (1 .. (k - 1)) \cup {k}
  BY DEF Axes
<1>2. k \notin 1 .. (k - 1)
  BY <1>1
<1>3. SUBSET (1 .. k) = U \cup V /\ U \cap V = {}
  <2>1. ASSUME NEW S \in SUBSET (1 .. k) PROVE S \in U \cup V
    <3>1. CASE k \in S
      <4>1. S \ {k} \in U /\ S = (S \ {k}) \cup {k}
        BY <1>1, <3>1
      <4> QED BY <4>1
    <3>2. CASE k \notin S
      BY <1>1, <3>2
    <3> QED BY <3>1, <3>2
  <2>2. ASSUME NEW S \in U PROVE S \in SUBSET (1 .. k) /\ S \cup {k} \in SUBSET (1 .. k)
    BY <1>1
  <2>3. U \cap V = {}
    BY <1>2
  <2>4. \A T \in V : T \in SUBSET (1 .. k)
    BY <2>2
  <2> HIDE DEF V
  <2> QED BY <2>1, <2>2, <2>3, <2>4
<1>4. \A S : prefix[Corner(lo, hi, S)] \in Int
  BY CornerPoint, WordType DEF TypeOK
<1>5. \A S \in U : Sign(S) \in Int /\ Sign(S \cup {k}) = -Sign(S)
  BY SignTurns
<1>6. /\ \A S \in U \cup V : F[S] \in Int
      /\ \A S \in U : /\ G[S] \in Int /\ H[S] \in Int
                      /\ F[S] = G[S] /\ H[S] = -F[S \cup {k}]
  <2>1. ASSUME NEW S \in U
        PROVE  /\ F[S] = Sign(S) * prefix[Corner(lo, hi, S \cup A)]
               /\ G[S] = Sign(S) * prefix[Corner(lo, hi, S \cup A)]
               /\ H[S] = Sign(S) * prefix[Corner(lo, hi, S \cup B)]
               /\ F[S \cup {k}] =
                    (-Sign(S)) * prefix[Corner(lo, hi, S \cup B)]
    <3>1. S \in SUBSET (1 .. k) /\ S \cup {k} \in SUBSET (1 .. k)
      BY <1>1
    <3>2. (S \cup {k}) \cup A = S \cup B
      OBVIOUS
    <3> QED BY <1>5, <3>1, <3>2 DEF Corners
  <2>2. ASSUME NEW S \in U
        PROVE  /\ F[S] \in Int /\ F[S \cup {k}] \in Int
               /\ G[S] \in Int /\ H[S] \in Int
               /\ F[S] = G[S] /\ H[S] = -F[S \cup {k}]
    <3> DEFINE s == Sign(S)
               p == prefix[Corner(lo, hi, S \cup A)]
               q == prefix[Corner(lo, hi, S \cup B)]
    <3>1. s \in Int /\ p \in Int /\ q \in Int
      BY <1>4, <1>5
    <3>2. /\ F[S] = s * p /\ G[S] = s * p /\ H[S] = s * q
          /\ F[S \cup {k}] = (-s) * q
      BY <2>1
    <3> HIDE DEF s, p, q, F, G, H
    <3>3. s * p \in Int /\ s * q \in Int /\ (-s) * q = -(s * q)
      BY <3>1
    <3> QED BY <3>2, <3>3
  <2> HIDE DEF F, G, H
  <2> QED BY <2>2
<1>7. IsFiniteSet(U)
  <2>1. IsFiniteSet(1 .. (k - 1))
    BY <1>1, FS_Interval
  <2> QED BY <2>1, FS_SUBSET
<1>8. low \in Bijection(U, V) /\ same \in Bijection(U, U)
  <2>1. low \in [U -> V] /\ \A T \in V : \E S \in U : low[S] = T
    OBVIOUS
  <2>2. \A S, T \in U : low[S] = low[T] => S = T
    <3>1. \A S \in U : low[S] \ {k} = S
      BY <1>2
    <3> QED BY <3>1
  <2>3. /\ same \in [U -> U] /\ \A T \in U : \E S \in U : same[S] = T
        /\ \A S, T \in U : same[S] = same[T] => S = T
    OBVIOUS
  <2> HIDE DEF low, same, U, V
  <2> QED BY <2>1, <2>2, <2>3, Fun_IsBij
<1>9. IsFiniteSet(V)
  BY <1>7, <1>8, FS_Bijection DEF ExistsBijection
<1> HIDE DEF U, F, G, H
<1>10. Sum(G, U) = 1 * Sum(F, U)
  <2>1. ASSUME NEW S \in U PROVE G[S] = 1 * F[S]
    <3>1. F[S] \in Int /\ G[S] = F[S]
      BY <1>6
    <3> QED BY <3>1
  <2>2. \A S \in U : G[S] = 1 * F[same[S]]
    BY <2>1
  <2>3. 1 \in Int /\ \A S \in U : F[S] \in Int
    BY <1>6
  <2> HIDE DEF same
  <2> QED BY <1>7, <1>8, <2>2, <2>3, SumRenamed
<1>11. /\ Sum(F, U) \in Int /\ Sum(F, V) \in Int
       /\ Sum(G, U) \in Int /\ Sum(H, U) \in Int
  BY <1>6, <1>7, <1>9, SumType
<1>12. Sum(H, U) = -Sum(F, V)
  <2>1. PICK minus \in Int : minus = -1
    OBVIOUS
  <2>2. ASSUME NEW S \in U PROVE H[S] = minus * F[low[S]]
    <3>1. low[S] = S \cup {k} /\ S \cup {k} \in V
      OBVIOUS
    <3>2. H[S] = -F[S \cup {k}] /\ F[S \cup {k}] \in Int
      BY <1>6, <3>1
    <3> HIDE DEF low
    <3> QED BY <2>1, <3>1, <3>2
  <2>3. \A S \in V : F[S] \in Int
    BY <1>6
  <2> HIDE DEF low
  <2>4. Sum(H, U) = minus * Sum(F, V)
    BY <1>7, <1>8, <2>2, <2>3, SumRenamed
  <2> QED BY <1>11, <2>1, <2>4
<1>13. Sum(F, U \cup V) = Sum(F, U) + Sum(F, V)
  BY <1>3, <1>6, <1>7, <1>9, SumDisjoint
<1>14. /\ Term(lo, hi, A, k) = Sum(F, U \cup V)
       /\ Term(lo, hi, A, k - 1) = Sum(G, U)
       /\ Term(lo, hi, B, k - 1) = Sum(H, U)
  BY <1>3 DEF Term, F, G, H, U
<1> QED BY <1>10, <1>11, <1>12, <1>13, <1>14

\* With every axis still open, the corner holds the sum of its part.
LEMMA TermOfNone ==
    ASSUME TypeOK, SweepsExact, axis = 7,
           NEW lo \in Cells, NEW hi \in Cells, NEW A
    PROVE  Congruent(Term(lo, hi, A, 0), SumOf(Part(lo, hi, A, 0)))
<1> DEFINE p == Corner(lo, hi, A)
           F == Corners(lo, hi, A, 0)
<1>1. p \in Points
  BY CornerPoint
<1>2. \A x \in Axes : p[x] = IF x \in A THEN lo[x] ELSE hi[x] + 1
  BY DEF Corner
<1> HIDE DEF p
<1>3. SUBSET (1 .. 0) = {{}}
  OBVIOUS
<1>4. prefix[p] \in Int
  BY <1>1, WordType DEF TypeOK
<1>5. F[{}] = prefix[p]
  <2>1. Sign({}) = 1
    <3>1. 1 \in Axes /\ {} \in SUBSET (1 .. (1 - 1))
      BY DEF Axes
    <3> QED BY <3>1, SignTurns
  <2>2. {} \cup A = A
    OBVIOUS
  <2> QED BY <1>3, <1>4, <2>1, <2>2 DEF Corners, p
<1> HIDE DEF F
<1>6. Term(lo, hi, A, 0) = prefix[p]
  <2>0. Term(lo, hi, A, 0) = Sum(F, {{}})
    BY <1>3 DEF Term, F
  <2>1. IsFiniteSet({{}}) /\ {} \in {{}} /\ {{}} \ {{}} = {}
    BY FS_Singleton
  <2>2. \A x \in {{}} : F[x] \in Int
    BY <1>4, <1>5
  <2>3. Sum(F, {{}}) = F[{}] + Sum(F, {{}} \ {{}})
    BY <2>1, <2>2, SumTakeOut
  <2>4. Sum(F, {}) = 0
    BY FS_EmptySet, SumChosen
  <2>5. Sum(F, {{}}) = F[{}] + Sum(F, {})
    BY <2>1, <2>3
  <2>6. Sum(F, {{}}) = prefix[p]
    BY <1>4, <1>5, <2>4, <2>5
  <2> QED BY <2>0, <2>6
<1>7. Box(p) = Part(lo, hi, A, 0)
  <2>1. ASSUME NEW c \in Cells, NEW x \in Axes
        PROVE  (IF Cumulative(p, x) THEN c[x] < p[x] ELSE c[x] = p[x] - 1)
                 <=> (IF x <= 0 THEN lo[x] <= c[x] /\ c[x] <= hi[x]
                      ELSE IF x \in A THEN c[x] < lo[x] ELSE c[x] <= hi[x])
    <3>1. Cumulative(p, x) /\ ~ (x <= 0)
      BY DEF Cumulative, Axes
    <3>2. c[x] \in Nat /\ hi[x] \in Nat
      BY CellIs
    <3> QED BY <1>2, <3>1, <3>2
  <2> QED BY <2>1 DEF Box, Part
<1>8. prefix[p] = SumOf(Box(p)) % Word
  BY <1>1 DEF SweepsExact, Box
<1>9. SumOf(Box(p)) \in Int
  <2>1. Box(p) \in SUBSET Cells
    BY DEF Box
  <2> QED BY <2>1, SumOfRecords
<1>10. Congruent(SumOf(Box(p)) % Word, SumOf(Box(p)))
  <2> DEFINE s == SumOf(Box(p))
             d == s \div Word
             m == s % Word
  <2>1. d \in Int /\ m \in Int /\ s = d * Word + m
    BY <1>9, WordType, DivMod
  <2> HIDE DEF s, d, m
  <2>2. -d \in Int /\ s \in Int /\ m = (-d) * Word + s
    BY <2>1, WordType
  <2>3. Congruent(m, s)
    BY <2>2 DEF Congruent
  <2> QED BY <2>3 DEF m, s
<1> QED BY <1>6, <1>7, <1>8, <1>10

\* Closing an axis takes from the part what is below the window there.
LEMMA PartStep ==
    ASSUME TypeOK, NEW lo \in Cells, NEW hi \in Cells,
           \A x \in Axes : lo[x] <= hi[x],
           NEW k \in Axes, NEW A \in SUBSET Axes, \A x \in A : x > k
    PROVE  /\ SumOf(Part(lo, hi, A, k)) \in Int
           /\ SumOf(Part(lo, hi, A \cup {k}, k - 1)) \in Int
           /\ SumOf(Part(lo, hi, A, k - 1)) =
                SumOf(Part(lo, hi, A, k))
                + SumOf(Part(lo, hi, A \cup {k}, k - 1))
<1> DEFINE P == Part(lo, hi, A, k - 1)
           Q == Part(lo, hi, A, k)
           R == Part(lo, hi, A \cup {k}, k - 1)
<1>1. ASSUME NEW c \in Cells
      PROVE  /\ c \in Q <=> c \in P /\ lo[k] <= c[k]
             /\ c \in R <=> c \in P /\ c[k] < lo[k]
  <2> DEFINE Others == \A x \in Axes \ {k} :
                IF x <= k THEN lo[x] <= c[x] /\ c[x] <= hi[x]
                ELSE IF x \in A THEN c[x] < lo[x] ELSE c[x] <= hi[x]
  <2>1. /\ k \in Int /\ \A x \in Axes : x \in Int
        /\ \A x \in Axes \ {k} : x <= k - 1 <=> x <= k
        /\ k \notin A /\ ~ (k <= k - 1)
    BY DEF Axes
  <2>2. c \in Q <=> Others /\ lo[k] <= c[k] /\ c[k] <= hi[k]
    BY <2>1 DEF Part
  <2>3. c \in P <=> Others /\ c[k] <= hi[k]
    BY <2>1 DEF Part
  <2>4. c \in R <=> Others /\ c[k] < lo[k]
    BY <2>1 DEF Part
  <2>5. /\ c[k] \in Nat /\ lo[k] \in Nat /\ hi[k] \in Nat /\ lo[k] <= hi[k]
    BY CellIs
  <2> HIDE DEF Others, P, Q, R
  <2> QED BY <2>2, <2>3, <2>4, <2>5
<1>2. P \in SUBSET Cells /\ Q \in SUBSET Cells /\ R \in SUBSET Cells
  BY DEF Part
<1> HIDE DEF P, Q, R
<1>3. \A c \in Cells : c[k] \in Nat /\ lo[k] \in Nat
  BY CellIs
<1>4. P = Q \cup R /\ Q \cap R = {}
  <2>1. \A c \in Cells : c \in P <=> c \in Q \/ c \in R
    BY <1>1, <1>3
  <2>2. \A c \in Cells : ~ (c \in Q /\ c \in R)
    BY <1>1, <1>3
  <2> QED BY <1>2, <2>1, <2>2
<1>5. SumOf(P) = SumOf(Q) + SumOf(R) /\ SumOf(Q) \in Int /\ SumOf(R) \in Int
  BY <1>2, <1>4, SumOfRecords
<1> QED BY <1>5 DEF P, Q, R

\* So closing an axis keeps a term congruent to its part.
LEMMA Closed ==
    ASSUME TypeOK, NEW lo \in Cells, NEW hi \in Cells,
           \A x \in Axes : lo[x] <= hi[x],
           NEW k \in Axes,
           \A B \in SUBSET Axes : (\A x \in B : x > k - 1) =>
                Congruent(Term(lo, hi, B, k - 1), SumOf(Part(lo, hi, B, k - 1)))
    PROVE  \A A \in SUBSET Axes : (\A x \in A : x > k) =>
                Congruent(Term(lo, hi, A, k), SumOf(Part(lo, hi, A, k)))
<1> SUFFICES ASSUME NEW A \in SUBSET Axes, \A x \in A : x > k
             PROVE  Congruent(Term(lo, hi, A, k), SumOf(Part(lo, hi, A, k)))
  OBVIOUS
<1> DEFINE B == A \cup {k}
           t == Term(lo, hi, A, k)
           u == Term(lo, hi, A, k - 1)
           v == Term(lo, hi, B, k - 1)
           p == SumOf(Part(lo, hi, A, k))
           q == SumOf(Part(lo, hi, A, k - 1))
           r == SumOf(Part(lo, hi, B, k - 1))
<1>1. B \in SUBSET Axes /\ (\A x \in A : x > k - 1) /\ (\A x \in B : x > k - 1)
  BY DEF Axes
<1>2. Congruent(u, q) /\ Congruent(v, r)
  BY <1>1
<1>3. /\ t \in Int /\ u \in Int /\ t = u - v
      /\ p \in Int /\ r \in Int /\ q = p + r
  BY TermStep, PartStep
<1> HIDE DEF t, u, v, p, q, r
<1>4. PICK y \in Int : u = y * Word + q
  BY <1>2 DEF Congruent
<1>5. PICK z \in Int : v = z * Word + r
  BY <1>2 DEF Congruent
<1>6. t = (y - z) * Word + p /\ y - z \in Int
  <2>1. /\ y * Word \in Int /\ z * Word \in Int
        /\ (y - z) * Word = y * Word - z * Word
    BY <1>4, <1>5, WordType
  <2> QED BY <1>3, <1>4, <1>5, <2>1
<1>7. Congruent(t, p)
  BY <1>6 DEF Congruent
<1> QED BY <1>7 DEF t, p

\* The 64 corners of a window count its records.
LEMMA WindowTotal ==
    ASSUME TypeOK, SweepsExact, axis = 7,
           NEW lo \in Cells, NEW hi \in Cells, \A x \in Axes : lo[x] <= hi[x]
    PROVE  Congruent(Term(lo, hi, {}, 6), SumOf(Part(lo, hi, {}, 6)))
<1> DEFINE Good(k) ==
              \A A \in SUBSET Axes : (\A x \in A : x > k) =>
                Congruent(Term(lo, hi, A, k), SumOf(Part(lo, hi, A, k)))
<1>1. Good(0)
  BY TermOfNone
<1>2. ASSUME NEW k \in Axes, Good(k - 1) PROVE Good(k)
  BY <1>2, Closed
<1>3. /\ 1 - 1 = 0 /\ 2 - 1 = 1 /\ 3 - 1 = 2 /\ 4 - 1 = 3 /\ 5 - 1 = 4 /\ 6 - 1 = 5
      /\ 1 \in Axes /\ 2 \in Axes /\ 3 \in Axes
      /\ 4 \in Axes /\ 5 \in Axes /\ 6 \in Axes
  BY DEF Axes
<1> HIDE DEF Good
<1>4. Good(1) /\ Good(2)
  BY <1>1, <1>2, <1>3
<1>5. Good(3) /\ Good(4)
  BY <1>2, <1>3, <1>4
<1>6. Good(5) /\ Good(6)
  BY <1>2, <1>3, <1>5
<1> QED BY <1>6 DEF Good

(***************************************************************************)
(* The count of every window is the number of records in its buckets, for  *)
(* every grid and whatever the sums have wrapped around to on the way, as  *)
(* long as that number itself is below the word.                           *)
(***************************************************************************)
THEOREM WindowsAreCounted == Spec => []WindowCountExact
<1>1. ASSUME TypeOK, SweepsExact, axis = 7, NEW lo \in Cells, NEW hi \in Cells,
             \A x \in Axes : lo[x] <= hi[x]
      PROVE  LET records == SumOf({c \in Cells : \A x \in Axes :
                                    lo[x] <= c[x] /\ c[x] <= hi[x]})
             IN  records < Word =>
                    CountBucketWindowCandidates(lo, hi) = records
  <2> DEFINE w == {c \in Cells : \A x \in Axes :
                      lo[x] <= c[x] /\ c[x] <= hi[x]}
  <2>1. Part(lo, hi, {}, 6) = w
    BY DEF Part, Axes
  <2>2. CountBucketWindowCandidates(lo, hi) = Term(lo, hi, {}, 6) % Word
    <3>1. \A S \in SUBSET Axes : S \cup {} = S
      OBVIOUS
    <3>2. [S \in SUBSET Axes |-> Sign(S) * prefix[Corner(lo, hi, S)]]
            = [S \in SUBSET Axes |-> Sign(S) * prefix[Corner(lo, hi, S \cup {})]]
      BY <3>1
    <3> QED BY <3>2 DEF CountBucketWindowCandidates, Term, Corners, Axes
  <2>3. SumOf(w) \in Nat
    <3>1. w \in SUBSET Cells
      OBVIOUS
    <3> HIDE DEF w
    <3> QED BY <1>1, <3>1, SumOfRecords
  <2>4. PICK z \in Int : Term(lo, hi, {}, 6) = z * Word + SumOf(w)
    BY <1>1, <2>1, WindowTotal DEF Congruent
  <2>5. SumOf(w) < Word => (z * Word + SumOf(w)) % Word = SumOf(w)
    BY <2>3, WordType, ModOf
  <2> HIDE DEF w
  <2>6. SumOf(w) < Word => CountBucketWindowCandidates(lo, hi) = SumOf(w)
    BY <2>2, <2>4, <2>5
  <2> QED BY <2>6 DEF w
<1>2. TypeOK /\ SweepsExact => WindowCountExact
  BY <1>1 DEF WindowCountExact
<1>3. Init => SweepsExact
  BY DEF Init, SweepsExact
<1> QED BY <1>2, <1>3, InitTypes, NextTypes, NextSums, PTL DEF Spec
=============================================================================
