---------------------------- MODULE NumberLemmas ----------------------------
(***************************************************************************)
(* What the proofs of several modules need of numbers.                     *)
(*                                                                         *)
(* Every non-empty set of naturals has a least element.  The library       *)
(* states it of predicates (SmallestNatural); the proofs here need it of a *)
(* set, and get it from the well-foundedness of strict inclusion between   *)
(* the intervals 1 .. x.  And what the remainders are that the wrapping    *)
(* integers of the code leave.                                             *)
(***************************************************************************)
EXTENDS Integers, FiniteSetTheorems, TLAPS

\* A set of naturals that is not empty has a least element.
LEMMA LeastExists ==
    ASSUME NEW T \in SUBSET Nat, T # {}
    PROVE  \E x \in T : \A y \in T : x <= y
<1> DEFINE Upto(x) == 1 .. x
           Intervals == {Upto(x) : x \in T}
<1>1. \E k \in Intervals : \A m \in Intervals :
            <<m, k>> \notin StrictSubsetOrdering(Nat)
  <2>1. Intervals # {}
    OBVIOUS
  <2>2. Intervals \subseteq FiniteSubsetsOf(Nat)
    BY FS_Interval DEF FiniteSubsetsOf
  <2>3. IsWellFoundedOn(StrictSubsetOrdering(Nat), FiniteSubsetsOf(Nat))
    BY FS_StrictSubsetOrderingWellFounded
  <2> HIDE DEF Intervals
  <2> QED BY <2>1, <2>2, <2>3, WFMin
<1>2. PICK x \in T : \A m \in Intervals :
            <<m, Upto(x)>> \notin StrictSubsetOrdering(Nat)
  BY <1>1
<1>3. ASSUME NEW y \in T, y < x PROVE FALSE
  <2>1. Upto(y) \in Intervals
    OBVIOUS
  <2>2. Upto(y) \subseteq Upto(x) /\ x \notin Upto(y) /\ x \in Upto(x)
    BY <1>3
  <2>3. <<Upto(y), Upto(x)>> \in StrictSubsetOrdering(Nat)
    BY <2>2 DEF StrictSubsetOrdering
  <2> QED BY <2>1, <2>3, <1>2
<1> QED BY <1>3

-----------------------------------------------------------------------------
\* Division with remainder.
LEMMA DivMod ==
    ASSUME NEW a \in Int, NEW w \in Nat \ {0}
    PROVE  /\ a \div w \in Int /\ a % w \in Int
           /\ a = (a \div w) * w + (a % w)
           /\ 0 <= a % w /\ a % w < w
OBVIOUS

\* A remainder is a number below the divisor.
LEMMA ModType ==
    ASSUME NEW a \in Int, NEW w \in Nat \ {0}
    PROVE  a % w \in 0 .. (w - 1)
BY DivMod

\* There is only one.
LEMMA ModUnique ==
    ASSUME NEW w \in Nat \ {0}, NEW q \in Int, NEW k \in Int, 
           NEW r \in Int, NEW s \in Int, 0 <= r, r < w, 0 <= s, s < w,
           q * w + r = k * w + s
    PROVE  r = s
<1>1. (q - k) * w = s - r
  OBVIOUS
<1>2. CASE q - k >= 1
  <2>1. (q - k) * w >= w
    BY <1>2
  <2> QED BY <1>1, <2>1
<1>3. CASE q - k <= -1
  <2>1. (q - k) * w <= -w
    BY <1>3
  <2> QED BY <1>1, <2>1
<1> QED BY <1>1, <1>2, <1>3

\* So a number that is written with one has it.
LEMMA ModOf ==
    ASSUME NEW w \in Nat \ {0}, NEW q \in Int,
           NEW r \in Int, 0 <= r, r < w
    PROVE  (q * w + r) % w = r
<1> DEFINE a == q * w + r
<1>1. a \in Int
  OBVIOUS
<1> HIDE DEF a
<1>2. /\ a \div w \in Int /\ a % w \in Int
      /\ a = (a \div w) * w + (a % w)
      /\ 0 <= a % w /\ a % w < w
  BY <1>1, DivMod
<1>3. a = q * w + r
  BY DEF a
<1>4. (a \div w) * w + (a % w) = q * w + r
  BY <1>2, <1>3
<1>5. a % w = r
  BY <1>2, <1>4, ModUnique
<1> QED BY <1>5 DEF a

\* Adding wrapped numbers and wrapping is wrapping their sum.
LEMMA ModSum ==
    ASSUME NEW a \in Int, NEW b \in Int, NEW w \in Nat \ {0}
    PROVE  ((a % w) + (b % w)) % w = (a + b) % w
<1> DEFINE x == a % w
           y == b % w
           z == (x + y) % w
           p == a \div w
           q == b \div w
           r == (x + y) \div w
<1>1. /\ p \in Int /\ x \in Int /\ a = p * w + x
      /\ q \in Int /\ y \in Int /\ b = q * w + y
  BY DivMod
<1>2. r \in Int /\ z \in Int /\ x + y = r * w + z /\ 0 <= z /\ z < w
  <2> HIDE DEF x, y
  <2> QED BY <1>1, DivMod
<1> HIDE DEF x, y, z, p, q, r
<1>3. a + b = (p + q + r) * w + z
  <2>1. (p + q + r) * w = p * w + q * w + r * w
    BY <1>1, <1>2
  <2>2. p * w \in Int /\ q * w \in Int /\ r * w \in Int
    BY <1>1, <1>2
  <2> QED BY <1>1, <1>2, <2>1, <2>2
<1>4. (a + b) % w = z
  <2>1. p + q + r \in Int
    BY <1>1, <1>2
  <2> QED BY <1>2, <1>3, <2>1, ModOf
<1> QED BY <1>4 DEF x, y, z

\* The places of a sequence are finite, and as many as it is long.
LEMMA UptoFinite ==
    ASSUME NEW n \in Nat
    PROVE  IsFiniteSet(1 .. n) /\ Cardinality(1 .. n) = n
<1>1. IsFiniteSet(1 .. n) /\ Cardinality(1 .. n) = IF 1 > n THEN 0 ELSE n - 1 + 1
  BY FS_Interval
<1>2. (IF 1 > n THEN 0 ELSE n - 1 + 1) = n
  OBVIOUS
<1> QED BY <1>1, <1>2
=============================================================================
