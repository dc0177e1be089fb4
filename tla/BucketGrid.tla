----------------------------- MODULE BucketGrid -----------------------------
(***************************************************************************)
(* The grid of buckets that the reference vectors are sorted into          *)
(* (internal/dataset/index.go): six axes, each cut into equal buckets, and *)
(* the windows around a query that the search walks (internal/fraud).      *)
(***************************************************************************)
EXTENDS Integers, Sequences

CONSTANT
    Size    \* number of buckets of each axis, in the order of bucketID

Axes == 1 .. 6

ASSUME SizeAssumption == Size \in [Axes -> Nat \ {0}]

\* The buckets, by their coordinates.
Cells ==
    {<<a, m, k, t, v, r>> :
        a \in 0 .. (Size[1] - 1), m \in 0 .. (Size[2] - 1),
        k \in 0 .. (Size[3] - 1), t \in 0 .. (Size[4] - 1),
        v \in 0 .. (Size[5] - 1), r \in 0 .. (Size[6] - 1)}

BucketID(c) ==
    ((((c[1] * Size[2] + c[2]) * Size[3] + c[3]) * Size[4] + c[4]) * Size[5]
        + c[5]) * Size[6] + c[6]

BucketIndexCount ==
    Size[1] * Size[2] * Size[3] * Size[4] * Size[5] * Size[6]

Buckets == 0 .. (BucketIndexCount - 1)

BucketRangeStart(center, radius) ==
    IF center - radius < 0 THEN 0 ELSE center - radius

\* Mutant: the end of the range is taken as exclusive.
BucketRangeEndOpen(center, count, radius) ==
    IF center + radius >= count THEN count - 1 ELSE center + radius - 1

BucketRangeEnd(center, count, radius) ==
    IF center + radius >= count THEN count - 1 ELSE center + radius

\* The cells of the nested loops at one radius.
Window(center, radius) ==
    {c \in Cells : \A x \in Axes :
        /\ BucketRangeStart(center[x], radius) <= c[x]
        /\ c[x] <= BucketRangeEnd(center[x], Size[x], radius)}

\* The loops visit the cells of a window in the order of the six coordinates.
Before(c, d) ==
    \E x \in Axes :
        /\ c[x] < d[x]
        /\ \A y \in 1 .. (x - 1) : c[y] = d[y]

First(cs) == CHOOSE c \in cs : \A d \in cs \ {c} : Before(c, d)
=============================================================================
