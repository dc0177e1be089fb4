----------------------------- MODULE PrefixSums -----------------------------
(***************************************************************************)
(* The six-dimensional prefix sums of the bucket sizes                     *)
(* (internal/dataset/index.go): built once per loaded store, so that the   *)
(* number of records in a window is read off its corners.                  *)
(*                                                                         *)
(* buildBucketPrefixSums places the size of every bucket and then sweeps   *)
(* the array once along each axis.  Entries of one layer do not depend on  *)
(* each other, so a step of the model is the sweep of a layer.             *)
(***************************************************************************)
EXTENDS BucketGrid, FiniteSets, FiniteSetsExt

CONSTANTS
    Counts,     \* sizes a bucket may have
    Word        \* 2^32, the sums wrap around

ASSUME PrefixAssumption == Counts \subseteq Nat /\ Word \in Nat \ {0}

\* The array has one layer more than the grid along each axis; prefixIndex is
\* bucketID of that larger grid, so every point has an entry of its own
\* (CellsHaveOwnBuckets).
Extended == INSTANCE BucketGrid WITH Size <- [x \in Axes |-> Size[x] + 1]

Points == Extended!Cells

VARIABLES
    counts,     \* the sizes of the buckets
    prefix,     \* the array
    axis,       \* the axis swept, 0 before the sizes are placed, 7 at the end
    layer       \* the layer it has come to

vars == <<counts, prefix, axis, layer>>

Init ==
    /\ counts \in [Cells -> Counts]
    /\ prefix = [p \in Points |-> 0]
    /\ axis = 0
    /\ layer = 1

\* The bucket whose size is placed at a point.
Below(p) == [x \in Axes |-> p[x] - 1]

Place ==
    /\ axis = 0
    /\ prefix' = [p \in Points |->
                    IF Below(p) \in Cells THEN counts[Below(p)] % Word ELSE 0]
    /\ axis' = 1
    /\ UNCHANGED <<counts, layer>>

\* Mutant: the loop along the axis ends one layer early.
SweptBeforeLast(p) ==
    /\ p[axis] = layer /\ layer < Size[axis]
    /\ \A y \in Axes : y > axis => p[y] >= 1

\* The points the loops along an axis visit in one layer: from 0 on the axes
\* swept before, from 1 on those still to be swept.
Swept(p) ==
    /\ p[axis] = layer
    /\ \A y \in Axes : y > axis => p[y] >= 1

\* Mutant: the sum of one layer is not wrapped.
SweepLayerWide ==
    /\ axis \in Axes
    /\ prefix' = [p \in Points |->
                    IF Swept(p)
                    THEN prefix[p] + prefix[[p EXCEPT ![axis] = @ - 1]]
                    ELSE prefix[p]]
    /\ IF layer < Size[axis]
       THEN layer' = layer + 1 /\ UNCHANGED axis
       ELSE layer' = 1 /\ axis' = axis + 1
    /\ UNCHANGED counts

SweepLayer ==
    /\ axis \in Axes
    /\ prefix' = [p \in Points |->
                    IF Swept(p)
                    THEN (prefix[p] + prefix[[p EXCEPT ![axis] = @ - 1]]) % Word
                    ELSE prefix[p]]
    /\ IF layer < Size[axis]
       THEN layer' = layer + 1 /\ UNCHANGED axis
       ELSE layer' = 1 /\ axis' = axis + 1
    /\ UNCHANGED counts

Next == Place \/ SweepLayer

Spec == Init /\ [][Next]_vars

\* Mutant: the low corners are taken at the start of the window, the high ones
\* at its end.
CornerInside(lo, hi, S) == [x \in Axes |-> IF x \in S THEN lo[x] ELSE hi[x]]

Corner(lo, hi, S) == [x \in Axes |-> IF x \in S THEN lo[x] ELSE hi[x] + 1]

\* The sum of a function over a set.
Sum(f, S) == MapThenSumSet(LAMBDA x : f[x], S)

\* A corner counts against the total when it is low on an odd number of axes.
Sign(S) == IF Cardinality(S) \in {1, 3, 5} THEN -1 ELSE 1

\* Inclusion and exclusion over the 64 corners of the window from lo to hi, in
\* the arithmetic of uint32.
CountBucketWindowCandidates(lo, hi) ==
    Sum([S \in SUBSET Axes |-> Sign(S) * prefix[Corner(lo, hi, S)]],
        SUBSET Axes) % Word

-----------------------------------------------------------------------------
SumOf(cs) == Sum(counts, cs)

TypeOK ==
    /\ counts \in [Cells -> Counts]
    /\ prefix \in [Points -> 0 .. (Word - 1)]
    /\ axis \in 0 .. 7
    /\ layer \in Nat

\* Half-way through the sweeps every entry is the sum of a box: along an axis
\* already swept for it, of the buckets before its point, along the others of
\* the one bucket below it (index.go:246-362, 373-489).
Cumulative(p, x) == x < axis \/ (x = axis /\ p[x] < layer)

SweepsExact ==
    axis > 0 => \A p \in Points :
        prefix[p] =
            SumOf({c \in Cells : \A x \in Axes :
                        IF Cumulative(p, x) THEN c[x] < p[x]
                                            ELSE c[x] = p[x] - 1}) % Word

\* The count of every window is the number of records in its buckets, even
\* when sums of the array have wrapped around (index.go:40-128).
WindowCountExact ==
    axis = 7 => \A lo, hi \in Cells :
        (\A x \in Axes : lo[x] <= hi[x]) =>
            LET records == SumOf({c \in Cells : \A x \in Axes :
                                    lo[x] <= c[x] /\ c[x] <= hi[x]})
            IN  records < Word =>
                    CountBucketWindowCandidates(lo, hi) = records
=============================================================================
