--------------------------- MODULE ReferenceStore ---------------------------
(***************************************************************************)
(* The reference dataset as the code holds it (internal/dataset): vector   *)
(* stores, the files they are loaded from, and what indexing, reordering,  *)
(* saving and loading do to them.                                          *)
(*                                                                         *)
(* A vector is its one component that decides its bucket, the other axes   *)
(* being alike: a float is a multiple of 1/Unit, a code one of Levels      *)
(* steps from -1 to 1.                                                     *)
(***************************************************************************)
EXTENDS Integers, Sequences, FiniteSets, SequencesExt

CONSTANTS
    Unit,           \* floats are n / Unit
    Levels,         \* 2^16, the number of codes
    BucketCount,    \* buckets of the axis
    CountWord,      \* 2^16, the counts of BucketMetadata wrap around
    Legit, Fraud,   \* labels; Legit is the zero byte
    Missing         \* no such file

ASSUME StoreAssumption ==
    /\ Unit \in Nat \ {0}
    /\ Levels \in Nat \ {0, 1}
    /\ BucketCount \in Nat \ {0}
    /\ BucketCount < Levels
    /\ CountWord \in Nat \ {0}
    /\ Legit # Fraud

Floats == -Unit .. Unit
Codes == 0 .. (Levels - 1)
Buckets == 0 .. (BucketCount - 1)

Absent == << >>

\* Mutant: the shift from -1 .. 1 to 0 .. 2 is left out.
QuantizeUnshifted(v) ==
    CASE v <= -Unit -> 0
      [] v >= Unit  -> Levels - 1
      [] OTHER      -> IF v <= 0 THEN 0
                       ELSE (v * (Levels - 1) + Unit) \div (2 * Unit)

\* QuantizeComponent: to the nearest code.
Quantize(v) ==
    CASE v <= -Unit -> 0
      [] v >= Unit  -> Levels - 1
      [] OTHER      -> ((v + Unit) * (Levels - 1) + Unit) \div (2 * Unit)

\* scalarBucket of num / den: what is not positive is in the first bucket.
ScalarBucket(num, den) ==
    IF num <= 0 THEN 0
    ELSE IF num >= den THEN BucketCount - 1
    ELSE (num * BucketCount) \div den

FloatBucket(v) == ScalarBucket(v, Unit)

\* quantizedScalarBucket: a code is taken back to code / scale - 1 first.
CodeBucket(c) == ScalarBucket(2 * c - (Levels - 1), Levels - 1)

(***************************************************************************)
(* A store has float or quantized vectors, or both; meta or an index of    *)
(* its buckets.  "of" is the dataset it stands for, which the program does *)
(* not keep.                                                               *)
(***************************************************************************)
Store(vectors, quantized, labels, meta, dataset) ==
    [vectors |-> vectors, quantized |-> quantized, labels |-> labels,
     count |-> Len(labels), meta |-> meta, index |-> Absent, of |-> dataset]

BucketOf(s, i) ==
    IF s.quantized # << >> THEN CodeBucket(s.quantized[i])
                           ELSE FloatBucket(s.vectors[i])

\* The members of a set of numbers, smallest first.
InOrder(S) ==
    [k \in 1 .. Cardinality(S) |->
        CHOOSE i \in S : Cardinality({j \in S : j <= i}) = k]

BuildBucketIndex(s) ==
    IF s.count = 0 THEN s
    ELSE IF s.meta # Absent THEN [s EXCEPT !.index = Absent]
    ELSE [s EXCEPT !.index = [b \in Buckets |->
            InOrder({i \in 1 .. s.count : BucketOf(s, i) = b})]]

CodeOf(s, i) ==
    IF s.quantized # << >> THEN s.quantized[i] ELSE Quantize(s.vectors[i])

\* The entries of the index, each by its bucket and its place there.
Entries(s) == {e \in Buckets \X (1 .. s.count) : e[2] <= Len(s.index[e[1]])}

\* currentOffset when the k-th record of a bucket has been copied.
OffsetAfter(s, b, k) ==
    Cardinality({e \in Entries(s) : e[1] < b \/ (e[1] = b /\ e[2] <= k)})

\* The entry that is copied to a place.
EntryFor(s, p) == CHOOSE e \in Entries(s) : OffsetAfter(s, e[1], e[2]) = p

\* The records in the order ReorderStoreByBucket copies them; none when the
\* store came with metadata, for then it has no index.
CopyOrder(s) ==
    IF s.index = Absent THEN << >>
    ELSE [p \in 1 .. Cardinality(Entries(s)) |->
            s.index[EntryFor(s, p)[1]][EntryFor(s, p)[2]]]

\* Mutant: the offset is that of the end of the bucket.
ReorderedMetaLate(s) ==
    [b \in Buckets |->
        IF s.index = Absent THEN [offset |-> 0, count |-> 0]
        ELSE LET n == Len(s.index[b]) % CountWord
             IN  [offset |-> OffsetAfter(s, b, Len(s.index[b])), count |-> n]]

\* Mutant: the count takes in the first record of the next bucket.
ReorderedMetaOver(s) ==
    [b \in Buckets |->
        IF s.index = Absent THEN [offset |-> 0, count |-> 0]
        ELSE LET n == Len(s.index[b]) % CountWord
             IN  [offset |-> OffsetAfter(s, b, Len(s.index[b])) - n,
                  count  |-> n + 1]]

ReorderedMeta(s) ==
    [b \in Buckets |->
        IF s.index = Absent THEN [offset |-> 0, count |-> 0]
        ELSE LET n == Len(s.index[b]) % CountWord
             IN  [offset |-> OffsetAfter(s, b, Len(s.index[b])) - n,
                  count  |-> n]]

\* Mutant: the labels stay where they are.
CopiedLabelsInPlace(s) == s.labels

\* What is not copied to stays zero: a legitimate record with all codes zero.
CopiedLabels(s) ==
    [i \in 1 .. s.count |->
        IF i <= Len(CopyOrder(s)) THEN s.labels[CopyOrder(s)[i]] ELSE Legit]

CopiedVectors(s) ==
    [i \in 1 .. s.count |->
        IF i <= Len(CopyOrder(s)) THEN CodeOf(s, CopyOrder(s)[i]) ELSE 0]

ReorderStoreByBucket(s) ==
    IF s.count = 0 THEN s
    ELSE LET t == IF s.index = Absent THEN BuildBucketIndex(s) ELSE s IN
         [t EXCEPT
            !.labels = CopiedLabels(t),
            !.quantized = CopiedVectors(t),
            !.vectors = << >>,
            !.meta = ReorderedMeta(t),
            !.index = Absent]

\* The lengths SaveBinaryVectorStore insists on.
Savable(s) ==
    /\ Len(s.labels) = s.count
    /\ IF s.quantized = << >> THEN Len(s.vectors) = s.count
                              ELSE Len(s.quantized) = s.count

(***************************************************************************)
(* Files.  A binary file is written from its header on, so one that is not *)
(* whole is empty, cut within its metadata, or cut after it.               *)
(***************************************************************************)
JSON == 0
Current == 6

Parts == <<"empty", "metadata", "records", "whole">>

File(version, s) == [version |-> version, part |-> "whole", body |-> s]

Saved(s) ==
    [version |-> Current,
     part    |-> "empty",
     body    |->
        Store(<< >>, [i \in 1 .. s.count |-> CodeOf(s, i)], s.labels,
              IF s.meta # Absent THEN s.meta
              ELSE [b \in Buckets |-> [offset |-> 0, count |-> 0]],
              s.of)]

\* Mutant: the length of the file is not compared with what its header says.
OutcomeUnmeasured(f) ==
    CASE f = Missing                          -> "error"
      [] f.part = "empty"                     -> "error"
      [] f.version \notin {JSON, 2, 3, Current} -> "error"
      [] f.version = Current /\ f.part = "metadata" -> "panic"
      [] OTHER                                -> "ok"

\* LoadVectorStore and LoadBinaryVectorStore: of the binary versions three are
\* read.  The metadata of a mapped file is sliced before its length is looked
\* at.
Outcome(f) ==
    CASE f = Missing                          -> "error"
      [] f.part = "empty"                     -> "error"
      [] f.version \notin {JSON, 2, 3, Current} -> "error"
      [] f.version = Current /\ f.part = "metadata" -> "panic"
      [] f.part # "whole"                     -> "error"
      [] OTHER                                -> "ok"

Loaded(f) == BuildBucketIndex(f.body)

(***************************************************************************)
(* The files that stand for a dataset: JSON and version 2 hold its floats, *)
(* version 3 its codes, the current version is what the converter makes of *)
(* those.                                                                  *)
(***************************************************************************)
LabelsOf(d) == [i \in DOMAIN d |-> d[i].label]

FloatStore(d) ==
    Store([i \in DOMAIN d |-> d[i].value], << >>, LabelsOf(d), Absent, d)

CodeStore(d) ==
    Store(<< >>, [i \in DOMAIN d |-> Quantize(d[i].value)], LabelsOf(d),
          Absent, d)

\* No bucket has more records than BucketMetadata can count.
RawStore(s) ==
    /\ s.of \in Seq([value : Int, label : {Legit, Fraud}])
    /\ s \in {FloatStore(s.of), CodeStore(s.of)}
    /\ \A b \in Buckets :
        Cardinality({i \in 1 .. s.count : BucketOf(s, i) = b}) < CountWord

RawFile(f) ==
    /\ f = [File(f.version, f.body) EXCEPT !.part = f.part]
    /\ f.version # Current
    /\ RawStore(f.body)

ConvertedFile(f) ==
    \E s \in {FloatStore(f.body.of), CodeStore(f.body.of)} :
        /\ RawStore(s)
        /\ f = [Saved(ReorderStoreByBucket(s)) EXCEPT !.part = f.part]

(***************************************************************************)
(* What the search reads of a bucket (the window scan of knn.go).          *)
(***************************************************************************)
Slice(s, b) ==
    IF s.meta # Absent
    THEN {s.meta[b].offset + k : k \in 1 .. s.meta[b].count}
    ELSE {s.index[b][k] : k \in 1 .. Len(s.index[b])}
=============================================================================
