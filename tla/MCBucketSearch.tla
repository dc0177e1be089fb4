--------------------------- MODULE MCBucketSearch ---------------------------
(***************************************************************************)
(* Instances of BucketSearch for TLC: a row of buckets along one axis, and *)
(* stores of up to three records in them.                                  *)
(***************************************************************************)
EXTENDS BucketSearch, SequencesExt

Cell(a) == <<a, 0, 0, 0, 0, 0>>

\* A distance that grows early, or only with the last dimensions.
Early(d) == <<d, d, d, d>>
Late(d) == <<0, 0, 0, d>>

Rec(a, label, dist) == [cell |-> Cell(a), label |-> label, dist |-> dist]

In(recs, b) == {i \in 1 .. Len(recs) : BucketID(recs[i].cell) = b}

IndexStore(recs, quantized) ==
    [recs |-> recs, quantized |-> quantized, meta |-> Absent,
     index |-> [b \in Buckets |-> SetToSortSeq(In(recs, b), <)]]

MetaStore(recs) ==
    [recs |-> recs, quantized |-> TRUE, index |-> Absent,
     meta |-> [b \in Buckets |->
        [offset |-> Cardinality({i \in 1 .. Len(recs) :
                                    BucketID(recs[i].cell) < b}),
         count |-> Cardinality(In(recs, b))]]]

FlatStore(recs) ==
    [recs |-> recs, quantized |-> TRUE, meta |-> Absent, index |-> Absent]

\* Records in the order of their buckets, as ReorderStoreByBucket leaves them.
Reordered(recs) ==
    \A i \in 1 .. (Len(recs) - 1) : recs[i].cell[1] <= recs[i + 1].cell[1]

Recs ==
    {Rec(0, Legit, Early(1)), Rec(0, Fraud, Late(2)), Rec(1, Fraud, Late(1)),
     Rec(2, Legit, Early(0)), Rec(3, Fraud, Late(0)), Rec(3, Legit, Early(2))}

Datasets == BoundedSeq(Recs, 3)

QuantizedStores ==
    {MetaStore(r) : r \in {d \in Datasets : Reordered(d)}}
        \cup {IndexStore(r, TRUE) : r \in {d \in Datasets : ~ Reordered(d)}}
        \cup {FlatStore(r) : r \in BoundedSeq(Recs, 2)}

\* What LoadVectorStore returns for a JSON file: Vectors, no QuantizedVectors.
JSONStores == {IndexStore(r, FALSE) : r \in BoundedSeq(Recs, 2)}

RowSize == <<4, 1, 1, 1, 1, 1>>

Row == {Cell(0), Cell(2)}

\* Targets that are met at once, late, and never; a target of one, whose
\* early exit is configured as 0; values out of range, for the defaults.
Settings == {<<1, 3>>, <<2, 2>>, <<9, 1>>, <<6, 3>>, <<-1, 6>>}

Defaults == [target |-> 3, maxRadius |-> 2, earlyExit |-> 1]
=============================================================================
