--------------------------- MODULE SearchedStore ---------------------------
(***************************************************************************)
(* What the search (internal/fraud/knn.go) reads of a VectorStore: the     *)
(* records in storage order, and either the metadata of the buckets or     *)
(* their index.  A record is its bucket, its label and its distance to the *)
(* query: the four sums over 4, 8, 12 and 16 dimensions at which the scan  *)
(* may give up on it.                                                      *)
(***************************************************************************)
EXTENDS BucketGrid

CONSTANTS Legit, Fraud  \* labels

Stages == 1 .. 4

Record == [cell : Cells, label : {Legit, Fraud}, dist : [Stages -> Nat]]

Absent == << >>

\* Storage positions of the records of one bucket.
Candidates(s, c) ==
    IF s.meta # Absent
    THEN [i \in 1 .. s.meta[BucketID(c)].count |->
            s.meta[BucketID(c)].offset + i]
    ELSE s.index[BucketID(c)]

StoreType ==
    {s \in [recs : Seq(Record), quantized : BOOLEAN,
            meta : {Absent} \cup [Buckets -> [offset : Nat, count : Nat]],
            index : {Absent} \cup [Buckets -> Seq(Nat \ {0})]] :
        /\ s.meta = Absent \/ s.index = Absent
        /\ s.meta # Absent \/ s.index # Absent =>
            \A c \in Cells : \A i \in 1 .. Len(Candidates(s, c)) :
                Candidates(s, c)[i] \in 1 .. Len(s.recs)}

\* The candidates of a bucket are the records that fall into it, each once.
Placed(s) ==
    \A c \in Cells :
        /\ \A p \in 1 .. Len(s.recs) :
            s.recs[p].cell = c <=>
                \E i \in 1 .. Len(Candidates(s, c)) : Candidates(s, c)[i] = p
        /\ \A i, j \in 1 .. Len(Candidates(s, c)) :
            Candidates(s, c)[i] = Candidates(s, c)[j] => i = j
=============================================================================
