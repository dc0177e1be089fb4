------------------------- MODULE MCDatasetLifecycle -------------------------
(***************************************************************************)
(* Instances of DatasetLifecycle for TLC: datasets of up to three records  *)
(* on an axis of four buckets and eight codes.                             *)
(***************************************************************************)
EXTENDS DatasetLifecycle

Rec(value, label) == [value |-> value, label |-> label]

\* No last transaction, the boundary of the first two buckets (which its code
\* is taken back below of), a middle and a clamped value.
Records ==
    {Rec(-4, Legit), Rec(1, Fraud), Rec(1, Legit), Rec(2, Fraud), Rec(4, Legit)}

\* An empty dataset has no records its file could be cut in: it is left out.
Datasets == BoundedSeq(Records, 3) \ {<< >>}

JSONFile(d) == File(JSON, FloatStore(d))

\* The binary file the converter would have made of a dataset.
CurrentFile(d) ==
    [Saved(ReorderStoreByBucket(FloatStore(d))) EXCEPT !.part = "whole"]

Examples == JSONFile(<<Rec(2, Fraud)>>)

Disk(bin, compressed, old) ==
    [n \in {Bin, Compressed, Example, "old.bin"} |->
        CASE n = Bin        -> bin
          [] n = Compressed -> compressed
          [] n = Example    -> Examples
          [] n = "old.bin"  -> old]

\* A dataset as JSON, or as binary of version 2 or 3, before any conversion;
\* and no dataset at all.
FreshDisks ==
    {Disk(Missing, JSONFile(d), Missing) : d \in Datasets}
        \cup {Disk(Missing, Missing, File(2, FloatStore(d))) : d \in Datasets}
        \cup {Disk(Missing, JSONFile(<<Rec(1, Legit)>>), File(3, CodeStore(d))) :
                d \in Datasets}
        \cup {Disk(File(3, CodeStore(d)), Missing, Missing) : d \in Datasets}

\* A directory as the image ships it.
ConvertedDisks ==
    {Disk(CurrentFile(d), JSONFile(d), Missing) : d \in Datasets}

\* Both are directories the theorems are about, unless the converter is given
\* its own output.
ASSUME DisksAsBuilt ==
    \A d \in FreshDisks \cup ConvertedDisks : Bin \in Inputs \/ AsBuilt(d)
=============================================================================
