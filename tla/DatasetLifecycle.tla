-------------------------- MODULE DatasetLifecycle --------------------------
(***************************************************************************)
(* From dataset to served store: cmd/preprocess turns a file into          *)
(* references.bin and may die at any write; cmd/api picks a file by what   *)
(* exists, loads it and serves it until it is stopped.  Preprocessing is a *)
(* build step (Dockerfile): it does not run beside a server.               *)
(***************************************************************************)
EXTENDS ReferenceStore

CONSTANTS
    Servers,    \* instances of cmd/api on one resource directory
    Inputs,     \* names given to cmd/preprocess as -input
    Disks       \* what the resource directory may hold at first

VARIABLES
    disk,       \* name -> file
    job,        \* cmd/preprocess
    server      \* the instances of cmd/api

vars == <<disk, job, server>>

Bin == "references.bin"
Compressed == "references.json.gz"
Example == "example-references.json"

NoStore == << >>

Idle == [phase |-> "idle", store |-> NoStore]

Down(phase) == [phase |-> phase, path |-> Missing, store |-> NoStore]

ASSUME DiskAssumption ==
    /\ {Bin, Compressed, Example} \cap {Missing} = {}
    /\ \A d \in Disks :
        /\ d = [n \in DOMAIN d |-> d[n]]
        /\ {Bin, Compressed, Example} \cup Inputs \subseteq DOMAIN d

Init ==
    /\ disk \in Disks
    /\ job = Idle
    /\ server = [v \in Servers |-> Down("down")]

Serving == {v \in Servers : server[v].phase = "serving"}

(***************************************************************************)
(* cmd/preprocess.  An input that does not load ends it with nothing done. *)
(***************************************************************************)
LoadInput(input) ==
    /\ job.phase = "idle" /\ Serving = {}
    /\ Outcome(disk[input]) = "ok"
    /\ job' = [phase |-> "loaded", store |-> Loaded(disk[input])]
    /\ UNCHANGED <<disk, server>>

\* ReorderStoreByBucket, the checks of SaveBinaryVectorStore, os.Create: the
\* old file is gone before the first byte of the new one is written.
CreateOutput ==
    /\ job.phase = "loaded"
    /\ LET s == ReorderStoreByBucket(job.store) IN
       IF Savable(s)
       THEN /\ disk' = [disk EXCEPT ![Bin] = Saved(s)]
            /\ job' = [phase |-> "writing", store |-> s]
       ELSE job' = Idle /\ UNCHANGED disk
    /\ UNCHANGED server

\* The buffered writer hands on a further part of the file.
WriteMore ==
    /\ job.phase = "writing"
    /\ \E k \in 1 .. (Len(Parts) - 1) :
        /\ disk[Bin].part = Parts[k]
        /\ disk' = [disk EXCEPT ![Bin].part = Parts[k + 1]]
        /\ job' = IF k + 1 = Len(Parts) THEN Idle ELSE job
    /\ UNCHANGED server

\* It is killed, or a write fails: what has been written stays.
Crash ==
    /\ job.phase # "idle"
    /\ job' = Idle
    /\ UNCHANGED <<disk, server>>

(***************************************************************************)
(* cmd/api.                                                                *)
(***************************************************************************)
\* config.Load: the first name that exists, whatever the file is worth.
ReferencesPath ==
    IF disk[Bin] # Missing THEN Bin
    ELSE IF disk[Compressed] # Missing THEN Compressed
    ELSE Example

Start(v) ==
    /\ job.phase = "idle" /\ server[v].phase # "serving"
    /\ LET outcome == Outcome(disk[ReferencesPath]) IN
       server' = [server EXCEPT ![v] =
            CASE outcome = "error" -> Down("exited")
              [] outcome = "panic" -> Down("panicked")
              [] outcome = "ok"    ->
                    [phase |-> "serving", path |-> ReferencesPath,
                     store |-> Loaded(disk[ReferencesPath])]]
    /\ UNCHANGED <<disk, job>>

Stop(v) ==
    /\ server[v].phase = "serving"
    /\ server' = [server EXCEPT ![v] = Down("down")]
    /\ UNCHANGED <<disk, job>>

Next ==
    \/ \E input \in Inputs : LoadInput(input)
    \/ CreateOutput \/ WriteMore \/ Crash
    \/ \E v \in Servers : Start(v) \/ Stop(v)

Spec == Init /\ [][Next]_vars

-----------------------------------------------------------------------------
(***************************************************************************)
(* What the theorems about the served store assume of a directory: the     *)
(* files stand for datasets, and none that is converted already is given   *)
(* to the converter (wiped_by_preprocess shows what happens otherwise).    *)
(***************************************************************************)
AsBuilt(d) ==
    /\ Bin \notin Inputs
    /\ \A n \in DOMAIN d :
        d[n] = Missing \/ RawFile(d[n]) \/ ConvertedFile(d[n])
    /\ \A n \in Inputs : d[n] = Missing \/ RawFile(d[n])

-----------------------------------------------------------------------------
(***************************************************************************)
(* A served store as the search takes it: a record is in the bucket whose  *)
(* slice holds it, on the first axis of the grid.  How far a record is     *)
(* from a query is no matter here.                                         *)
(***************************************************************************)
Grid == INSTANCE SearchedStore
            WITH Size <- [x \in 1 .. 6 |-> IF x = 1 THEN BucketCount ELSE 1]

CellOf(b) == <<b, 0, 0, 0, 0, 0>>

HeldIn(s, i) == CHOOSE b \in Buckets : i \in Slice(s, b)

AsSearched(s) ==
    [recs |->
        [i \in 1 .. s.count |->
            [cell |-> CellOf(HeldIn(s, i)), label |-> s.labels[i],
             dist |-> [k \in 1 .. 4 |-> 0]]],
     quantized |-> s.quantized # << >>,
     meta |-> s.meta, index |-> s.index]

-----------------------------------------------------------------------------
Served(s) ==
    s.count > 0 => \A b \in Buckets : Slice(s, b) \subseteq 1 .. s.count

TypeOK ==
    /\ job.phase \in {"idle", "loaded", "writing"}
    /\ \A v \in Servers :
        server[v].phase \in {"down", "serving", "exited", "panicked"}
    /\ \A v \in Serving : Served(server[v].store)

\* The code and label a record of the dataset is served with.
Image(r) == <<Quantize(r.value), r.label>>

Copies(s, rec) ==
    Cardinality({p \in Buckets \X (1 .. s.count) :
        /\ p[2] \in Slice(s, p[1])
        /\ <<CodeOf(s, p[2]), s.labels[p[2]]>> = rec})

\* A served store holds the records of the dataset, no more and no fewer, each
\* with its label, in the slices the search reads: after a load of any kind,
\* and after a conversion, a save and a mapping (index.go:130-178,
\* loader.go:138-213, 385-449).
ServedComplete ==
    \A v \in Serving : LET s == server[v].store IN
        \A r \in Range(s.of) : s.count > 0 /\ Copies(s, Image(r)) =
            Cardinality({i \in DOMAIN s.of : Image(s.of[i]) = Image(r)})

\* Every store that is served is what the search relies on (PlacementAssumption
\* of BucketSearch): it has metadata or an index and not both, the candidates
\* of every bucket are positions of the store, and each record is a candidate
\* of one bucket, once (index.go:3-38, 130-178, knn.go:299-313, 354-355).
ServedPlaced ==
    \A v \in Serving : LET s == server[v].store IN
        s.count > 0 => /\ AsSearched(s) \in Grid!StoreType
                       /\ s.meta # Absent \/ s.index # Absent
                       /\ Grid!Placed(AsSearched(s))

\* Every record is served from a bucket at most one away from that of a query
\* with the same features, although the query's bucket is taken from floats
\* and a record's may come from its code (index.go:203-244).
ServedNearby ==
    \A v \in Serving : LET s == server[v].store IN
        \A r \in Range(s.of) : \E b \in Buckets : \E i \in Slice(s, b) :
            /\ <<CodeOf(s, i), s.labels[i]>> = Image(r)
            /\ FloatBucket(r.value) - b \in -1 .. 1

\* Whatever a crash has left of references.bin, a server serves only a whole
\* file: the one on disk.
WholeFileServed ==
    \A v \in Serving : disk[server[v].path].part = "whole"
=============================================================================
