------------------------- MODULE BucketSearchProofs -------------------------
(***************************************************************************)
(* For every K, grid, store, query and configuration: the search keeps the *)
(* K nearest of the records it has scanned (NearestKept), it has scanned   *)
(* all that its last window covers (WindowsAreComplete), each record once  *)
(* per radius that covers it (RecordsScannedPerRadius), and its verdict is *)
(* that of the K nearest (VerdictIsOfNearest).                             *)
(***************************************************************************)
EXTENDS BucketSearch, BucketGridProofs, SequenceTheorems, FiniteSetTheorems,
        FunctionTheorems

Inputs ==
    /\ store \in Stores
    /\ query \in Cells
    /\ todo # {} => Bucketed

Threshold == batch # << >> => threshold = best[K].dist

-----------------------------------------------------------------------------
(***************************************************************************)
(* What the store offers: the records of a bucket are records.             *)
(***************************************************************************)
LEMMA ConstantTypes ==
    /\ K \in Nat \ {0}
    /\ Infinity \in Nat
    /\ Legit # Fraud
    /\ Queries \subseteq Cells
    /\ DefaultConfig \in [target : Nat, maxRadius : Nat, earlyExit : Nat]
    /\ \A e \in Environments : e \in Int \X Int
BY SearchAssumption

\* Every record of a store has a label and a distance at every stage.
LEMMA RecordType ==
    ASSUME NEW s \in Stores, NEW p \in 1 .. Len(s.recs)
    PROVE  /\ s.recs \in Seq(Record)
           /\ s.recs[p].label \in {Legit, Fraud}
           /\ \A i \in Stages : s.recs[p].dist[i] \in Nat
           /\ \A i \in Stages : s.recs[p].dist[i] <= s.recs[p].dist[4]
           /\ s.recs[p].dist[4] < Infinity
<1>1. s.recs \in Seq(Record)
  BY DistanceAssumption DEF StoreType
<1>2. s.recs[p] \in Record
  BY <1>1
<1> DEFINE d == s.recs[p].dist
<1>3. d \in [Stages -> Nat] /\ s.recs[p].label \in {Legit, Fraud}
  BY <1>2 DEF Record
<1>4. d[1] <= d[2] /\ d[2] <= d[3] /\ d[3] <= d[4] /\ d[4] < Infinity
  BY DistanceAssumption
<1>5. Stages = {1, 2, 3, 4}
  BY DEF Stages
<1> HIDE DEF d
<1>6. \A i \in Stages : d[i] <= d[4]
  BY <1>3, <1>4, <1>5
<1> QED BY <1>1, <1>3, <1>4, <1>6 DEF d

\* Every record of a store falls into a bucket of the grid.
LEMMA RecordCell ==
    ASSUME NEW s \in Stores, NEW p \in 1 .. Len(s.recs)
    PROVE  s.recs[p].cell \in Cells
<1>1. s.recs \in Seq(Record)
  BY DistanceAssumption DEF StoreType
<1>2. s.recs[p] \in Record
  BY <1>1
<1> QED BY <1>2 DEF Record

\* Whatever index the store has, a bucket's candidates are record positions.
LEMMA CandidatesType ==
    ASSUME NEW s \in Stores, NEW c \in Cells,
           s.meta # Absent \/ s.index # Absent
    PROVE  Candidates(s, c) \in Seq(1 .. Len(s.recs))
<1> DEFINE found == Candidates(s, c)
           b == BucketID(c)
<1>1. b \in Buckets
  BY BucketIDRange
<1>2. /\ s.meta \in {Absent} \cup [Buckets -> [offset : Nat, count : Nat]]
      /\ s.index \in {Absent} \cup [Buckets -> Seq(Nat \ {0})]
      /\ \A i \in 1 .. Len(found) : found[i] \in 1 .. Len(s.recs)
  BY DistanceAssumption DEF StoreType
<1>3. \E S : found \in Seq(S)
  <2>1. CASE s.meta # Absent
    <3>1. s.meta[b].count \in Nat
      BY <1>1, <1>2, <2>1
    <3>2. found = [i \in 1 .. s.meta[b].count |-> s.meta[b].offset + i]
      BY <2>1 DEF Candidates
    <3>3. found \in Seq({s.meta[b].offset + i : i \in 1 .. s.meta[b].count})
      BY <3>1, <3>2
    <3> QED BY <3>3
  <2>2. CASE s.meta = Absent
    BY <1>1, <1>2, <2>2 DEF Candidates
  <2> QED BY <2>1, <2>2
<1> HIDE DEF found
<1>4. PICK S : found \in Seq(S)
  BY <1>3
<1>5. Len(found) \in Nat /\ found = [i \in 1 .. Len(found) |-> found[i]]
  BY <1>4
<1>6. [i \in 1 .. Len(found) |-> found[i]] \in Seq(1 .. Len(s.recs))
  BY <1>2, <1>5
<1> QED BY <1>5, <1>6 DEF found

\* The window of a radius is a set of cells.
LEMMA WindowType ==
    ASSUME NEW c, NEW r
    PROVE  Window(c, r) \in SUBSET Cells
BY DEF Window

\* Whatever the environment holds, the settings in force are naturals.
LEMMA ConfiguredType ==
    ASSUME NEW e \in Environments
    PROVE  Configured(e[1], e[2]) \in
                [target : Nat, maxRadius : Nat, earlyExit : Nat]
<1>1. e[1] \in Int /\ e[2] \in Int
  BY ConstantTypes
<1>2. e[1] > 0 => e[1] \in Nat /\ e[1] \div 2 \in Nat
  BY <1>1
<1>3. e[2] \in 0 .. 5 => e[2] \in Nat
  BY <1>1
<1> QED BY <1>2, <1>3, ConstantTypes DEF Configured

-----------------------------------------------------------------------------
(***************************************************************************)
(* insertTopKUint64: in a sorted array whose last place is further away,   *)
(* the new entry takes the place p of the first one further away; those    *)
(* before p stay, those from p on move down, and the last is dropped.      *)
(***************************************************************************)
LEMMA MovedDownIsFurther ==
    ASSUME NEW b \in [1 .. K -> PlaceType], NEW d \in Nat,
           \A j, k \in 1 .. K : j < k => b[j].dist <= b[k].dist,
           d < b[K].dist,
           NEW k \in 1 .. K
    PROVE  MovedDown(b, d, k) <=> d < b[k].dist
<1>1. K \in Nat \ {0}
  BY ConstantTypes
<1>2. \A j \in 1 .. K : b[j].dist \in Nat
  BY DEF PlaceType
<1>3. CASE k = K
  BY <1>1, <1>3 DEF MovedDown
<1>4. CASE k < K
  <2>1. ASSUME MovedDown(b, d, k) PROVE d < b[k].dist
    BY <1>1, <1>4, <2>1 DEF MovedDown
  <2>2. ASSUME d < b[k].dist, NEW j \in k .. (K - 1) PROVE d < b[j].dist
    <3>1. j \in 1 .. K
      BY <1>1
    <3>2. b[k].dist <= b[j].dist
      BY <3>1, <1>1, <1>2
    <3> QED BY <1>2, <2>2, <3>1, <3>2
  <2> QED BY <2>1, <2>2 DEF MovedDown
<1> QED BY <1>1, <1>3, <1>4

\* insertTop5 puts the entry at one place, keeps what is before it and
\* moves what is after it one place down.
LEMMA InsertShape ==
    ASSUME NEW b \in [1 .. K -> PlaceType], NEW e \in PlaceType,
           \A j, k \in 1 .. K : j < k => b[j].dist <= b[k].dist,
           e.dist < b[K].dist
    PROVE  \E p \in 1 .. K :
              /\ Insert(b, e) = [k \in 1 .. K |->
                    IF k < p THEN b[k] ELSE IF k = p THEN e ELSE b[k - 1]]
              /\ \A k \in 1 .. K : k < p => b[k].dist <= e.dist
              /\ \A k \in 1 .. K : k >= p => e.dist < b[k].dist
<1> DEFINE Further == {k \in 1 .. K : e.dist < b[k].dist}
<1>1. K \in Nat \ {0}
  BY ConstantTypes
<1>2. e.dist \in Nat /\ \A k \in 1 .. K : b[k].dist \in Nat
  BY DEF PlaceType
<1>3. K \in Further /\ Further \in SUBSET Nat
  BY <1>1
<1>4. PICK p \in Further : \A k \in Further : p <= k
  <2> HIDE DEF Further
  <2> QED BY <1>3, LeastExists
<1>5. \A k \in 1 .. K : k < p => b[k].dist <= e.dist
  BY <1>2, <1>4
<1>6. \A k \in 1 .. K : k >= p => e.dist < b[k].dist
  <2>1. TAKE k \in 1 .. K
  <2>2. b[p].dist <= b[k].dist \/ ~ (k >= p)
    BY <1>2, <1>4
  <2> QED BY <1>2, <1>4, <2>2
<1>7. \A k \in 1 .. K : MovedDown(b, e.dist, k) <=> k >= p
  <2>1. TAKE k \in 1 .. K
  <2>2. MovedDown(b, e.dist, k) <=> e.dist < b[k].dist
    BY <1>2, MovedDownIsFurther
  <2> QED BY <1>2, <1>4, <1>5, <1>6, <2>2
<1>8. ASSUME NEW k \in 1 .. K
      PROVE  Insert(b, e)[k] =
                IF k < p THEN b[k] ELSE IF k = p THEN e ELSE b[k - 1]
  <2>1. Insert(b, e)[k] =
            IF ~ MovedDown(b, e.dist, k) THEN b[k]
            ELSE IF k > 1 /\ MovedDown(b, e.dist, k - 1) THEN b[k - 1]
            ELSE e
    BY DEF Insert
  <2>2. k > 1 => (MovedDown(b, e.dist, k - 1) <=> k - 1 >= p)
    BY <1>1, <1>7
  <2> QED BY <1>4, <1>7, <2>1, <2>2
<1>9. Insert(b, e) = [k \in 1 .. K |->
            IF k < p THEN b[k] ELSE IF k = p THEN e ELSE b[k - 1]]
  BY <1>8 DEF Insert
<1> QED BY <1>4, <1>5, <1>6, <1>9

-----------------------------------------------------------------------------
(***************************************************************************)
(* Types.                                                                  *)
(***************************************************************************)
LEMMA InitTypes == Init => TypeOK /\ Inputs /\ Threshold
<1> SUFFICES ASSUME Init PROVE TypeOK /\ Inputs /\ Threshold
  OBVIOUS
<1> USE DEF Init
<1>1. cfg \in [target : Nat, maxRadius : Nat, earlyExit : Nat]
  BY ConfiguredType
<1>2. best \in [1 .. K -> PlaceType]
  BY ConstantTypes DEF Unfilled, PlaceType
<1>3. batch \in Seq(1 .. Len(store.recs)) /\ seen \in Seq(1 .. Len(store.recs))
  OBVIOUS
<1>4. threshold \in Nat
  BY ConstantTypes
<1> QED BY <1>1, <1>2, <1>3, <1>4, ConstantTypes DEF TypeOK, Inputs, Threshold

\* The K-th place of the ranking is a place, with a natural distance.
LEMMA KthType ==
    ASSUME TypeOK
    PROVE  best[K] \in PlaceType /\ best[K].dist \in Nat
BY ConstantTypes DEF TypeOK, PlaceType

\* The record at the head of the batch.
LEMMA HeadType ==
    ASSUME TypeOK, Inputs, batch # << >>
    PROVE  LET p == Head(batch) IN
           /\ p \in 1 .. Len(store.recs)
           /\ Tail(batch) \in Seq(1 .. Len(store.recs))
           /\ Append(seen, p) \in Seq(1 .. Len(store.recs))
           /\ Entry(store.recs[p], Len(seen) + 1) \in PlaceType
<1> DEFINE p == Head(batch)
<1>1. /\ p \in 1 .. Len(store.recs)
      /\ Tail(batch) \in Seq(1 .. Len(store.recs))
  BY DEF TypeOK
<1>2. Append(seen, p) \in Seq(1 .. Len(store.recs)) /\ Len(seen) + 1 \in Nat
  BY <1>1 DEF TypeOK
<1>3. /\ store.recs[p].dist[4] \in Nat
      /\ store.recs[p].label \in {Legit, Fraud}
  BY <1>1, RecordType DEF Inputs, Stages
<1> QED BY <1>1, <1>2, <1>3 DEF Entry, PlaceType

\* Every step keeps the types, the inputs and the threshold.
LEMMA NextTypes ==
    ASSUME TypeOK, Inputs, Threshold, [Next]_vars
    PROVE  TypeOK' /\ Inputs' /\ Threshold'
<1> USE DEF inputs
<1>1. CASE Start
  <2> USE <1>1 DEF Start
  <2>1. Inputs'
    BY DEF Inputs, Bucketed
  <2>2. Threshold'
    BY DEF Threshold
  <2>3. todo' \in SUBSET Cells
    BY WindowType DEF TypeOK
  <2>4. threshold' \in Nat
    BY KthType
  <2>5. /\ batch' \in Seq(1 .. Len(store.recs)) /\ processed' \in Nat
        /\ store' = store
    <3>1. store.recs \in Seq(Record)
      BY DistanceAssumption DEF StoreType, Inputs
    <3>2. Len(store.recs) \in Nat
      BY <3>1
    <3>3. [i \in 1 .. Len(store.recs) |-> i] \in Seq(1 .. Len(store.recs))
      BY <3>2
    <3> QED BY <3>2, <3>3 DEF TypeOK
  <2>6. phase' \in {"start", "walk", "done", "panic"}
    OBVIOUS
  <2> QED BY <2>1, <2>2, <2>3, <2>4, <2>5, <2>6 DEF TypeOK
<1>2. CASE OpenBucket
  <2> USE <1>2 DEF OpenBucket
  <2> DEFINE found == Candidates(store, First(todo))
  <2>1. Inputs'
    BY DEF Inputs, Bucketed
  <2>2. Threshold'
    BY DEF Threshold
  <2>3. First(todo) \in Cells
    BY FirstHasLeastIndex DEF TypeOK
  <2>4. found \in Seq(1 .. Len(store.recs)) /\ Len(found) \in Nat
    <3>1. store.meta # Absent \/ store.index # Absent
      BY DEF Inputs, Bucketed
    <3> QED BY <2>3, <3>1, CandidatesType DEF Inputs
  <2> QED BY <2>1, <2>2, <2>4, KthType DEF TypeOK
<1>3. CASE SkipRecord
  BY <1>3, HeadType DEF SkipRecord, TypeOK, Inputs, Bucketed, Threshold
<1>4. CASE KeepRecord
  <2> DEFINE e == Entry(store.recs[Head(batch)], Len(seen) + 1)
  <2>1. e \in PlaceType
    BY <1>4, HeadType DEF KeepRecord
  <2>2. best' \in [1 .. K -> PlaceType]
    <3> HIDE DEF e
    <3>1. best' = Insert(best, e)
      BY <1>4 DEF KeepRecord, e
    <3> QED BY <2>1, <3>1, ConstantTypes DEF Insert, TypeOK
  <2>3. threshold' \in Nat /\ threshold' = best'[K].dist
    BY <2>2, <1>4, ConstantTypes DEF KeepRecord, PlaceType
  <2> QED BY <2>2, <2>3, <1>4, HeadType DEF KeepRecord, TypeOK, Inputs, Bucketed, Threshold
<1>5. CASE Widen
  BY <1>5, WindowType DEF Widen, WindowDone, TypeOK, Inputs, Bucketed, Threshold
<1>6. CASE Finish
  <2>1. FraudPlaces(best) \in SUBSET (1 .. K)
    BY DEF FraudPlaces
  <2>2. IsFiniteSet(1 .. K)
    BY ConstantTypes, FS_Interval
  <2>3. IsFiniteSet(FraudPlaces(best))
    BY <2>1, <2>2, FS_Subset
  <2>4. Cardinality(FraudPlaces(best)) \in Nat
    BY <2>3, FS_CardinalityType
  <2> QED BY <2>4, <1>6 DEF Finish, WindowDone, TypeOK, Inputs, Bucketed, Threshold
<1>7. CASE UNCHANGED vars
  BY <1>7 DEF vars, TypeOK, Inputs, Bucketed, Threshold
<1> QED BY <1>1, <1>2, <1>3, <1>4, <1>5, <1>6, <1>7 DEF Next

(***************************************************************************)
(* Every variable keeps its type: in particular every bucket opened is one *)
(* of the grid and every position scanned is one of the store.             *)
(***************************************************************************)
THEOREM SearchTypeCorrect == Spec => []TypeOK
<1>1. Init => TypeOK /\ Inputs /\ Threshold
  BY InitTypes
<1>2. TypeOK /\ Inputs /\ Threshold /\ [Next]_vars
        => (TypeOK /\ Inputs /\ Threshold)'
  BY NextTypes
<1> QED BY <1>1, <1>2, PTL DEF Spec

-----------------------------------------------------------------------------
(***************************************************************************)
(* The K nearest.  The invariant is TopKExact itself, with the types and   *)
(* the freshness of the scan's threshold: a stale threshold would let a    *)
(* record in that is further away than the last place.                     *)
(***************************************************************************)
LEMMA InitTopK == Init => TopKExact
<1> SUFFICES ASSUME Init PROVE TopKExact
  OBVIOUS
<1>1. \A k \in 1 .. K : best[k] = Unfilled
  BY DEF Init
<1>2. Sorted
  BY <1>1, ConstantTypes DEF Sorted, Unfilled
<1>3. FromScans
  BY <1>1 DEF FromScans, Unfilled
<1>4. NoneMissed
  BY DEF Init, NoneMissed
<1> QED BY <1>2, <1>3, <1>4 DEF TopKExact

\* A record that is scanned and not kept is no nearer than the last place.
LEMMA SkippedIsFar ==
    ASSUME TypeOK, Inputs, Threshold, SkipRecord
    PROVE  best[K].dist <= store.recs[Head(batch)].dist[4]
<1> DEFINE r == store.recs[Head(batch)]
<1>1. threshold = best[K].dist /\ threshold \in Nat
  BY DEF SkipRecord, Threshold, TypeOK
<1>2. Head(batch) \in 1 .. Len(store.recs)
  BY HeadType DEF SkipRecord
<1>3. \A i \in Stages : r.dist[i] \in Nat /\ r.dist[i] <= r.dist[4]
  BY <1>2, RecordType DEF Inputs
<1>4. PICK i \in Stages : r.dist[i] >= threshold
  BY DEF SkipRecord, Pruned
<1>5. r.dist[i] \in Nat /\ r.dist[4] \in Nat /\ r.dist[i] <= r.dist[4]
  BY <1>3, <1>4 DEF Stages
<1> HIDE DEF r
<1>6. threshold <= r.dist[4]
  BY <1>1, <1>4, <1>5
<1> QED BY <1>1, <1>6 DEF r

\* A record that passes every stage is nearer than the K-th place.
LEMMA KeptIsNear ==
    ASSUME TypeOK, Inputs, Threshold, KeepRecord
    PROVE  store.recs[Head(batch)].dist[4] < best[K].dist
<1> DEFINE r == store.recs[Head(batch)]
<1>1. threshold = best[K].dist /\ threshold \in Nat
  BY DEF KeepRecord, Threshold, TypeOK
<1>2. Head(batch) \in 1 .. Len(store.recs)
  BY HeadType DEF KeepRecord
<1>3. r.dist[4] \in Nat
  BY <1>2, RecordType DEF Inputs, Stages
<1>4. ~ (r.dist[4] >= threshold)
  BY DEF KeepRecord, Pruned, Stages
<1> HIDE DEF r
<1>5. r.dist[4] < threshold
  BY <1>1, <1>3, <1>4
<1> QED BY <1>1, <1>5 DEF r

\* What one more scan leaves of the scans before it.
LEMMA Scanned ==
    ASSUME TypeOK, Inputs, batch # << >>,
           seen' = Append(seen, Head(batch)), store' = store
    PROVE  /\ Len(seen) \in Nat /\ Len(seen') = Len(seen) + 1
           /\ \A i \in 1 .. Len(seen) : seen'[i] = seen[i]
           /\ seen'[Len(seen) + 1] = Head(batch)
           /\ \A i \in 1 .. Len(seen) :
                DistanceOf(i)' = DistanceOf(i) /\ DistanceOf(i) \in Nat
<1>1. Head(batch) \in 1 .. Len(store.recs)
  BY HeadType
<1>2. seen \in Seq(1 .. Len(store.recs))
  BY DEF TypeOK
<1>3. /\ Len(seen) \in Nat /\ Len(seen') = Len(seen) + 1
      /\ \A i \in 1 .. Len(seen) : seen'[i] = seen[i]
      /\ seen'[Len(seen) + 1] = Head(batch)
  BY <1>1, <1>2
<1>4. ASSUME NEW i \in 1 .. Len(seen)
      PROVE  DistanceOf(i)' = DistanceOf(i) /\ DistanceOf(i) \in Nat
  <2>1. seen[i] \in 1 .. Len(store.recs)
    BY <1>2
  <2>2. store.recs[seen[i]].dist[4] \in Nat
    BY <2>1, RecordType DEF Inputs, Stages
  <2> QED BY <1>3, <2>2 DEF DistanceOf
<1> QED BY <1>3, <1>4

\* The ranking stays the K nearest when a record is pruned.
LEMMA SkipTopK ==
    ASSUME TypeOK, Inputs, Threshold, TopKExact, SkipRecord
    PROVE  TopKExact'
<1> DEFINE n == Len(seen)
<1>1. store' = store /\ best' = best /\ batch # << >>
      /\ seen' = Append(seen, Head(batch))
  BY DEF SkipRecord, inputs
<1>2. /\ n \in Nat /\ Len(seen') = n + 1
      /\ \A i \in 1 .. n : seen'[i] = seen[i]
      /\ seen'[n + 1] = Head(batch)
      /\ \A i \in 1 .. n : DistanceOf(i)' = DistanceOf(i)
  BY <1>1, Scanned
<1>3. Sorted'
  BY <1>1 DEF TopKExact, Sorted
<1>4. FromScans'
  <2>1. ASSUME NEW k \in 1 .. K
        PROVE  \/ best'[k] = Unfilled
               \/ /\ best'[k].at \in 1 .. Len(seen')
                  /\ best'[k] = Entry(store'.recs[seen'[best'[k].at]], best'[k].at)
    BY <1>1, <1>2 DEF TopKExact, FromScans
  <2>2. \A j, k \in 1 .. K :
            j # k /\ best'[j].at > 0 => best'[j].at # best'[k].at
    BY <1>1 DEF TopKExact, FromScans
  <2> QED BY <2>1, <2>2 DEF FromScans
<1>5. NoneMissed'
  <2>1. ASSUME NEW i \in 1 .. n
        PROVE  (\E k \in 1 .. K : best'[k].at = i) \/ best'[K].dist <= DistanceOf(i)'
    BY <1>1, <1>2 DEF TopKExact, NoneMissed
  <2>2. ASSUME NEW i, i = n + 1
        PROVE  best'[K].dist <= DistanceOf(i)'
    <3>1. DistanceOf(i)' = store.recs[Head(batch)].dist[4]
      BY <1>1, <1>2, <2>2 DEF DistanceOf
    <3> QED BY <1>1, <3>1, SkippedIsFar
  <2>3. ASSUME NEW i \in 1 .. Len(seen')
        PROVE  (\E k \in 1 .. K : best'[k].at = i) \/ best'[K].dist <= DistanceOf(i)'
    <3>1. i \in 1 .. n \/ i = n + 1
      BY <1>2
    <3> QED BY <2>1, <2>2, <3>1
  <2> QED BY <2>3 DEF NoneMissed
<1> QED BY <1>3, <1>4, <1>5 DEF TopKExact

\* The ranking stays the K nearest when a record is inserted.
LEMMA KeepTopK ==
    ASSUME TypeOK, Inputs, Threshold, TopKExact, KeepRecord
    PROVE  TopKExact'
<1> DEFINE n == Len(seen)
           r == store.recs[Head(batch)]
           e == Entry(r, n + 1)
<1>1. store' = store /\ batch # << >>
      /\ seen' = Append(seen, Head(batch)) /\ best' = Insert(best, e)
  BY DEF KeepRecord, inputs
<1>2. /\ n \in Nat /\ Len(seen') = n + 1
      /\ \A i \in 1 .. n : seen'[i] = seen[i]
      /\ seen'[n + 1] = Head(batch)
      /\ \A i \in 1 .. n : DistanceOf(i)' = DistanceOf(i) /\ DistanceOf(i) \in Nat
  BY <1>1, Scanned
<1>3. e \in PlaceType /\ e.dist < best[K].dist /\ e.at = n + 1
  BY <1>1, HeadType, KeptIsNear DEF Entry
<1>4. /\ best \in [1 .. K -> PlaceType] /\ K \in Nat \ {0}
      /\ \A k \in 1 .. K : best[k].dist \in Nat /\ best[k].at \in Nat
      /\ \A j, k \in 1 .. K : j < k => best[j].dist <= best[k].dist
      /\ e.dist \in Nat
  BY <1>3, ConstantTypes DEF TypeOK, TopKExact, Sorted, PlaceType
<1> HIDE DEF e
<1>5. PICK p \in 1 .. K :
        /\ Insert(best, e) = [k \in 1 .. K |->
                IF k < p THEN best[k] ELSE IF k = p THEN e ELSE best[k - 1]]
        /\ \A k \in 1 .. K : k < p => best[k].dist <= e.dist
        /\ \A k \in 1 .. K : k >= p => e.dist < best[k].dist
  BY <1>3, <1>4, InsertShape
<1>6. /\ best'[p] = e
      /\ \A k \in 1 .. K : k < p => best'[k] = best[k]
      /\ \A k \in 1 .. K : k > p => best'[k] = best[k - 1] /\ k - 1 \in 1 .. K
  BY <1>1, <1>4, <1>5
<1>7. Sorted'
  <2>1. ASSUME NEW j \in 1 .. K, NEW k \in 1 .. K, j < k
        PROVE  best'[j].dist <= best'[k].dist
    <3>1. CASE k < p
      <4>1. best'[j] = best[j] /\ best'[k] = best[k]
        BY <1>6, <2>1, <3>1
      <4> QED BY <1>4, <2>1, <4>1
    <3>2. CASE k = p
      BY <1>4, <1>5, <1>6, <2>1, <3>2
    <3>3. CASE k > p /\ j = p
      <4>1. k - 1 \in 1 .. K /\ k - 1 >= p /\ best'[k] = best[k - 1]
        BY <1>6, <3>3
      <4> QED BY <1>4, <1>5, <1>6, <3>3, <4>1
    <3>4. CASE k > p /\ j # p
      <4>1. k - 1 \in 1 .. K /\ best'[k] = best[k - 1]
        BY <1>6, <3>4
      <4>2. PICK i \in 1 .. K : best'[j] = best[i] /\ i <= k - 1
        <5>1. CASE j < p
          BY <1>6, <2>1, <5>1
        <5>2. CASE j > p
          BY <1>6, <2>1, <5>2
        <5> QED BY <3>4, <5>1, <5>2
      <4>3. best[i].dist <= best[k - 1].dist
        BY <1>4, <4>1, <4>2
      <4> QED BY <4>1, <4>2, <4>3
    <3> QED BY <3>1, <3>2, <3>3, <3>4
  <2> QED BY <2>1 DEF Sorted
\* A place holds e, or what some place of the old array held.
<1> DEFINE Source(k) == IF k < p THEN k ELSE k - 1
<1>8. \A k \in 1 .. K : k # p =>
        Source(k) \in 1 .. K /\ best'[k] = best[Source(k)]
  BY <1>6
<1>9. FromScans'
  <2>1. \A k \in 1 .. K : best[k].at < n + 1
    BY <1>2, <1>4 DEF TopKExact, FromScans, Unfilled
  <2>2. ASSUME NEW k \in 1 .. K
        PROVE  \/ best'[k] = Unfilled
               \/ /\ best'[k].at \in 1 .. Len(seen')
                  /\ best'[k] = Entry(store'.recs[seen'[best'[k].at]], best'[k].at)
    <3>1. CASE k = p
      <4>1. best'[k] = Entry(store'.recs[seen'[n + 1]], n + 1)
        BY <1>1, <1>2, <1>6, <3>1 DEF e
      <4> QED BY <1>2, <1>3, <1>6, <3>1, <4>1
    <3>2. CASE k # p
      <4>1. PICK i \in 1 .. K : best'[k] = best[i]
        BY <1>8, <3>2
      <4> QED BY <1>1, <1>2, <4>1 DEF TopKExact, FromScans
    <3> QED BY <3>1, <3>2
  <2>3. ASSUME NEW j \in 1 .. K, NEW k \in 1 .. K, j # k, best'[j].at > 0
        PROVE  best'[j].at # best'[k].at
    <3>1. CASE j = p
      <4>1. \E i \in 1 .. K : best'[k] = best[i]
        BY <1>8, <2>3, <3>1
      <4> QED BY <1>2, <1>3, <1>4, <1>6, <2>1, <3>1, <4>1
    <3>2. CASE k = p
      <4>1. PICK i \in 1 .. K : best'[j] = best[i]
        BY <1>8, <2>3, <3>2
      <4> QED BY <1>2, <1>3, <1>4, <1>6, <2>1, <3>2, <4>1
    <3>3. CASE j # p /\ k # p
      <4>1. /\ Source(j) \in 1 .. K /\ best'[j] = best[Source(j)]
            /\ Source(k) \in 1 .. K /\ best'[k] = best[Source(k)]
        BY <1>8, <3>3
      <4>2. Source(j) # Source(k)
        BY <2>3, <3>3
      <4> HIDE DEF Source
      <4> QED BY <2>3, <4>1, <4>2 DEF TopKExact, FromScans
    <3> QED BY <3>1, <3>2, <3>3
  <2> QED BY <2>2, <2>3 DEF FromScans
<1>10. NoneMissed'
  <2>1. best'[K].dist <= best[K].dist
    <3>1. CASE p = K
      BY <1>3, <1>4, <1>6, <3>1
    <3>2. CASE p < K
      BY <1>4, <1>6, <3>2
    <3> QED BY <1>4, <3>1, <3>2
  <2>2. best'[K].dist \in Nat
    <3>1. CASE p = K
      BY <1>4, <1>6, <3>1
    <3>2. CASE p < K
      BY <1>4, <1>6, <3>2
    <3> QED BY <1>4, <3>1, <3>2
  <2>3. ASSUME NEW i \in 1 .. n, NEW k \in 1 .. K, best[k].at = i
        PROVE  (\E j \in 1 .. K : best'[j].at = i) \/ best'[K].dist <= DistanceOf(i)'
    <3>1. CASE k < p
      BY <1>6, <2>3, <3>1
    <3>2. CASE k >= p /\ k < K
      <4>1. k + 1 \in 1 .. K /\ k + 1 > p
        BY <1>4, <3>2
      <4>2. best'[k + 1] = best[k]
        BY <1>6, <4>1
      <4> QED BY <2>3, <4>1, <4>2
    <3>3. CASE k = K
      <4>1. best[K] = Entry(store.recs[seen[i]], i)
        <5>1. best[k] # Unfilled
          BY <1>4, <2>3 DEF Unfilled
        <5>2. best[k] = Entry(store.recs[seen[best[k].at]], best[k].at)
          BY <1>2, <5>1 DEF TopKExact, FromScans
        <5> QED BY <2>3, <3>3, <5>2
      <4>2. best[K].dist = DistanceOf(i)
        BY <4>1 DEF Entry, DistanceOf
      <4> QED BY <1>2, <2>1, <4>2
    <3> QED BY <1>4, <3>1, <3>2, <3>3
  <2>4. ASSUME NEW i \in 1 .. n, best[K].dist <= DistanceOf(i)
        PROVE  best'[K].dist <= DistanceOf(i)'
    BY <1>2, <1>4, <2>1, <2>2, <2>4
  <2>5. ASSUME NEW i \in 1 .. Len(seen')
        PROVE  (\E j \in 1 .. K : best'[j].at = i) \/ best'[K].dist <= DistanceOf(i)'
    <3>1. i \in 1 .. n \/ i = n + 1
      BY <1>2
    <3>2. CASE i = n + 1
      BY <1>3, <1>6, <3>2
    <3>3. CASE i \in 1 .. n
      BY <2>3, <2>4, <3>3 DEF TopKExact, NoneMissed
    <3> QED BY <3>1, <3>2, <3>3
  <2> QED BY <2>5 DEF NoneMissed
<1> QED BY <1>7, <1>9, <1>10 DEF TopKExact

\* The ranking stays the K nearest over every step.
LEMMA NextTopK ==
    ASSUME TypeOK, Inputs, Threshold, TopKExact, [Next]_vars
    PROVE  TopKExact'
<1>1. CASE SkipRecord
  BY <1>1, SkipTopK
<1>2. CASE KeepRecord
  BY <1>2, KeepTopK
<1>3. CASE UNCHANGED <<store, best, seen>>
  BY <1>3 DEF TopKExact, Sorted, FromScans, NoneMissed, DistanceOf
<1> QED
  BY <1>1, <1>2, <1>3
  DEF Next, Start, OpenBucket, Widen, Finish, inputs, vars

(***************************************************************************)
(* At every moment of the search, with any store and any configuration,    *)
(* the K places hold the K nearest of the records scanned so far, sorted,  *)
(* each scan in at most one place.                                         *)
(***************************************************************************)
THEOREM NearestKept == Spec => []TopKExact
<1>1. Init => TypeOK /\ Inputs /\ Threshold /\ TopKExact
  BY InitTypes, InitTopK
<1>2. TypeOK /\ Inputs /\ Threshold /\ TopKExact /\ [Next]_vars
        => (TypeOK /\ Inputs /\ Threshold /\ TopKExact)'
  BY NextTypes, NextTopK
<1> QED BY <1>1, <1>2, PTL DEF Spec

-----------------------------------------------------------------------------
(***************************************************************************)
(* The windows.  While the search walks, a record is within the radius if  *)
(* and only if its bucket is still to be opened, or it waits in the batch, *)
(* or it has been scanned.                                                 *)
(***************************************************************************)
Within(p) == store.recs[p].cell \in Window(query, radius)
Waiting(p) == \E i \in 1 .. Len(batch) : batch[i] = p
WasScanned(p) == \E i \in 1 .. Len(seen) : seen[i] = p

Positions == 1 .. Len(store.recs)

Walked ==
    Bucketed /\ phase = "walk" =>
        \A p \in Positions :
            Within(p) <=>
                store.recs[p].cell \in todo \/ Waiting(p) \/ WasScanned(p)

Ended ==
    Bucketed /\ phase = "done" =>
        \A p \in Positions : Within(p) <=> WasScanned(p)

Unstarted ==
    phase = "start" => radius = 0 /\ todo = {} /\ batch = << >> /\ seen = << >>

WalkInv == Unstarted /\ Walked /\ Ended

\* The window of a radius has the cells that are that near on every axis, and
\* the window of a greater radius has them too.
LEMMA WindowIsNear ==
    ASSUME NEW q \in Cells, NEW r \in Nat, NEW c \in Cells
    PROVE  /\ c \in Window(q, r) <=>
                \A x \in Axes : c[x] - q[x] <= r /\ q[x] - c[x] <= r
           /\ c \in Window(q, r) => c \in Window(q, r + 1)
<1>1. \A x \in Axes : /\ c[x] \in Nat /\ c[x] < Size[x]
                     /\ q[x] \in Nat /\ q[x] < Size[x] /\ Size[x] \in Nat
  BY CellType, SizeType
<1>2. ASSUME NEW x \in Axes, NEW n \in Nat
      PROVE  /\ BucketRangeStart(q[x], n) <= c[x]
                    /\ c[x] <= BucketRangeEnd(q[x], Size[x], n)
             <=> c[x] - q[x] <= n /\ q[x] - c[x] <= n
  BY <1>1 DEF BucketRangeStart, BucketRangeEnd
<1>3. ASSUME NEW n \in Nat
      PROVE  c \in Window(q, n) <=>
                \A x \in Axes : c[x] - q[x] <= n /\ q[x] - c[x] <= n
  BY <1>2 DEF Window
<1>4. r + 1 \in Nat /\ \A x \in Axes :
        c[x] - q[x] <= r /\ q[x] - c[x] <= r
            => c[x] - q[x] <= r + 1 /\ q[x] - c[x] <= r + 1
  BY <1>1
<1> QED BY <1>3, <1>4

\* The first record of the batch moves from there to the scanned ones.
LEMMA ScanMoves ==
    ASSUME TypeOK, Inputs, batch # << >>,
           batch' = Tail(batch), seen' = Append(seen, Head(batch)),
           NEW p \in Positions
    PROVE  Waiting(p)' \/ WasScanned(p)' <=> Waiting(p) \/ WasScanned(p)
<1>1. /\ batch \in Seq(Positions) /\ seen \in Seq(Positions)
      /\ Len(batch) \in Nat /\ Len(seen) \in Nat /\ Len(batch) > 0
  BY DEF TypeOK, Positions
<1>2. /\ Len(batch') = Len(batch) - 1
      /\ \A i \in 1 .. Len(batch') : batch'[i] = batch[i + 1]
      /\ Len(seen') = Len(seen) + 1 /\ seen'[Len(seen) + 1] = batch[1]
      /\ \A i \in 1 .. Len(seen) : seen'[i] = seen[i]
  BY <1>1
<1>3. ASSUME Waiting(p) PROVE Waiting(p)' \/ WasScanned(p)'
  <2>1. PICK i \in 1 .. Len(batch) : batch[i] = p
    BY <1>3 DEF Waiting
  <2>2. CASE i = 1
    <3>1. Len(seen) + 1 \in 1 .. Len(seen')
      BY <1>1, <1>2
    <3> QED BY <1>2, <2>1, <2>2, <3>1 DEF WasScanned
  <2>3. CASE i # 1
    <3>1. i - 1 \in 1 .. Len(batch') /\ (i - 1) + 1 = i
      BY <1>1, <1>2, <2>3
    <3> QED BY <1>2, <2>1, <3>1 DEF Waiting
  <2> QED BY <2>2, <2>3
<1>4. ASSUME WasScanned(p) PROVE WasScanned(p)'
  <2>1. PICK i \in 1 .. Len(seen) : seen[i] = p
    BY <1>4 DEF WasScanned
  <2>2. i \in 1 .. Len(seen') /\ seen'[i] = p
    BY <1>1, <1>2, <2>1
  <2> QED BY <2>2 DEF WasScanned
<1>5. ASSUME Waiting(p)' PROVE Waiting(p)
  <2>1. PICK i \in 1 .. Len(batch') : batch'[i] = p
    BY <1>5 DEF Waiting
  <2>2. i + 1 \in 1 .. Len(batch) /\ batch[i + 1] = p
    BY <1>1, <1>2, <2>1
  <2> QED BY <2>2 DEF Waiting
<1>6. ASSUME WasScanned(p)' PROVE Waiting(p) \/ WasScanned(p)
  <2>1. PICK i \in 1 .. Len(seen') : seen'[i] = p
    BY <1>6 DEF WasScanned
  <2>2. CASE i \in 1 .. Len(seen)
    BY <1>2, <2>1, <2>2 DEF WasScanned
  <2>3. CASE i = Len(seen) + 1
    <3>1. batch[1] = p
      BY <1>2, <2>1, <2>3
    <3>2. 1 \in 1 .. Len(batch)
      BY <1>1
    <3> QED BY <3>1, <3>2 DEF Waiting
  <2> QED BY <1>1, <1>2, <2>1, <2>2, <2>3
<1> QED BY <1>3, <1>4, <1>5, <1>6

\* A step keeps that account of the window.
LEMMA NextWalk ==
    ASSUME TypeOK, Inputs, WalkInv, [Next]_vars
    PROVE  WalkInv'
<1> USE DEF inputs
<1>0. \A p \in Positions : store.recs[p].cell \in Cells
  BY RecordCell DEF Inputs, Positions
<1>1. CASE Start
  <2>1. Unstarted'
    BY <1>1 DEF Start, Unstarted
  <2>2. /\ store' = store /\ query' = query /\ radius' = 0 /\ radius = 0
        /\ seen' = << >> /\ todo = {} /\ batch = << >>
    BY <1>1 DEF Start, WalkInv, Unstarted
  <2>3. Walked'
    <3>1. SUFFICES ASSUME Bucketed, phase' = "walk", NEW p \in Positions
                   PROVE  Within(p)' <=>
                            \/ store'.recs[p].cell \in todo'
                            \/ Waiting(p)' \/ WasScanned(p)'
      BY <2>2 DEF Walked, Bucketed, Positions
    <3>2. todo' = Window(query, 0) /\ batch' = << >>
      BY <1>1, <2>2, <3>1 DEF Start
    <3> QED BY <2>2, <3>2 DEF Within, Waiting, WasScanned
  <2>4. Ended'
    BY <1>1, <2>2 DEF Start, Ended, Positions, Bucketed
  <2> QED BY <2>1, <2>3, <2>4 DEF WalkInv
<1>2. CASE OpenBucket
  <2> DEFINE c == First(todo)
             found == Candidates(store, c)
  <2>1. Unstarted' /\ Ended'
    BY <1>2 DEF OpenBucket, Unstarted, Ended
  <2>2. /\ store' = store /\ query' = query /\ radius' = radius
        /\ seen' = seen /\ batch = << >> /\ todo # {} /\ phase = "walk"
        /\ todo' = todo \ {c} /\ batch' = found
    BY <1>2 DEF OpenBucket
  <2>3. c \in todo /\ c \in Cells /\ Bucketed
    BY <2>2, FirstHasLeastIndex DEF TypeOK, Inputs
  <2>4. \A p \in Positions : store.recs[p].cell = c <=> Waiting(p)'
    BY <2>2, <2>3, PlacementAssumption
       DEF Inputs, Bucketed, Positions, Waiting, Placed
  <2>5. \A p \in Positions : ~ Waiting(p)
    BY <2>2 DEF Waiting
  <2>6. \A p \in Positions :
            (Within(p)' <=> Within(p)) /\ (WasScanned(p)' <=> WasScanned(p))
    BY <2>2 DEF Within, WasScanned
  <2>7. Walked'
    BY <2>2, <2>3, <2>4, <2>5, <2>6 DEF WalkInv, Walked, Positions, Bucketed
  <2> QED BY <2>1, <2>7 DEF WalkInv
<1>3. CASE SkipRecord \/ KeepRecord
  <2>1. /\ store' = store /\ query' = query /\ radius' = radius
        /\ todo' = todo /\ phase' = phase /\ phase = "walk" /\ batch # << >>
        /\ batch' = Tail(batch) /\ seen' = Append(seen, Head(batch))
    BY <1>3 DEF SkipRecord, KeepRecord
  <2>2. \A p \in Positions :
            Waiting(p)' \/ WasScanned(p)' <=> Waiting(p) \/ WasScanned(p)
    BY <2>1, ScanMoves
  <2>3. Walked'
    BY <2>1, <2>2 DEF WalkInv, Walked, Positions, Bucketed, Within
  <2> QED BY <2>1, <2>3 DEF WalkInv, Unstarted, Ended
<1>4. CASE Widen
  <2>1. /\ store' = store /\ query' = query /\ radius' = radius + 1
        /\ seen' = seen /\ batch' = batch /\ phase' = phase /\ phase = "walk"
        /\ todo' = Window(query, radius + 1)
        /\ batch = << >> /\ todo = {} /\ Bucketed
    BY <1>4 DEF Widen, WindowDone
  <2>2. ASSUME NEW p \in Positions, WasScanned(p) PROVE Within(p)'
    <3>1. Within(p)
      BY <2>1, <2>2 DEF WalkInv, Walked
    <3>2. store.recs[p].cell \in Cells /\ radius \in Nat /\ query \in Cells
      BY <1>0 DEF TypeOK, Inputs
    <3> QED BY <2>1, <3>1, <3>2, WindowIsNear DEF Within
  <2>3. \A p \in Positions : ~ Waiting(p)'
    BY <2>1 DEF Waiting
  <2>4. Walked'
    BY <2>1, <2>2, <2>3 DEF Walked, Positions, Bucketed, Within, WasScanned
  <2> QED BY <2>1, <2>4 DEF WalkInv, Unstarted, Ended
<1>5. CASE Finish
  <2>1. /\ store' = store /\ query' = query /\ radius' = radius
        /\ seen' = seen /\ phase' = "done" /\ phase = "walk"
        /\ batch = << >> /\ todo = {}
    BY <1>5 DEF Finish, WindowDone
  <2>2. \A p \in Positions : ~ Waiting(p)
    BY <2>1 DEF Waiting
  <2>3. Ended'
    BY <2>1, <2>2
       DEF WalkInv, Walked, Ended, Positions, Bucketed, Within, WasScanned
  <2> QED BY <2>1, <2>3 DEF WalkInv, Unstarted, Walked
<1>6. CASE UNCHANGED vars
  BY <1>6 DEF vars, WalkInv, Unstarted, Walked, Ended, Positions, Bucketed,
              Within, Waiting, WasScanned
<1> QED BY <1>1, <1>2, <1>3, <1>4, <1>5, <1>6 DEF Next

(***************************************************************************)
(* When a search ends, it has scanned every record within its last radius  *)
(* of the query, on every axis, and no other.                              *)
(***************************************************************************)
THEOREM WindowsAreComplete == Spec => []WindowScanned
<1>1. Init => TypeOK /\ Inputs /\ Threshold /\ WalkInv
  <2>1. Init => WalkInv
    BY DEF Init, WalkInv, Unstarted, Walked, Ended
  <2> QED BY <2>1, InitTypes
<1>2. TypeOK /\ Inputs /\ Threshold /\ WalkInv /\ [Next]_vars
        => (TypeOK /\ Inputs /\ Threshold /\ WalkInv)'
  BY NextTypes, NextWalk
<1>3. TypeOK /\ Inputs /\ WalkInv => WindowScanned
  <2>1. SUFFICES ASSUME TypeOK, Inputs, WalkInv, phase = "done", Bucketed,
                        NEW p \in Positions
                 PROVE  NearAt(store.recs[p].cell, radius) <=> WasScanned(p)
    BY DEF WindowScanned, Positions, WasScanned
  <2>2. Within(p) <=> WasScanned(p)
    BY <2>1 DEF WalkInv, Ended
  <2>3. store.recs[p].cell \in Cells /\ radius \in Nat /\ query \in Cells
    BY <2>1, RecordCell DEF TypeOK, Inputs, Positions
  <2> QED BY <2>2, <2>3, WindowIsNear DEF Within, NearAt
<1> QED BY <1>1, <1>2, <1>3, PTL DEF Spec

-----------------------------------------------------------------------------
(***************************************************************************)
(* How often a record is scanned.  Every window that has its bucket has it *)
(* before it, among the candidates of the bucket that is open, or behind   *)
(* it.                                                                     *)
(***************************************************************************)
Ahead(p) == IF Bucketed /\ store.recs[p].cell \in todo THEN 1 ELSE 0

Accounted ==
    /\ phase = "walk" => \A p \in Positions :
            HowOften(seen, p) + HowOften(batch, p) + Ahead(p) = Passes(p)
    /\ ScannedPerRadius

\* A list has a number of places that hold a value.
LEMMA HowOftenType ==
    ASSUME NEW S, NEW s \in Seq(S), NEW p
    PROVE  /\ IsFiniteSet({i \in 1 .. Len(s) : s[i] = p})
           /\ HowOften(s, p) \in Nat
           /\ s = << >> => HowOften(s, p) = 0
<1> DEFINE W == {i \in 1 .. Len(s) : s[i] = p}
<1>1. IsFiniteSet(1 .. Len(s))
  BY FS_Interval
<1>2. IsFiniteSet(W) /\ Cardinality(W) \in Nat
  BY <1>1, FS_Subset, FS_CardinalityType
<1>3. s = << >> => W = {}
  OBVIOUS
<1> QED BY <1>2, <1>3, FS_EmptySet DEF HowOften

\* One more at the end.
LEMMA HowOftenAppended ==
    ASSUME NEW S, NEW s \in Seq(S), NEW e \in S, NEW p
    PROVE  HowOften(Append(s, e), p) =
                HowOften(s, p) + (IF e = p THEN 1 ELSE 0)
<1> DEFINE t == Append(s, e)
           n == Len(s)
           V == {i \in 1 .. n : s[i] = p}
           W == {i \in 1 .. Len(t) : t[i] = p}
<1>1. /\ n \in Nat /\ Len(t) = n + 1 /\ t[n + 1] = e
      /\ \A i \in 1 .. n : t[i] = s[i]
  OBVIOUS
<1>2. IsFiniteSet(V) /\ Cardinality(V) \in Nat
  BY HowOftenType, FS_CardinalityType
<1> HIDE DEF t
<1>3. CASE e = p
  <2>1. W = V \cup {n + 1} /\ n + 1 \notin V
    BY <1>1, <1>3
  <2> HIDE DEF V, W
  <2>2. Cardinality(W) = Cardinality(V) + 1
    BY <1>2, <2>1, FS_AddElement
  <2> QED BY <1>3, <2>2 DEF HowOften, V, W, t
<1>4. CASE e # p
  <2>1. W = V
    BY <1>1, <1>4
  <2> HIDE DEF V, W
  <2>2. Cardinality(W) = Cardinality(V) + 0
    BY <1>2, <2>1
  <2> QED BY <1>4, <2>2 DEF HowOften, V, W, t
<1> QED BY <1>3, <1>4

\* One fewer without the first.
LEMMA HowOftenRest ==
    ASSUME NEW S, NEW s \in Seq(S), s # << >>, NEW p
    PROVE  HowOften(s, p) =
                HowOften(Tail(s), p) + (IF Head(s) = p THEN 1 ELSE 0)
<1> DEFINE t == Tail(s)
           n == Len(s)
           V == {i \in 1 .. Len(t) : t[i] = p}
           W == {i \in 2 .. n : s[i] = p}
           f == [i \in V |-> i + 1]
<1>1. /\ n \in Nat /\ n > 0 /\ Len(t) = n - 1 /\ Head(s) = s[1] /\ t \in Seq(S)
      /\ \A i \in 1 .. (n - 1) : t[i] = s[i + 1]
  <2>1. n \in Nat /\ n > 0 /\ Head(s) = s[1]
    OBVIOUS
  <2>2. t \in Seq(S) /\ Len(t) = n - 1
    OBVIOUS
  <2>3. \A i \in 1 .. (n - 1) : t[i] = s[i + 1]
    OBVIOUS
  <2> QED BY <2>1, <2>2, <2>3
<1> HIDE DEF t
<1>2. IsFiniteSet(V) /\ Cardinality(V) \in Nat
  <2>1. t \in Seq(S)
    BY <1>1
  <2>2. IsFiniteSet(V)
    BY <2>1, HowOftenType
  <2> HIDE DEF V
  <2> QED BY <2>2, FS_CardinalityType
<1>3. IsFiniteSet(W) /\ Cardinality(W) = Cardinality(V)
  <2>1. f \in [V -> W]
    BY <1>1
  <2>2. \A i, j \in V : f[i] = f[j] => i = j
    BY <1>1
  <2>3. ASSUME NEW j \in W PROVE \E i \in V : f[i] = j
    <3>1. j - 1 \in V /\ f[j - 1] = j
      BY <1>1
    <3> QED BY <3>1
  <2>4. f \in Bijection(V, W)
    <3> HIDE DEF f, V, W
    <3> QED BY <2>1, <2>2, <2>3, Fun_IsBij
  <2>5. ExistsBijection(V, W)
    BY <2>4 DEF ExistsBijection
  <2> HIDE DEF V, W
  <2> QED BY <1>2, <2>5, FS_Bijection
<1> DEFINE U == {i \in 1 .. n : s[i] = p}
<1>4. CASE s[1] = p
  <2>1. U = W \cup {1} /\ 1 \notin W
    BY <1>1, <1>4
  <2> HIDE DEF U, V, W
  <2>2. Cardinality(U) = Cardinality(W) + 1
    BY <1>3, <2>1, FS_AddElement
  <2> QED BY <1>1, <1>3, <1>4, <2>2 DEF HowOften, U, V, t
<1>5. CASE s[1] # p
  <2>1. U = W
    BY <1>1, <1>5
  <2> HIDE DEF U, V, W
  <2>2. Cardinality(U) = Cardinality(V) + 0
    BY <1>2, <1>3, <2>1
  <2> QED BY <1>1, <1>5, <2>2 DEF HowOften, U, V, t
<1> QED BY <1>4, <1>5

\* A list without repetition has what it has once.
LEMMA HowOftenListed ==
    ASSUME NEW S, NEW s \in Seq(S), NEW p,
           \A i, j \in 1 .. Len(s) : s[i] = s[j] => i = j
    PROVE  HowOften(s, p) = IF \E i \in 1 .. Len(s) : s[i] = p THEN 1 ELSE 0
<1> DEFINE W == {i \in 1 .. Len(s) : s[i] = p}
<1>1. CASE \E i \in 1 .. Len(s) : s[i] = p
  <2>1. PICK i \in 1 .. Len(s) : s[i] = p
    BY <1>1
  <2>2. W = {i}
    BY <2>1
  <2>3. Cardinality(W) = 1
    BY <2>2, FS_Singleton
  <2> QED BY <1>1, <2>3 DEF HowOften
<1>2. CASE ~ \E i \in 1 .. Len(s) : s[i] = p
  <2>1. W = {}
    BY <1>2
  <2> QED BY <1>2, <2>1, FS_EmptySet DEF HowOften
<1> QED BY <1>1, <1>2

\* The radii up to n whose window around q has the bucket c.
Reaching(q, c, n) ==
    {r \in 0 .. n : \A x \in Axes : c[x] - q[x] <= r /\ q[x] - c[x] <= r}

\* Each further radius is one more when its window has the bucket.
LEMMA ReachingType ==
    ASSUME NEW q, NEW c, NEW n \in Nat
    PROVE  /\ IsFiniteSet(Reaching(q, c, n))
           /\ Cardinality(Reaching(q, c, n)) \in Nat
<1>1. IsFiniteSet(0 .. n)
  BY FS_Interval
<1>2. Reaching(q, c, n) \in SUBSET (0 .. n)
  BY DEF Reaching
<1> QED BY <1>1, <1>2, FS_Subset, FS_CardinalityType

LEMMA NextRadius ==
    ASSUME NEW q \in Cells, NEW c \in Cells, NEW n \in Nat
    PROVE  /\ Cardinality(Reaching(q, c, 0)) =
                IF c \in Window(q, 0) THEN 1 ELSE 0
           /\ Cardinality(Reaching(q, c, n + 1)) =
                Cardinality(Reaching(q, c, n))
                    + (IF c \in Window(q, n + 1) THEN 1 ELSE 0)
<1> DEFINE V == Reaching(q, c, n)
           W == Reaching(q, c, n + 1)
<1>1. \A r \in Nat : c \in Window(q, r) <=>
            \A x \in Axes : c[x] - q[x] <= r /\ q[x] - c[x] <= r
  BY WindowIsNear
<1>2. Reaching(q, c, 0) = IF c \in Window(q, 0) THEN {0} ELSE {}
  <2>1. 0 .. 0 = {0} /\ 0 \in Nat
    OBVIOUS
  <2> QED BY <1>1, <2>1 DEF Reaching
<1>3. W = IF c \in Window(q, n + 1) THEN V \cup {n + 1} ELSE V
  <2>1. 0 .. (n + 1) = (0 .. n) \cup {n + 1} /\ n + 1 \in Nat
    OBVIOUS
  <2> QED BY <1>1, <2>1 DEF Reaching
<1>4. IsFiniteSet(V) /\ Cardinality(V) \in Nat /\ n + 1 \notin V
  <2>1. n + 1 \notin V
    BY DEF Reaching
  <2> QED BY <2>1, ReachingType
<1> HIDE DEF V, W
<1>5. Cardinality(V \cup {n + 1}) = Cardinality(V) + 1
  BY <1>4, FS_AddElement
<1>6. Cardinality(W) =
            Cardinality(V) + (IF c \in Window(q, n + 1) THEN 1 ELSE 0)
  BY <1>3, <1>4, <1>5
<1>7. Cardinality(Reaching(q, c, 0)) = IF c \in Window(q, 0) THEN 1 ELSE 0
  BY <1>2, FS_EmptySet, FS_Singleton
<1> QED BY <1>6, <1>7 DEF V, W

\* What has been counted of a record is a number.
LEMMA CountTypes ==
    ASSUME TypeOK, Inputs, NEW p \in Positions
    PROVE  /\ HowOften(seen, p) \in Nat /\ HowOften(batch, p) \in Nat
           /\ Ahead(p) \in Nat /\ Passes(p) \in Nat
           /\ Passes(p) =
                IF Bucketed
                THEN Cardinality(Reaching(query, store.recs[p].cell, radius))
                ELSE 1
           /\ store.recs[p].cell \in Cells /\ query \in Cells /\ radius \in Nat
           /\ batch = << >> => HowOften(batch, p) = 0
<1>1. /\ HowOften(seen, p) \in Nat /\ HowOften(batch, p) \in Nat
      /\ batch = << >> => HowOften(batch, p) = 0
  BY HowOftenType DEF TypeOK
<1>2. store.recs[p].cell \in Cells /\ query \in Cells /\ radius \in Nat
  BY RecordCell DEF Inputs, TypeOK, Positions
<1>3. Cardinality(Reaching(query, store.recs[p].cell, radius)) \in Nat
  BY <1>2, ReachingType
<1>4. Passes(p) = IF Bucketed
                  THEN Cardinality(Reaching(query, store.recs[p].cell, radius))
                  ELSE 1
  BY DEF Passes, Reaching, NearAt
<1>5. Ahead(p) \in Nat
  BY DEF Ahead
<1> QED BY <1>1, <1>2, <1>3, <1>4, <1>5

\* The first scans: those of radius 0, or of the whole store.
LEMMA StartCounts ==
    ASSUME TypeOK, Inputs, Unstarted, Start, TypeOK', Inputs'
    PROVE  Accounted'
<1> USE DEF inputs
<1>1. /\ store' = store /\ query' = query /\ radius' = 0 /\ seen' = << >>
      /\ todo = {} /\ batch = << >>
      /\ Positions' = Positions /\ (Bucketed' <=> Bucketed)
  BY DEF Start, Unstarted, Positions, Bucketed
<1>2. \A p \in Positions : HowOften(seen', p) = 0
  BY <1>1, HowOftenType DEF TypeOK
<1>3. CASE store.recs = << >>
  <2>1. Positions = {}
    BY <1>3 DEF Positions
  <2> QED BY <1>1, <2>1 DEF Accounted, ScannedPerRadius, Positions
<1>4. CASE store.recs # << >> /\ Bucketed
  <2>1. phase' = "walk" /\ batch' = << >> /\ todo' = Window(query, 0)
    BY <1>1, <1>4 DEF Start
  <2>2. ASSUME NEW p \in Positions
        PROVE  HowOften(seen, p)' + HowOften(batch, p)' + Ahead(p)' = Passes(p)'
    <3>1. HowOften(batch', p) = 0
      <4>1. batch' \in Seq(Positions)
        BY <2>1
      <4> QED BY <2>1, <4>1, HowOftenType
    <3>2. store.recs[p].cell \in Cells /\ query \in Cells
      BY CountTypes
    <3>3. Passes(p)' = IF store.recs[p].cell \in Window(query, 0) THEN 1 ELSE 0
      <4>1. Passes(p)' = Cardinality(Reaching(query, store.recs[p].cell, 0))
        BY <1>1, <1>4 DEF Passes, Reaching, NearAt
      <4> QED BY <3>2, <4>1, NextRadius
    <3>4. Ahead(p)' = IF store.recs[p].cell \in Window(query, 0) THEN 1 ELSE 0
      BY <1>1, <1>4, <2>1 DEF Ahead
    <3> QED BY <1>2, <3>1, <3>3, <3>4
  <2> QED BY <1>1, <2>1, <2>2 DEF Accounted, ScannedPerRadius
<1>5. CASE store.recs # << >> /\ ~ Bucketed
  <2>1. phase' # "done" /\ batch' = [i \in 1 .. Len(store.recs) |-> i]
    BY <1>1, <1>5 DEF Start
  <2>2. ASSUME NEW p \in Positions
        PROVE  HowOften(seen, p)' + HowOften(batch, p)' + Ahead(p)' = Passes(p)'
    <3>1. Len(store.recs) \in Nat
      BY DistanceAssumption DEF Inputs, StoreType
    <3>2. /\ batch' \in Seq(Positions) /\ Len(batch') = Len(store.recs)
          /\ \A i \in 1 .. Len(batch') : batch'[i] = i
      BY <2>1, <3>1 DEF Positions
    <3>3. HowOften(batch', p) = 1
      <4>1. /\ \A i, j \in 1 .. Len(batch') : batch'[i] = batch'[j] => i = j
            /\ \E i \in 1 .. Len(batch') : batch'[i] = p
        BY <3>2 DEF Positions
      <4> QED BY <3>2, <4>1, HowOftenListed
    <3>4. Passes(p)' = 1 /\ Ahead(p)' = 0
      BY <1>1, <1>5 DEF Passes, Ahead
    <3> QED BY <1>2, <3>3, <3>4
  <2> QED BY <1>1, <2>1, <2>2 DEF Accounted, ScannedPerRadius
<1> QED BY <1>3, <1>4, <1>5

\* The records of a bucket that is opened wait for their scan, each once.
LEMMA OpenCounts ==
    ASSUME TypeOK, Inputs, Accounted, OpenBucket, TypeOK', Inputs'
    PROVE  Accounted'
<1> USE DEF inputs
<1> DEFINE c == First(todo)
           found == Candidates(store, c)
<1>1. /\ store' = store /\ query' = query /\ radius' = radius
      /\ seen' = seen /\ batch = << >> /\ todo # {} /\ phase = "walk"
      /\ todo' = todo \ {c} /\ batch' = found /\ phase' # "done"
      /\ Positions' = Positions /\ (Bucketed' <=> Bucketed)
  BY DEF OpenBucket, Positions, Bucketed
<1>2. c \in todo /\ c \in Cells /\ Bucketed
  BY <1>1, FirstHasLeastIndex DEF TypeOK, Inputs
<1>3. found \in Seq(Positions)
  BY <1>2, CandidatesType DEF Inputs, Bucketed, Positions
<1>4. /\ \A p \in Positions : store.recs[p].cell = c <=>
            \E i \in 1 .. Len(found) : found[i] = p
      /\ \A i, j \in 1 .. Len(found) : found[i] = found[j] => i = j
  BY <1>2, PlacementAssumption DEF Inputs, Bucketed, Positions, Placed
<1> HIDE DEF c, found
<1>5. ASSUME NEW p \in Positions
      PROVE  HowOften(seen, p)' + HowOften(batch, p)' + Ahead(p)' = Passes(p)'
  <2>1. HowOften(batch', p) = IF store.recs[p].cell = c THEN 1 ELSE 0
    BY <1>1, <1>3, <1>4, HowOftenListed
  <2>2. HowOften(batch, p) = 0 /\ HowOften(seen, p) \in Nat /\ Passes(p) \in Nat
    BY <1>1, CountTypes
  <2>3. Ahead(p)' = IF store.recs[p].cell = c THEN 0 ELSE Ahead(p)
    BY <1>1, <1>2 DEF Ahead
  <2>4. store.recs[p].cell = c => Ahead(p) = 1
    BY <1>2 DEF Ahead
  <2>5. Passes(p)' = Passes(p) /\ HowOften(seen, p)' = HowOften(seen, p)
    BY <1>1, <1>2 DEF Passes, NearAt
  <2>6. HowOften(seen, p) + HowOften(batch, p) + Ahead(p) = Passes(p)
    BY <1>1 DEF Accounted
  <2>7. Ahead(p) \in Nat
    BY CountTypes
  <2> QED BY <2>1, <2>2, <2>3, <2>4, <2>5, <2>6, <2>7
<1> QED BY <1>1, <1>5 DEF Accounted, ScannedPerRadius

\* A scan takes the first record of the batch.
LEMMA ScanCounts ==
    ASSUME TypeOK, Inputs, Accounted, SkipRecord \/ KeepRecord
    PROVE  Accounted'
<1> USE DEF inputs
<1>1. /\ store' = store /\ query' = query /\ radius' = radius
      /\ todo' = todo /\ phase' = phase /\ phase = "walk" /\ batch # << >>
      /\ batch' = Tail(batch) /\ seen' = Append(seen, Head(batch))
      /\ Positions' = Positions /\ (Bucketed' <=> Bucketed)
  BY DEF SkipRecord, KeepRecord, Positions, Bucketed
<1>2. ASSUME NEW p \in Positions
      PROVE  HowOften(seen, p)' + HowOften(batch, p)' + Ahead(p)' = Passes(p)'
  <2> DEFINE one == IF Head(batch) = p THEN 1 ELSE 0
  <2>1. HowOften(seen', p) = HowOften(seen, p) + one
    <3>1. Head(batch) \in Positions /\ seen \in Seq(Positions)
      BY <1>1 DEF TypeOK, Positions
    <3> QED BY <1>1, <3>1, HowOftenAppended
  <2>2. HowOften(batch, p) = HowOften(batch', p) + one
    BY <1>1, HowOftenRest DEF TypeOK
  <2>3. Passes(p)' = Passes(p) /\ Ahead(p)' = Ahead(p)
    BY <1>1 DEF Passes, NearAt, Ahead
  <2>4. HowOften(seen, p) + HowOften(batch, p) + Ahead(p) = Passes(p)
    BY <1>1 DEF Accounted
  <2>5. /\ HowOften(seen, p) \in Nat /\ HowOften(batch, p) \in Nat
        /\ Ahead(p) \in Nat /\ HowOften(batch', p) \in Nat /\ one \in Nat
    <3>1. batch' \in Seq(1 .. Len(store.recs))
      BY <1>1 DEF TypeOK
    <3> QED BY <3>1, CountTypes, HowOftenType
  <2> HIDE DEF one
  <2>6. HowOften(seen', p) + HowOften(batch', p) + Ahead(p) = Passes(p)
    BY <2>1, <2>2, <2>4, <2>5
  <2> QED BY <2>3, <2>6
<1> QED BY <1>1, <1>2 DEF Accounted, ScannedPerRadius

\* A wider window has a record's bucket before it once more, or not at all.
LEMMA WidenCounts ==
    ASSUME TypeOK, Inputs, Accounted, Widen
    PROVE  Accounted'
<1> USE DEF inputs
<1>1. /\ store' = store /\ query' = query /\ radius' = radius + 1
      /\ seen' = seen /\ batch' = batch /\ phase' = phase /\ phase = "walk"
      /\ todo' = Window(query, radius + 1)
      /\ batch = << >> /\ todo = {} /\ Bucketed /\ Bucketed'
      /\ Positions' = Positions
  BY DEF Widen, WindowDone, Positions, Bucketed
<1>2. ASSUME NEW p \in Positions
      PROVE  HowOften(seen, p)' + HowOften(batch, p)' + Ahead(p)' = Passes(p)'
  <2> DEFINE c == store.recs[p].cell
             one == IF c \in Window(query, radius + 1) THEN 1 ELSE 0
  <2>1. /\ HowOften(seen, p) \in Nat /\ HowOften(batch, p) = 0
        /\ c \in Cells /\ query \in Cells /\ radius \in Nat
        /\ Passes(p) \in Nat
        /\ Passes(p) = Cardinality(Reaching(query, c, radius))
    BY <1>1, CountTypes
  <2>2. Passes(p)' = Cardinality(Reaching(query, c, radius + 1))
    BY <1>1 DEF Passes, Reaching, NearAt
  <2>3. Passes(p)' = Passes(p) + one
    BY <2>1, <2>2, NextRadius
  <2>4. Ahead(p)' = one /\ Ahead(p) = 0
    BY <1>1 DEF Ahead
  <2>5. HowOften(seen, p) + HowOften(batch, p) + Ahead(p) = Passes(p)
    BY <1>1 DEF Accounted
  <2>6. /\ HowOften(seen, p)' = HowOften(seen, p)
        /\ HowOften(batch, p)' = HowOften(batch, p)
    BY <1>1
  <2>7. one \in Nat
    OBVIOUS
  <2> HIDE DEF one
  <2> QED BY <2>1, <2>3, <2>4, <2>5, <2>6, <2>7
<1> QED BY <1>1, <1>2 DEF Accounted, ScannedPerRadius

\* At the end nothing is ahead.
LEMMA FinishCounts ==
    ASSUME TypeOK, Inputs, Accounted, Finish
    PROVE  Accounted'
<1> USE DEF inputs
<1>1. /\ store' = store /\ query' = query /\ radius' = radius
      /\ seen' = seen /\ phase' = "done" /\ phase = "walk"
      /\ batch = << >> /\ todo = {}
      /\ Positions' = Positions /\ (Bucketed' <=> Bucketed)
  BY DEF Finish, WindowDone, Positions, Bucketed
<1>2. ASSUME NEW p \in Positions
      PROVE  HowOften(seen, p)' = Passes(p)'
  <2>1. HowOften(seen, p) \in Nat /\ HowOften(batch, p) = 0
    BY <1>1, CountTypes
  <2>2. Ahead(p) = 0
    BY <1>1 DEF Ahead
  <2>3. HowOften(seen, p) + HowOften(batch, p) + Ahead(p) = Passes(p)
    BY <1>1 DEF Accounted
  <2>4. Passes(p)' = Passes(p) /\ HowOften(seen, p)' = HowOften(seen, p)
    BY <1>1 DEF Passes, NearAt
  <2> QED BY <2>1, <2>2, <2>3, <2>4
<1> QED BY <1>1, <1>2 DEF Accounted, ScannedPerRadius, Positions

\* Every step keeps the account.
LEMMA NextCounts ==
    ASSUME TypeOK, Inputs, Threshold, WalkInv, Accounted, [Next]_vars
    PROVE  Accounted'
<1>1. TypeOK' /\ Inputs'
  BY NextTypes
<1>2. CASE Start
  BY <1>1, <1>2, StartCounts DEF WalkInv
<1>3. CASE OpenBucket
  BY <1>1, <1>3, OpenCounts
<1>4. CASE SkipRecord \/ KeepRecord
  BY <1>4, ScanCounts
<1>5. CASE Widen
  BY <1>5, WidenCounts
<1>6. CASE Finish
  BY <1>6, FinishCounts
<1>7. CASE UNCHANGED vars
  BY <1>7 DEF vars, inputs, Accounted, ScannedPerRadius, Positions, Ahead,
              Passes, NearAt, Bucketed
<1> QED BY <1>2, <1>3, <1>4, <1>5, <1>6, <1>7 DEF Next

(***************************************************************************)
(* When a search ends, a record has been scanned once at every radius      *)
(* whose window had its bucket, no more and no less: the records of the    *)
(* query's own bucket once more than those next to it, and so on.  A store *)
(* without buckets has been scanned once from end to end.                  *)
(***************************************************************************)
THEOREM RecordsScannedPerRadius == Spec => []ScannedPerRadius
<1> DEFINE Inv == TypeOK /\ Inputs /\ Threshold /\ WalkInv /\ Accounted
<1>1. Init => Inv
  <2>1. Init => WalkInv /\ Accounted
    BY DEF Init, WalkInv, Unstarted, Walked, Ended, Accounted,
           ScannedPerRadius
  <2> QED BY <2>1, InitTypes
<1>2. Inv /\ [Next]_vars => Inv'
  BY NextTypes, NextWalk, NextCounts
<1>3. Inv => ScannedPerRadius
  BY DEF Accounted
<1> QED BY <1>1, <1>2, <1>3, PTL DEF Spec

-----------------------------------------------------------------------------
(***************************************************************************)
(* The verdict.  Of equal distances the earlier scan is kept: in the       *)
(* places they are in the order of their scans, and a scan in no place is  *)
(* later than one of its distance in the last place.                       *)
(***************************************************************************)
PlacesInOrder ==
    \A j, k \in 1 .. K :
        j < k /\ best[j].dist = best[k].dist /\ best[k].at > 0
            => best[j].at < best[k].at

MissedAreLater ==
    \A i \in 1 .. Len(seen) :
        (\A k \in 1 .. K : best[k].at # i) /\ best[K].dist = DistanceOf(i)
            => best[K].at < i

TiesInv == PlacesInOrder /\ MissedAreLater

\* What the places and the scans are, under the invariants so far.
LEMMA PlaceFacts ==
    ASSUME TypeOK, Inputs, TopKExact
    PROVE  /\ K \in Nat \ {0} /\ Len(seen) \in Nat
           /\ \A k \in 1 .. K :
                /\ best[k].dist \in Nat /\ best[k].at \in Nat
                /\ best[k].at = 0 => best[k] = Unfilled
                /\ best[k].at > 0 =>
                    /\ best[k].at \in 1 .. Len(seen)
                    /\ best[k].dist = DistanceOf(best[k].at)
                    /\ best[k].label = store.recs[seen[best[k].at]].label
           /\ \A i \in 1 .. Len(seen) :
                DistanceOf(i) \in Nat /\ DistanceOf(i) < Infinity
<1>1. K \in Nat \ {0} /\ seen \in Seq(Positions) /\ Len(seen) \in Nat
  BY ConstantTypes DEF TypeOK, Positions
<1>2. \A k \in 1 .. K : best[k].dist \in Nat /\ best[k].at \in Nat
  BY DEF TypeOK, PlaceType
<1>3. ASSUME NEW k \in 1 .. K
      PROVE  /\ best[k].at = 0 => best[k] = Unfilled
             /\ best[k].at > 0 =>
                 /\ best[k].at \in 1 .. Len(seen)
                 /\ best[k].dist = DistanceOf(best[k].at)
                 /\ best[k].label = store.recs[seen[best[k].at]].label
  <2>1. CASE best[k] = Unfilled
    BY <2>1 DEF Unfilled
  <2>2. CASE /\ best[k].at \in 1 .. Len(seen)
             /\ best[k] = Entry(store.recs[seen[best[k].at]], best[k].at)
    BY <1>1, <2>2 DEF Entry, DistanceOf
  <2> QED BY <2>1, <2>2 DEF TopKExact, FromScans
<1>4. ASSUME NEW i \in 1 .. Len(seen)
      PROVE  DistanceOf(i) \in Nat /\ DistanceOf(i) < Infinity
  <2>1. seen[i] \in 1 .. Len(store.recs)
    BY <1>1 DEF Positions
  <2> QED BY <2>1, RecordType DEF Inputs, Stages, DistanceOf
<1> QED BY <1>1, <1>2, <1>3, <1>4

\* Pruning a record keeps the order: it is later than all others.
LEMMA SkipTies ==
    ASSUME TypeOK, Inputs, Threshold, TopKExact, TiesInv, SkipRecord
    PROVE  TiesInv'
<1> DEFINE n == Len(seen)
<1>1. store' = store /\ best' = best /\ batch # << >>
      /\ seen' = Append(seen, Head(batch))
  BY DEF SkipRecord, inputs
<1>2. /\ n \in Nat /\ Len(seen') = n + 1
      /\ \A i \in 1 .. n : DistanceOf(i)' = DistanceOf(i)
  BY <1>1, Scanned
<1>3. PlacesInOrder'
  BY <1>1 DEF TiesInv, PlacesInOrder
<1>4. K \in 1 .. K /\ best[K].at \in Nat /\ best[K].at < n + 1
  <2>1. K \in 1 .. K
    BY ConstantTypes
  <2>2. best[K].at \in Nat /\ (best[K].at > 0 => best[K].at \in 1 .. n)
    BY <2>1, PlaceFacts
  <2> QED BY <1>2, <2>1, <2>2
<1>5. MissedAreLater'
  <2>1. SUFFICES ASSUME NEW i \in 1 .. n + 1,
                        \A k \in 1 .. K : best[k].at # i,
                        best[K].dist = DistanceOf(i)'
                 PROVE  best[K].at < i
    BY <1>1, <1>2 DEF MissedAreLater
  <2>2. CASE i = n + 1
    BY <1>4, <2>2
  <2>3. CASE i \in 1 .. n
    BY <1>2, <2>1, <2>3 DEF TiesInv, MissedAreLater
  <2> QED BY <1>2, <2>2, <2>3
<1> QED BY <1>3, <1>5 DEF TiesInv

\* Inserting one keeps it: it goes behind those as near, and what it pushes
\* out is no nearer than the new last place.
LEMMA KeepTies ==
    ASSUME TypeOK, Inputs, Threshold, TopKExact, TiesInv, KeepRecord
    PROVE  TiesInv'
<1> DEFINE n == Len(seen)
           r == store.recs[Head(batch)]
           e == Entry(r, n + 1)
<1>1. store' = store /\ batch # << >>
      /\ seen' = Append(seen, Head(batch)) /\ best' = Insert(best, e)
  BY DEF KeepRecord, inputs
<1>2. /\ n \in Nat /\ Len(seen') = n + 1
      /\ \A i \in 1 .. n : DistanceOf(i)' = DistanceOf(i) /\ DistanceOf(i) \in Nat
  BY <1>1, Scanned
<1>3. e \in PlaceType /\ e.dist < best[K].dist /\ e.at = n + 1
  BY <1>1, HeadType, KeptIsNear DEF Entry
<1>4. /\ best \in [1 .. K -> PlaceType] /\ K \in Nat \ {0}
      /\ \A k \in 1 .. K :
            /\ best[k].dist \in Nat /\ best[k].at \in Nat
            /\ best[k].at = 0 => best[k] = Unfilled
            /\ best[k].at > 0 =>
                best[k].at \in 1 .. n /\ best[k].dist = DistanceOf(best[k].at)
            /\ best[k].at < n + 1
      /\ \A j, k \in 1 .. K : j < k => best[j].dist <= best[k].dist
      /\ e.dist \in Nat
      /\ \A i \in 1 .. n : DistanceOf(i) < Infinity
  <2>1. /\ best \in [1 .. K -> PlaceType]
        /\ \A j, k \in 1 .. K : j < k => best[j].dist <= best[k].dist
        /\ e.dist \in Nat
    BY <1>3 DEF TypeOK, TopKExact, Sorted, PlaceType
  <2>2. /\ K \in Nat \ {0}
        /\ \A k \in 1 .. K :
            /\ best[k].dist \in Nat /\ best[k].at \in Nat
            /\ best[k].at = 0 => best[k] = Unfilled
            /\ best[k].at > 0 =>
                best[k].at \in 1 .. n /\ best[k].dist = DistanceOf(best[k].at)
        /\ \A i \in 1 .. n : DistanceOf(i) < Infinity
    BY PlaceFacts
  <2>3. \A k \in 1 .. K : best[k].at < n + 1
    BY <1>2, <2>2
  <2> QED BY <2>1, <2>2, <2>3
<1> HIDE DEF e
<1>5. PICK p \in 1 .. K :
        /\ Insert(best, e) = [k \in 1 .. K |->
                IF k < p THEN best[k] ELSE IF k = p THEN e ELSE best[k - 1]]
        /\ \A k \in 1 .. K : k < p => best[k].dist <= e.dist
        /\ \A k \in 1 .. K : k >= p => e.dist < best[k].dist
  BY <1>3, <1>4, InsertShape
<1>6. /\ best'[p] = e
      /\ \A k \in 1 .. K : k < p => best'[k] = best[k]
      /\ \A k \in 1 .. K : k > p => best'[k] = best[k - 1] /\ k - 1 \in 1 .. K
  BY <1>1, <1>4, <1>5
<1>7. PlacesInOrder'
  <2>1. SUFFICES ASSUME NEW j \in 1 .. K, NEW k \in 1 .. K, j < k,
                        best'[j].dist = best'[k].dist, best'[k].at > 0
                 PROVE  best'[j].at < best'[k].at
    BY DEF PlacesInOrder
  <2>2. CASE k < p
    <3>1. best'[j] = best[j] /\ best'[k] = best[k]
      BY <1>6, <2>1, <2>2
    <3> QED BY <2>1, <3>1 DEF TiesInv, PlacesInOrder
  <2>3. CASE k = p
    <3>1. best'[j] = best[j] /\ best'[k].at = n + 1
      BY <1>3, <1>6, <2>1, <2>3
    <3> QED BY <1>4, <3>1
  <2>4. CASE k > p /\ j = p
    <3>1. best'[j] = e /\ best'[k] = best[k - 1] /\ k - 1 \in 1 .. K /\ k - 1 >= p
      BY <1>6, <2>4
    <3> QED BY <1>4, <1>5, <2>1, <3>1
  <2>5. CASE k > p /\ j # p
    <3>1. best'[k] = best[k - 1] /\ k - 1 \in 1 .. K
      BY <1>6, <2>5
    <3>2. PICK i \in 1 .. K : best'[j] = best[i] /\ i < k - 1
      <4>1. CASE j < p
        BY <1>6, <2>5, <4>1
      <4>2. CASE j > p
        BY <1>6, <2>1, <4>2
      <4> QED BY <2>5, <4>1, <4>2
    <3> QED BY <2>1, <3>1, <3>2 DEF TiesInv, PlacesInOrder
  <2> QED BY <2>1, <2>2, <2>3, <2>4, <2>5
<1>8. MissedAreLater'
  <2>1. SUFFICES ASSUME NEW i \in 1 .. n + 1,
                        \A k \in 1 .. K : best'[k].at # i,
                        best'[K].dist = DistanceOf(i)'
                 PROVE  best'[K].at < i
    BY <1>2 DEF MissedAreLater
  <2>2. i \in 1 .. n
    <3>1. i # n + 1
      BY <1>3, <1>6, <2>1
    <3> QED BY <1>2, <2>1, <3>1
  <2>3. DistanceOf(i)' = DistanceOf(i) /\ DistanceOf(i) \in Nat
        /\ DistanceOf(i) < Infinity
    BY <1>2, <1>4, <2>2
  <2>4. best[K].dist <= DistanceOf(i)
    <3>1. CASE \E k \in 1 .. K : best[k].at = i
      <4>1. PICK k \in 1 .. K : best[k].at = i
        BY <3>1
      <4>2. k = K
        <5>1. CASE k < p
          BY <1>6, <2>1, <4>1, <5>1
        <5>2. CASE k >= p /\ k < K
          <6>1. k + 1 \in 1 .. K /\ k + 1 > p /\ (k + 1) - 1 = k
            BY <1>4, <5>2
          <6>2. best'[k + 1] = best[k]
            BY <1>6, <6>1
          <6> QED BY <2>1, <4>1, <6>1, <6>2
        <5> QED BY <1>4, <5>1, <5>2
      <4> QED BY <1>4, <2>2, <2>3, <4>1, <4>2
    <3>2. CASE \A k \in 1 .. K : best[k].at # i
      BY <2>2, <3>2 DEF TopKExact, NoneMissed
    <3> QED BY <3>1, <3>2
  <2>5. CASE p = K
    <3>1. best'[K].dist < best[K].dist
      BY <1>3, <1>6, <2>5
    <3> QED BY <1>3, <1>4, <1>6, <2>1, <2>3, <2>4, <2>5, <3>1
  <2>6. CASE p < K
    <3>1. best'[K] = best[K - 1] /\ K - 1 \in 1 .. K /\ K \in 1 .. K
      BY <1>4, <1>6, <2>6
    <3>2. best[K - 1].dist = best[K].dist /\ best[K].dist = DistanceOf(i)
      <4>1. best[K - 1].dist <= best[K].dist
        BY <1>4, <3>1
      <4> QED BY <1>4, <2>1, <2>3, <2>4, <3>1, <4>1
    <3>3. best[K].at > 0
      BY <1>4, <2>3, <3>1, <3>2 DEF Unfilled
    <3>4. best[K - 1].at < best[K].at
      BY <1>4, <3>1, <3>2, <3>3 DEF TiesInv, PlacesInOrder
    <3>5. best[K].at <= i
      <4>1. CASE \E k \in 1 .. K : best[k].at = i
        <5>1. PICK k \in 1 .. K : best[k].at = i
          BY <4>1
        <5>2. k = K \/ best[k].at < best[K].at
          BY <1>4, <2>2, <3>1, <3>2, <3>3, <5>1 DEF TiesInv, PlacesInOrder
        <5>3. CASE k # K
          <6>1. CASE k < p
            BY <1>6, <2>1, <5>1, <6>1
          <6>2. CASE k >= p
            <7>1. k + 1 \in 1 .. K /\ k + 1 > p /\ (k + 1) - 1 = k
              BY <1>4, <5>3, <6>2
            <7>2. best'[k + 1] = best[k]
              BY <1>6, <7>1
            <7> QED BY <2>1, <5>1, <7>1, <7>2
          <6> QED BY <6>1, <6>2
        <5> QED BY <1>4, <5>1, <5>3, <3>1
      <4>2. CASE \A k \in 1 .. K : best[k].at # i
        <5>1. best[K].at < i
          BY <2>2, <3>2, <4>2 DEF TiesInv, MissedAreLater
        <5> QED BY <1>4, <3>1, <5>1
      <4> QED BY <4>1, <4>2
    <3> QED BY <1>4, <3>1, <3>4, <3>5
  <2> QED BY <1>4, <2>5, <2>6
<1> QED BY <1>7, <1>8 DEF TiesInv

\* Every step keeps the order of equals.
LEMMA NextTies ==
    ASSUME TypeOK, Inputs, Threshold, TopKExact, TiesInv, [Next]_vars
    PROVE  TiesInv'
<1>1. CASE SkipRecord
  BY <1>1, SkipTies
<1>2. CASE KeepRecord
  BY <1>2, KeepTies
<1>3. CASE UNCHANGED <<store, best, seen>>
  BY <1>3 DEF TiesInv, PlacesInOrder, MissedAreLater, DistanceOf
<1> QED
  BY <1>1, <1>2, <1>3
  DEF Next, Start, OpenBucket, Widen, Finish, inputs, vars

\* The scans that count before the i-th one.
Preceding(i) ==
    {j \in 1 .. Len(seen) :
        \/ DistanceOf(j) < DistanceOf(i)
        \/ DistanceOf(j) = DistanceOf(i) /\ j < i}

\* The rank of a scan is how many there are.
LEMMA RankType ==
    ASSUME Len(seen) \in Nat, NEW i
    PROVE  /\ IsFiniteSet(Preceding(i))
           /\ Rank(i) = Cardinality(Preceding(i)) /\ Rank(i) \in Nat
<1>1. IsFiniteSet(1 .. Len(seen))
  BY FS_Interval
<1>2. Preceding(i) \in SUBSET (1 .. Len(seen))
  BY DEF Preceding
<1>3. IsFiniteSet(Preceding(i))
  BY <1>1, <1>2, FS_Subset
<1>4. Rank(i) = Cardinality(Preceding(i))
  BY DEF Rank, Preceding
<1> QED BY <1>3, <1>4, FS_CardinalityType

\* A scan that counts before one in a place is in a place before it.
LEMMA PrecedingPlaced ==
    ASSUME TypeOK, Inputs, TopKExact, TiesInv,
           NEW k \in 1 .. K, best[k].at > 0, NEW j \in Preceding(best[k].at)
    PROVE  \E m \in 1 .. K : m < k /\ best[m].at = j
<1> DEFINE i == best[k].at
<1>1. /\ K \in 1 .. K /\ K \in Nat
      /\ \A m \in 1 .. K :
            /\ best[m].dist \in Nat /\ best[m].at \in Nat
            /\ best[m].at = 0 => best[m].dist = Infinity
            /\ best[m].at > 0 => best[m].dist = DistanceOf(best[m].at)
  BY PlaceFacts DEF Unfilled
<1>2. /\ i \in 1 .. Len(seen) /\ j \in 1 .. Len(seen)
      /\ DistanceOf(i) \in Nat /\ DistanceOf(j) \in Nat
      /\ DistanceOf(j) < Infinity /\ best[k].dist = DistanceOf(i)
      /\ \/ DistanceOf(j) < DistanceOf(i)
         \/ DistanceOf(j) = DistanceOf(i) /\ j < i
  BY PlaceFacts DEF Preceding
<1>3. best[k].dist <= best[K].dist
  BY <1>1 DEF TopKExact, Sorted
<1>4. PICK m \in 1 .. K : best[m].at = j
  <2>1. SUFFICES ASSUME \A m \in 1 .. K : best[m].at # j PROVE FALSE
    OBVIOUS
  <2>2. best[K].dist <= DistanceOf(j)
    BY <1>2, <2>1 DEF TopKExact, NoneMissed
  <2>3. /\ best[K].dist = DistanceOf(j) /\ best[k].dist = best[K].dist /\ j < i
        /\ best[K].at > 0
    BY <1>1, <1>2, <1>3, <2>2
  <2>4. best[K].at < j
    BY <1>2, <2>1, <2>3 DEF TiesInv, MissedAreLater
  <2>5. k = K \/ i < best[K].at
    BY <1>1, <2>3 DEF TiesInv, PlacesInOrder
  <2> QED BY <1>1, <1>2, <2>3, <2>4, <2>5
<1>5. m # k
  BY <1>2, <1>4
<1>6. ~ (k < m)
  <2>1. SUFFICES ASSUME k < m PROVE FALSE
    OBVIOUS
  <2>2. best[k].dist <= best[m].dist /\ best[m].dist = DistanceOf(j)
    <3>1. best[k].dist <= best[m].dist
      BY <2>1 DEF TopKExact, Sorted
    <3>2. best[m].at = j /\ best[m].at > 0
      BY <1>2, <1>4
    <3> QED BY <1>1, <3>1, <3>2
  <2>3. best[k].dist = best[m].dist /\ j < i /\ best[m].at > 0
    BY <1>2, <1>4, <2>2
  <2>4. best[k].at < best[m].at
    BY <2>1, <2>3 DEF TiesInv, PlacesInOrder
  <2> QED BY <1>2, <1>4, <2>3, <2>4
<1> QED BY <1>4, <1>5, <1>6

\* Fewer than K scans count before one that is in a place.
LEMMA RankOfPlaced ==
    ASSUME TypeOK, Inputs, TopKExact, TiesInv,
           NEW k \in 1 .. K, best[k].at > 0
    PROVE  Rank(best[k].at) < K
<1> DEFINE S == Preceding(best[k].at)
           T == 1 .. (k - 1)
           f == [j \in S |-> CHOOSE m \in 1 .. K : m < k /\ best[m].at = j]
<1>1. \A j \in S : /\ f[j] \in 1 .. K /\ f[j] < k /\ best[f[j]].at = j
  BY PrecedingPlaced
<1>2. k \in Nat /\ K \in Nat /\ k - 1 \in Int /\ 1 <= k /\ k <= K
  BY ConstantTypes
<1>3. f \in [S -> T]
  BY <1>1, <1>2
<1>4. f \in Injection(S, T)
  <2>1. \A a, b \in S : f[a] = f[b] => a = b
    BY <1>1
  <2> QED BY <1>3, <2>1, Fun_IsInj
<1>5. IsFiniteSet(T) /\ Cardinality(T) = k - 1
  <2>1. k - 1 \in Nat
    BY <1>2
  <2> QED BY <2>1, UptoFinite
<1>6. Cardinality(S) <= k - 1 /\ IsFiniteSet(S)
  BY <1>4, <1>5, FS_Injection
<1>7. Cardinality(S) \in Nat
  BY <1>6, FS_CardinalityType
<1>8. Rank(best[k].at) = Cardinality(S)
  BY PlaceFacts, RankType
<1> QED BY <1>2, <1>6, <1>7, <1>8

\* At least K count before one that is in none.
LEMMA RankOfMissed ==
    ASSUME TypeOK, Inputs, TopKExact, TiesInv,
           NEW i \in 1 .. Len(seen), \A k \in 1 .. K : best[k].at # i
    PROVE  K <= Rank(i)
<1> DEFINE S == Preceding(i)
           f == [k \in 1 .. K |-> best[k].at]
<1>1. /\ K \in 1 .. K /\ K \in Nat /\ Len(seen) \in Nat
      /\ \A m \in 1 .. K :
            /\ best[m].dist \in Nat /\ best[m].at \in Nat
            /\ best[m].at = 0 => best[m].dist = Infinity
            /\ best[m].at > 0 => /\ best[m].dist = DistanceOf(best[m].at)
                                 /\ best[m].at \in 1 .. Len(seen)
      /\ DistanceOf(i) \in Nat /\ DistanceOf(i) < Infinity
  BY PlaceFacts DEF Unfilled
<1>2. best[K].dist <= DistanceOf(i)
  BY DEF TopKExact, NoneMissed
<1>3. ASSUME NEW k \in 1 .. K PROVE best[k].at \in S /\ best[k].at > 0
  <2>1. best[k].dist <= best[K].dist
    BY <1>1 DEF TopKExact, Sorted
  <2>2. best[k].at > 0 /\ best[K].at > 0
    <3> HIDE DEF S, f
    <3>1. best[K].dist < Infinity /\ best[k].dist < Infinity
      BY <1>1, <1>2, <2>1, ConstantTypes
    <3>2. \A m \in 1 .. K : best[m].at = 0 => best[m].dist = Infinity
      BY <1>1
    <3>3. K \in 1 .. K /\ best[K].dist \in Nat /\ best[k].dist \in Nat
      BY <1>1
    <3>4. best[K].at # 0 /\ best[k].at # 0
      BY <3>1, <3>2, <3>3, ConstantTypes
    <3> QED BY <1>1, <3>4
  <2>3. CASE best[k].dist < DistanceOf(i)
    BY <1>1, <2>2, <2>3 DEF Preceding
  <2>4. CASE best[k].dist = DistanceOf(i)
    <3>1. best[K].dist = DistanceOf(i) /\ best[k].dist = best[K].dist
      BY <1>1, <1>2, <2>1, <2>4
    <3>2. best[K].at < i
      BY <3>1 DEF TiesInv, MissedAreLater
    <3>3. k = K \/ best[k].at < best[K].at
      BY <1>1, <2>2, <3>1 DEF TiesInv, PlacesInOrder
    <3>4. best[k].at < i
      BY <1>1, <3>2, <3>3
    <3> QED BY <1>1, <2>2, <2>4, <3>4 DEF Preceding
  <2> QED BY <1>1, <1>2, <2>1, <2>3, <2>4
<1>4. f \in Injection(1 .. K, S)
  <2>1. f \in [1 .. K -> S]
    BY <1>3
  <2>2. \A a, b \in 1 .. K : f[a] = f[b] => a = b
    BY <1>3 DEF TopKExact, FromScans
  <2> QED BY <2>1, <2>2, Fun_IsInj
<1>5. IsFiniteSet(S)
  BY <1>1, RankType
<1>6. Cardinality(1 .. K) <= Cardinality(S) /\ Cardinality(S) \in Nat
  BY <1>4, <1>5, FS_Injection, FS_CardinalityType
<1>7. Cardinality(1 .. K) = K
  BY <1>1, FS_Interval
<1>8. Rank(i) = Cardinality(S)
  BY <1>1, RankType
<1> QED BY <1>6, <1>7, <1>8

\* So the places with a fraud are as many as the frauds that count.
LEMMA VerdictOfPlaces ==
    ASSUME TypeOK, Inputs, TopKExact, TiesInv
    PROVE  Cardinality(FraudPlaces(best)) =
               Cardinality({i \in 1 .. Len(seen) :
                   Rank(i) < K /\ store.recs[seen[i]].label = Fraud})
<1> DEFINE S == FraudPlaces(best)
           T == {i \in 1 .. Len(seen) :
                   Rank(i) < K /\ store.recs[seen[i]].label = Fraud}
           f == [k \in S |-> best[k].at]
<1>1. ASSUME NEW k \in S
      PROVE  k \in 1 .. K /\ best[k].at > 0 /\ best[k].at \in T
  <2>1. k \in 1 .. K /\ best[k].label = Fraud
    BY DEF FraudPlaces
  <2>2. best[k].at > 0
    BY <2>1, PlaceFacts, SearchAssumption DEF Unfilled
  <2>3. /\ best[k].at \in 1 .. Len(seen)
        /\ store.recs[seen[best[k].at]].label = Fraud
    BY <2>1, <2>2, PlaceFacts
  <2> QED BY <2>1, <2>2, <2>3, RankOfPlaced
<1>2. \A a, b \in S : f[a] = f[b] => a = b
  BY <1>1 DEF TopKExact, FromScans
<1>3. \A i \in T : \E k \in S : f[k] = i
  <2>1. SUFFICES ASSUME NEW i \in T PROVE \E k \in S : f[k] = i
    OBVIOUS
  <2>2. PICK k \in 1 .. K : best[k].at = i
    <3>1. Rank(i) \in Nat /\ K \in Nat
      BY PlaceFacts, RankType
    <3> QED BY <2>1, <3>1, RankOfMissed
  <2>3. best[k].label = Fraud
    BY <2>1, <2>2, PlaceFacts
  <2> QED BY <2>2, <2>3 DEF FraudPlaces
<1>4. f \in Bijection(S, T)
  BY <1>1, <1>2, <1>3, Fun_IsBij
<1>5. IsFiniteSet(S)
  <2>1. IsFiniteSet(1 .. K)
    BY ConstantTypes, FS_Interval
  <2> QED BY <2>1, FS_Subset DEF FraudPlaces
<1> QED BY <1>4, <1>5, FS_Bijection DEF ExistsBijection

\* The count is taken once, of the places as the search leaves them.
Counted ==
    /\ phase = "start" => fraudCount = 0 /\ FraudPlaces(best) = {}
    /\ phase = "done" => fraudCount = Cardinality(FraudPlaces(best))

\* Every step keeps that.
LEMMA NextCounted ==
    ASSUME Counted, [Next]_vars
    PROVE  Counted'
<1>1. CASE Start
  <2>1. best' = best /\ fraudCount' = fraudCount /\ phase = "start"
        /\ phase' # "start"
    BY <1>1 DEF Start
  <2> QED BY <2>1, FS_EmptySet DEF Counted, FraudPlaces
<1>2. CASE Finish
  BY <1>2 DEF Finish, Counted, FraudPlaces
<1>3. CASE OpenBucket \/ SkipRecord \/ KeepRecord \/ Widen
  <2>1. phase' # "start" /\ phase' # "done"
    BY <1>3 DEF OpenBucket, SkipRecord, KeepRecord, Widen, WindowDone
  <2> QED BY <2>1 DEF Counted
<1>4. CASE UNCHANGED vars
  BY <1>4 DEF vars, Counted, FraudPlaces
<1> QED BY <1>1, <1>2, <1>3, <1>4 DEF Next

(***************************************************************************)
(* The verdict of a search is the one of the definition: the frauds among  *)
(* the K scans that count first, the nearer before the farther and, of     *)
(* equals, the earlier before the later.                                   *)
(***************************************************************************)
THEOREM VerdictIsOfNearest == Spec => []VerdictExact
<1> DEFINE Inv == /\ TypeOK /\ Inputs /\ Threshold /\ TopKExact
                  /\ TiesInv /\ Counted
<1>1. Init => Inv
  <2>1. ASSUME Init PROVE TiesInv /\ Counted
    <3>1. /\ best = [k \in 1 .. K |-> Unfilled] /\ seen = << >>
          /\ fraudCount = 0 /\ phase = "start"
      BY <2>1 DEF Init
    <3>2. FraudPlaces(best) = {}
      BY <3>1, SearchAssumption DEF FraudPlaces, Unfilled
    <3>3. \A k \in 1 .. K : best[k].at = 0
      BY <3>1 DEF Unfilled
    <3>4. TiesInv
      BY <3>1, <3>3 DEF TiesInv, PlacesInOrder, MissedAreLater
    <3> QED BY <3>1, <3>2, <3>4 DEF Counted
  <2> QED BY <2>1, InitTypes, InitTopK
<1>2. Inv /\ [Next]_vars => Inv'
  BY NextTypes, NextTopK, NextTies, NextCounted
<1>3. Inv => VerdictExact
  BY VerdictOfPlaces DEF Counted, VerdictExact
<1> QED BY <1>1, <1>2, <1>3, PTL DEF Spec
=============================================================================
