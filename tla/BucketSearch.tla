---------------------------- MODULE BucketSearch ----------------------------
(***************************************************************************)
(* findTop5WithStats (internal/fraud/knn.go): the search of one query for  *)
(* its K nearest references.  It walks windows of buckets of growing       *)
(* radius around the query, scans every record of every bucket of the      *)
(* window, keeps the K nearest in a sorted array, and stops at the first   *)
(* radius that has yielded enough candidates.                              *)
(***************************************************************************)
EXTENDS SearchedStore, FiniteSets

CONSTANTS
    K,                  \* topK
    Infinity,           \* ^uint64(0), the distance of an empty place
    Stores,             \* the stores searched
    Queries,            \* the buckets queries fall into
    Environments,       \* <<BUCKET_TARGET_CANDIDATES, BUCKET_MAX_SEARCH_RADIUS>>
    DefaultConfig,      \* defaultSearchConfig as declared
    EarlyExitFallback   \* the early exit used when it is configured as 0

ASSUME SearchAssumption ==
    /\ K \in Nat \ {0}
    /\ Infinity \in Nat
    /\ Legit # Fraud
    /\ Queries \subseteq Cells
    /\ EarlyExitFallback \in Nat \ {0}
    /\ DefaultConfig \in [target : Nat, maxRadius : Nat, earlyExit : Nat]
    /\ \A e \in Environments : e \in Int \X Int

\* The sums only grow, and none reaches ^uint64(0).
ASSUME DistanceAssumption ==
    \A s \in Stores :
        /\ s \in StoreType
        /\ \A p \in 1 .. Len(s.recs) : LET d == s.recs[p].dist IN
            d[1] <= d[2] /\ d[2] <= d[3] /\ d[3] <= d[4] /\ d[4] < Infinity

\* What indexing and reordering leave (index.go:3-38, 130-178; every store that
\* is served is placed, see ServedPlaced).
ASSUME PlacementAssumption ==
    \A s \in Stores : s.meta # Absent \/ s.index # Absent => Placed(s)

VARIABLES
    store, query, cfg,
    phase,      \* "start", "walk", "done" or "panic"
    radius,
    todo,       \* cells of the window still to visit
    batch,      \* records of the current bucket still to scan
    threshold,  \* the scan's copy of the K-th distance
    best,       \* bestDistances and bestLabels
    processed,  \* stats.processedCandidates
    visited,    \* stats.bucketsVisited
    fraudCount,
    seen        \* every record scanned, in order (not in the program)

inputs == <<store, query, cfg>>
vars == <<inputs, phase, radius, todo, batch, threshold, best, processed,
          visited, fraudCount, seen>>

\* Mutant: a negative target is taken as it is.
ConfiguredUnchecked(target, maxRadius) ==
    [target    |-> IF target # 0 THEN target ELSE DefaultConfig.target,
     earlyExit |-> IF target # 0 THEN target \div 2
                                 ELSE DefaultConfig.earlyExit,
     maxRadius |-> IF maxRadius \in 0 .. 5 THEN maxRadius
                                           ELSE DefaultConfig.maxRadius]

\* SetDefaultSearchConfig, at start-up.
Configured(target, maxRadius) ==
    [target    |-> IF target > 0 THEN target ELSE DefaultConfig.target,
     earlyExit |-> IF target > 0 THEN target \div 2
                                 ELSE DefaultConfig.earlyExit,
     maxRadius |-> IF maxRadius \in 0 .. 5 THEN maxRadius
                                           ELSE DefaultConfig.maxRadius]

\* A place of the array.  "at" is the scan that filled it, 0 for none; the
\* program does not keep it.
Unfilled == [dist |-> Infinity, label |-> Legit, at |-> 0]

Init ==
    /\ store \in Stores
    /\ query \in Queries
    /\ \E e \in Environments : cfg = Configured(e[1], e[2])
    /\ phase = "start"
    /\ radius = 0
    /\ todo = {}
    /\ batch = << >>
    /\ threshold = Infinity
    /\ best = [k \in 1 .. K |-> Unfilled]
    /\ processed = 0
    /\ visited = 0
    /\ fraudCount = 0
    /\ seen = << >>

Bucketed == store.meta # Absent \/ store.index # Absent

\* An empty store is answered at once; one without metadata or index is
\* scanned from end to end.
Start ==
    /\ phase = "start"
    /\ \/ /\ store.recs = << >>
          /\ phase' = "done"
          /\ UNCHANGED <<todo, batch, processed>>
       \/ /\ store.recs # << >> /\ Bucketed
          /\ phase' = "walk"
          /\ todo' = Window(query, 0)
          /\ UNCHANGED <<batch, processed>>
       \/ /\ store.recs # << >> /\ ~ Bucketed
          /\ phase' = IF store.quantized THEN "walk" ELSE "panic"
          /\ batch' = [i \in 1 .. Len(store.recs) |-> i]
          /\ processed' = Len(store.recs)
          /\ UNCHANGED todo
    /\ threshold' = best[K].dist
    /\ UNCHANGED <<inputs, radius, best, visited, fraudCount, seen>>

\* The next bucket of the window.  An empty one is skipped when there is
\* metadata, and scanned for nothing when there is an index.  A candidate of
\* a store without quantized vectors is an index out of range.
OpenBucket ==
    /\ phase = "walk" /\ batch = << >> /\ todo # {}
    /\ LET c == First(todo) IN
       LET found == Candidates(store, c) IN
       /\ todo' = todo \ {c}
       /\ batch' = found
       /\ processed' = processed + Len(found)
       /\ visited' = IF store.meta # Absent /\ found = << >>
                     THEN visited ELSE visited + 1
       /\ phase' = IF found # << >> /\ ~ store.quantized
                   THEN "panic" ELSE "walk"
    /\ threshold' = best[K].dist
    /\ UNCHANGED <<inputs, radius, best, fraudCount, seen>>

\* The scan gives up on a record as soon as a partial sum is no nearer than
\* the K-th.
Pruned(r) == \E s \in Stages : r.dist[s] >= threshold

SkipRecord ==
    /\ phase = "walk" /\ batch # << >>
    /\ Pruned(store.recs[Head(batch)])
    /\ batch' = Tail(batch)
    /\ seen' = Append(seen, Head(batch))
    /\ UNCHANGED <<inputs, phase, radius, todo, threshold, best, processed,
                   visited, fraudCount>>

\* Mutant: places as near as the new one move down too.
MovedDownOnTies(b, d, k) == \A j \in k .. (K - 1) : d <= b[j].dist

\* insertTopKUint64: places move down one by one from the last while the new
\* distance is smaller than the place above.
MovedDown(b, d, k) == \A j \in k .. (K - 1) : d < b[j].dist

Insert(b, e) ==
    [k \in 1 .. K |->
        IF ~ MovedDown(b, e.dist, k) THEN b[k]
        ELSE IF k > 1 /\ MovedDown(b, e.dist, k - 1) THEN b[k - 1]
        ELSE e]

Entry(r, n) == [dist |-> r.dist[4], label |-> r.label, at |-> n]

\* Mutant: the threshold is read once per bucket.
KeepRecordStale ==
    /\ phase = "walk" /\ batch # << >>
    /\ ~ Pruned(store.recs[Head(batch)])
    /\ best' = Insert(best, Entry(store.recs[Head(batch)], Len(seen) + 1))
    /\ batch' = Tail(batch)
    /\ seen' = Append(seen, Head(batch))
    /\ UNCHANGED <<inputs, phase, radius, todo, threshold, processed, visited,
                   fraudCount>>

KeepRecord ==
    /\ phase = "walk" /\ batch # << >>
    /\ ~ Pruned(store.recs[Head(batch)])
    /\ best' = Insert(best, Entry(store.recs[Head(batch)], Len(seen) + 1))
    /\ threshold' = best'[K].dist
    /\ batch' = Tail(batch)
    /\ seen' = Append(seen, Head(batch))
    /\ UNCHANGED <<inputs, phase, radius, todo, processed, visited, fraudCount>>

Enough ==
    LET earlyExit == IF cfg.earlyExit <= 0 THEN EarlyExitFallback
                                           ELSE cfg.earlyExit
    IN  \/ processed >= cfg.target
        \/ radius >= 2 /\ processed >= earlyExit

WindowDone == phase = "walk" /\ batch = << >> /\ todo = {}

\* Mutant: the same window again and again, until it yields enough.
WidenNot ==
    /\ WindowDone /\ Bucketed
    /\ ~ Enough /\ radius < cfg.maxRadius
    /\ todo' = Window(query, radius)
    /\ UNCHANGED <<inputs, phase, radius, batch, threshold, best, processed,
                   visited, fraudCount, seen>>

\* The next radius walks its whole window again.
Widen ==
    /\ WindowDone /\ Bucketed
    /\ ~ Enough /\ radius < cfg.maxRadius
    /\ radius' = radius + 1
    /\ todo' = Window(query, radius + 1)
    /\ UNCHANGED <<inputs, phase, batch, threshold, best, processed, visited,
                   fraudCount, seen>>

FraudPlaces(b) == {k \in 1 .. K : b[k].label = Fraud}

Finish ==
    /\ WindowDone
    /\ ~ Bucketed \/ Enough \/ radius >= cfg.maxRadius
    /\ phase' = "done"
    /\ fraudCount' = Cardinality(FraudPlaces(best))
    /\ UNCHANGED <<inputs, radius, todo, batch, threshold, best, processed,
                   visited, seen>>

Next ==
    Start \/ OpenBucket \/ SkipRecord \/ KeepRecord \/ Widen \/ Finish

Spec == Init /\ [][Next]_vars

\* The search is a plain loop: it runs on as long as it is scheduled.
FairSpec == Spec /\ WF_vars(Next)

-----------------------------------------------------------------------------
PlaceType ==
    [dist : Nat, label : {Legit, Fraud}, at : Nat]

TypeOK ==
    /\ cfg \in [target : Nat, maxRadius : Nat, earlyExit : Nat]
    /\ phase \in {"start", "walk", "done", "panic"}
    /\ radius \in Nat
    /\ todo \subseteq Cells
    /\ batch \in Seq(1 .. Len(store.recs))
    /\ seen \in Seq(1 .. Len(store.recs))
    /\ best \in [1 .. K -> PlaceType]
    /\ threshold \in Nat
    /\ processed \in Nat /\ visited \in Nat /\ fraudCount \in Nat

DistanceOf(i) == store.recs[seen[i]].dist[4]

\* At every moment the K places hold the K nearest of the records scanned so
\* far, in order, each scan at most once: the array is sorted, a filled place
\* holds the distance and the label of its record, and no scanned record that
\* is not in a place is nearer than the last one (knn.go:397-407, 579-643).
Sorted == \A j, k \in 1 .. K : j < k => best[j].dist <= best[k].dist

FromScans ==
    /\ \A k \in 1 .. K :
        \/ best[k] = Unfilled
        \/ /\ best[k].at \in 1 .. Len(seen)
           /\ best[k] = Entry(store.recs[seen[best[k].at]], best[k].at)
    /\ \A j, k \in 1 .. K :
        j # k /\ best[j].at > 0 => best[j].at # best[k].at

NoneMissed ==
    \A i \in 1 .. Len(seen) :
        \/ \E k \in 1 .. K : best[k].at = i
        \/ best[K].dist <= DistanceOf(i)

TopKExact == Sorted /\ FromScans /\ NoneMissed

\* The verdict is the one of the definition: a scan counts when fewer than K
\* scans are nearer, of equals the earlier first, and the frauds among them
\* are counted (knn.go:388-394, scorer.go:26-42).
Rank(i) ==
    Cardinality({j \in 1 .. Len(seen) :
        \/ DistanceOf(j) < DistanceOf(i)
        \/ DistanceOf(j) = DistanceOf(i) /\ j < i})

VerdictExact ==
    phase = "done" =>
        fraudCount = Cardinality({i \in 1 .. Len(seen) :
            Rank(i) < K /\ store.recs[seen[i]].label = Fraud})

\* When the search ends, every record within the last radius of the query on
\* every axis has been scanned, and nothing further away has.
NearAt(c, r) == \A x \in Axes : c[x] - query[x] <= r /\ query[x] - c[x] <= r

WindowScanned ==
    phase = "done" /\ Bucketed =>
        \A p \in 1 .. Len(store.recs) :
            NearAt(store.recs[p].cell, radius) <=>
                \E i \in 1 .. Len(seen) : seen[i] = p

\* How often a record has been scanned by then: once at each radius whose
\* window has its bucket, from the first one that reaches it on (knn.go:279,
\* 333-376).  That is how many of the K places it may take.
HowOften(s, p) == Cardinality({i \in 1 .. Len(s) : s[i] = p})

Passes(p) ==
    IF Bucketed
    THEN Cardinality({r \in 0 .. radius : NearAt(store.recs[p].cell, r)})
    ELSE 1

ScannedPerRadius ==
    phase = "done" =>
        \A p \in 1 .. Len(store.recs) : HowOften(seen, p) = Passes(p)

\* Every search ends.
SearchEnds == <>(phase \in {"done", "panic"})

\* What the service says of its verdict: it is that of the nearest vectors of
\* the reference dataset (README.md:9, 25), so no vector has two votes.
NeighboursDistinct ==
    \A j, k \in 1 .. K :
        j # k /\ best[j].at > 0 /\ best[k].at > 0 =>
            seen[best[j].at] # seen[best[k].at]

\* What the service says of a missing dataset: the example references stand in
\* for it (README.md:73), so that requests are scored.
AlwaysScores == phase # "panic"
=============================================================================
