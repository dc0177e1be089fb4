# A TLA+ model of anti-fraudeiro

anti-fraudeiro is a Go HTTP service that scores card transactions: it decodes a
payload, turns it into a 16-component vector, looks up the five nearest vectors
of a reference dataset, and answers with the share of frauds among them. This
directory holds TLA+ modules translated from its source, the TLC
configurations that check them, and TLAPS proofs. Paths below are relative to
the repository's root (`src/` in the map).

## 1. The system

| Component | Source | State | Operations | Hard behaviour |
|---|---|---|---|---|
| Fraud-score handler | `internal/api/handler.go`, `request_decoder.go` | two `sync.Pool`s (request objects, body buffers), one goroutine per connection | `FraudScore`, `decodeFraudScoreRequest`, `releaseFraudScoreRequest`, `WarmupPools` | goroutines share pooled objects; every error path must give them back exactly once; reused objects keep old data |
| Limiter | `internal/api/limiter.go` | a buffered channel of tokens | `Acquire`, `Release` | cancellation races a freed slot, panics, queue order |
| Request types and parser | `internal/fraud/types.go`, `parser.go` | fields of the pooled request; nested calls over windows of the body | `Reset`, `ParseFraudScoreRequest`, `Finalize` | hand-written scanning (brackets in strings, arrays that do not advance), number parsers that skip what they do not know and wrap around, absent keys, values pointing into a shared buffer |
| Vectorizer | `internal/fraud/vectorizer.go` | the table of category risks | `NewVectorizer`, `Vectorize` | an ignored `Atoi` error, a table filled in map order, subtraction of wrapped times, a set that only long lists have |
| Search | `internal/fraud/knn.go`, `scorer.go` | per call: radius, top-5 arrays, counters | `findTop5WithStats`, the scans, `insertTopKUint64`, `SetDefaultSearchConfig` | pruning by a cached threshold, ties, window edges, early exits |
| Bucket grid | `internal/dataset/index.go`, `knn.go` | none | `bucketID`, `bucketRangeStart/End`, the nested loops | six hand-written axes |
| Prefix sums | `internal/dataset/index.go` | one array | `buildBucketPrefixSums`, `...FromMeta`, `CountBucketWindowCandidates` | loop bounds of six sweeps, 64 signed corners, wrap-around |
| Store and files | `internal/dataset/loader.go`, `index.go`, `types.go`, `mmap_unix.go` | the vector store, files on disk | load by version, `BuildBucketIndex`, `ReorderStoreByBucket`, `SaveBinaryVectorStore` | files cut short, old versions, 16-bit counts, quantization at bucket boundaries |
| Preprocess command | `cmd/preprocess/main.go` | the output file | load, reorder, save | a crash between two writes |
| Start-up | `cmd/api/main.go`, `internal/config/config.go` | the chosen file, the served store | `run`, `Load` | a file is chosen by existence alone |
| Responses | `internal/api/response.go` | none | six fixed texts | none |
| Balancer, containers | `docker/haproxy.cfg`, `docker-compose.yml`, `Dockerfile` | none of ours | round robin, time-outs | configuration |

They interact in one direction. A handler goroutine takes a buffer and a
request object from the pools, passes them to the parser, takes a token of the
limiter, and calls the scorer, which turns the request object into a vector and
searches the store that start-up loaded;
the store is read-only while it is served. The preprocess command hands the
store over through a file. Concurrency is between handler goroutines (over
pools and limiter), and between them and their clients (cancellation, bodies
cut short); failure is a crash of the preprocess command or a panic of the
scorer.

What makes each correct: pooled objects are used by one goroutine at a time and
carry nothing over; tokens equal running scorers, no slot idles, the queue is
fair, every request returns, with one answer and for a reason; a document is
read as it is meant, nothing but a whole one is accepted, and the parser comes
to an end; the vector is that of the meaning; the top-5 array is exact at every moment and the
verdict is that of its definition; window counts equal window contents; a
served store is the whole dataset, findable where queries look, from a whole
file. `PROJECT.json` lists the hazards behind each, line by line.

## 2. Modules

    FraudService        implemented by FraudScoreHandler
    FraudScoreHandler   <- MCFraudScoreHandler,  FraudScoreHandlerProofs
                           FraudScoreHandlerProofs <- FraudServiceProofs
    RequestValues       <- RequestParser, Vectorizer <- RequestVector
                           RequestVector <- MCRequestVector
                           RequestVector <- RequestParserProofs
    BucketGrid          <- SearchedStore, PrefixSums, BucketGridProofs
    SearchedStore       <- BucketSearch <- MCBucketSearch, BucketSearchProofs
                           PrefixSums   <- MCPrefixSums, PrefixSumsProofs
                           BucketGridProofs <- BucketSearchProofs,
                           PrefixSumsProofs
    ReferenceStore, SearchedStore (by INSTANCE)
                        <- DatasetLifecycle <- MCDatasetLifecycle
                           DatasetLifecycle <- DatasetLifecycleProofs
    NumberLemmas        <- BucketGridProofs, RequestParserProofs

**FraudScoreHandler.** `pc[h]` is the next call of a handler goroutine. Each
call that touches a pool, the limiter or the body is an action of its own, so
handlers interleave at all of them: `GetBuffer`, `ReadBody`, `ProbeBody`,
`GetRequest`, `ResetRequest`, `ParseRequest`, `PutBuffer` (the decoder, whose
deferred `Put` runs at each return), `AcquireFree/Blocks/Canceled`,
`WaitCanceled`, `Score`, `Release`, `PutRequest` (the deferred calls in their
order, also after a panic), `Return`. A pool counts how often it holds an
object, so that a double `Put` shows; the collector may drop pooled objects.
A payload is its length, whether it parses and what `last_transaction` is;
`Blank`, `Partial`, `NilLast`, `ZeroLast` are contents the code tells apart.
A body cut short is `Partial`, which never parses: a strict prefix of an object
does not close it, and a cut behind the closing brace is the full payload.
The other fields of a payload are its identity: a score is named by the data it
was computed from. Parsing is one atomic step here; `RequestParser` has its
steps, and `ReadsAsWritten` and `OnlyWholeAccepted` are what justifies `Parses`,
`ParsedLast` and `Partial`. A payload that is `ok` is one the parser accepts.

**FraudService.** What clients are promised, without pools, buffers or slots: a
connection has one request at a time, and each gets one answer, with the reasons
for each answer. `FraudScoreHandler` implements it under `request <- payload`,
`answer <- resp`, `gone <- canceled` (`ImplementsService`): only arriving,
cancelling, the one step that decides the response, and returning are steps of
the service, everything else stutters. The promise has two soft edges, taken
from the code, at the probe behind a full buffer (`request_decoder.go:45-48`).
It ignores a byte that comes together with `io.EOF`, so a body of `MaxBody + 1`
bytes may get a score instead of a 413, and `OnlyValidScored` allows just that
byte. And it takes every other error for more data: a chunked body of exactly
`MaxBody` bytes, whose last chunk the probe has to wait for, gets a 413 when its
client is lost, so `Answers` allows a 413 from `MaxBody` bytes on, not only
beyond.

**RequestValues / RequestParser / Vectorizer / RequestVector.** A body is a
sequence of symbols: the bytes the parser tells apart, and words, runs of bytes
it only copies or compares. The active calls of `parseObjectInternal` are a
`stack` of windows of the body; one action is one round of its loop (`TakeString`
... `TakeLast`, `EnterObject`, `EnterArray`, `LeaveObject`, `Finish`) or of the
loop of `parseStringArray` (`TakeElement`, `LeaveArray`); every error return is
`RejectMalformed` or a branch of the member it is in. One request object takes
one body after another, `Begin` resets it as the decoder does. Numbers are
read byte by byte as in the code's loops, by recursive functions, in integers
that wrap at `Word` (the code's 2^64), and
times wrap at `Clock` (2^64 ns, in seconds); both are scaled down in the run. A
timestamp is a word whose calendar fields `Instants` gives; the calendar and the
weekday are computed. Floats are exact fractions; rounding is not modelled.
`Vectors` is a set, because two keys of the risk file may have one index and
the map is visited in any order, and empty when the lookup panics. A document
is a text beside what its author means (`Documents`); `RequestVector` compares
the request and its vector with that meaning and not with a second parser.

**BucketGrid / SearchedStore / BucketSearch.** The grid keeps the six axes of
the code with their sizes as a constant. `SearchedStore` is what a search reads
of a store: its records in storage order, their `Candidates` by bucket (a slice
of the metadata or an index list), and `Placed`, which says that each record is
a candidate of its own bucket, once. The search keeps the loops as they are: `Start`
picks one of the three branches, `OpenBucket` visits the next cell in the order
of the nested loops, `SkipRecord`/`KeepRecord` scan one record against the
local `threshold`, `Widen` goes to the next radius, `Finish` counts frauds. A
record's distance is the four partial sums at which a scan may give it up. The
arrays `bestDistances`/`bestLabels` are `best`; `best[k].at` and `seen` are
history variables that say which scan filled a place.

**PrefixSums.** `Place` and `SweepLayer` are the two phases of both builders
(they differ only in where a bucket's size comes from). The entries of a layer
do not depend on each other, so a layer is one step.
`CountBucketWindowCandidates` is inclusion-exclusion over subsets of axes in
place of 64 written-out terms, which were compared with it one by one. The sums
are built at every load but the search no longer reads them; tests do.

**ReferenceStore / DatasetLifecycle.** Stores and files are records and the
dataset code is operators on them, in integer arithmetic: floats are multiples
of `1/Unit`, codes are `Levels` steps, so `Quantize` rounds and
`ScalarBucket` truncates as the code does. A vector is the one component that
decides its bucket; the other five axes are alike. `InOrder` puts the records
of a bucket behind those of the bucket before, in their old order, as
`ReorderStoreByBucket` and `BuildBucketIndex` do; `Entries` is a bucket's list of record
numbers, `OffsetAfter` the running offset. `FloatStore` and `CodeStore` are what
the loaders make of a dataset, `RawFile` a file that stands for a dataset in one
of the forms the converter reads, `ConvertedFile` one it wrote, whole or in
part, and `AsBuilt` a directory of such files. A file being written goes
through `Parts` (empty, cut in the metadata, cut behind it, whole). Actions:
`LoadInput`, `CreateOutput` (reorder, checks, truncating create), `WriteMore`,
`Crash`; `Start` (choice of the file and its loading), `Stop`. The field `of`
of a store is history: the dataset it stands for. `AsSearched` is a loaded store
in the eyes of the search: an instance of `SearchedStore` whose grid has this
one axis, so that `ServedPlaced` is word for word what the search assumes. A
record's bucket there is that of the slice that holds it; how near that is to
its value is `ServedNearby`. The model takes from the
Dockerfile that preprocessing does not run beside a server.

## 3. Runs

| Run | Checks | Bounds, and why they are enough |
|---|---|---|
| handler_pools | `TypeOK`, `PoolsExclusive`, `OwnPayloadScored`, `OnlyValidScored` | two handlers, two objects and buffers, no limiter: sharing and stale data need two users of one object, at the same time or one after the other. Four payloads of lengths 1 to 4 around `MaxBody = 2`, those of lengths 2 and 3 parse and may be scored or refused; last transaction present and absent; the short one does not parse, and may leave a nil behind: all ways through the decoder |
| handler_limiter | `LimiterSound`, `NoIdleSlot`, `NoBarging`, `ImplementsService` | three handlers, one slot: one runs, two queue. A body of length `MaxBody` that parses may get any answer, also a 413, and a GET the 405; panics and cancellations. A second body of `MaxBody + 1` bytes makes the run too long for what it adds: that length has the same answers, and is in handler_pools. The single buffer only makes decoding sequential, which the limiter cannot see |
| handler_liveness | `EveryRequestReturns` | two handlers, one slot, panics and cancellations |
| request_read | `TypeOK`, `ReadsAsWritten`, `OnlyWholeAccepted`, `VectorAsWritten`, `VectorsInRange`, `ParserAdvances`, `StepsShorten` | 26 documents, every field alone and in company (fractions with equal values and different spellings, negative and zero averages, lists of 0, 1 and 2 merchants around `Threshold = 2`, known and unknown categories, last transactions before, after and across the wrap of `Clock`), each written without spaces in one order of the sections and with spaces in the other; every cut of them, two continuations of each, and fourteen other bodies; in any order in one pooled object. The risk file has keys that share a number, are none, or are out of range: the categories beside them keep their risk |
| search_exact | `TypeOK`, `TopKExact`, `VerdictExact`, `WindowScanned`, `ScannedPerRadius`, `SearchEnds` | four buckets on one axis, up to three records from six, `K = 2`, all three store forms, five configurations (met at once, late, never; early exit zero; out of range). Three records overfill two places; ties, early and late pruning, both edges of the grid and radius up to 3 occur |
| window_counts | `TypeOK`, `SweepsExact`, `WindowCountExact` | two buckets on three axes, one on the others, sizes 0 or 3, `Word = 7`, so that sums wrap around; all windows |
| dataset_served | `TypeOK`, `ServedComplete`, `ServedPlaced`, `ServedNearby`, `WholeFileServed` | datasets of one to three records out of five (the -1 of a missing transaction, a value on a bucket boundary, a clamped one), four buckets, eight codes; JSON, version 2 and version 3 inputs; a crash at every step |

Violation runs, each one statement of the repository that the code does not keep
(details under `findings`):

| Run | Statement | What the code does |
|---|---|---|
| pooled_last_transaction | equal payloads score equally | an absent `last_transaction` depends on the pooled object's past |
| bracketed_merchant | every payload is answered | brackets in strings count as brackets: for `{"customer":{"known_merchants":["["],"tier":"]"}}` the array loop never ends |
| neighbour_votes_twice | five nearest vectors | each wider window re-scans the narrower ones, one vector fills several places |
| example_references | the example file stands in for the dataset | a JSON store has no quantized vectors, the scan indexes out of range |
| wiped_by_preprocess | preprocess writes the vectors it read | a current `.bin` input is written as zeros |

More things the models show. `ServedComplete` fails with `CountWord = 2` in
`DatasetServed.cfg`: bucket counts are `uint16` (`index.go:145`), so a bucket of
65536 records would be written with count 0; the run keeps buckets below
`CountWord`, as the code silently assumes. A file cut inside its metadata makes
the loader panic (`loader.go:400`) before it can report it as truncated
(`loader.go:433`): `Outcome` has both outcomes. Files of version 5 are refused
(`loader.go:133`) although `index.go:13` and `dataset/types.go:25` speak of
reading them.
Exponents are read as digits (`1e3` is 13), and a category of digits that wraps
around below zero is an index out of range (`vectorizer.go:142`): bodies of
`OtherBodies` do both. Documents have no brackets inside strings, where the
parser is known to go wrong (`bracketed_merchant`), and so `ReadsAsWritten` says
nothing of those.

`CHECK_DEADLOCK FALSE` stands in the runs of the search and of the prefix sums:
a search and a build end. Symmetry is used in safety runs of the handler with more than one of each,
where handlers, objects and buffers are interchangeable, and never with a
liveness property.

Each property has a mutant of the code's definitions (next to the definition,
marked "Mutant") under which TLC finds it violated.

## 4. Fairness

`FairSpec` of the handler is weak fairness of each handler's own steps. The Go
scheduler runs every ready goroutine; a blocked sender is woken by the receive
that frees a slot, in queue order, which is part of `Release` and not an
assumption; reading a body ends because HAProxy closes idle clients (`timeout
client 30s`) and `ReadBody` may fail at any time. That parsing and scoring
return is assumed there. For scoring, `SearchEnds` (in search_exact) shows it.
For parsing, `StepsShorten` is the ranking argument: each step that changes
anything leaves less to look at or ends the parse, for every body (it is
proved); and the only step that may change nothing is a round of the array loop
at an element of length zero, which `ParserAdvances` excludes for the bodies of
request_read, and which bracketed_merchant reaches: exactly the elements that
begin with `,`, `}` or `]`, as `StallsAtDelimiter` proves. `FlatListsAdvance`
proves that no such element comes up in any body whose lists are flat (words
and strings without brackets, one comma between them), which is what clients
write. `EveryRequestReturns` is therefore about bodies on which the parser
returns. The parser itself is a loop
without waits. Nothing is assumed of clients (arrivals, cancellations) or
of the collector. The search is a loop without waits, so weak fairness of its
`Next` says only that it is scheduled.

## 5. Proofs

`tlapm` checks every theorem for all values of the constants under the named
assumptions of the modules, which TLC evaluates in the runs:

| Assumption | Says | Why the code justifies it |
|---|---|---|
| `HandlersAssumption`, `PayloadsAssumption`, `MarksAssumption`, `BoundsAssumption` | finitely many goroutines, contents that differ are told apart, `maxBodyBytes > 0` | a process has finitely many goroutines; names of the model; `handler.go` |
| `WidthAssumption`, `InstantsAssumption` | integers wrap somewhere above 1; calendar fields are naturals | 64-bit integers; `parseTimestampRFC3339UTCBytes` reads digits only |
| `ParserAssumption`, `VectorizerAssumption`, `DocumentsAssumption` | bodies and the texts of documents are sequences; lists of merchants become sets beyond some positive length; every maximum has some integer value; what documents mean are numbers and times | `config.go:27-35`: an absent key is 0 |
| `SizeAssumption`, `PrefixAssumption` | no axis of the grid is empty; counts are naturals | constants of `index.go` |
| `SearchAssumption`, `DistanceAssumption` | `K > 0`; the four partial sums of a distance do not decrease and stay below `^uint64(0)` | sums of squares of 16-bit differences |
| `PlacementAssumption` | where a store has slices or an index, the candidates of a bucket are the records that fall into it | `index.go:3-38,130-178`; that every served store is such a one is the theorem `ServedStoresArePlaced` of the other model |
| `StoreAssumption`, `DiskAssumption` | fewer buckets than codes, `Legit # Fraud`; the paths are those of the directory | 65536 codes, at most 12 buckets of an axis (`dataset/types.go:17-22`) |

* **FraudScoreHandlerProofs.** `TypeCorrect`; `PoolsNeverShared` from the
  invariant that ties each pool's count to `bufOf`/`reqOf` and these to `pc` (a
  handler holds a buffer exactly between `GetBuffer` and `PutBuffer`, a request
  between `GetRequest` and `PutRequest` or a failed parse); `ScoresAreOwn`,
  which needs that exclusiveness: what a handler wrote into its buffer and
  object is still there when it reads them; `LimiterIsSound` and `SlotsAreUsed`
  from the queue holding each blocked handler exactly once and the tokens
  counting the scoring handlers; `FirstComeFirstServed`, an action property,
  from the same.
* **FraudServiceProofs.** `ServiceImplemented`: every step of the handler is a
  step of the service or a stutter. Its invariant `Sound` says, between
  decoding and answering, that no response is set yet, that the buffer a
  handler holds has its own payload or a part of it, and that a request beyond
  the parser parses and is at most one byte too long; it needs the
  exclusiveness of the pools. `OnlyValidIsScored` follows from the same
  invariant.
* **RequestParserProofs.** On the calls: `CallsKeepShape` (at most two calls,
  the inner one in one of the nested objects, the array empty outside its loop)
  and `ParserShortens` (`Spec => StepsShorten`). The lemmas go from the
  scanning operators (`SkipWS`, `FindValueEnd`, `NextKeyValue` return windows
  no longer, mostly shorter, than what they are given) over one lemma per kind
  of step to the measure `Remaining`: entering an object moves its bytes from
  one call to the next, and its brace is what makes the sum smaller.
  `StallsAtDelimiter` says exactly where the measure does not fall. On the
  values: `ParserTypeCorrect` (`Spec => []TypeOK`): whatever bytes come, the
  fields are integers in their width, fractions with a positive denominator, an
  hour below 24 and a weekday below 7. The numbers are recursive functions;
  `LoopKeeps` and `LoopEnds` say once, by a smallest counterexample, that such
  a loop has a value and keeps what each round keeps. `VectorsStayInRange`
  (`Spec => []VectorsInRange`) follows: after every wrap-around, and for every
  configured maximum, each component is a number between 0 and 1 or one of the
  pair of sentinels (the risk as far as the file's risks are shares). `VectorsFollowReading` (`Spec /\ []ReadsAsWritten =>
  []VectorAsWritten`): of the two steps from a body to a vector, the second is
  right whenever the first is, for all numbers, spellings of fractions, wrapped
  times, list lengths and maxima. Its hypothesis is the invariant TLC checks in
  request_read, and no theorem; it needs the invariant that an accepted request
  has been finalized. Two more are about texts. `OnlyWholeIsAccepted` (`Spec =>
  []OnlyWholeAccepted` when every document is `WellWritten`): no cut of a
  document is accepted, and nothing with more than white space behind it. The
  hypothesis is on what clients write, not on what arrives: no brackets inside
  strings, no escaped quote that looks like the end of a key, no quote or brace
  within a bare word, whole objects in lists. The bodies are arbitrary. TLC
  checks that all documents of request_read are such (`DocumentsAreWellWritten`).
  The invariant `OnTrack` says that the outermost call, over an object that has
  been cut short, stands behind whole members of it: outside of strings and one
  brace deep, so that it never meets the brace the cut took away; a member is
  passed whole because `FindValueEnd` returns at the depth it started from.
  `FlatListsAdvance` (`Spec => [](FlatLists(body) => ParserAdvances)`): on a body
  whose lists hold words and strings without brackets, one comma at a time, the
  array loop never meets an element of length zero, whatever else is wrong with
  the body. Its invariant `Flat` says that each window the parser looks at is a
  piece of the body, whose lists are flat again, and that the rest of the array
  is `Smooth`: no comma follows another, no bracket occurs. TLC checks that the
  documents of request_read have flat lists and that the body of
  bracketed_merchant does not (`ListsAreFlat`).
* **BucketGridProofs.** `CellsHaveOwnBuckets`: the mixed-radix `bucketID` is
  injective into `Buckets`, by one lemma on a digit applied six times;
  `FirstHasLeastIndex`: loop order is index order. `NumberLemmas` provides
  least elements for the latter.
* **BucketSearchProofs.** `SearchTypeCorrect`, and `NearestKept` (`Spec =>
  []TopKExact`): the invariant adds that `threshold` is the K-th distance while
  a bucket is scanned, which makes pruning safe, and that insertion keeps the
  array sorted and its scans distinct. `WindowsAreComplete` (`Spec =>
  []WindowScanned`): the invariant relates the scans of each radius to the
  cells still in `todo` and the rest of `batch`, so that the window of a radius
  is scanned when both are empty; that its records are those near the query is
  `PlacementAssumption`. `RecordsScannedPerRadius` (`Spec => []ScannedPerRadius`)
  says how often each record has been scanned: once per radius whose window
  covers it, no more and no less. It is what makes the finding of
  neighbour_votes_twice exact, for every store. Its invariant `Accounted` adds,
  for each record, the scans behind it, the place it has in the open bucket and
  the bucket still to be opened. `VerdictIsOfNearest` (`Spec =>
  []VerdictExact`) needs one more invariant, on ties: places of one distance are filled by the
  earliest scans, in their order. Then the place of a scan is its rank, the
  scans of rank at most `K` are those in the array, and the count of frauds is
  the cardinality the definition asks for.
* **PrefixSumsProofs.** `SumsTypeCorrect`, `SweepsAreExact`,
  `WindowsAreCounted`: for every grid, all counts, and every width of the
  integers. Sums over sets of cells are folds; that they exist, are unique, and
  take a cell out or two disjoint sets apart is proved by smallest
  counterexamples. After a layer of a sweep each entry of it is the sum of the
  box below it in the axes swept so far, modulo `Word` (`SweepSums`: the box of
  an entry is its own slice and the box of its neighbour). The
  inclusion-exclusion over the corners is taken one axis at a time (`TermStep`,
  `PartStep`): of two corners that differ in that axis the difference is the
  slab between them.
* **DatasetLifecycleProofs.** `WholeAlwaysServed`: the directory is written
  only by a job, a job starts when nobody serves, and loading succeeds only on
  a whole file. `StoresTypeCorrect`, `DatasetsServed`, `ServedStoresArePlaced` and
  `RecordsServedNearby` are about directories that are `AsBuilt`: each file
  stands for a dataset or is one the converter wrote, every bucket of a dataset has fewer records than
  `CountWord`, and no converted file is given to the converter;
  wiped_by_preprocess and `CountWord = 2` (section 3) show that the theorems
  are false without these. The argument: `BucketsNear` (a value and its code
  fall into the same bucket or into neighbours, for every number of buckets
  below that of codes, so rounding and truncation meet at most one boundary);
  `InOrderBijective` and `Consecutive` (sorting by bucket is a permutation, and
  the offsets cut it into the buckets with nothing left over); `RawFaithful`
  and `ConvertedFaithful` (a store loaded from either kind of file is
  `Faithful`: each record of its dataset is in exactly one slice, that of a
  bucket near its own); and `StoreInv`, which is `DiskInv` (files stay raw or
  converted), `JobInv` (a job's store comes from a raw file) and `ServerInv` (a
  served store is faithful, and `Shelved`: every position is in the slice of
  exactly one bucket, and the store is listed or ranged but not both). The
  latter gives `ServedStoresArePlaced`: what `DistanceAssumption` asks of a store's
  form and `PlacementAssumption` of its records, on which the theorems of the
  search rest, holds of every store a server searches, on the one axis this
  model has.

Only model-checked:

* `EveryRequestReturns` and `SearchEnds`: liveness under fairness, out of the
  prover's reach.
* `ReadsAsWritten`: that the fields are those a document means. `Documents`
  leaves open how a text and its meaning belong together; a theorem would need a
  grammar of the texts and induction over it.
* `VectorAsWritten` without its hypothesis, for the same reason.
* `OnlyWholeAccepted` of documents that are not well written, and
  `ParserAdvances` of bodies whose lists are not flat: the latter is false of
  some (bracketed_merchant), and `StallsAtDelimiter` says of which elements.

## 6. Not modelled, and why

* Rounding of floats to 32 bits, the response texts: pure functions with no
  state. The parser and vectorizer are exact up to rounding.
* Bytes inside a word, escapes other than a backslash before a quote, and the
  layout of timestamps: `Instants` says which words are times.
* Code the service never calls: `UnmarshalJSON`, `ParseTimestamp`,
  `parseJSONString` (`types.go`), `clampNormalized` (`vectorizer.go`).
* The AVX2 scan: disabled in the source (`simd_amd64.go:12`).
* Dead code: `expandedScan`, `selectBucketWindow`, the exact fallback, the
  version 5 branch of the mapped loader.
* A preprocess run beside a starting or running server (two opens of one file,
  truncation of a mapped file): the image converts the dataset before a server
  exists (`Dockerfile:15`), and the instructions to run it by hand
  (`README.md:134-143`) promise nothing about a server running at the time.
* Configuration of the balancer and of the containers; runtime tuning; logs.

## 7. Plan

1. Done: handler with limiter and pools; search on the grid; prefix sums; store
   files and their life; the parser and the vectorizer over it; the abstract
   service and its refinement; theorems of section 5.
2. Done: every invariant and action property of the passing runs has a
   theorem, but for those listed at the end of section 5; the assumption of the
   search on the placement of records is a theorem about served stores.
3. Open: a grammar of documents from which `ReadsAsWritten` could be proved, and
   preprocess beside servers, should the project come to promise something about
   it.
