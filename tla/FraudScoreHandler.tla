-------------------------- MODULE FraudScoreHandler --------------------------
(***************************************************************************)
(* POST /fraud-score (internal/api): the goroutines that serve requests    *)
(* share two sync.Pools (request objects and body buffers) and a limiter,  *)
(* a buffered channel whose capacity is the number of requests that may be *)
(* scored at once.                                                         *)
(*                                                                         *)
(* A handler goroutine serves the requests of one connection one after     *)
(* another.  Every call it makes on a pool, on the limiter or on the       *)
(* client's body is one action, so handlers interleave at each of them.    *)
(* A payload is a record of the facts the code tells apart: its method,    *)
(* its length against the body limit, whether it parses, and what its      *)
(* last_transaction field is.                                              *)
(***************************************************************************)
EXTENDS Naturals, Sequences, FiniteSets

CONSTANTS
    Handlers,      \* goroutines of net/http, one per connection
    Requests,      \* identities of *fraud.FraudScoreRequest objects
    Buffers,       \* identities of body buffers
    Payloads,      \* the requests clients send
    MaxBody,       \* maxFraudScoreRequestBodyBytes
    Limit,         \* MAX_CONCURRENT_FRAUD_REQUESTS, 0 for no limiter
    ScorerPanics,  \* whether ScoreFraudCount may panic on store or category
    None,          \* no object held, no payload
    Blank,         \* contents of a Reset() or fresh object or buffer
    Partial,       \* a body cut short by its client
    NilLast,       \* LastTransaction is a nil pointer
    ZeroLast       \* LastTransaction points to a zero struct

Marks == {None, Blank, Partial, NilLast, ZeroLast}

PayloadType ==
    [id : Nat, post : BOOLEAN, len : Nat, ok : BOOLEAN,
     last : {"absent", "null", "present"}]

ASSUME HandlersAssumption == IsFiniteSet(Handlers)
ASSUME PayloadsAssumption == \A p \in Payloads : p \in PayloadType
ASSUME MarksAssumption ==
    /\ None \notin {Blank, Partial, NilLast, ZeroLast}
    /\ Blank # Partial /\ NilLast # ZeroLast
    /\ {Blank, Partial} \cap {NilLast, ZeroLast} = {}
    /\ Marks \cap (Requests \cup Buffers \cup Payloads) = {}
    /\ Payloads \cap Buffers = {}
ASSUME BoundsAssumption ==
    /\ MaxBody \in Nat \ {0}
    /\ Limit \in Nat
    /\ ScorerPanics \in BOOLEAN

VARIABLES
    pc,         \* the next call of each handler
    payload,    \* the request each handler serves
    resp,       \* the response it wrote
    canceled,   \* r.Context() is done
    bufOf,      \* the buffer a handler took from bufferPool
    reqOf,      \* the request object it took from requestPool
    buf,        \* what each buffer holds
    obj,        \* what each request object holds
    bufPool,    \* bufferPool: how many times each buffer is in it
    reqPool,    \* requestPool: how many times each object is in it
    tokens,     \* len(limiter.tokens)
    waitq       \* goroutines blocked in Acquire, first come first served

local == <<pc, payload, resp, canceled>>
buffers == <<bufOf, buf, bufPool>>
requests == <<reqOf, obj, reqPool>>
limiter == <<tokens, waitq>>
vars == <<local, buffers, requests, limiter>>

Steps == {"idle", "getbuf", "read", "probe", "getreq", "reset", "parse",
          "putbuf", "acquire", "blocked", "score", "release", "putreq",
          "return"}

FreshObject == [data |-> Blank, last |-> ZeroLast]

Status(code) == [code |-> code, data |-> None, last |-> None]
Scored(o) == [code |-> "200", data |-> o.data, last |-> o.last]

NoResponse == Status("none")

Codes == {"none", "200", "400", "405", "413", "503", "aborted"}

(***************************************************************************)
(* WarmupPools fills both pools with fresh objects before the server       *)
(* listens.                                                                *)
(***************************************************************************)
Init ==
    /\ pc = [h \in Handlers |-> "idle"]
    /\ payload = [h \in Handlers |-> None]
    /\ resp = [h \in Handlers |-> NoResponse]
    /\ canceled = [h \in Handlers |-> FALSE]
    /\ bufOf = [h \in Handlers |-> None]
    /\ reqOf = [h \in Handlers |-> None]
    /\ buf = [b \in Buffers |-> Blank]
    /\ obj = [r \in Requests |-> FreshObject]
    /\ bufPool = [b \in Buffers |-> 1]
    /\ reqPool = [r \in Requests |-> 1]
    /\ tokens = 0
    /\ waitq = << >>

Goto(h, from, to) ==
    /\ pc[h] = from
    /\ pc' = [pc EXCEPT ![h] = to]

Respond(h, r) == resp' = [resp EXCEPT ![h] = r]

(***************************************************************************)
(* sync.Pool.  Get takes any pooled object, or calls New: a new object is  *)
(* one nobody holds and no pool knows.  Put adds the object once more,     *)
(* whoever else may still use it.  The collector may drop what is pooled.  *)
(***************************************************************************)
IsNew(o, pool, heldBy) ==
    /\ pool[o] = 0
    /\ \A g \in Handlers : heldBy[g] # o

Put(pool, o) == [pool EXCEPT ![o] = @ + 1]
Take(pool, o) == [pool EXCEPT ![o] = @ - 1]

CollectBuffer(b) ==
    /\ bufPool[b] > 0
    /\ bufPool' = Take(bufPool, b)
    /\ UNCHANGED <<local, bufOf, buf, requests, limiter>>

CollectRequest(r) ==
    /\ reqPool[r] > 0
    /\ reqPool' = Take(reqPool, r)
    /\ UNCHANGED <<local, buffers, reqOf, obj, limiter>>

(***************************************************************************)
(* A request arrives on the connection: the method check of FraudScore.    *)
(***************************************************************************)
Arrive(h, p) ==
    /\ Goto(h, "idle", IF p.post THEN "getbuf" ELSE "return")
    /\ payload' = [payload EXCEPT ![h] = p]
    /\ Respond(h, IF p.post THEN NoResponse ELSE Status("405"))
    /\ UNCHANGED <<canceled, buffers, requests, limiter>>

(***************************************************************************)
(* decodeFraudScoreRequest.                                                *)
(***************************************************************************)
GetBuffer(h) ==
    /\ Goto(h, "getbuf", "read")
    /\ \E b \in Buffers :
        /\ bufOf' = [bufOf EXCEPT ![h] = b]
        /\ \/ /\ bufPool[b] > 0
              /\ bufPool' = Take(bufPool, b)
              /\ UNCHANGED buf
           \/ /\ IsNew(b, bufPool, bufOf)
              /\ buf' = [buf EXCEPT ![b] = Blank]
              /\ UNCHANGED bufPool
    /\ UNCHANGED <<payload, resp, canceled, requests, limiter>>

\* io.ReadFull: the body, at most MaxBody bytes of it; a body that ends early
\* (io.ErrUnexpectedEOF) is kept, any other error is a 400.
ReadBody(h) ==
    /\ \/ /\ Goto(h, "read",
                  IF payload[h].len >= MaxBody THEN "probe" ELSE "getreq")
          /\ buf' = [buf EXCEPT ![bufOf[h]] = payload[h]]
          /\ UNCHANGED resp
       \/ /\ Goto(h, "read", "getreq")
          /\ buf' = [buf EXCEPT ![bufOf[h]] = Partial]
          /\ UNCHANGED resp
       \/ /\ Goto(h, "read", "putbuf")
          /\ buf' = [buf EXCEPT ![bufOf[h]] = Partial]
          /\ Respond(h, Status("400"))
    /\ UNCHANGED <<payload, canceled, bufOf, bufPool, requests, limiter>>

\* Mutant: the error of the probe is ignored.
ProbeIgnored(len) == {"EOF"}

\* What r.Body.Read of one more byte can report: at the end io.EOF; with one
\* byte left that byte, with or without io.EOF (a body with a Content-Length
\* reports both at once); with more left a byte.  It may have to wait for the
\* network, also at the end, when the last chunk of a chunked body is still to
\* come: then a lost client, a time-out or a malformed chunk is its error.
ProbeErrors(len) ==
    CASE len = MaxBody     -> {"EOF", "other"}
      [] len = MaxBody + 1 -> {"nil", "EOF", "other"}
      [] OTHER             -> {"nil", "other"}

\* The buffer is full: one more byte is asked for.
ProbeBody(h) ==
    /\ pc[h] = "probe"
    /\ \E err \in ProbeErrors(payload[h].len) :
        /\ Goto(h, "probe", IF err = "EOF" THEN "getreq" ELSE "putbuf")
        /\ Respond(h, IF err = "EOF" THEN NoResponse ELSE Status("413"))
    /\ UNCHANGED <<payload, canceled, buffers, requests, limiter>>

GetRequest(h) ==
    /\ Goto(h, "getreq", "reset")
    /\ \E r \in Requests :
        /\ reqOf' = [reqOf EXCEPT ![h] = r]
        /\ \/ /\ reqPool[r] > 0
              /\ reqPool' = Take(reqPool, r)
              /\ UNCHANGED obj
           \/ /\ IsNew(r, reqPool, reqOf)
              /\ obj' = [obj EXCEPT ![r] = FreshObject]
              /\ UNCHANGED reqPool
    /\ UNCHANGED <<payload, resp, canceled, buffers, limiter>>

\* Mutant: the pointed-to LastTransaction is not cleared.
ResetKeepsLast(o) == [o EXCEPT !.data = Blank]

\* FraudScoreRequest.Reset: every field to zero, but a nil LastTransaction
\* stays nil.
Reset(o) ==
    [data |-> Blank, last |-> IF o.last = NilLast THEN NilLast ELSE ZeroLast]

\* Mutant: the buffer is put back before the parser has read it.
ResetAfterEarlyPut(h) ==
    /\ Goto(h, "reset", "parse")
    /\ obj' = [obj EXCEPT ![reqOf[h]] = Reset(@)]
    /\ bufPool' = Put(bufPool, bufOf[h])
    /\ UNCHANGED <<payload, resp, canceled, bufOf, buf, reqOf, reqPool, limiter>>

ResetRequest(h) ==
    /\ Goto(h, "reset", "parse")
    /\ obj' = [obj EXCEPT ![reqOf[h]] = Reset(@)]
    /\ UNCHANGED <<payload, resp, canceled, buffers, reqOf, reqPool, limiter>>

\* Mutant: values are built with bytesToString, as keys are.
CopyOutAlias(b) == b

\* Field values are copied out of the buffer with string(value).
CopyOut(b) == buf[b]

\* The bytes a value read from an object stands for: its own copy, or what the
\* buffer it points into holds now.
Bytes(v) == IF v \in Buffers THEN buf[v] ELSE v

ParsedLast(o, v) ==
    CASE Bytes(v).last = "null"    -> NilLast
      [] Bytes(v).last = "present" -> v
      [] Bytes(v).last = "absent"  -> o.last

Parsed(o, b) == [data |-> CopyOut(b), last |-> ParsedLast(o, CopyOut(b))]

Parses(bytes) == bytes \notin Marks /\ bytes.ok

\* parseObjectInternal stopped at a key it could not parse: last_transaction
\* may have been taken or not.  The next to see the object is Reset, so a
\* struct left half filled is as good as a zero one.
Abandoned(o, b) ==
    {o} \cup {[data |-> CopyOut(b), last |-> l] :
                l \in {o.last, NilLast, ZeroLast}}

\* The loop over the keys, then Finalize; on an error the object goes straight
\* back to the pool.
ParseRequest(h) ==
    /\ Goto(h, "parse", "putbuf")
    /\ LET r == reqOf[h] IN
       LET b == bufOf[h] IN
       \/ /\ Parses(buf[b])
          /\ obj' = [obj EXCEPT ![r] = Parsed(@, b)]
          /\ UNCHANGED <<resp, reqOf, reqPool>>
       \/ /\ ~ Parses(buf[b])
          /\ \E o \in Abandoned(obj[r], b) : obj' = [obj EXCEPT ![r] = o]
          /\ reqPool' = Put(reqPool, r)
          /\ reqOf' = [reqOf EXCEPT ![h] = None]
          /\ Respond(h, Status("400"))
    /\ UNCHANGED <<payload, canceled, buffers, limiter>>

\* The deferred bufferPool.Put, at every return of decodeFraudScoreRequest.
PutBuffer(h) ==
    /\ Goto(h, "putbuf", IF resp[h] = NoResponse THEN "acquire" ELSE "return")
    /\ bufPool' = Put(bufPool, bufOf[h])
    /\ bufOf' = [bufOf EXCEPT ![h] = None]
    /\ UNCHANGED <<payload, resp, canceled, buf, requests, limiter>>

(***************************************************************************)
(* fraudScoreLimiter.  A send on the full channel queues its goroutine; a  *)
(* receive hands the freed slot to the goroutine at the head of the queue. *)
(***************************************************************************)
AcquireFree(h) ==
    /\ Goto(h, "acquire", "score")
    /\ IF Limit = 0
       THEN UNCHANGED tokens
       ELSE tokens < Limit /\ tokens' = tokens + 1
    /\ UNCHANGED <<payload, resp, canceled, buffers, requests, waitq>>

\* Mutant: the channel has room for one token less.
AcquireBlocksEarly(h) ==
    /\ Limit > 0 /\ tokens + 1 >= Limit /\ ~ canceled[h]
    /\ Goto(h, "acquire", "blocked")
    /\ waitq' = Append(waitq, h)
    /\ UNCHANGED <<payload, resp, canceled, buffers, requests, tokens>>

AcquireBlocks(h) ==
    /\ Limit > 0 /\ tokens = Limit /\ ~ canceled[h]
    /\ Goto(h, "acquire", "blocked")
    /\ waitq' = Append(waitq, h)
    /\ UNCHANGED <<payload, resp, canceled, buffers, requests, tokens>>

\* Mutant: Release is deferred before the error of Acquire is looked at.
AcquireCanceledReleases(h) ==
    /\ Limit > 0 /\ canceled[h]
    /\ Goto(h, "acquire", "release")
    /\ Respond(h, Status("503"))
    /\ UNCHANGED <<payload, canceled, buffers, requests, limiter>>

\* Mutant: the handler goes on after the 503.
AcquireCanceledGoesOn(h) ==
    /\ Limit > 0 /\ canceled[h]
    /\ Goto(h, "acquire", "score")
    /\ Respond(h, Status("503"))
    /\ tokens' = tokens + 1
    /\ UNCHANGED <<payload, canceled, buffers, requests, waitq>>

\* ctx.Done() is ready when the select runs.
AcquireCanceled(h) ==
    /\ Limit > 0 /\ canceled[h]
    /\ Goto(h, "acquire", "putreq")
    /\ Respond(h, Status("503"))
    /\ UNCHANGED <<payload, canceled, buffers, requests, limiter>>

\* ctx.Done() becomes ready while the goroutine is queued.
WaitCanceled(h) ==
    /\ canceled[h]
    /\ Goto(h, "blocked", "putreq")
    /\ Respond(h, Status("503"))
    /\ \E k \in 1 .. Len(waitq) :
        /\ waitq[k] = h
        /\ waitq' = [i \in 1 .. (Len(waitq) - 1) |->
                        IF i < k THEN waitq[i] ELSE waitq[i + 1]]
    /\ UNCHANGED <<payload, canceled, buffers, requests, tokens>>

\* Mutant: Release and the Put are plain calls, which a panic skips.
ScoreWithoutDefer(h) ==
    /\ LET o == obj[reqOf[h]] IN
       \/ /\ Goto(h, "score", "release")
          /\ Respond(h, Scored([data |-> Bytes(o.data), last |-> Bytes(o.last)]))
       \/ /\ ScorerPanics
          /\ Goto(h, "score", "return")
          /\ Respond(h, Status("aborted"))
    /\ UNCHANGED <<payload, canceled, buffers, requests, limiter>>

\* ScoreFraudCount(*request) and the response it leads to.
Score(h) ==
    /\ Goto(h, "score", "release")
    /\ LET o == obj[reqOf[h]] IN
       \/ Respond(h, Scored([data |-> Bytes(o.data), last |-> Bytes(o.last)]))
       \/ ScorerPanics /\ Respond(h, Status("aborted"))
    /\ UNCHANGED <<payload, canceled, buffers, requests, limiter>>

\* Mutant: the slot goes to the goroutine that queued last.
ReleaseToLast(h) ==
    /\ pc[h] = "release" /\ Limit > 0 /\ tokens > 0
    /\ IF waitq = << >>
       THEN /\ tokens' = tokens - 1
            /\ pc' = [pc EXCEPT ![h] = "putreq"]
            /\ UNCHANGED waitq
       ELSE /\ pc' = [pc EXCEPT ![h] = "putreq", ![waitq[Len(waitq)]] = "score"]
            /\ waitq' = SubSeq(waitq, 1, Len(waitq) - 1)
            /\ UNCHANGED tokens
    /\ UNCHANGED <<payload, resp, canceled, buffers, requests>>

\* The deferred limiter.Release, after a response and after a panic.
Release(h) ==
    /\ pc[h] = "release"
    /\ \/ /\ Limit = 0
          /\ pc' = [pc EXCEPT ![h] = "putreq"]
          /\ UNCHANGED limiter
       \/ /\ Limit > 0 /\ tokens > 0 /\ waitq = << >>
          /\ tokens' = tokens - 1
          /\ pc' = [pc EXCEPT ![h] = "putreq"]
          /\ UNCHANGED waitq
       \/ /\ Limit > 0 /\ tokens > 0 /\ waitq # << >>
          /\ pc' = [pc EXCEPT ![h] = "putreq", ![Head(waitq)] = "score"]
          /\ waitq' = Tail(waitq)
          /\ UNCHANGED tokens
    /\ UNCHANGED <<payload, resp, canceled, buffers, requests>>

\* The deferred releaseFraudScoreRequest.
PutRequest(h) ==
    /\ Goto(h, "putreq", "return")
    /\ reqPool' = Put(reqPool, reqOf[h])
    /\ reqOf' = [reqOf EXCEPT ![h] = None]
    /\ UNCHANGED <<payload, resp, canceled, buffers, obj, limiter>>

\* The handler returns; the connection is ready for its next request.
Return(h) ==
    /\ Goto(h, "return", "idle")
    /\ payload' = [payload EXCEPT ![h] = None]
    /\ resp' = [resp EXCEPT ![h] = NoResponse]
    /\ canceled' = [canceled EXCEPT ![h] = FALSE]
    /\ UNCHANGED <<buffers, requests, limiter>>

\* The client of an outstanding request goes away.  Only the limiter looks at
\* the context, so the moments before it are not told apart.
Cancel(h) ==
    /\ Limit > 0
    /\ pc[h] \in {"acquire", "blocked"}
    /\ ~ canceled[h]
    /\ canceled' = [canceled EXCEPT ![h] = TRUE]
    /\ UNCHANGED <<pc, payload, resp, buffers, requests, limiter>>

HandlerStep(h) ==
    \/ GetBuffer(h) \/ ReadBody(h) \/ ProbeBody(h)
    \/ GetRequest(h) \/ ResetRequest(h) \/ ParseRequest(h) \/ PutBuffer(h)
    \/ AcquireFree(h) \/ AcquireBlocks(h) \/ AcquireCanceled(h)
    \/ WaitCanceled(h)
    \/ Score(h) \/ Release(h) \/ PutRequest(h) \/ Return(h)

Next ==
    \/ \E h \in Handlers :
        \/ HandlerStep(h)
        \/ Cancel(h)
        \/ \E p \in Payloads : Arrive(h, p)
    \/ \E b \in Buffers : CollectBuffer(b)
    \/ \E r \in Requests : CollectRequest(r)

(***************************************************************************)
(* The Go scheduler runs every ready goroutine, and a body is eventually   *)
(* sent or given up: the proxy in front closes an idle client (timeout     *)
(* client 30s).  Nothing is assumed of clients that cancel, of new         *)
(* requests, or of the collector.                                          *)
(***************************************************************************)
Spec == Init /\ [][Next]_vars

FairSpec == Spec /\ \A h \in Handlers : WF_vars(HandlerStep(h))

-----------------------------------------------------------------------------
Contents == Payloads \cup {Blank, Partial}

ObjectType ==
    [data : Contents, last : Payloads \cup {NilLast, ZeroLast}]

ResponseType ==
    [code : Codes, data : Contents \cup {None},
     last : Contents \cup {None, NilLast, ZeroLast}]

TypeOK ==
    /\ pc \in [Handlers -> Steps]
    /\ payload \in [Handlers -> Payloads \cup {None}]
    /\ resp \in [Handlers -> ResponseType]
    /\ canceled \in [Handlers -> BOOLEAN]
    /\ bufOf \in [Handlers -> Buffers \cup {None}]
    /\ reqOf \in [Handlers -> Requests \cup {None}]
    /\ buf \in [Buffers -> Contents]
    /\ obj \in [Requests -> ObjectType]
    /\ bufPool \in [Buffers -> Nat]
    /\ reqPool \in [Requests -> Nat]
    /\ tokens \in Nat
    /\ waitq \in Seq(Handlers)

(***************************************************************************)
(* An object of a sync.Pool has one place: in the pool once, with one      *)
(* handler, or nowhere.                                                    *)
(***************************************************************************)
Exclusive(Objects, pool, heldBy) ==
    /\ \A o \in Objects : pool[o] <= 1
    /\ \A h \in Handlers : heldBy[h] # None => pool[heldBy[h]] = 0
    /\ \A g, h \in Handlers :
        g # h /\ heldBy[g] # None => heldBy[g] # heldBy[h]

\* No buffer and no request object is ever used by two handlers at once, or by
\* one while the pool can hand it to another, on any path through FraudScore
\* (handler.go:39-63) and decodeFraudScoreRequest (request_decoder.go:35-63).
PoolsExclusive ==
    /\ Exclusive(Buffers, bufPool, bufOf)
    /\ Exclusive(Requests, reqPool, reqOf)

\* The score a handler writes is computed from its own payload: nothing of an
\* earlier request served with the same pooled object or buffer, or of a
\* concurrent one, shows in it.  (An absent last_transaction may still score
\* as nil or as zero: see SamePayloadSameScore.)
OwnPayloadScored ==
    \A h \in Handlers : resp[h].code = "200" =>
        /\ resp[h].data = payload[h]
        /\ resp[h].last \in
            CASE payload[h].last = "null"    -> {NilLast}
              [] payload[h].last = "present" -> {payload[h]}
              [] payload[h].last = "absent"  -> {NilLast, ZeroLast}

\* A payload that does not parse, and one longer than the limit by more than
\* the byte the probe reads, never gets a score.
OnlyValidScored ==
    \A h \in Handlers : resp[h].code = "200" =>
        payload[h].ok /\ payload[h].len <= MaxBody + 1

Scoring == {h \in Handlers : pc[h] \in {"score", "release"}}

\* The channel holds one token for every handler between Acquire and Release,
\* so that at most Limit requests are scored at once (limiter.go:19-38).
LimiterSound ==
    Limit > 0 => tokens = Cardinality(Scoring) /\ tokens <= Limit

\* No handler waits in Acquire while a slot is free, and the waiting handlers
\* are exactly those of the queue.
NoIdleSlot ==
    /\ waitq # << >> => tokens = Limit
    /\ \A h \in Handlers :
        pc[h] = "blocked" <=> \E i \in 1 .. Len(waitq) : waitq[i] = h

\* A slot goes to a new request only when nobody waits, and otherwise to the
\* handler that has waited longest.
NoBarging ==
    [][\A h \in Handlers : Limit > 0 /\ h \in Scoring' \ Scoring =>
        waitq = << >> \/ h = Head(waitq)]_vars

\* Every accepted request is answered or its connection given up, whatever the
\* other handlers do, also when the scorer panics while holding a slot.
EveryRequestReturns ==
    \A h \in Handlers : pc[h] = "getbuf" ~> pc[h] = "return"

\* What the service says of itself: a payload is converted to its feature
\* vector, so equal payloads score equally (README.md:9).
SamePayloadSameScore ==
    \A g, h \in Handlers :
        /\ resp[g].code = "200" /\ resp[h].code = "200"
        /\ payload[g] = payload[h]
        => resp[g] = resp[h]

-----------------------------------------------------------------------------
\* Seen from its clients, the handler is the service of FraudService.
Service == INSTANCE FraudService
             WITH request <- payload, answer <- resp, gone <- canceled

\* Pools, buffers, slots and all, the handler does what the service promises:
\* whatever handlers, clients, the collector and a panicking scorer do, each
\* request gets one answer, to its own payload, and a 413, a 503 or a score
\* only with good reason (handler.go:33-64, request_decoder.go:35-69,
\* limiter.go:19-38).
ImplementsService == Service!Spec
=============================================================================
