---------------------- MODULE FraudScoreHandlerProofs ----------------------
(***************************************************************************)
(* Proofs about FraudScoreHandler, for any number of handlers, objects,    *)
(* payloads and tokens: type correctness, exclusive use of pooled objects, *)
(* the limiter's bound and its queue, and that a score is computed from    *)
(* the payload it answers.                                                 *)
(***************************************************************************)
EXTENDS FraudScoreHandler, FiniteSetTheorems, TLAPS

(***************************************************************************)
(* What a handler holds at each step.                                      *)
(***************************************************************************)
WithBuffer == {"read", "probe", "getreq", "reset", "parse", "putbuf"}
WithRequest == {"reset", "parse", "acquire", "blocked", "score", "release",
                "putreq"}
Unanswered == {"getbuf", "read", "probe", "getreq", "reset", "parse",
               "acquire", "blocked", "score"}

Holding ==
    \A h \in Handlers :
        /\ bufOf[h] # None <=> pc[h] \in WithBuffer
        /\ reqOf[h] # None <=> \/ pc[h] \in WithRequest
                               \/ pc[h] = "putbuf" /\ resp[h] = NoResponse
        /\ payload[h] = None <=> pc[h] = "idle"
        /\ pc[h] \in Unanswered => resp[h] = NoResponse
        /\ pc[h] = "release" => resp[h] # NoResponse

\* The queue of the limiter holds the blocked handlers, each once.
Queued ==
    /\ \A i \in 1 .. Len(waitq) : pc[waitq[i]] = "blocked"
    /\ \A i, j \in 1 .. Len(waitq) : waitq[i] = waitq[j] => i = j
    /\ \A h \in Handlers :
        pc[h] = "blocked" => \E i \in 1 .. Len(waitq) : waitq[i] = h

TypeInv == TypeOK /\ Holding /\ Queued

USE DEF Goto, Respond, Put, Take

\* writeStatus makes a response, and one that is told from no response.
LEMMA StatusType ==
    ASSUME NEW c \in Codes
    PROVE  /\ Status(c) \in ResponseType
           /\ c # "none" => Status(c) # NoResponse
  BY DEF Status, NoResponse, ResponseType, Codes, Contents

\* The types and the holders of the pools' objects hold at the start.
LEMMA InitTypeInv == Init => TypeInv
<1> SUFFICES ASSUME Init PROVE TypeInv
  OBVIOUS
<1>1. NoResponse \in ResponseType
  BY StatusType DEF NoResponse, Codes
<1>2. FreshObject \in ObjectType
  BY DEF FreshObject, ObjectType, Contents
<1> QED
  BY <1>1, <1>2, MarksAssumption DEF Init, TypeInv, TypeOK, Holding, Queued, Steps,
     WithBuffer, WithRequest, Unanswered, Contents, Marks

\* A parse that succeeds makes an object that holds the body it read.
LEMMA ParsedType ==
    ASSUME NEW o \in ObjectType, NEW b \in Buffers, buf \in [Buffers -> Contents],
           Parses(buf[b])
    PROVE  /\ Parsed(o, b) \in ObjectType
           /\ Parsed(o, b).data = buf[b]
           /\ buf[b] \in Payloads
<1>1. buf[b] \in Payloads
  BY DEF Parses, Contents, Marks
<1>2. Bytes(buf[b]) = buf[b]
  BY <1>1, MarksAssumption DEF Bytes
<1>3. buf[b].last \in {"absent", "null", "present"}
  BY <1>1, PayloadsAssumption DEF PayloadType
<1>4. ParsedLast(o, buf[b]) \in Payloads \cup {NilLast, ZeroLast}
  BY <1>1, <1>2, <1>3 DEF ParsedLast, ObjectType
<1> QED
  BY <1>1, <1>4 DEF Parsed, CopyOut, ObjectType, Contents

\* What a parse that fails leaves in the object has the object's type.
LEMMA AbandonedType ==
    ASSUME NEW o \in ObjectType, NEW b \in Buffers, buf \in [Buffers -> Contents]
    PROVE  Abandoned(o, b) \subseteq ObjectType
  BY DEF Abandoned, CopyOut, ObjectType, Contents

\* ResetFraudScoreRequest leaves an object of the object's type.
LEMMA ResetType ==
    ASSUME NEW o \in ObjectType
    PROVE  Reset(o) \in ObjectType
  BY DEF Reset, ObjectType, Contents

\* Nothing in an object points into a buffer.
LEMMA ScoredType ==
    ASSUME NEW o \in ObjectType
    PROVE  LET s == Scored([data |-> Bytes(o.data), last |-> Bytes(o.last)]) IN
           /\ s = [code |-> "200", data |-> o.data, last |-> o.last]
           /\ s \in ResponseType
           /\ s # NoResponse
<1>1. o.data \notin Buffers /\ o.last \notin Buffers
  BY MarksAssumption DEF ObjectType, Contents, Marks
<1> QED
  BY <1>1 DEF Scored, Bytes, ResponseType, Codes, ObjectType, Contents,
     NoResponse, Status

\* What the leaves below expand beside the action.
LEMMA NoResponseType == NoResponse \in ResponseType /\ NoResponse = Status("none")
  BY StatusType DEF NoResponse, Codes

\* None is told from every buffer, object and payload.
LEMMA MarksApart ==
    /\ \A b \in Buffers : b # None
    /\ \A r \in Requests : r # None
    /\ \A p \in Payloads : p # None
  BY MarksAssumption DEF Marks

\* The steps that read and decode the body keep the type invariant.
LEMMA DecodeTypeInv ==
    ASSUME TypeInv, NEW h \in Handlers,
           \/ GetBuffer(h) \/ ReadBody(h) \/ ProbeBody(h) \/ GetRequest(h)
           \/ ResetRequest(h) \/ ParseRequest(h) \/ PutBuffer(h)
    PROVE  TypeInv'
<1> USE NoResponseType, MarksApart
      DEF TypeInv, TypeOK, Holding, Queued, WithBuffer, WithRequest, Unanswered,
          Steps, local, buffers, requests, limiter
<1>1. CASE GetBuffer(h)
  <2>1. PICK b \in Buffers :
          /\ bufOf' = [bufOf EXCEPT ![h] = b]
          /\ \/ bufPool[b] > 0 /\ bufPool' = [bufPool EXCEPT ![b] = @ - 1] /\ buf' = buf
             \/ buf' = [buf EXCEPT ![b] = Blank] /\ bufPool' = bufPool
    BY <1>1 DEF GetBuffer
  <2>2. bufPool' \in [Buffers -> Nat] /\ buf' \in [Buffers -> Contents]
    <3>1. bufPool \in [Buffers -> Nat] /\ buf \in [Buffers -> Contents] /\ Blank \in Contents
      BY DEF Contents
    <3> HIDE DEF TypeInv, TypeOK
    <3> QED
      BY <2>1, <3>1
  <2> QED
    BY <1>1, <2>1, <2>2 DEF GetBuffer
<1>2. CASE ReadBody(h)
  <2>0. bufOf[h] \in Buffers /\ payload[h] \in Payloads /\ resp[h] = NoResponse
    BY <1>2 DEF ReadBody
  <2>1. buf' \in [Buffers -> Contents]
    <3>1. \E x \in {payload[h], Partial} : buf' = [buf EXCEPT ![bufOf[h]] = x]
      BY <1>2 DEF ReadBody
    <3>2. /\ buf \in [Buffers -> Contents]
          /\ payload[h] \in Contents /\ Partial \in Contents
      BY <2>0 DEF Contents
    <3> HIDE DEF TypeInv, TypeOK
    <3> QED
      BY <3>1, <3>2
  <2>2. Status("400") \in ResponseType /\ Status("400") # NoResponse
    BY StatusType DEF Codes
  <2> QED
    <3>1. CASE resp' = resp /\ pc' \in {[pc EXCEPT ![h] = "probe"],
                                       [pc EXCEPT ![h] = "getreq"]}
      <4>1. PICK s \in {"probe", "getreq"} : pc' = [pc EXCEPT ![h] = s]
        BY <3>1
      <4> QED
        BY <1>2, <2>0, <2>1, <3>1, <4>1 DEF ReadBody
    <3>2. CASE /\ resp' = [resp EXCEPT ![h] = Status("400")]
               /\ pc' = [pc EXCEPT ![h] = "putbuf"]
      BY <1>2, <2>0, <2>1, <2>2, <3>2 DEF ReadBody
    <3> QED
      BY <1>2, <3>1, <3>2 DEF ReadBody
<1>3. CASE ProbeBody(h)
  BY <1>3, StatusType DEF ProbeBody, Codes
<1>4. CASE GetRequest(h)
  <2>1. FreshObject \in ObjectType
    BY DEF FreshObject, ObjectType, Contents
  <2>2. PICK r \in Requests :
          /\ reqOf' = [reqOf EXCEPT ![h] = r]
          /\ \/ reqPool[r] > 0 /\ reqPool' = [reqPool EXCEPT ![r] = @ - 1] /\ obj' = obj
             \/ obj' = [obj EXCEPT ![r] = FreshObject] /\ reqPool' = reqPool
    BY <1>4 DEF GetRequest
  <2>3. reqPool' \in [Requests -> Nat] /\ obj' \in [Requests -> ObjectType]
    <3>1. reqPool \in [Requests -> Nat] /\ obj \in [Requests -> ObjectType]
      OBVIOUS
    <3> HIDE DEF TypeInv, TypeOK
    <3> QED
      BY <2>1, <2>2, <3>1
  <2> QED
    BY <1>4, <2>2, <2>3 DEF GetRequest
<1>5. CASE ResetRequest(h)
  BY <1>5, ResetType DEF ResetRequest
<1>6. CASE ParseRequest(h)
  <2>1. bufOf[h] \in Buffers /\ reqOf[h] \in Requests /\ resp[h] = NoResponse
    BY <1>6 DEF ParseRequest
  <2>2. CASE Parses(buf[bufOf[h]])
    <3>1. Parsed(obj[reqOf[h]], bufOf[h]) \in ObjectType
      BY <2>1, <2>2, ParsedType
    <3>2. obj' = [obj EXCEPT ![reqOf[h]] = Parsed(@, bufOf[h])]
          /\ UNCHANGED <<resp, reqOf, reqPool>>
      BY <1>6, <2>2 DEF ParseRequest
    <3>3. obj' \in [Requests -> ObjectType]
      BY <2>1, <3>1, <3>2
    <3> QED
      BY <1>6, <2>1, <3>2, <3>3 DEF ParseRequest
  <2>3. CASE ~ Parses(buf[bufOf[h]])
    <3>0. PICK o \in Abandoned(obj[reqOf[h]], bufOf[h]) :
            /\ obj' = [obj EXCEPT ![reqOf[h]] = o]
            /\ reqPool' = [reqPool EXCEPT ![reqOf[h]] = @ + 1]
            /\ reqOf' = [reqOf EXCEPT ![h] = None]
            /\ resp' = [resp EXCEPT ![h] = Status("400")]
      BY <1>6, <2>3 DEF ParseRequest
    <3>1. obj' \in [Requests -> ObjectType]
      BY <2>1, <3>0, AbandonedType
    <3>2. Status("400") \in ResponseType /\ Status("400") # NoResponse
      BY StatusType DEF Codes
    <3> QED
      BY <1>6, <2>1, <3>0, <3>1, <3>2 DEF ParseRequest
  <2> QED
    BY <2>2, <2>3
<1>7. CASE PutBuffer(h)
  BY <1>7 DEF PutBuffer
<1> HIDE DEF TypeInv
<1> QED
  BY <1>1, <1>2, <1>3, <1>4, <1>5, <1>6, <1>7

\* Leaving a queue, at the head or in the middle.
LEMMA RemoveAt ==
    ASSUME NEW S, NEW q \in Seq(S), NEW k \in 1 .. Len(q), NEW r,
           r = [i \in 1 .. (Len(q) - 1) |-> IF i < k THEN q[i] ELSE q[i + 1]]
    PROVE  /\ r \in Seq(S) /\ Len(r) = Len(q) - 1
           /\ \A i \in 1 .. Len(r) : r[i] = q[IF i < k THEN i ELSE i + 1]
<1>1. Len(q) - 1 \in Nat /\ Len(q) \in Nat
  OBVIOUS
<1>2. \A i \in 1 .. (Len(q) - 1) : r[i] \in S
  BY <1>1
<1>3. r \in Seq(S) /\ Len(r) = Len(q) - 1
  BY <1>1, <1>2
<1> QED
  BY <1>1, <1>3

\* The tail of a queue is the queue with every place moved up by one.
LEMMA TailIsShift ==
    ASSUME NEW S, NEW q \in Seq(S), q # << >>
    PROVE  /\ Head(q) = q[1] /\ Head(q) \in S
           /\ Tail(q) \in Seq(S) /\ Len(Tail(q)) = Len(q) - 1
           /\ \A i \in 1 .. Len(Tail(q)) : Tail(q)[i] = q[i + 1]
  OBVIOUS

\* The steps from acquire to the return of the handler keep the type
\* invariant.
LEMMA LimiterTypeInv ==
    ASSUME TypeInv, NEW h \in Handlers,
           \/ AcquireFree(h) \/ AcquireBlocks(h) \/ AcquireCanceled(h)
           \/ WaitCanceled(h) \/ Score(h) \/ Release(h) \/ PutRequest(h)
           \/ Return(h) \/ Cancel(h)
    PROVE  TypeInv'
<1> USE NoResponseType, MarksApart
      DEF TypeInv, TypeOK, Holding, Queued, WithBuffer, WithRequest, Unanswered,
          Steps, local, buffers, requests, limiter
<1>1. CASE AcquireFree(h)
  BY <1>1, BoundsAssumption DEF AcquireFree
<1>2. CASE AcquireBlocks(h)
  <2>1. /\ waitq' \in Seq(Handlers) /\ Len(waitq) \in Nat
        /\ Len(waitq') = Len(waitq) + 1 /\ waitq'[Len(waitq) + 1] = h
        /\ \A i \in 1 .. Len(waitq) : waitq'[i] = waitq[i]
    <3>1. waitq \in Seq(Handlers) /\ waitq' = Append(waitq, h)
      BY <1>2 DEF AcquireBlocks
    <3> HIDE DEF TypeInv, TypeOK
    <3> QED
      BY <3>1
  <2>2. pc[h] = "acquire" /\ pc' = [pc EXCEPT ![h] = "blocked"]
    BY <1>2 DEF AcquireBlocks
  <2>3. \A i \in 1 .. Len(waitq) : waitq[i] # h /\ waitq[i] \in Handlers
    BY <2>2
  <2>4. Queued'
    <3>1. \A i \in 1 .. Len(waitq') : i \in 1 .. Len(waitq) \/ i = Len(waitq) + 1
      BY <2>1
    <3>2. \A i \in 1 .. Len(waitq') : pc'[waitq'[i]] = "blocked"
      <4>1. pc'[h] = "blocked"
        BY <2>2
      <4>2. \A i \in 1 .. Len(waitq) : pc'[waitq[i]] = "blocked"
        BY <2>2, <2>3
      <4> HIDE DEF TypeInv, TypeOK, Holding, Queued
      <4> QED
        BY <2>1, <3>1, <4>1, <4>2
    <3>3. \A i, j \in 1 .. Len(waitq') : waitq'[i] = waitq'[j] => i = j
      <4>1. \A i, j \in 1 .. Len(waitq) : waitq[i] = waitq[j] => i = j
        OBVIOUS
      <4> HIDE DEF TypeInv, TypeOK, Holding, Queued
      <4> QED
        BY <2>1, <2>3, <3>1, <4>1
    <3>4. ASSUME NEW g \in Handlers, pc'[g] = "blocked"
          PROVE  \E i \in 1 .. Len(waitq') : waitq'[i] = g
      <4>1. CASE g = h
        <5>1. Len(waitq) + 1 \in 1 .. Len(waitq')
          BY <2>1
        <5> QED
          BY <2>1, <4>1, <5>1
      <4>2. CASE g # h
        <5>1. PICK i \in 1 .. Len(waitq) : waitq[i] = g
          BY <2>2, <3>4, <4>2
        <5>2. i \in 1 .. Len(waitq') /\ waitq'[i] = g
          BY <2>1, <5>1
        <5> QED
          BY <5>2
      <4> QED
        BY <4>1, <4>2
    <3> QED
      BY <3>2, <3>3, <3>4
  <2>5. TypeOK'
    BY <1>2, <2>1, <2>2 DEF AcquireBlocks
  <2>6. Holding'
    BY <1>2, <2>2 DEF AcquireBlocks
  <2> QED
    BY <2>4, <2>5, <2>6
<1>3. CASE AcquireCanceled(h)
  <2>1. Status("503") \in ResponseType /\ Status("503") # NoResponse
    BY StatusType DEF Codes
  <2> QED
    BY <1>3, <2>1 DEF AcquireCanceled
<1>4. CASE WaitCanceled(h)
  <2>1. Status("503") \in ResponseType /\ Status("503") # NoResponse
    BY StatusType DEF Codes
  <2>2. PICK k \in 1 .. Len(waitq) :
          /\ waitq[k] = h
          /\ waitq' = [i \in 1 .. (Len(waitq) - 1) |->
                          IF i < k THEN waitq[i] ELSE waitq[i + 1]]
    BY <1>4 DEF WaitCanceled
  <2>3. /\ waitq' \in Seq(Handlers) /\ Len(waitq') = Len(waitq) - 1
        /\ \A i \in 1 .. Len(waitq') : waitq'[i] = waitq[IF i < k THEN i ELSE i + 1]
    <3>1. waitq \in Seq(Handlers)
      OBVIOUS
    <3> HIDE DEF TypeInv, TypeOK
    <3> QED
      BY <2>2, <3>1, RemoveAt
  <2>4. TypeOK' /\ Holding'
    BY <1>4, <2>1, <2>3 DEF WaitCanceled
  <2>5. Queued'
    <3>1. waitq \in Seq(Handlers) /\ pc' = [pc EXCEPT ![h] = "putreq"]
          /\ pc \in [Handlers -> Steps]
      BY <1>4 DEF WaitCanceled
    <3>2. \A i \in 1 .. Len(waitq') :
            /\ (IF i < k THEN i ELSE i + 1) \in 1 .. Len(waitq)
            /\ (IF i < k THEN i ELSE i + 1) # k
      BY <2>3, <3>1
    <3>3. \A i \in 1 .. Len(waitq') : pc'[waitq'[i]] = "blocked"
      BY <2>2, <2>3, <3>1, <3>2
    <3>4. \A i, j \in 1 .. Len(waitq') : waitq'[i] = waitq'[j] => i = j
      BY <2>2, <2>3, <3>1, <3>2
    <3>5. ASSUME NEW g \in Handlers, pc'[g] = "blocked"
          PROVE  \E i \in 1 .. Len(waitq') : waitq'[i] = g
      <4>1. g # h
        BY <3>1, <3>5
      <4>2. PICK j \in 1 .. Len(waitq) : waitq[j] = g
        BY <3>1, <3>5, <4>1
      <4>3. j # k
        BY <2>2, <4>1, <4>2
      <4>4. CASE j < k
        BY <2>2, <2>3, <3>1, <4>2, <4>4
      <4>5. CASE j > k
        <5>1. j - 1 \in 1 .. Len(waitq') /\ waitq'[j - 1] = waitq[j]
          BY <2>2, <2>3, <3>1, <4>5
        <5> QED
          BY <4>2, <5>1
      <4> QED
        BY <3>1, <4>3, <4>4, <4>5
    <3> QED
      BY <3>3, <3>4, <3>5
  <2> QED
    BY <2>4, <2>5
<1>5. CASE Score(h)
  <2>1. obj[reqOf[h]] \in ObjectType
    BY <1>5 DEF Score
  <2>2. Status("aborted") \in ResponseType /\ Status("aborted") # NoResponse
    BY StatusType DEF Codes
  <2>3. \E s \in ResponseType : s # NoResponse /\ resp' = [resp EXCEPT ![h] = s]
    BY <1>5, <2>1, <2>2, ScoredType DEF Score
  <2> QED
    BY <1>5, <2>3 DEF Score
<1>6. CASE Release(h)
  <2>1. CASE pc' = [pc EXCEPT ![h] = "putreq"] /\ tokens' \in Nat /\ waitq' = waitq
    BY <1>6, <2>1 DEF Release
  <2>2. CASE /\ Limit # 0 /\ waitq # << >> /\ waitq' = Tail(waitq)
             /\ pc' = [pc EXCEPT ![h] = "putreq", ![Head(waitq)] = "score"]
             /\ tokens' = tokens
    <3>1. /\ waitq[1] = Head(waitq) /\ Head(waitq) \in Handlers
          /\ waitq' \in Seq(Handlers) /\ Len(waitq') = Len(waitq) - 1
          /\ \A i \in 1 .. Len(waitq') : waitq'[i] = waitq[i + 1]
      <4>1. waitq \in Seq(Handlers)
        OBVIOUS
      <4> HIDE DEF TypeInv, TypeOK
      <4> QED
        BY <2>2, <4>1, TailIsShift
    <3>0. /\ Len(waitq) \in Nat /\ 1 \in 1 .. Len(waitq)
          /\ \A i \in 1 .. Len(waitq') : i + 1 \in 1 .. Len(waitq)
      BY <3>1, <2>2
    <3>2. pc[Head(waitq)] = "blocked" /\ Head(waitq) # h
      <4>1. pc[waitq[1]] = "blocked" /\ pc[h] = "release"
        BY <1>6, <3>0 DEF Release
      <4> QED
        BY <3>1, <4>1
    <3>3. Queued'
      <4>1. \A i \in 1 .. Len(waitq') : pc'[waitq'[i]] = "blocked"
        <5>1. \A i \in 1 .. Len(waitq') :
                 pc[waitq[i + 1]] = "blocked" /\ waitq[i + 1] \in Handlers
          BY <3>0
        <5>2. \A i \in 1 .. Len(waitq') : waitq[i + 1] # waitq[1]
          BY <3>0
        <5>3. pc[h] = "release" /\ pc \in [Handlers -> Steps]
          BY <1>6 DEF Release
        <5>4. \A g \in Handlers :
                 g # Head(waitq) /\ pc[g] = "blocked" => pc'[g] = "blocked"
          BY <2>2, <5>3
        <5> HIDE DEF TypeInv, TypeOK, Holding, Queued
        <5>5. ASSUME NEW i \in 1 .. Len(waitq')
              PROVE  pc'[waitq'[i]] = "blocked"
          <6>1. waitq'[i] = waitq[i + 1] /\ waitq[i + 1] # Head(waitq)
            BY <3>1, <5>2
          <6>2. pc[waitq[i + 1]] = "blocked" /\ waitq[i + 1] \in Handlers
            BY <5>1
          <6> QED
            BY <5>4, <6>1, <6>2
        <5> QED
          BY <5>5
      <4>2. \A i, j \in 1 .. Len(waitq') : waitq'[i] = waitq'[j] => i = j
        <5>1. \A i, j \in 1 .. Len(waitq) : waitq[i] = waitq[j] => i = j
          OBVIOUS
        <5> HIDE DEF TypeInv, TypeOK, Holding, Queued
        <5> QED
          BY <3>0, <3>1, <5>1
      <4>3. ASSUME NEW g \in Handlers, pc'[g] = "blocked"
            PROVE  \E i \in 1 .. Len(waitq') : waitq'[i] = g
        <5>1. pc[g] = "blocked" /\ g # Head(waitq)
          BY <2>2, <3>1, <4>3
        <5>2. PICK j \in 1 .. Len(waitq) : waitq[j] = g
          BY <5>1
        <5>3. j - 1 \in 1 .. Len(waitq') /\ waitq'[j - 1] = g
          BY <3>1, <5>1, <5>2
        <5> QED
          BY <5>3
      <4> QED
        BY <4>1, <4>2, <4>3
    <3>4. TypeOK' /\ Holding'
      <4>1. pc' \in [Handlers -> Steps]
        BY <2>2, <3>1
      <4>2. UNCHANGED <<payload, resp, canceled, buffers, requests>>
        BY <1>6 DEF Release
      <4>3. \A g \in Handlers :
              \/ pc'[g] = pc[g]
              \/ g = h /\ pc[g] = "release" /\ pc'[g] = "putreq"
              \/ pc[g] = "blocked" /\ pc'[g] = "score"
        BY <1>6, <2>2, <3>1, <3>2 DEF Release
      <4>4. TypeOK'
        BY <2>2, <3>1, <4>1, <4>2
      <4>5. Holding'
        BY <4>2, <4>3
      <4> QED
        BY <4>4, <4>5
    <3> QED
      BY <3>3, <3>4
  <2> QED
    <3>1. Limit = 0 \/ (Limit > 0 /\ tokens > 0 /\ waitq = << >>)
            \/ (Limit > 0 /\ tokens > 0 /\ waitq # << >>)
      BY <1>6 DEF Release
    <3>2. CASE Limit = 0
      BY <1>6, <2>1, <3>2 DEF Release
    <3>3. CASE Limit > 0 /\ tokens > 0 /\ waitq = << >>
      BY <1>6, <2>1, <3>3 DEF Release
    <3>4. CASE Limit > 0 /\ tokens > 0 /\ waitq # << >>
      BY <1>6, <2>2, <3>4 DEF Release
    <3> QED
      BY <3>1, <3>2, <3>3, <3>4
<1>7. CASE PutRequest(h)
  BY <1>7 DEF PutRequest
<1>8. CASE Return(h)
  BY <1>8 DEF Return
<1>9. CASE Cancel(h)
  BY <1>9 DEF Cancel
<1> HIDE DEF TypeInv
<1> QED
  BY <1>1, <1>2, <1>3, <1>4, <1>5, <1>6, <1>7, <1>8, <1>9

\* Every step keeps the type invariant.
LEMMA NextTypeInv == TypeInv /\ [Next]_vars => TypeInv'
<1> SUFFICES ASSUME TypeInv, [Next]_vars PROVE TypeInv'
  OBVIOUS
<1>1. ASSUME NEW h \in Handlers, NEW p \in Payloads, Arrive(h, p) PROVE TypeInv'
  BY <1>1, NoResponseType, StatusType, MarksApart
     DEF Arrive, TypeInv, TypeOK, Holding, Queued, WithBuffer, WithRequest,
         Unanswered, Steps, buffers, requests, limiter, Codes
<1>2. ASSUME NEW b \in Buffers, CollectBuffer(b) PROVE TypeInv'
  BY <1>2 DEF CollectBuffer, TypeInv, TypeOK, Holding, Queued, local, requests,
     limiter
<1>3. ASSUME NEW r \in Requests, CollectRequest(r) PROVE TypeInv'
  BY <1>3 DEF CollectRequest, TypeInv, TypeOK, Holding, Queued, local, buffers,
     limiter
<1>4. ASSUME UNCHANGED vars PROVE TypeInv'
  BY <1>4 DEF vars, TypeInv, TypeOK, Holding, Queued, local, buffers, requests,
     limiter
<1> QED
  BY <1>1, <1>2, <1>3, <1>4, DecodeTypeInv, LimiterTypeInv DEF Next, HandlerStep

\* Every variable keeps its type, whatever the handlers, their clients and the
\* collector do (the state of internal/api under FraudScore).
THEOREM TypeCorrect == Spec => []TypeOK
<1>1. TypeInv => TypeOK
  BY DEF TypeInv
<1> QED
  BY <1>1, InitTypeInv, NextTypeInv, PTL DEF Spec

-----------------------------------------------------------------------------
(***************************************************************************)
(* Exclusive use of pooled objects.                                        *)
(***************************************************************************)
THEOREM PoolsNeverShared == Spec => []PoolsExclusive
<1>1. Init => PoolsExclusive
  BY DEF Init, PoolsExclusive, Exclusive
<1>2. TypeInv /\ PoolsExclusive /\ [Next]_vars => PoolsExclusive'
  <2> SUFFICES ASSUME TypeInv, PoolsExclusive, [Next]_vars
               PROVE  PoolsExclusive'
    OBVIOUS
  <2> USE MarksApart DEF PoolsExclusive, Exclusive
  <2>0. /\ bufPool \in [Buffers -> Nat] /\ reqPool \in [Requests -> Nat]
        /\ bufOf \in [Handlers -> Buffers \cup {None}]
        /\ reqOf \in [Handlers -> Requests \cup {None}]
    BY DEF TypeInv, TypeOK
  <2>1. ASSUME NEW h \in Handlers, GetBuffer(h) PROVE PoolsExclusive'
    <3>1. PICK b \in Buffers :
            /\ bufOf' = [bufOf EXCEPT ![h] = b]
            /\ \/ bufPool[b] > 0 /\ bufPool' = [bufPool EXCEPT ![b] = @ - 1]
               \/ IsNew(b, bufPool, bufOf) /\ bufPool' = bufPool
      BY <2>1 DEF GetBuffer
    <3>2. bufPool'[b] = 0 /\ \A g \in Handlers : bufOf[g] # b
      BY <2>0, <3>1 DEF IsNew
    <3>3. UNCHANGED <<reqOf, reqPool>>
      BY <2>1 DEF GetBuffer, requests
    <3> QED
      BY <2>0, <3>1, <3>2, <3>3
  <2>2. ASSUME NEW h \in Handlers, GetRequest(h) PROVE PoolsExclusive'
    <3>1. PICK r \in Requests :
            /\ reqOf' = [reqOf EXCEPT ![h] = r]
            /\ \/ reqPool[r] > 0 /\ reqPool' = [reqPool EXCEPT ![r] = @ - 1]
               \/ IsNew(r, reqPool, reqOf) /\ reqPool' = reqPool
      BY <2>2 DEF GetRequest
    <3>2. reqPool'[r] = 0 /\ \A g \in Handlers : reqOf[g] # r
      BY <2>0, <3>1 DEF IsNew
    <3>3. UNCHANGED <<bufOf, bufPool>>
      BY <2>2 DEF GetRequest, buffers
    <3> QED
      BY <2>0, <3>1, <3>2, <3>3
  <2>3. ASSUME NEW h \in Handlers, PutBuffer(h) PROVE PoolsExclusive'
    <3>1. bufOf[h] \in Buffers
      BY <2>3 DEF PutBuffer, TypeInv, TypeOK, Holding, WithBuffer
    <3>2. /\ bufPool' = [bufPool EXCEPT ![bufOf[h]] = @ + 1]
          /\ bufOf' = [bufOf EXCEPT ![h] = None]
          /\ UNCHANGED <<reqOf, reqPool>>
      BY <2>3 DEF PutBuffer, requests
    <3> QED
      BY <2>0, <3>1, <3>2
  <2>4. ASSUME NEW h \in Handlers, PutRequest(h) PROVE PoolsExclusive'
    <3>1. reqOf[h] \in Requests
      BY <2>4 DEF PutRequest, TypeInv, TypeOK, Holding, WithRequest
    <3>2. /\ reqPool' = [reqPool EXCEPT ![reqOf[h]] = @ + 1]
          /\ reqOf' = [reqOf EXCEPT ![h] = None]
          /\ UNCHANGED <<bufOf, bufPool>>
      BY <2>4 DEF PutRequest, buffers
    <3> QED
      BY <2>0, <3>1, <3>2
  <2>5. ASSUME NEW h \in Handlers, ParseRequest(h) PROVE PoolsExclusive'
    <3>1. reqOf[h] \in Requests
      BY <2>5 DEF ParseRequest, TypeInv, TypeOK, Holding, WithRequest
    <3>2. CASE UNCHANGED <<reqOf, reqPool>>
      BY <2>5, <3>2 DEF ParseRequest, buffers
    <3>3. CASE /\ reqPool' = [reqPool EXCEPT ![reqOf[h]] = @ + 1]
               /\ reqOf' = [reqOf EXCEPT ![h] = None]
      <4>1. UNCHANGED <<bufOf, bufPool>>
        BY <2>5 DEF ParseRequest, buffers
      <4> QED
        BY <2>0, <3>1, <3>3, <4>1
    <3> QED
      BY <2>5, <3>2, <3>3 DEF ParseRequest
  <2>6. ASSUME NEW b \in Buffers, CollectBuffer(b) PROVE PoolsExclusive'
    BY <2>0, <2>6 DEF CollectBuffer, requests
  <2>7. ASSUME NEW r \in Requests, CollectRequest(r) PROVE PoolsExclusive'
    BY <2>0, <2>7 DEF CollectRequest, buffers
  <2>8. ASSUME UNCHANGED <<bufOf, bufPool, reqOf, reqPool>> PROVE PoolsExclusive'
    BY <2>8
  <2> HIDE DEF PoolsExclusive
  <2> QED
    BY <2>1, <2>2, <2>3, <2>4, <2>5, <2>6, <2>7, <2>8
       DEF Next, HandlerStep, Arrive, ReadBody, ProbeBody, ResetRequest,
           AcquireFree, AcquireBlocks, AcquireCanceled, WaitCanceled, Score,
           Release, Return, Cancel, vars, buffers, requests
<1> QED
  BY <1>1, <1>2, InitTypeInv, NextTypeInv, PTL DEF Spec

-----------------------------------------------------------------------------
(***************************************************************************)
(* The limiter.                                                            *)
(***************************************************************************)
Counted == Limit > 0 => tokens = Cardinality(Scoring)
Bounded == tokens <= Limit /\ (waitq # << >> => tokens = Limit)

LimiterInv == Counted /\ Bounded

\* A set of handlers is finite, so the ones that score can be counted.
LEMMA ScoringFinite ==
    ASSUME NEW S \in SUBSET Handlers
    PROVE  IsFiniteSet(S) /\ Cardinality(S) \in Nat
  BY HandlersAssumption, FS_Subset, FS_CardinalityType

\* A handler that enters the scored section adds one to the count.
LEMMA EnterScoring ==
    ASSUME NEW S \in SUBSET Handlers, NEW h \in Handlers, h \notin S
    PROVE  Cardinality(S \cup {h}) = Cardinality(S) + 1
  BY ScoringFinite, FS_AddElement

\* A handler that leaves the scored section takes one from the count.
LEMMA LeaveScoring ==
    ASSUME NEW S \in SUBSET Handlers, NEW h \in S
    PROVE  Cardinality(S \ {h}) = Cardinality(S) - 1
  BY ScoringFinite, FS_RemoveElement

\* Every step keeps the account of the channel: a token for each handler
\* that scores, and a queue only when the channel is full.
LEMMA NextLimiterInv == TypeInv /\ LimiterInv /\ [Next]_vars => LimiterInv'
<1> SUFFICES ASSUME TypeInv, LimiterInv, [Next]_vars PROVE LimiterInv'
  OBVIOUS
<1>0. /\ pc \in [Handlers -> Steps] /\ tokens \in Nat /\ Limit \in Nat
      /\ waitq \in Seq(Handlers) /\ Scoring \in SUBSET Handlers
  BY BoundsAssumption DEF TypeInv, TypeOK, Scoring
<1>1. ASSUME NEW h \in Handlers, AcquireFree(h) PROVE LimiterInv'
  <2>1. pc[h] = "acquire" /\ pc' = [pc EXCEPT ![h] = "score"] /\ waitq' = waitq
    BY <1>1 DEF AcquireFree
  <2>2. Scoring' = Scoring \cup {h} /\ h \notin Scoring
    BY <1>0, <2>1 DEF Scoring
  <2>3. CASE Limit = 0
    BY <1>0, <1>1, <2>1, <2>3 DEF AcquireFree, LimiterInv, Counted, Bounded
  <2>4. CASE Limit # 0
    <3>1. tokens < Limit /\ tokens' = tokens + 1
      BY <1>1, <2>4 DEF AcquireFree
    <3> QED
      BY <1>0, <2>1, <2>2, <2>4, <3>1, EnterScoring
         DEF LimiterInv, Counted, Bounded
  <2> QED
    BY <2>3, <2>4
<1>2. ASSUME NEW h \in Handlers, Release(h) PROVE LimiterInv'
  <2>1. pc[h] = "release" /\ h \in Scoring
    BY <1>2 DEF Release, Scoring
  <2>2. CASE Limit = 0 /\ UNCHANGED <<tokens, waitq>>
    BY <1>0, <2>2 DEF LimiterInv, Counted, Bounded
  <2>3. CASE /\ waitq = << >> /\ waitq' = waitq /\ tokens > 0
             /\ tokens' = tokens - 1 /\ pc' = [pc EXCEPT ![h] = "putreq"]
    <3>1. Scoring' = Scoring \ {h}
      BY <1>0, <2>3 DEF Scoring
    <3> QED
      BY <1>0, <2>1, <2>3, <3>1, LeaveScoring DEF LimiterInv, Counted, Bounded
  <2>4. CASE /\ waitq # << >> /\ waitq' = Tail(waitq) /\ tokens' = tokens
             /\ pc' = [pc EXCEPT ![h] = "putreq", ![Head(waitq)] = "score"]
    <3>1. Head(waitq) \in Handlers /\ pc[Head(waitq)] = "blocked"
      <4>1. Head(waitq) = waitq[1] /\ Head(waitq) \in Handlers /\ 1 \in 1 .. Len(waitq)
        BY <1>0, <2>4, TailIsShift
      <4> QED
        BY <4>1 DEF TypeInv, Queued
    <3>2. /\ Head(waitq) # h /\ Head(waitq) \notin Scoring
          /\ Scoring' = (Scoring \ {h}) \cup {Head(waitq)}
      BY <1>0, <2>1, <2>4, <3>1 DEF Scoring
    <3>3. Cardinality(Scoring') = Cardinality(Scoring)
      <4>1. Cardinality(Scoring \ {h}) = Cardinality(Scoring) - 1
        BY <1>0, <2>1, LeaveScoring
      <4>2. Cardinality(Scoring') = Cardinality(Scoring \ {h}) + 1
        BY <1>0, <3>1, <3>2, EnterScoring
      <4> QED
        BY <1>0, <4>1, <4>2, ScoringFinite
    <3> QED
      BY <1>0, <2>4, <3>3 DEF LimiterInv, Counted, Bounded
  <2> QED
    BY <1>2, <2>2, <2>3, <2>4 DEF Release, limiter
<1>3. ASSUME NEW h \in Handlers, WaitCanceled(h) PROVE LimiterInv'
  <2>1. Scoring' = Scoring /\ tokens' = tokens /\ waitq # << >>
    BY <1>0, <1>3 DEF WaitCanceled, Scoring
  <2> QED
    BY <1>0, <2>1 DEF LimiterInv, Counted, Bounded
<1>4. ASSUME NEW h \in Handlers, AcquireBlocks(h) PROVE LimiterInv'
  <2>1. Scoring' = Scoring /\ tokens' = tokens /\ tokens = Limit
    BY <1>0, <1>4 DEF AcquireBlocks, Scoring
  <2> QED
    BY <1>0, <2>1 DEF LimiterInv, Counted, Bounded
<1>5. ASSUME Scoring' = Scoring, UNCHANGED limiter PROVE LimiterInv'
  BY <1>5 DEF LimiterInv, Counted, Bounded, limiter
<1>6. ASSUME NEW h \in Handlers,
             \/ GetBuffer(h) \/ ReadBody(h) \/ ProbeBody(h) \/ GetRequest(h)
             \/ ResetRequest(h) \/ ParseRequest(h) \/ PutBuffer(h)
             \/ AcquireCanceled(h) \/ Score(h) \/ PutRequest(h) \/ Return(h)
             \/ Cancel(h) \/ \E p \in Payloads : Arrive(h, p)
      PROVE  Scoring' = Scoring /\ UNCHANGED limiter
  BY <1>0, <1>6 DEF Scoring, GetBuffer, ReadBody, ProbeBody, GetRequest,
     ResetRequest, ParseRequest, PutBuffer, AcquireCanceled, Score, PutRequest,
     Return, Cancel, Arrive
<1>7. ASSUME \/ \E b \in Buffers : CollectBuffer(b)
             \/ \E r \in Requests : CollectRequest(r)
             \/ UNCHANGED vars
      PROVE  Scoring' = Scoring /\ UNCHANGED limiter
  BY <1>7 DEF Scoring, CollectBuffer, CollectRequest, vars, local
<1> QED
  BY <1>1, <1>2, <1>3, <1>4, <1>5, <1>6, <1>7 DEF Next, HandlerStep

\* The account of the channel holds at every moment.
LEMMA LimiterInvHolds == Spec => [](TypeInv /\ LimiterInv)
<1>1. Init => LimiterInv
  <2>1. ASSUME Init PROVE Scoring = {} /\ tokens = 0 /\ waitq = << >>
    BY <2>1 DEF Init, Scoring
  <2> QED
    <3>1. Cardinality({}) = 0
      BY FS_EmptySet
    <3> QED
      BY <2>1, <3>1, BoundsAssumption DEF LimiterInv, Counted, Bounded
<1> QED
  BY <1>1, InitTypeInv, NextTypeInv, NextLimiterInv, PTL DEF Spec

\* The channel counts the handlers that are scoring, and they are never more
\* than the configured limit (limiter.go).
THEOREM LimiterIsSound == Spec => []LimiterSound
<1>1. LimiterInv => LimiterSound
  BY DEF LimiterInv, Counted, Bounded, LimiterSound
<1> QED
  BY <1>1, LimiterInvHolds, PTL

\* Nobody waits while a slot is free, nobody waits outside the queue.
THEOREM SlotsAreUsed == Spec => []NoIdleSlot
<1>1. TypeInv /\ LimiterInv => NoIdleSlot
  <2> SUFFICES ASSUME TypeInv, LimiterInv PROVE NoIdleSlot
    OBVIOUS
  <2>1. waitq # << >> => tokens = Limit
    BY DEF LimiterInv, Bounded
  <2>2. ASSUME NEW h \in Handlers
        PROVE  pc[h] = "blocked" <=> \E i \in 1 .. Len(waitq) : waitq[i] = h
    BY DEF TypeInv, Queued
  <2> QED
    BY <2>1, <2>2 DEF NoIdleSlot
<1> QED
  BY <1>1, LimiterInvHolds, PTL

\* A step that lets a handler score takes nobody's turn (limiter.go:24-29).
THEOREM FirstComeFirstServed == Spec => NoBarging
<1>1. ASSUME TypeInv, LimiterInv, [Next]_vars,
             NEW h \in Handlers, Limit > 0, h \in Scoring' \ Scoring
      PROVE  waitq = << >> \/ h = Head(waitq)
  <2>0. pc \in [Handlers -> Steps] /\ tokens \in Nat /\ Limit \in Nat
    BY <1>1, BoundsAssumption DEF TypeInv, TypeOK
  <2>1. pc[h] \notin {"score", "release"} /\ pc'[h] \in {"score", "release"}
    BY <1>1 DEF Scoring
  <2>2. ASSUME NEW g \in Handlers, AcquireFree(g) PROVE waitq = << >>
    BY <1>1, <2>0, <2>2 DEF AcquireFree, LimiterInv, Bounded
  <2>3. ASSUME NEW g \in Handlers, Release(g) PROVE waitq = << >> \/ h = Head(waitq)
    BY <2>0, <2>1, <2>3 DEF Release
  <2>4. ASSUME NEW g \in Handlers,
               \/ GetBuffer(g) \/ ReadBody(g) \/ ProbeBody(g) \/ GetRequest(g)
               \/ ResetRequest(g) \/ ParseRequest(g) \/ PutBuffer(g)
               \/ AcquireBlocks(g) \/ AcquireCanceled(g) \/ WaitCanceled(g)
               \/ PutRequest(g) \/ Return(g) \/ Cancel(g)
               \/ \E p \in Payloads : Arrive(g, p)
        PROVE  FALSE
    BY <2>0, <2>1, <2>4 DEF GetBuffer, ReadBody, ProbeBody, GetRequest,
       ResetRequest, ParseRequest, PutBuffer, AcquireBlocks, AcquireCanceled,
       WaitCanceled, PutRequest, Return, Cancel, Arrive
  <2>5. ASSUME NEW g \in Handlers, Score(g) PROVE FALSE
    BY <2>0, <2>1, <2>5 DEF Score
  <2>6. ASSUME \/ \E b \in Buffers : CollectBuffer(b)
               \/ \E r \in Requests : CollectRequest(r)
               \/ UNCHANGED vars
        PROVE  FALSE
    BY <2>1, <2>6 DEF CollectBuffer, CollectRequest, vars, local
  <2> QED
    BY <1>1, <2>2, <2>3, <2>4, <2>5, <2>6 DEF Next, HandlerStep
<1>2. TypeInv /\ LimiterInv /\ [Next]_vars =>
        [\A h \in Handlers : Limit > 0 /\ h \in Scoring' \ Scoring =>
            waitq = << >> \/ h = Head(waitq)]_vars
  BY <1>1
<1> QED
  BY <1>2, LimiterInvHolds, PTL DEF NoBarging, Spec

-----------------------------------------------------------------------------
(***************************************************************************)
(* What is scored.                                                         *)
(***************************************************************************)
\* The values LastTransaction may have after parsing payload p.
Allowed(p) ==
    CASE p.last = "null"    -> {NilLast}
      [] p.last = "present" -> {p}
      [] p.last = "absent"  -> {NilLast, ZeroLast}

Faithful(h, data, last) == data = payload[h] /\ last \in Allowed(payload[h])

BodyInv(h) ==
    pc[h] \in {"probe", "getreq", "reset", "parse"} =>
        buf[bufOf[h]] \in {payload[h], Partial}

ObjectInv(h) ==
    /\ pc[h] = "parse" => obj[reqOf[h]].last \in {NilLast, ZeroLast}
    /\ pc[h] \in {"putbuf", "acquire", "blocked", "score"} /\ reqOf[h] # None =>
        Faithful(h, obj[reqOf[h]].data, obj[reqOf[h]].last)

ResponseInv(h) == resp[h].code = "200" => Faithful(h, resp[h].data, resp[h].last)

DataInv == \A h \in Handlers : BodyInv(h) /\ ObjectInv(h) /\ ResponseInv(h)

\* A handler that does not move, and whose buffer and object nobody else holds,
\* keeps what it knows of them.
LEMMA Frame ==
    ASSUME DataInv, NEW h \in Handlers,
           pc'[h] = pc[h], payload'[h] = payload[h], resp'[h] = resp[h],
           bufOf'[h] = bufOf[h], reqOf'[h] = reqOf[h],
           pc[h] \in WithBuffer => buf'[bufOf[h]] = buf[bufOf[h]],
           reqOf[h] # None => obj'[reqOf[h]] = obj[reqOf[h]],
           pc[h] = "parse" => reqOf[h] # None
    PROVE  (BodyInv(h) /\ ObjectInv(h) /\ ResponseInv(h))'
<1>1. BodyInv(h)'
  BY DEF DataInv, BodyInv, WithBuffer
<1>2. ObjectInv(h)'
  BY DEF DataInv, ObjectInv, Faithful
<1>3. ResponseInv(h)'
  BY DEF DataInv, ResponseInv, Faithful
<1> QED
  BY <1>1, <1>2, <1>3

\* A parse into a reset object gives the body's own last transaction.
LEMMA ParsedFaithful ==
    ASSUME NEW o \in ObjectType, NEW b \in Buffers, buf \in [Buffers -> Contents],
           Parses(buf[b]), o.last \in {NilLast, ZeroLast}
    PROVE  Parsed(o, b).last \in Allowed(buf[b])
<1>1. buf[b] \in Payloads /\ buf[b] \notin Buffers
  BY ParsedType, MarksAssumption
<1>2. buf[b].last \in {"absent", "null", "present"}
  BY <1>1, PayloadsAssumption DEF PayloadType
<1> QED
  BY <1>1, <1>2 DEF Parsed, ParsedLast, CopyOut, Bytes, Allowed

\* A step of one handler touches nothing of another one, the slot it may hand
\* over apart.
LEMMA OthersUntouched ==
    ASSUME TypeInv, PoolsExclusive, NEW h \in Handlers, NEW g \in Handlers, g # h,
           HandlerStep(h) \/ Cancel(h) \/ \E p \in Payloads : Arrive(h, p),
           ~ (Release(h) /\ pc'[g] # pc[g])
    PROVE  /\ bufOf[g] # None => buf'[bufOf[g]] = buf[bufOf[g]]
           /\ reqOf[g] # None => obj'[reqOf[g]] = obj[reqOf[g]]
           /\ payload'[g] = payload[g] /\ resp'[g] = resp[g]
           /\ bufOf'[g] = bufOf[g] /\ reqOf'[g] = reqOf[g] /\ pc'[g] = pc[g]
<1>0. /\ pc \in [Handlers -> Steps] /\ payload \in [Handlers -> Payloads \cup {None}]
      /\ resp \in [Handlers -> ResponseType]
      /\ bufOf \in [Handlers -> Buffers \cup {None}]
      /\ reqOf \in [Handlers -> Requests \cup {None}]
      /\ buf \in [Buffers -> Contents] /\ obj \in [Requests -> ObjectType]
  BY DEF TypeInv, TypeOK
<1>1. /\ bufOf[g] # None => bufOf[g] # bufOf[h]
      /\ reqOf[g] # None => reqOf[g] # reqOf[h]
  BY DEF PoolsExclusive, Exclusive
<1>2. bufOf[g] # None => buf'[bufOf[g]] = buf[bufOf[g]]
  <2>1. CASE GetBuffer(h)
    <3>1. PICK b \in Buffers :
            \/ buf' = buf
            \/ IsNew(b, bufPool, bufOf) /\ buf' = [buf EXCEPT ![b] = Blank]
      BY <2>1 DEF GetBuffer
    <3> QED
      BY <1>0, <3>1 DEF IsNew
  <2>2. CASE ReadBody(h)
    <3>1. PICK c \in {payload[h], Partial} : buf' = [buf EXCEPT ![bufOf[h]] = c]
      BY <2>2 DEF ReadBody
    <3> QED
      BY <1>0, <1>1, <3>1
  <2>3. CASE buf' = buf
    BY <2>3
  <2> QED
    BY <2>1, <2>2, <2>3 DEF HandlerStep, ProbeBody, GetRequest,
       ResetRequest, ParseRequest, PutBuffer, AcquireFree, AcquireBlocks,
       AcquireCanceled, WaitCanceled, Score, Release, PutRequest, Return,
       Cancel, Arrive, buffers
<1>3. reqOf[g] # None => obj'[reqOf[g]] = obj[reqOf[g]]
  <2>1. CASE GetRequest(h)
    <3>1. PICK r \in Requests :
            \/ obj' = obj
            \/ IsNew(r, reqPool, reqOf) /\ obj' = [obj EXCEPT ![r] = FreshObject]
      BY <2>1 DEF GetRequest
    <3> QED
      BY <1>0, <3>1 DEF IsNew
  <2>2. CASE ResetRequest(h)
    <3>1. obj' = [obj EXCEPT ![reqOf[h]] = Reset(@)]
      BY <2>2 DEF ResetRequest
    <3> QED
      BY <1>0, <1>1, <3>1
  <2>3. CASE ParseRequest(h)
    <3>1. \E o : obj' = [obj EXCEPT ![reqOf[h]] = o]
      BY <2>3 DEF ParseRequest
    <3> QED
      BY <1>0, <1>1, <3>1
  <2>4. CASE obj' = obj
    BY <2>4
  <2> QED
    BY <2>1, <2>2, <2>3, <2>4 DEF HandlerStep, GetBuffer, ReadBody,
       ProbeBody, PutBuffer, AcquireFree, AcquireBlocks, AcquireCanceled,
       WaitCanceled, Score, Release, PutRequest, Return, Cancel, Arrive,
       requests
<1>4. /\ payload'[g] = payload[g] /\ resp'[g] = resp[g]
      /\ bufOf'[g] = bufOf[g] /\ reqOf'[g] = reqOf[g]
  BY <1>0 DEF HandlerStep, GetBuffer, ReadBody, ProbeBody, GetRequest,
     ResetRequest, ParseRequest, PutBuffer, AcquireFree, AcquireBlocks,
     AcquireCanceled, WaitCanceled, Score, Release, PutRequest, Return, Cancel,
     Arrive, buffers, requests
<1>5. pc'[g] = pc[g]
  <2>1. CASE Release(h)
    BY <2>1
  <2>2. CASE ~ Release(h)
    BY <1>0, <2>2 DEF HandlerStep, GetBuffer, ReadBody, ProbeBody,
       GetRequest, ResetRequest, ParseRequest, PutBuffer, AcquireFree,
       AcquireBlocks, AcquireCanceled, WaitCanceled, Score, PutRequest, Return,
       Cancel, Arrive
  <2> QED
    BY <2>1, <2>2
<1> QED
  BY <1>2, <1>3, <1>4, <1>5

\* A slot is handed over to a handler that waits for it.
LEMMA HandedOver ==
    ASSUME TypeInv, NEW h \in Handlers, NEW g \in Handlers, g # h,
           Release(h), pc'[g] # pc[g]
    PROVE  /\ pc[g] = "blocked" /\ pc'[g] = "score"
           /\ UNCHANGED <<payload, resp, reqOf, obj>>
<1>0. pc \in [Handlers -> Steps]
  BY DEF TypeInv, TypeOK
<1>1. /\ pc'[g] = "score" /\ g = Head(waitq) /\ waitq # << >>
      /\ UNCHANGED <<payload, resp, reqOf, obj>>
  BY <1>0 DEF Release, requests
<1>2. Head(waitq) = waitq[1] /\ 1 \in 1 .. Len(waitq)
  BY <1>1, TailIsShift DEF TypeInv, TypeOK
<1> QED
  BY <1>1, <1>2 DEF TypeInv, Queued

\* Every step keeps what each handler knows of its buffer, its object and
\* its response.
LEMMA NextDataInv == TypeInv /\ PoolsExclusive /\ DataInv /\ [Next]_vars => DataInv'
<1> SUFFICES ASSUME TypeInv, PoolsExclusive, DataInv, [Next]_vars PROVE DataInv'
  OBVIOUS
<1> DEFINE Known(h) == BodyInv(h) /\ ObjectInv(h) /\ ResponseInv(h)
<1>0. /\ pc \in [Handlers -> Steps] /\ payload \in [Handlers -> Payloads \cup {None}]
      /\ resp \in [Handlers -> ResponseType]
      /\ bufOf \in [Handlers -> Buffers \cup {None}]
      /\ reqOf \in [Handlers -> Requests \cup {None}]
      /\ buf \in [Buffers -> Contents] /\ obj \in [Requests -> ObjectType]
  BY DEF TypeInv, TypeOK
<1>1. \A h \in Handlers :
        /\ pc[h] \in WithBuffer <=> bufOf[h] # None
        /\ pc[h] \in WithRequest => reqOf[h] # None
        /\ pc[h] \in Unanswered => resp[h] = NoResponse
        /\ pc[h] # "idle" => payload[h] \in Payloads
  BY <1>0 DEF TypeInv, Holding
<1>2. NoResponse.code # "200" /\ \A c \in Codes \ {"200"} : Status(c).code # "200"
  BY DEF NoResponse, Status, Codes
\* Handlers other than the one that moves.
<1>3. ASSUME NEW h \in Handlers, NEW g \in Handlers, g # h,
             HandlerStep(h) \/ Cancel(h) \/ \E p \in Payloads : Arrive(h, p),
             ~ (Release(h) /\ pc'[g] # pc[g])
      PROVE  Known(g)'
  <2>1. /\ bufOf[g] # None => buf'[bufOf[g]] = buf[bufOf[g]]
        /\ reqOf[g] # None => obj'[reqOf[g]] = obj[reqOf[g]]
        /\ payload'[g] = payload[g] /\ resp'[g] = resp[g]
        /\ bufOf'[g] = bufOf[g] /\ reqOf'[g] = reqOf[g] /\ pc'[g] = pc[g]
    BY <1>3, OthersUntouched
  <2>2. (pc[g] \in WithBuffer => bufOf[g] # None) /\ (pc[g] = "parse" => reqOf[g] # None)
    BY <1>1 DEF WithRequest
  <2> QED
    BY <2>1, <2>2, Frame
\* The handler that moves.
<1>4. ASSUME NEW h \in Handlers,
             HandlerStep(h) \/ Cancel(h) \/ \E p \in Payloads : Arrive(h, p)
      PROVE  Known(h)'
  <2> USE <1>0, <1>2 DEF BodyInv, ObjectInv, ResponseInv
  <2>1. CASE GetBuffer(h) \/ \E p \in Payloads : Arrive(h, p)
    BY <1>1, <2>1 DEF GetBuffer, Arrive, Unanswered, Codes
  <2>2. CASE ReadBody(h)
    <3>1. bufOf[h] \in Buffers /\ resp[h] = NoResponse
      BY <1>1, <2>2 DEF ReadBody, WithBuffer, Unanswered
    <3>2. reqOf[h] = None
      BY <2>2 DEF ReadBody, TypeInv, Holding, WithRequest
    <3> QED
      BY <2>2, <3>1, <3>2 DEF ReadBody, Codes, requests
  <2>3. CASE ProbeBody(h)
    <3>1. reqOf[h] = None /\ resp[h] = NoResponse
      BY <1>1, <2>3 DEF ProbeBody, TypeInv, Holding, WithRequest, Unanswered
    <3> QED
      BY <2>3, <3>1 DEF DataInv, ProbeBody, Codes, requests, buffers
  <2>4. CASE GetRequest(h)
    BY <1>1, <2>4 DEF DataInv, GetRequest, buffers, Unanswered
  <2>5. CASE ResetRequest(h)
    <3>1. reqOf[h] \in Requests /\ resp[h] = NoResponse
      BY <1>1, <2>5 DEF ResetRequest, WithRequest, Unanswered
    <3>2. Reset(obj[reqOf[h]]).last \in {NilLast, ZeroLast}
      BY DEF Reset
    <3> QED
      BY <2>5, <3>1, <3>2 DEF DataInv, ResetRequest, buffers
  <2>6. CASE ParseRequest(h)
    <3>1. /\ reqOf[h] \in Requests /\ bufOf[h] \in Buffers
          /\ resp[h] = NoResponse /\ pc[h] = "parse"
      BY <1>1, <2>6 DEF ParseRequest, WithRequest, WithBuffer, Unanswered
    <3>2. CASE Parses(buf[bufOf[h]])
      <4>1. buf[bufOf[h]] = payload[h]
        BY <3>1, <3>2 DEF DataInv, Parses, Marks
      <4>2. LET o == Parsed(obj[reqOf[h]], bufOf[h]) IN Faithful(h, o.data, o.last)
        BY <3>1, <3>2, <4>1, ParsedType, ParsedFaithful DEF DataInv, Faithful
      <4>3. /\ obj' = [obj EXCEPT ![reqOf[h]] = Parsed(@, bufOf[h])]
            /\ pc' = [pc EXCEPT ![h] = "putbuf"]
            /\ UNCHANGED <<resp, reqOf, payload>>
        BY <2>6, <3>2 DEF ParseRequest
      <4> QED
        BY <3>1, <4>2, <4>3 DEF Faithful
    <3>3. CASE ~ Parses(buf[bufOf[h]])
      <4>1. reqOf'[h] = None /\ resp'[h] = Status("400") /\ pc'[h] = "putbuf"
        BY <2>6, <3>3 DEF ParseRequest
      <4> QED
        BY <4>1 DEF Codes
    <3> QED
      BY <3>2, <3>3
  <2>7. CASE PutBuffer(h)
    BY <2>7 DEF DataInv, PutBuffer, requests, Faithful
  <2>8. CASE AcquireFree(h) \/ AcquireBlocks(h) \/ Cancel(h)
    BY <2>8 DEF DataInv, AcquireFree, AcquireBlocks, Cancel, requests, buffers,
       Faithful
  <2>9. CASE AcquireCanceled(h) \/ WaitCanceled(h)
    BY <2>9 DEF AcquireCanceled, WaitCanceled, Codes
  <2>10. CASE Score(h)
    <3>1. reqOf[h] \in Requests /\ reqOf[h] # None /\ pc[h] = "score"
      BY <1>1, <2>10 DEF Score, WithRequest
    <3>2. Faithful(h, obj[reqOf[h]].data, obj[reqOf[h]].last)
      BY <3>1 DEF DataInv
    <3>3. \/ resp'[h] = [code |-> "200", data |-> obj[reqOf[h]].data,
                          last |-> obj[reqOf[h]].last]
          \/ resp'[h] = Status("aborted")
      BY <2>10, <3>1, ScoredType DEF Score
    <3>4. pc'[h] = "release" /\ payload' = payload
      BY <2>10 DEF Score
    <3> QED
      BY <3>2, <3>3, <3>4 DEF Faithful, Codes
  <2>11. CASE Release(h)
    <3>1. pc'[h] \in {"putreq", "score"} /\ UNCHANGED <<resp, payload, reqOf, obj>>
      BY <2>11 DEF Release, requests
    <3>2. pc'[h] = "putreq"
      <4>1. Head(waitq) # h \/ waitq = << >>
        <5>1. CASE waitq # << >>
          <6>1. Head(waitq) = waitq[1] /\ 1 \in 1 .. Len(waitq)
            BY <5>1, TailIsShift DEF TypeInv, TypeOK
          <6> QED
            BY <2>11, <6>1 DEF Release, TypeInv, Queued
        <5> QED
          BY <5>1
      <4> QED
        BY <2>11, <4>1 DEF Release
    <3> QED
      BY <3>1, <3>2 DEF DataInv, Faithful
  <2>12. CASE PutRequest(h) \/ Return(h)
    BY <2>12 DEF DataInv, PutRequest, Return, Faithful
  <2> QED
    BY <1>4, <2>1, <2>2, <2>3, <2>4, <2>5, <2>6, <2>7, <2>8, <2>9, <2>10, <2>11,
       <2>12 DEF HandlerStep
\* The handler that is handed a slot.
<1>5. ASSUME NEW h \in Handlers, NEW g \in Handlers, Release(h), pc'[g] # pc[g],
             g # h
      PROVE  Known(g)'
  BY <1>5, HandedOver DEF DataInv, BodyInv, ObjectInv, ResponseInv, Faithful
<1>6. ASSUME \/ \E b \in Buffers : CollectBuffer(b)
             \/ \E r \in Requests : CollectRequest(r)
             \/ UNCHANGED vars
      PROVE  DataInv'
  BY <1>6 DEF DataInv, BodyInv, ObjectInv, ResponseInv, Faithful, CollectBuffer,
     CollectRequest, vars, local, buffers, requests
<1> QED
  BY <1>3, <1>4, <1>5, <1>6 DEF Next, DataInv

\* At the start no handler has a buffer, an object or a response.
LEMMA InitDataInv == Init => DataInv
  BY MarksAssumption, NoResponseType DEF Init, DataInv, BodyInv, ObjectInv,
     ResponseInv, NoResponse, Status

\* A score is computed from the payload of the request it answers: nothing of
\* another request shows through a pooled object or buffer, for any number of
\* handlers, objects and payloads (request_decoder.go, types.go:22-53).
THEOREM ScoresAreOwn == Spec => []OwnPayloadScored
<1>1. DataInv => OwnPayloadScored
  BY DEF DataInv, ResponseInv, Faithful, Allowed, OwnPayloadScored
<1> QED
  BY <1>1, InitTypeInv, InitDataInv, NextTypeInv, NextDataInv, PoolsNeverShared,
     PTL DEF Spec
=============================================================================
