------------------------- MODULE FraudServiceProofs -------------------------
(***************************************************************************)
(* Proof that FraudScoreHandler implements FraudService: every step of a   *)
(* handler is a step of the service it is to its clients, or none.         *)
(***************************************************************************)
EXTENDS FraudScoreHandlerProofs

Fits(p) == p.len <= MaxBody + 1
Scorable(p) == p.ok /\ Fits(p)

\* Handlers whose request has been decoded.
Decoded(h) ==
    \/ pc[h] \in {"acquire", "blocked", "score"}
    \/ pc[h] = "putbuf" /\ resp[h] = NoResponse

\* What a handler knows of its payload at each step, and that it has an
\* answer when it returns.
Sound(h) ==
    /\ pc[h] \in {"getreq", "reset", "parse"} =>
        Fits(payload[h]) \/ buf[bufOf[h]] = Partial
    /\ Decoded(h) => Scorable(payload[h])
    /\ resp[h].code = "200" => Scorable(payload[h])
    /\ pc[h] = "probe" => payload[h].len >= MaxBody
    /\ pc[h] = "idle" => resp[h] = NoResponse
    /\ pc[h] = "blocked" => Limit > 0
    /\ pc[h] \in {"putreq", "return"} => resp[h] # NoResponse

SoundInv == \A h \in Handlers : Sound(h)

USE DEF Goto, Respond, Put, Take

\* The steps of the handler itself keep it.
LEMMA OwnSound ==
    ASSUME TypeInv, DataInv, SoundInv, NEW h \in Handlers,
           HandlerStep(h) \/ Cancel(h) \/ \E p \in Payloads : Arrive(h, p)
    PROVE  Sound(h)'
<1>0. /\ pc \in [Handlers -> Steps] /\ payload \in [Handlers -> Payloads \cup {None}]
      /\ resp \in [Handlers -> ResponseType]
      /\ bufOf \in [Handlers -> Buffers \cup {None}]
      /\ buf \in [Buffers -> Contents] /\ MaxBody \in Nat
  BY BoundsAssumption DEF TypeInv, TypeOK
<1>1. /\ pc[h] \in WithBuffer <=> bufOf[h] # None
      /\ pc[h] \in Unanswered => resp[h] = NoResponse
      /\ pc[h] # "idle" => payload[h] \in Payloads
      /\ pc[h] = "release" => resp[h] # NoResponse
  BY <1>0 DEF TypeInv, Holding
<1>2. /\ NoResponse.code # "200"
      /\ \A c \in Codes \ {"200"} : Status(c).code # "200"
      /\ \A c \in Codes \ {"none"} : Status(c) # NoResponse
  BY DEF NoResponse, Status, Codes
<1>3. \A p \in Payloads : p.len \in Nat
  BY PayloadsAssumption DEF PayloadType
<1> USE <1>0, <1>2 DEF Sound, Decoded, Scorable, Fits
<1>4. CASE \E p \in Payloads : Arrive(h, p)
  BY <1>4 DEF Arrive, Codes
<1>5. CASE GetBuffer(h)
  BY <1>1, <1>5 DEF GetBuffer, Unanswered
<1>6. CASE ReadBody(h)
  BY <1>1, <1>3, <1>6 DEF ReadBody, WithBuffer, Unanswered, Codes
<1>7. CASE ProbeBody(h)
  <2>1. /\ resp[h] = NoResponse /\ payload[h].len \in Nat
        /\ payload[h].len >= MaxBody
    BY <1>1, <1>3, <1>7 DEF ProbeBody, SoundInv, Unanswered
  <2>2. "EOF" \in ProbeErrors(payload[h].len) => payload[h].len <= MaxBody + 1
    BY <2>1 DEF ProbeErrors
  <2>3. CASE "EOF" \in ProbeErrors(payload[h].len) /\ pc'[h] = "getreq"
             /\ resp'[h] = NoResponse
    BY <1>7, <2>2, <2>3 DEF ProbeBody
  <2>4. CASE pc'[h] = "putbuf" /\ resp'[h] = Status("413")
    BY <1>7, <2>4 DEF ProbeBody, Codes
  <2> QED
    BY <1>7, <2>3, <2>4 DEF ProbeBody
<1>8. CASE GetRequest(h) \/ ResetRequest(h)
  BY <1>1, <1>8 DEF GetRequest, ResetRequest, SoundInv, Unanswered, buffers
<1>9. CASE ParseRequest(h)
  BY <1>1, <1>9 DEF ParseRequest, SoundInv, DataInv, BodyInv, Parses, Marks, Codes
<1>10. CASE PutBuffer(h)
  BY <1>1, <1>10 DEF PutBuffer, SoundInv
<1>11. CASE AcquireFree(h) \/ AcquireBlocks(h) \/ Cancel(h)
  BY <1>11, <1>1 DEF AcquireFree, AcquireBlocks, Cancel, SoundInv, Unanswered
<1>12. CASE AcquireCanceled(h) \/ WaitCanceled(h)
  BY <1>12 DEF AcquireCanceled, WaitCanceled, Codes
<1>13. CASE Score(h)
  BY <1>13 DEF Score, SoundInv, Codes
<1>14. CASE Release(h)
  BY <1>1, <1>14 DEF Release, SoundInv
<1>15. CASE PutRequest(h) \/ Return(h)
  BY <1>15 DEF PutRequest, Return, SoundInv
<1> QED
  BY <1>4, <1>5, <1>6, <1>7, <1>8, <1>9, <1>10, <1>11, <1>12, <1>13, <1>14,
     <1>15 DEF HandlerStep

\* And so does every step of the others, of clients and of the collector.
LEMMA NextSoundInv ==
    TypeInv /\ PoolsExclusive /\ DataInv /\ SoundInv /\ [Next]_vars => SoundInv'
<1> SUFFICES ASSUME TypeInv, PoolsExclusive, DataInv, SoundInv, [Next]_vars,
                    NEW g \in Handlers
             PROVE  Sound(g)'
  BY DEF SoundInv
<1>0. Sound(g) /\ (pc[g] \in WithBuffer <=> bufOf[g] # None)
  BY DEF SoundInv, TypeInv, Holding
<1>1. ASSUME NEW h \in Handlers,
             HandlerStep(h) \/ Cancel(h) \/ \E p \in Payloads : Arrive(h, p)
      PROVE  Sound(g)'
  <2>1. CASE g = h
    BY <1>1, <2>1, OwnSound
  <2>2. CASE g # h /\ ~ (Release(h) /\ pc'[g] # pc[g])
    <3>1. /\ bufOf[g] # None => buf'[bufOf[g]] = buf[bufOf[g]]
          /\ payload'[g] = payload[g] /\ resp'[g] = resp[g]
          /\ bufOf'[g] = bufOf[g] /\ pc'[g] = pc[g]
      BY <1>1, <2>2, OthersUntouched
    <3> QED
      BY <1>0, <3>1 DEF Sound, Decoded, WithBuffer
  <2>3. CASE g # h /\ Release(h) /\ pc'[g] # pc[g]
    <3>1. /\ pc[g] = "blocked" /\ pc'[g] = "score"
          /\ UNCHANGED <<payload, resp>>
      BY <2>3, HandedOver
    <3> QED
      BY <1>0, <3>1 DEF Sound, Decoded
  <2> QED
    BY <2>1, <2>2, <2>3
<1>2. ASSUME \/ \E b \in Buffers : CollectBuffer(b)
             \/ \E r \in Requests : CollectRequest(r)
             \/ UNCHANGED vars
      PROVE  Sound(g)'
  BY <1>0, <1>2 DEF Sound, Decoded, CollectBuffer, CollectRequest, vars, local,
     buffers
<1> QED
  BY <1>1, <1>2 DEF Next

ServiceInv == TypeInv /\ PoolsExclusive /\ DataInv /\ SoundInv

\* It holds at every moment.
LEMMA ServiceInvHolds == Spec => []ServiceInv
<1>1. Init => SoundInv
  BY MarksAssumption, NoResponseType
     DEF Init, SoundInv, Sound, Decoded, NoResponse, Status
<1> QED
  BY <1>1, InitTypeInv, NextTypeInv, InitDataInv, NextDataInv, NextSoundInv,
     PoolsNeverShared, PTL DEF Spec, ServiceInv

-----------------------------------------------------------------------------
(***************************************************************************)
(* The refinement.                                                         *)
(***************************************************************************)
\* The start of the handler is the start of the service.
LEMMA InitService == Init => Service!Init
  BY DEF Init, Service!Init, Service!NoAnswer, Service!Status, NoResponse, Status

\* A handler that answers gives one of the answers of the service.
LEMMA Replies ==
    ASSUME ServiceInv, NEW h \in Handlers,
           NEW a \in Service!Answers(h, payload[h]),
           pc[h] # "idle", resp[h] = NoResponse,
           resp' = [resp EXCEPT ![h] = a], UNCHANGED <<payload, canceled>>
    PROVE  Service!Reply(h)
<1>1. payload[h] # None
  BY DEF ServiceInv, TypeInv, Holding
<1>2. resp[h] = Service!NoAnswer
  BY DEF Service!NoAnswer, Service!Status, NoResponse, Status
<1> QED
  BY <1>1, <1>2 DEF Service!Reply

\* Every step of a handler or of its client is one of the service, or none.
LEMMA HandlerStepServes ==
    ASSUME ServiceInv, NEW h \in Handlers,
           HandlerStep(h) \/ Cancel(h) \/ \E p \in Payloads : Arrive(h, p)
    PROVE  [Service!Next]_Service!vars
<1>0. /\ pc \in [Handlers -> Steps]
      /\ payload \in [Handlers -> Payloads \cup {None}]
      /\ resp \in [Handlers -> ResponseType]
      /\ canceled \in [Handlers -> BOOLEAN]
      /\ pc[h] \in Unanswered => resp[h] = NoResponse
      /\ pc[h] # "idle" => payload[h] \in Payloads /\ payload[h] # None
      /\ pc[h] = "idle" => payload[h] = None
      /\ MaxBody \in Nat
  BY BoundsAssumption DEF ServiceInv, TypeInv, TypeOK, Holding
<1>1. /\ Service!NoAnswer = NoResponse
      /\ \A c \in Codes : Service!Status(c) = Status(c)
  BY DEF Service!NoAnswer, Service!Status, NoResponse, Status
<1>2. Sound(h)
  BY DEF ServiceInv, SoundInv
<1>3. ASSUME Service!Reply(h) PROVE [Service!Next]_Service!vars
  BY <1>3 DEF Service!Next
<1>4. ASSUME UNCHANGED <<payload, resp, canceled>>
      PROVE  [Service!Next]_Service!vars
  BY <1>4 DEF Service!vars
<1>5. CASE \E p \in Payloads : Arrive(h, p)
  <2>1. PICK p \in Payloads : Arrive(h, p)
    BY <1>5
  <2>2. Service!Receive(h, p)
    BY <1>0, <1>1, <2>1 DEF Arrive, Service!Receive, Codes
  <2> QED
    BY <2>2 DEF Service!Next
<1>6. CASE Cancel(h)
  <2>1. Service!Leave(h)
    BY <1>0, <1>1, <1>6 DEF Cancel, Service!Leave, Unanswered
  <2> QED
    BY <2>1 DEF Service!Next
<1>7. CASE Return(h)
  <2>1. Service!Done(h)
    BY <1>0, <1>1, <1>2, <1>7 DEF Return, Service!Done, Sound
  <2> QED
    BY <2>1 DEF Service!Next
<1>8. CASE ReadBody(h)
  <2>1. CASE resp' = resp
    BY <1>4, <1>8, <2>1 DEF ReadBody
  <2>2. CASE resp' = [resp EXCEPT ![h] = Status("400")]
    <3>1. Status("400") \in Service!Answers(h, payload[h])
      BY <1>1 DEF Service!Answers, Codes
    <3> QED
      BY <1>0, <1>3, <1>8, <2>2, <3>1, Replies DEF ReadBody, Unanswered
  <2> QED
    BY <1>8, <2>1, <2>2 DEF ReadBody
<1>9. CASE ProbeBody(h)
  <2>0. payload[h].len \in Nat /\ payload[h].len >= MaxBody
    BY <1>0, <1>2, <1>9, PayloadsAssumption DEF ProbeBody, Sound, PayloadType
  <2>1. PICK err \in ProbeErrors(payload[h].len) :
            resp' = [resp EXCEPT ![h] = IF err = "EOF" THEN NoResponse
                                                       ELSE Status("413")]
    BY <1>9 DEF ProbeBody
  <2>2. CASE err = "EOF"
    BY <1>0, <1>4, <1>9, <2>1, <2>2 DEF ProbeBody, Unanswered
  <2>3. CASE err # "EOF"
    <3>1. Status("413") \in Service!Answers(h, payload[h])
      BY <1>1, <2>0 DEF Service!Answers, Codes
    <3> QED
      BY <1>0, <1>3, <1>9, <2>1, <2>3, <3>1, Replies DEF ProbeBody, Unanswered
  <2> QED
    BY <2>2, <2>3
<1>10. CASE ParseRequest(h)
  <2>1. CASE resp' = resp
    BY <1>4, <1>10, <2>1 DEF ParseRequest
  <2>2. CASE resp' = [resp EXCEPT ![h] = Status("400")]
    <3>1. Status("400") \in Service!Answers(h, payload[h])
      BY <1>1 DEF Service!Answers, Codes
    <3> QED
      BY <1>0, <1>3, <1>10, <2>2, <3>1, Replies DEF ParseRequest, Unanswered
  <2> QED
    BY <1>10, <2>1, <2>2 DEF ParseRequest
<1>11. CASE AcquireCanceled(h) \/ WaitCanceled(h)
  <2>1. Limit > 0 /\ canceled[h]
    BY <1>2, <1>11 DEF AcquireCanceled, WaitCanceled, Sound
  <2>2. Status("503") \in Service!Answers(h, payload[h])
    BY <1>1, <2>1 DEF Service!Answers, Codes
  <2> QED
    BY <1>0, <1>3, <1>11, <2>2, Replies
       DEF AcquireCanceled, WaitCanceled, Unanswered
<1>12. CASE Score(h)
  <2>0. payload[h].ok /\ payload[h].len <= MaxBody + 1
    BY <1>2, <1>12 DEF Score, Sound, Decoded, Scorable, Fits
  <2>1. /\ reqOf[h] \in Requests /\ obj[reqOf[h]] \in ObjectType
        /\ Faithful(h, obj[reqOf[h]].data, obj[reqOf[h]].last)
    BY <1>12 DEF Score, ServiceInv, TypeInv, TypeOK, Holding, WithRequest,
       DataInv, ObjectInv
  <2>2. \E a \in Service!Answers(h, payload[h]) : resp' = [resp EXCEPT ![h] = a]
    <3>1. CASE resp' = [resp EXCEPT ![h] =
                           [code |-> "200", data |-> obj[reqOf[h]].data,
                            last |-> obj[reqOf[h]].last]]
      <4>1. Service!Score(payload[h], obj[reqOf[h]].last)
              \in Service!Answers(h, payload[h])
        BY <2>0, <2>1 DEF Service!Answers, Service!Lasts, Faithful, Allowed
      <4> QED
        BY <2>1, <3>1, <4>1 DEF Service!Score, Faithful
    <3>2. CASE ScorerPanics /\ resp' = [resp EXCEPT ![h] = Status("aborted")]
      BY <1>1, <2>0, <3>2 DEF Service!Answers, Codes
    <3> QED
      BY <1>12, <2>1, <3>1, <3>2, ScoredType DEF Score
  <2> QED
    BY <1>0, <1>3, <1>12, <2>2, Replies DEF Score, Unanswered
<1>13. CASE \/ GetBuffer(h) \/ GetRequest(h) \/ ResetRequest(h) \/ PutBuffer(h)
            \/ AcquireFree(h) \/ AcquireBlocks(h) \/ Release(h) \/ PutRequest(h)
  BY <1>4, <1>13 DEF GetBuffer, GetRequest, ResetRequest, PutBuffer, AcquireFree,
     AcquireBlocks, Release, PutRequest
<1> QED
  BY <1>5, <1>6, <1>7, <1>8, <1>9, <1>10, <1>11, <1>12, <1>13 DEF HandlerStep

\* For any number of handlers, objects, buffers, slots and payloads, a request
\* gets one answer, which is an answer to its own payload (handler.go:33-64).
THEOREM ServiceImplemented == Spec => ImplementsService
<1>1. ServiceInv /\ [Next]_vars => [Service!Next]_Service!vars
  <2>1. ASSUME \/ \E b \in Buffers : CollectBuffer(b)
               \/ \E r \in Requests : CollectRequest(r)
               \/ UNCHANGED vars
        PROVE  [Service!Next]_Service!vars
    BY <2>1 DEF CollectBuffer, CollectRequest, vars, local, Service!vars
  <2> QED
    BY <2>1, HandlerStepServes DEF Next
<1> QED
  BY <1>1, InitService, ServiceInvHolds, PTL
     DEF Spec, ImplementsService, Service!Spec

\* No score for a payload that does not parse or that is longer than the probe
\* can miss, for any number of handlers (request_decoder.go:40-62).
THEOREM OnlyValidIsScored == Spec => []OnlyValidScored
<1>1. ServiceInv => OnlyValidScored
  BY DEF ServiceInv, SoundInv, Sound, Scorable, Fits, OnlyValidScored
<1> QED
  BY <1>1, ServiceInvHolds, PTL
=============================================================================
