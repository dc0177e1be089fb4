---------------------------- MODULE FraudService ----------------------------
(***************************************************************************)
(* What POST /fraud-score promises its clients, with nothing said of       *)
(* pools, buffers or slots: a connection has one request at a time, and    *)
(* each request gets one answer, which is an answer to its own payload.    *)
(***************************************************************************)
EXTENDS Naturals

CONSTANTS
    Handlers,      \* connections
    Payloads,      \* the requests clients send
    MaxBody,       \* bytes of a body that is always looked at
    Limit,         \* requests scored at once, 0 for any number
    ScorerPanics,  \* whether a score may fail
    None,          \* no payload
    NilLast,       \* scored as having no last transaction
    ZeroLast       \* scored as having one at the zero time

VARIABLES
    request,  \* the payload each connection waits for an answer to
    answer,   \* the answer it got
    gone      \* whether its client has given up

vars == <<request, answer, gone>>

Status(code) == [code |-> code, data |-> None, last |-> None]
NoAnswer == Status("none")

\* What a payload may be scored as: itself.
Score(p, last) == [code |-> "200", data |-> p, last |-> last]

Lasts(p) ==
    CASE p.last = "null"    -> {NilLast}
      [] p.last = "present" -> {p}
      [] p.last = "absent"  -> {NilLast, ZeroLast}

\* A body may end early and be malformed whatever its client meant to send;
\* every other answer has its reason in the request.  A body that just fits may
\* be called too large: its end may get lost, which nobody tells from more.
Answers(h, p) ==
    {Status("400")}
    \cup (IF p.len >= MaxBody THEN {Status("413")} ELSE {})
    \cup (IF Limit > 0 /\ gone[h] THEN {Status("503")} ELSE {})
    \cup (IF p.ok /\ p.len <= MaxBody + 1
          THEN {Score(p, last) : last \in Lasts(p)}
               \cup (IF ScorerPanics THEN {Status("aborted")} ELSE {})
          ELSE {})

Init ==
    /\ request = [h \in Handlers |-> None]
    /\ answer = [h \in Handlers |-> NoAnswer]
    /\ gone = [h \in Handlers |-> FALSE]

Receive(h, p) ==
    /\ request[h] = None
    /\ request' = [request EXCEPT ![h] = p]
    /\ answer' = [answer EXCEPT ![h] = IF p.post THEN NoAnswer ELSE Status("405")]
    /\ UNCHANGED gone

Leave(h) ==
    /\ request[h] # None /\ answer[h] = NoAnswer
    /\ gone' = [gone EXCEPT ![h] = TRUE]
    /\ UNCHANGED <<request, answer>>

Reply(h) ==
    /\ request[h] # None /\ answer[h] = NoAnswer
    /\ \E a \in Answers(h, request[h]) : answer' = [answer EXCEPT ![h] = a]
    /\ UNCHANGED <<request, gone>>

Done(h) ==
    /\ answer[h] # NoAnswer
    /\ request' = [request EXCEPT ![h] = None]
    /\ answer' = [answer EXCEPT ![h] = NoAnswer]
    /\ gone' = [gone EXCEPT ![h] = FALSE]

Next ==
    \E h \in Handlers :
        Leave(h) \/ Reply(h) \/ Done(h) \/ \E p \in Payloads : Receive(h, p)

Spec == Init /\ [][Next]_vars
=============================================================================
