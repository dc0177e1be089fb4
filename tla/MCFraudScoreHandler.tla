------------------------ MODULE MCFraudScoreHandler ------------------------
(***************************************************************************)
(* Instances of FraudScoreHandler for TLC: payload sets and symmetry.      *)
(***************************************************************************)
EXTENDS FraudScoreHandler, TLC

Payload(id, post, len, ok, last) ==
    [id |-> id, post |-> post, len |-> len, ok |-> ok, last |-> last]

\* With MaxBody = 2: bodies shorter than the buffer, as long, one byte longer
\* and two; every last_transaction; one that does not parse, and may have set
\* its last transaction to null before that shows.
DecodedPayloads ==
    {Payload(1, TRUE, 2, TRUE, "present"), Payload(2, TRUE, 1, FALSE, "null"),
     Payload(3, TRUE, 3, TRUE, "absent"),  Payload(4, TRUE, 4, TRUE, "present")}

\* Payloads that differ in their last transaction alone.
ParsedPayloads ==
    {Payload(1, TRUE, 1, TRUE, "present"), Payload(2, TRUE, 1, TRUE, "absent"),
     Payload(3, TRUE, 1, TRUE, "null")}

\* A body that may get any answer, just as long as the buffer, and a GET.
LimiterPayloads ==
    {Payload(1, TRUE, 2, TRUE, "null"), Payload(2, FALSE, 0, FALSE, "absent")}

OnePayload == {Payload(1, TRUE, 1, TRUE, "null")}

\* Handlers, request objects and buffers are interchangeable.
Symmetric ==
    Permutations(Handlers) \cup Permutations(Requests)
        \cup Permutations(Buffers)
=============================================================================
