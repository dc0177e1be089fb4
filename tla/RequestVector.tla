---------------------------- MODULE RequestVector ----------------------------
(***************************************************************************)
(* From the body of a request to its feature vector: the parser fills the  *)
(* pooled request object, and the vectorizer reads it.  A document is a    *)
(* body written by a client that means something by it; what it means is   *)
(* kept beside its text.                                                   *)
(***************************************************************************)
EXTENDS RequestParser, Vectorizer

CONSTANT Documents  \* records [text |-> a body, says |-> its values]

\* A text is symbols, and what it says are numbers and times, however they are
\* spelled.
ASSUME DocumentsAssumption ==
    \A d \in Documents : LET s == d.says IN
        /\ d.text \in Seq(STRING)
        /\ {s.amount, s.customer_avg, s.merchant_avg, s.home, s.last_km}
              \subseteq FloatType
        /\ {s.installments, s.tx_count} \subseteq Int
        /\ {s.requested_at, s.last_at}
              \subseteq [unix : Int, hour : Int, weekday : Int]

-----------------------------------------------------------------------------
SameInstant(t, written) ==
    t = [written EXCEPT !.unix = Signed(@, Clock)]

\* An absent last_transaction may be nil or zero: it is what the pooled object
\* has been used for that decides (see SamePayloadSameScore).
LastAsWritten(last, says) ==
    \/ last.isNil /\ says.last \in {"null", "absent"}
    \/ /\ ~ last.isNil /\ says.last \in {"object", "absent"}
       /\ SameInstant(last.timestamp, says.last_at)
       /\ SameNumber(last.km_from_current, says.last_km)

\* The fields of a request are what a document says.
Agrees(r, says) ==
    /\ r.top.id = says.id
    /\ SameNumber(r.transaction.amount, says.amount)
    /\ r.transaction.installments = says.installments
    /\ SameInstant(r.transaction.requested_at, says.requested_at)
    /\ SameNumber(r.customer.avg_amount, says.customer_avg)
    /\ r.customer.tx_count_24h = says.tx_count
    /\ r.customer.known_merchants = says.known
    /\ r.merchant.id = says.merchant
    /\ LookupMCCRisk(r.merchant.mcc) = {says.risk}
    /\ SameNumber(r.merchant.avg_amount, says.merchant_avg)
    /\ r.terminal.is_online = says.online
    /\ r.terminal.card_present = says.card
    /\ SameNumber(r.terminal.km_from_home, says.home)
    /\ LastAsWritten(r.last_transaction, says)

\* A document is never refused, and its fields are read as they are written,
\* in whatever order, spacing and spelling, whatever the pooled object held
\* before (parser.go:9-344, types.go:22-53).
ReadsAsWritten ==
    \A d \in Documents : body = d.text =>
        /\ phase # "rejected"
        /\ phase = "accepted" => Agrees(request, d.says)

\* What clients write: one object and white space around it, whose text says
\* what it is.  A quote behind a backslash is part of a string.
Unescaped(data, i) == data[i] = Quote /\ (i > 1 => data[i - 1] # Backslash)

Outside(data, i) == Cardinality({j \in 1 .. i : Unescaped(data, j)}) % 2 = 0

\* No string holds a bracket, and no escaped quote looks like the end of a key.
PlainStrings(data) ==
    /\ \A i \in 1 .. Len(data) :
         data[i] \in {"{", "}", "[", "]"} => Outside(data, i)
    /\ \A i \in 2 .. Len(data) :
         data[i] = Quote /\ data[i - 1] = Backslash
            => ~ Starts(SkipWS(From(data, i + 1)), ":")

\* A value that is no string, object or list is a word up to its delimiter.
PlainWords(data) ==
    \A i \in 1 .. Len(data) : data[i] = ":" /\ Outside(data, i) =>
        LET value == SkipWS(From(data, i + 1)) IN
        \A j \in 1 .. Len(value) :
            /\ value[1] \notin {Quote, "{", "["}
            /\ 1 .. j \cap Delimiters(value) = {}
            => value[j] \notin {Quote, "{"}

\* A list holds whole objects.
WholeElements(data) ==
    \A i \in 1 .. Len(data) : data[i] = "[" =>
        LET list == From(data, i) IN
        \A j \in Balanced(list, "[", "]") :
            j = FindValueEnd(list) =>
                Occurrences(list, j, "{") = Occurrences(list, j, "}")

Orderly(data) == PlainStrings(data) /\ PlainWords(data) /\ WholeElements(data)

WellWritten(text) ==
    LET data == SkipWS(text) IN
    /\ Starts(data, "{") /\ Balanced(data, "{", "}") # {}
    /\ SkipWS(From(data, FindValueEnd(data) + 1)) = << >>
    /\ Orderly(data)

\* Only a whole document is accepted: not one cut short anywhere, which the
\* decoder hands over like a complete one (request_decoder.go:41), and not
\* one with something behind it (handler_test.go:14).
OnlyWholeAccepted ==
    phase = "accepted" =>
        \A d \in Documents :
            /\ IsPrefix(body, d.text) =>
                SkipWS(From(d.text, Len(body) + 1)) = << >>
            /\ IsPrefix(d.text, body) =>
                SkipWS(From(body, Len(d.text) + 1)) = << >>

-----------------------------------------------------------------------------
\* What the components are to be: shares of a maximum, a maximum that is not
\* positive counting as one.
Share(x, maximum) == <<x[1], x[2] * (IF maximum > 0 THEN maximum ELSE 1)>>

IsCut(v, x) ==
    IF 0 <= x[1] /\ x[1] <= x[2] THEN SameNumber(v, x)
                                 ELSE v = IF x[1] < 0 THEN Zero ELSE One

\* Two instants whose distance fits an int64 of nanoseconds, 292 years.
Comparable(t, last) == 2 * (t.unix - last.unix) \in -Clock .. Clock - 1

SinceAsWritten(v, says) ==
    \/ /\ says.last \in {"null", "absent"}
       /\ v[6] = Sentinel /\ v[7] = Sentinel
    \/ /\ says.last \in {"object", "absent"}
       /\ Comparable(says.requested_at, says.last_at) =>
            IsCut(v[6], Share(<<says.requested_at.unix - says.last_at.unix, 60>>,
                              Normalization.max_minutes))
       /\ IsCut(v[7], Share(says.last_km, Normalization.max_km))

\* The vector of what a document says.
IsVectorOf(v, s) ==
    /\ IsCut(v[1], Share(s.amount, Normalization.max_amount))
    /\ IsCut(v[2], Share(<<s.installments, 1>>, Normalization.max_installments))
    /\ IsCut(v[3], Share(IF s.customer_avg[1] > 0
                         THEN Over(s.amount, s.customer_avg)
                         ELSE s.amount,
                         Normalization.amount_vs_avg_ratio))
    /\ SameNumber(v[4], <<s.requested_at.hour, 23>>)
    /\ SameNumber(v[5], <<s.requested_at.weekday, 6>>)
    /\ SinceAsWritten(v, s)
    /\ IsCut(v[8], Share(s.home, Normalization.max_km))
    /\ IsCut(v[9], Share(<<s.tx_count, 1>>, Normalization.max_tx_count_24h))
    /\ v[10] = BoolToFloat(s.online)
    /\ v[11] = BoolToFloat(s.card)
    /\ v[12] = BoolToFloat(s.merchant \notin ToSet(s.known))
    /\ v[13] = s.risk
    /\ IsCut(v[14], Share(s.merchant_avg, Normalization.max_merchant_avg_amount))

\* The vector of an accepted document is that of what the document means: no
\* component shows how it is spelled, that an int64 wrapped around on the way,
\* how long the list of known merchants is, in which order the map of risks
\* was visited, or what the object was used for before (vectorizer.go:22-149).
VectorAsWritten ==
    \A d \in Documents : phase = "accepted" /\ body = d.text =>
        Vectors(request) # {} /\ \A v \in Vectors(request) : IsVectorOf(v, d.says)

-----------------------------------------------------------------------------
InUnit(x) == x[2] > 0 /\ 0 <= x[1] /\ x[1] <= x[2]

\* What the search may be given: whatever body was accepted, whatever numbers
\* wrapped around in it and whatever maxima are configured, every component is
\* a number, no division by zero, between 0 and 1, but for the two components
\* of a missing last transaction, which are both -1 (vectorizer.go:47-93).
\* The risks are those of a file nobody checks, and count when they are shares.
VectorsInRange ==
    phase = "accepted" =>
        \A v \in Vectors(request) :
            /\ \A i \in (1 .. 14) \ {6, 7, 13} : InUnit(v[i])
            /\ \/ InUnit(v[6]) /\ InUnit(v[7])
               \/ v[6] = Sentinel /\ v[7] = Sentinel
            /\ (\A k \in DOMAIN MCCRisk : InUnit(MCCRisk[k])) => InUnit(v[13])

=============================================================================
