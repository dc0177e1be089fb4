---------------------------- MODULE RequestParser ----------------------------
(***************************************************************************)
(* ParseFraudScoreRequest (internal/fraud/parser.go): the hand-written     *)
(* parser that fills a pooled FraudScoreRequest from a body, and the       *)
(* Finalize that follows it.                                               *)
(*                                                                         *)
(* A body is a sequence of symbols: the bytes the parser tells apart, and  *)
(* words.  The active calls of parseObjectInternal are a stack; one action *)
(* is one round of its loop, or of the loop of parseStringArray.  The same *)
(* request object is used for one body after another, as the pool does.    *)
(***************************************************************************)
EXTENDS RequestValues, FiniteSets, FiniteSetsExt

CONSTANTS
    Bodies,    \* what is handed to the parser
    Threshold  \* knownMerchantSetThreshold

ASSUME ParserAssumption ==
    /\ \A b \in Bodies : b \in Seq(STRING)
    /\ Threshold \in Nat \ {0}

Quote == "quote"
Backslash == "backslash"
Space == "space"

\* The keys of every object, and what the parser does with their values.
Members ==
    [top              |-> [id |-> "string", transaction |-> "object",
                           customer |-> "object", merchant |-> "object",
                           terminal |-> "object",
                           last_transaction |-> "pointer"],
     transaction      |-> [amount |-> "float", installments |-> "int",
                           requested_at |-> "timestamp"],
     customer         |-> [avg_amount |-> "float", tx_count_24h |-> "int",
                           known_merchants |-> "array"],
     merchant         |-> [id |-> "string", mcc |-> "string",
                           avg_amount |-> "float"],
     terminal         |-> [is_online |-> "bool", card_present |-> "bool",
                           km_from_home |-> "float"],
     last_transaction |-> [timestamp |-> "timestamp",
                           km_from_current |-> "float"]]

Prefixed == DOMAIN Members

KindOf(prefix, key) ==
    IF Len(key) = 1 /\ key[1] \in DOMAIN Members[prefix]
    THEN Members[prefix][key[1]]
    ELSE "ignored"

VARIABLES
    body,     \* data
    request,  \* the pooled request object
    stack,    \* the calls of parseObjectInternal, the innermost last
    array,    \* data of parseStringArray
    rest,     \* what follows the object
    phase     \* "pooled", "object", "array", "accepted" or "rejected"

vars == <<body, request, stack, array, rest, phase>>

-----------------------------------------------------------------------------
(***************************************************************************)
(* The request object.                                                     *)
(***************************************************************************)
ZeroFloat == <<0, 1>>

ZeroTransaction ==
    [amount |-> ZeroFloat, installments |-> 0, requested_at |-> ZeroTimestamp]
ZeroMerchant == [id |-> << >>, mcc |-> << >>, avg_amount |-> ZeroFloat]
ZeroTerminal ==
    [is_online |-> FALSE, card_present |-> FALSE, km_from_home |-> ZeroFloat]
ZeroLast(isNil) ==
    [isNil |-> isNil, timestamp |-> ZeroTimestamp, km_from_current |-> ZeroFloat]

\* requestPool.New.
FreshRequest ==
    [top |-> [id |-> << >>],
     transaction |-> ZeroTransaction,
     customer |-> [avg_amount |-> ZeroFloat, tx_count_24h |-> 0,
                   known_merchants |-> << >>, knownMerchantSet |-> {}],
     merchant |-> ZeroMerchant,
     terminal |-> ZeroTerminal,
     last_transaction |-> ZeroLast(FALSE)]

\* Mutant: Customer.Reset does not truncate the list.
ResetKeepsMerchants(r) ==
    [FreshRequest EXCEPT
        !.customer.known_merchants = r.customer.known_merchants,
        !.last_transaction = ZeroLast(r.last_transaction.isNil)]

Reset(r) ==
    [FreshRequest EXCEPT !.last_transaction = ZeroLast(r.last_transaction.isNil)]

\* Customer.Finalize: a set only for long lists.
KnownMerchantSet(known) == IF Len(known) < Threshold THEN {} ELSE ToSet(known)

Finalized(r) ==
    [r EXCEPT !.customer.knownMerchantSet =
                    KnownMerchantSet(r.customer.known_merchants)]

-----------------------------------------------------------------------------
(***************************************************************************)
(* Scanning.  Windows of the body are sequences of their own.              *)
(***************************************************************************)
From(data, i) == SubSeq(data, i, Len(data))

Rest(data) == From(data, 2)

\* The first position in a set, or another one when there is none.
FirstOf(positions, otherwise) ==
    IF positions = {} THEN otherwise ELSE Min(positions)

SkipWS(data) ==
    From(data, FirstOf({i \in 1 .. Len(data) : data[i] # Space}, Len(data) + 1))

Starts(data, c) == data # << >> /\ Head(data) = c

Occurrences(data, i, c) == Cardinality({j \in 1 .. i : data[j] = c})

\* Where brackets are balanced again.  Brackets inside strings count too.
Balanced(data, open, close) ==
    {i \in 2 .. Len(data) :
        /\ data[i] = close
        /\ Occurrences(data, i, open) = Occurrences(data, i, close)}

StringEnds(data) ==
    {i \in 2 .. Len(data) : data[i] = Quote /\ data[i - 1] # Backslash}

Delimiters(data) ==
    {i \in 1 .. Len(data) : data[i] \in {",", "}", "]", Space}}

\* The length of the value at the start of data.  One that does not end is
\* taken to the end of data; a delimiter where a value should be has none.
FindValueEnd(data) ==
    CASE Starts(data, Quote) -> FirstOf(StringEnds(data), Len(data))
      [] Starts(data, "{")   -> FirstOf(Balanced(data, "{", "}"), Len(data))
      [] Starts(data, "[")   -> FirstOf(Balanced(data, "[", "]"), Len(data))
      [] OTHER               -> FirstOf({i - 1 : i \in Delimiters(data)},
                                        Len(data))

IsQuoted(value) ==
    /\ Len(value) >= 2
    /\ value[1] = Quote /\ value[Len(value)] = Quote

Inner(value) == SubSeq(value, 2, Len(value) - 1)

Unquoted(value) == IF IsQuoted(value) THEN Inner(value) ELSE value

\* nextKeyValueInternal, at the quote of a key.
NextKeyValue(data) ==
    LET close == FirstOf({i \in 2 .. Len(data) : data[i] = Quote}, 0)
        colon == SkipWS(From(data, close + 1))
        text  == SkipWS(Rest(colon))
        end   == FindValueEnd(text)
    IN  IF close = 0 \/ ~ Starts(colon, ":")
        THEN [ok |-> FALSE, key |-> << >>, value |-> << >>, rest |-> << >>]
        ELSE [ok    |-> TRUE,
              key   |-> SubSeq(data, 2, close - 1),
              value |-> Unquoted(SubSeq(text, 1, end)),
              rest  |-> From(text, end + 1)]

-----------------------------------------------------------------------------
Init ==
    /\ body = << >>
    /\ request = FreshRequest
    /\ stack = << >>
    /\ array = << >>
    /\ rest = << >>
    /\ phase = "pooled"

\* A call of parseObjectInternal on a value that opens an object.
Call(prefix, value) ==
    [prefix |-> prefix, data |-> Rest(SkipWS(value)), first |-> TRUE]

OpensObject(value) == Starts(SkipWS(value), "{")

\* ParseFraudScoreRequest, up to its call of parseObjectInternal.
Begin(b) ==
    /\ phase = "pooled"
    /\ body' = b
    /\ request' = Reset(request)
    /\ LET data == SkipWS(b) IN
       LET end == FindValueEnd(data) IN
       IF OpensObject(b) /\ end > 0
       THEN /\ phase' = "object"
            /\ stack' = <<Call("top", SubSeq(data, 1, end))>>
            /\ rest' = From(data, end + 1)
       ELSE /\ phase' = "rejected"
            /\ UNCHANGED <<stack, rest>>
    /\ UNCHANGED array

\* The innermost call, and what it sees at the head of its loop.
Top == stack[Len(stack)]
Ahead == SkipWS(Top.data)

Reject ==
    /\ phase' = "rejected"
    /\ stack' = << >>
    /\ UNCHANGED <<body, request, array, rest>>

\* The data at the next key: a comma separates it from the member before.
AtComma == ~ Top.first => Starts(Ahead, ",")
KeyAhead == IF Top.first THEN Ahead ELSE SkipWS(Rest(Ahead))

KeyValue == NextKeyValue(KeyAhead)

Malformed ==
    \/ Ahead = << >>
    \/ ~ AtComma
    \/ ~ Starts(KeyAhead, Quote)
    \/ ~ KeyValue.ok

InLoop == phase = "object" /\ ~ Starts(Ahead, "}")

RejectMalformed == InLoop /\ Malformed /\ Reject

\* A member whose key and value have been found.
AtMember(kind) ==
    InLoop /\ ~ Malformed /\ KindOf(Top.prefix, KeyValue.key) = kind

\* The innermost call goes on behind the member.
Advanced ==
    [stack EXCEPT ![Len(stack)] =
        [@ EXCEPT !.data = KeyValue.rest, !.first = FALSE]]

Assign(v) ==
    /\ request' = [request EXCEPT ![Top.prefix][KeyValue.key[1]] = v]
    /\ stack' = Advanced
    /\ UNCHANGED <<body, array, rest, phase>>

TakeString == AtMember("string") /\ Assign(KeyValue.value)
TakeFloat == AtMember("float") /\ Assign(FastParseFloat(KeyValue.value))
TakeInt == AtMember("int") /\ Assign(FastParseInt(KeyValue.value))
TakeBool == AtMember("bool") /\ Assign(KeyValue.value = <<"true">>)

TakeTimestamp ==
    /\ AtMember("timestamp")
    /\ IF IsTimestamp(KeyValue.value)
       THEN Assign(ParseTimestamp(KeyValue.value))
       ELSE Reject

SkipMember ==
    /\ AtMember("ignored")
    /\ stack' = Advanced
    /\ UNCHANGED <<body, request, array, rest, phase>>

\* A nested object is parsed before the loop goes on.
Descend(r) ==
    IF OpensObject(KeyValue.value)
    THEN /\ request' = r
         /\ stack' = Append(Advanced, Call(KeyValue.key[1], KeyValue.value))
         /\ UNCHANGED <<body, array, rest, phase>>
    ELSE /\ request' = r
         /\ phase' = "rejected"
         /\ stack' = << >>
         /\ UNCHANGED <<body, array, rest>>

EnterObject == AtMember("object") /\ Descend(request)

\* null drops the struct; an object gets a new one when there is none.
TakeLast ==
    /\ AtMember("pointer")
    /\ IF KeyValue.value = <<"null">>
       THEN /\ request' = [request EXCEPT !.last_transaction = ZeroLast(TRUE)]
            /\ stack' = Advanced
            /\ UNCHANGED <<body, array, rest, phase>>
       ELSE Descend(IF request.last_transaction.isNil
                    THEN [request EXCEPT !.last_transaction = ZeroLast(FALSE)]
                    ELSE request)

\* Mutant: the loop of the caller stays where it is.
EnterArrayInPlace ==
    /\ AtMember("array")
    /\ LET data == SkipWS(KeyValue.value) IN
       IF Len(data) >= 2 /\ Head(data) = "[" /\ data[Len(data)] = "]"
       THEN /\ phase' = "array"
            /\ array' = Inner(data)
            /\ UNCHANGED <<body, request, stack, rest>>
       ELSE Reject

\* parseStringArray.
EnterArray ==
    /\ AtMember("array")
    /\ LET data == SkipWS(KeyValue.value) IN
       IF Len(data) >= 2 /\ Head(data) = "[" /\ data[Len(data)] = "]"
       THEN /\ phase' = "array"
            /\ array' = Inner(data)
            /\ stack' = Advanced
            /\ UNCHANGED <<body, request, rest>>
       ELSE Reject

\* Mutant: the comma between two elements is not skipped.
ElementAtComma == SkipWS(array)

\* What one round of its loop looks at: commas are skipped, not required.
Element ==
    LET data == SkipWS(array)
    IN  IF Starts(data, ",") THEN SkipWS(Rest(data)) ELSE data

TakeElement ==
    /\ phase = "array" /\ Element # << >>
    /\ LET end == FindValueEnd(Element) IN
       LET value == SubSeq(Element, 1, end) IN
       /\ array' = From(Element, end + 1)
       /\ request' =
            IF IsQuoted(value)
            THEN [request EXCEPT !.customer.known_merchants =
                                    Append(@, Inner(value))]
            ELSE request
    /\ UNCHANGED <<body, stack, rest, phase>>

LeaveArray ==
    /\ phase = "array" /\ Element = << >>
    /\ phase' = "object"
    /\ array' = << >>
    /\ UNCHANGED <<body, request, stack, rest>>

AtBrace == phase = "object" /\ Starts(Ahead, "}")

\* Mutant: the outermost call returns like any other.
LeaveAnyObject ==
    /\ AtBrace
    /\ stack' = Front(stack)
    /\ UNCHANGED <<body, request, array, rest, phase>>

\* The call returns to the one of the object around it.
LeaveObject ==
    /\ AtBrace /\ Len(stack) > 1
    /\ stack' = Front(stack)
    /\ UNCHANGED <<body, request, array, rest, phase>>

\* Mutant: what follows the object is not looked at.
FinishAnyway ==
    /\ AtBrace /\ Len(stack) = 1
    /\ phase' = "accepted" /\ request' = Finalized(request)
    /\ stack' = << >>
    /\ UNCHANGED <<body, array, rest>>

\* The object is closed: nothing may follow it.  The decoder then finalizes
\* the customer.
Finish ==
    /\ AtBrace /\ Len(stack) = 1
    /\ IF SkipWS(rest) = << >>
       THEN phase' = "accepted" /\ request' = Finalized(request)
       ELSE phase' = "rejected" /\ UNCHANGED request
    /\ stack' = << >>
    /\ UNCHANGED <<body, array, rest>>

\* The request is answered and the object put back into the pool.
PutBack ==
    /\ phase \in {"accepted", "rejected"}
    /\ phase' = "pooled"
    /\ body' = << >> /\ rest' = << >>
    /\ UNCHANGED <<request, stack, array>>

ParserStep ==
    \/ RejectMalformed \/ TakeString \/ TakeFloat \/ TakeInt \/ TakeBool
    \/ TakeTimestamp \/ SkipMember \/ EnterObject \/ TakeLast
    \/ EnterArray \/ TakeElement \/ LeaveArray \/ LeaveObject \/ Finish

Next == ParserStep \/ PutBack \/ \E b \in Bodies : Begin(b)

Spec == Init /\ [][Next]_vars

-----------------------------------------------------------------------------
Window == Seq(STRING)

\* The hour and the weekday fit the divisors of the vectorizer, and no float
\* has lost its denominator.
TimestampType == [unix : Int, hour : 0 .. 23, weekday : 0 .. 6]
FloatType == Int \X (Nat \ {0})

RequestType ==
    [top : [id : Window],
     transaction : [amount : FloatType, installments : Int,
                    requested_at : TimestampType],
     customer : [avg_amount : FloatType, tx_count_24h : Int,
                 known_merchants : Seq(Window),
                 knownMerchantSet : SUBSET Window],
     merchant : [id : Window, mcc : Window, avg_amount : FloatType],
     terminal : [is_online : BOOLEAN, card_present : BOOLEAN,
                 km_from_home : FloatType],
     last_transaction : [isNil : BOOLEAN, timestamp : TimestampType,
                         km_from_current : FloatType]]

CallType == [prefix : Prefixed, data : Window, first : BOOLEAN]

Parsing == phase \in {"object", "array"}

\* The parser has a call as long as it parses: of the object, and at most of
\* one object in it, whose array it may be in.
CallsOK ==
    /\ stack \in Seq(CallType)
    /\ array \in Window
    /\ phase \in {"pooled", "object", "array", "accepted", "rejected"}
    /\ Parsing <=> stack # << >>
    /\ Len(stack) <= 2
    /\ \A i \in 1 .. Len(stack) : stack[i].prefix = "top" <=> i = 1
    /\ array # << >> => phase = "array"

TypeOK ==
    /\ body \in Window
    /\ rest \in Window
    /\ request \in RequestType
    /\ CallsOK

\* What the active calls have not looked at yet.
Unread(i) == IF i <= Len(stack) THEN Len(stack[i].data) ELSE 0

Remaining ==
    Unread(1) + Unread(2) + Len(array) + (IF phase = "array" THEN 1 ELSE 0)

\* Every step of the parser that changes anything leaves it less to look at,
\* or ends it: no input is read twice, whatever the body (parser.go:36-187,
\* 251-281).
StepsShorten ==
    [][Parsing => phase' \in {"accepted", "rejected"} \/ Remaining' < Remaining]_vars

\* The loop over an array advances, so that with StepsShorten the parser comes
\* back with an answer, as the service promises (README.md:9): what stands at
\* an element has a length (parser.go:258-278).
ParserAdvances ==
    phase = "array" /\ Element # << >> => FindValueEnd(Element) > 0

-----------------------------------------------------------------------------
\* The bodies of which ParserAdvances is proved: from a bracket to the next one
\* that closes there is a list of words and strings, without brackets and with
\* one comma at a time, that is not the beginning of a string.
ListBetween(data, i, k) ==
    /\ i < k /\ data[i] = "[" /\ data[k] = "]"
    /\ \A m \in (i + 1) .. (k - 1) : data[m] # "]"

QuoteBefore(data, i) ==
    \E q \in 1 .. (i - 1) :
        data[q] = Quote /\ \A m \in (q + 1) .. (i - 1) : data[m] = Space

PlainBetween(data, i, k) ==
    /\ \A m \in (i + 1) .. (k - 1) : data[m] \notin {"[", "}"}
    /\ \A m, n \in (i + 1) .. (k - 1) :
        m < n /\ data[m] = "," /\ data[n] = "," =>
            \E o \in (m + 1) .. (n - 1) : data[o] # Space

FlatLists(data) ==
    \A i, k \in 1 .. Len(data) : ListBetween(data, i, k) =>
        ~ QuoteBefore(data, i) /\ PlainBetween(data, i, k)
=============================================================================
