--------------------------- MODULE MCRequestVector ---------------------------
(***************************************************************************)
(* Documents and other bodies for TLC.  A document is a sequence of        *)
(* statements: a key, where it stands, the text of its value, and which    *)
(* value of the document that text means.                                  *)
(***************************************************************************)
EXTENDS RequestVector, TLC

Says(in, key, text, field, value) ==
    [in |-> in, key |-> key, text |-> text, field |-> field, value |-> value]

Text(w) == <<Quote>> \o w \o <<Quote>>
Array(elements) == <<"[">> \o elements \o <<"]">>

At(unix, hour, weekday) == [unix |-> unix, hour |-> hour, weekday |-> weekday]

\* What a document means that states nothing.
Unsaid ==
    [id |-> << >>, amount |-> Zero, installments |-> 0,
     requested_at |-> At(0, 0, 0), customer_avg |-> Zero, tx_count |-> 0,
     known |-> << >>, merchant |-> << >>, risk |-> Half,
     merchant_avg |-> Zero, online |-> FALSE, card |-> FALSE, home |-> Zero,
     last |-> "absent", last_at |-> At(0, 0, 0), last_km |-> Zero,
     ignored |-> << >>]

\* 1972-02-29T23:59:59Z and so on, and one that does not exist.
CivilTime(y, mo, d, h, mi, s) ==
    [year |-> y, month |-> mo, day |-> d, hour |-> h, minute |-> mi,
     second |-> s]

SomeInstants ==
    "leap"   :> CivilTime(1972, 2, 29, 23, 59, 59) @@
    "march"  :> CivilTime(1972, 3, 1, 0, 10, 29) @@
    "sunday" :> CivilTime(1976, 12, 26, 10, 0, 0) @@
    "monday" :> CivilTime(1978, 1, 2, 0, 0, 0) @@
    "before" :> CivilTime(1976, 5, 3, 19, 30, 0) @@
    "after"  :> CivilTime(1976, 5, 3, 19, 40, 0) @@
    "nosuch" :> CivilTime(1973, 2, 29, 12, 0, 0)

Leap == At(68255999, 23, 1)
March == At(68256629, 0, 2)
Sunday == At(220442400, 10, 6)
Monday == At(252547200, 0, 0)

\* Half of Clock lies between these two.
Before == At(199999800, 19, 0)
After == At(200000400, 19, 0)

Maxima ==
    [max_amount |-> 100, max_installments |-> 12, amount_vs_avg_ratio |-> 10,
     max_minutes |-> 30, max_km |-> 20, max_tx_count_24h |-> 0,
     max_merchant_avg_amount |-> 100]

\* Beside two keys of their own, two of one number, two that are no number, and
\* two that are no index.
Risks ==
    <<"1", "2">> :> <<3, 20>> @@ <<"0", "7">> :> <<4, 5>> @@
    <<"5">> :> <<1, 4>> @@ <<"0", "5">> :> <<3, 4>> @@
    <<"1", "x">> :> <<1, 10>> @@ << >> :> <<1, 5>> @@
    <<"-", "7">> :> <<1, 3>> @@ <<"1", "0", "0">> :> <<2, 3>>

Amount(text, value) == Says("transaction", "amount", text, "amount", value)
RequestedAt(w, t) == Says("transaction", "requested_at", Text(<<w>>),
                          "requested_at", t)
CustomerAvg(text, value) == Says("customer", "avg_amount", text,
                                 "customer_avg", value)
Known(text, names) == Says("customer", "known_merchants", text, "known", names)
Merchant(w) == Says("merchant", "id", Text(<<w>>), "merchant", <<w>>)
MCC(text, risk) == Says("merchant", "mcc", Text(text), "risk", risk)
LastAt(w, t) == Says("last_transaction", "timestamp", Text(<<w>>), "last_at", t)
LastKm(text, value) == Says("last_transaction", "km_from_current", text,
                            "last_km", value)
TheLast(text, what) == Says("top", "last_transaction", text, "last", what)

NoneKnown == Known(Array(<< >>), << >>)
OneKnown == Known(Array(Text(<<"m1">>)), << <<"m1">> >>)
TwoKnown == Known(Array(Text(<<"m1">>) \o <<",", Space>> \o Text(<<"m2">>)),
                  << <<"m1">>, <<"m2">> >>)
Nested == <<"{">> \o Text(<<"amount">>) \o <<":", "{", "}", "}">>

\* Sequences of statements: every field alone and in company.
Statements ==
    {<< >>,
     <<Says("top", "id", Text(<<"tx">>), "id", <<"tx">>)>>,
     <<Says("top", "extra", Nested, "ignored", << >>), Amount(<<"7">>, <<7, 1>>)>>,
     <<Amount(<<"-", "3", ".", "7", "5">>, <<-15, 4>>)>>,
     <<Amount(<<"1", "2", ".", "5">>, <<25, 2>>), CustomerAvg(<<"5">>, <<5, 1>>)>>,
     <<Amount(<<"1", "2", ".", "5", "0">>, <<25, 2>>),
       CustomerAvg(<<"0", ".", "5">>, <<1, 2>>)>>,
     <<CustomerAvg(<<"-", "2">>, <<-2, 1>>), Amount(<<"2", "5", "0">>, <<250, 1>>)>>,
     <<Says("transaction", "installments", <<"1", "3">>, "installments", 13),
       Says("customer", "tx_count_24h", <<"1">>, "tx_count", 1)>>,
     <<Merchant("m1"), NoneKnown>>, <<OneKnown, Merchant("m1")>>,
     <<OneKnown, Merchant("m2")>>, <<Merchant("m2"), TwoKnown>>,
     <<TwoKnown, Merchant("m3")>>,
     <<MCC(<<"1", "2">>, <<3, 20>>)>>, <<MCC(<<"7">>, <<4, 5>>)>>,
     <<MCC(<<"1", "0", "0">>, Half)>>, <<MCC(<<"1", "x">>, Half)>>,
     <<Says("merchant", "avg_amount", <<"4", "0", ".", "2", "5">>,
            "merchant_avg", <<161, 4>>)>>,
     <<Says("terminal", "is_online", <<"true">>, "online", TRUE),
       Says("terminal", "card_present", <<"false">>, "card", FALSE),
       Says("terminal", "km_from_home", <<"1", "3", ".", "7">>, "home",
            <<137, 10>>)>>,
     <<TheLast(<<"null">>, "null"), RequestedAt("leap", Leap)>>,
     <<RequestedAt("march", March), TheLast(<<"{", "}">>, "object")>>,
     <<RequestedAt("march", March), TheLast(<<"object">>, "object"),
       LastAt("leap", Leap), LastKm(<<"4", ".", "5">>, <<9, 2>>)>>,
     <<TheLast(<<"object">>, "object"), LastAt("sunday", Sunday),
       RequestedAt("monday", Monday)>>,
     <<TheLast(<<"object">>, "object"), LastAt("before", Before),
       RequestedAt("after", After)>>,
     <<TheLast(<<"object">>, "object"), LastAt("monday", Monday),
       RequestedAt("sunday", Sunday), LastKm(<<"2", "1">>, <<21, 1>>)>>,
     <<Says("top", "id", Text(<<"tx">>), "id", <<"tx">>),
       Amount(<<"5", "0">>, <<50, 1>>), RequestedAt("march", March),
       CustomerAvg(<<"1", "0">>, <<10, 1>>), TwoKnown, Merchant("m2"),
       MCC(<<"0", "7">>, <<4, 5>>),
       Says("terminal", "card_present", <<"true">>, "card", TRUE),
       TheLast(<<"object">>, "object"), LastAt("leap", Leap)>>}

-----------------------------------------------------------------------------
(***************************************************************************)
(* Writing statements down, with or without a space between symbols, the   *)
(* sections in one order or the other.                                     *)
(***************************************************************************)
Member(gap, key, text) == Text(<<key>>) \o gap \o <<":">> \o gap \o text

Object(gap, members) ==
    <<"{">> \o gap
    \o FlattenSeq([i \in 1 .. Len(members) |->
                    IF i = 1 THEN members[i]
                             ELSE gap \o <<",">> \o gap \o members[i]])
    \o gap \o <<"}">>

InSection(statements, section) ==
    SelectSeq(statements, LAMBDA st : st.in = section)

Written(gap, statements) ==
    [i \in 1 .. Len(statements) |->
        Member(gap, statements[i].key, statements[i].text)]

Section(gap, statements, name) ==
    LET said == InSection(statements, name)
    IN  IF said = << >> THEN << >>
        ELSE <<Member(gap, name, Object(gap, Written(gap, said)))>>

\* "object" stands for a last_transaction whose members are stated.
TopLevel(gap, statements) ==
    Written(gap, SelectSeq(InSection(statements, "top"),
                           LAMBDA st : st.text # <<"object">>))

Order == <<"transaction", "customer", "merchant", "terminal",
           "last_transaction">>

Body(gap, statements, order) ==
    gap \o Object(gap, TopLevel(gap, statements)
                       \o FlattenSeq([i \in 1 .. Len(order) |->
                            Section(gap, statements, order[i])])) \o gap

Meaning(statements) ==
    FoldLeft(LAMBDA said, st : [said EXCEPT ![st.field] = st.value], Unsaid,
             statements)

Document(gap, statements, order) ==
    [text |-> Body(gap, statements, order), says |-> Meaning(statements)]

SomeDocuments ==
    {Document(<< >>, st, Order) : st \in Statements} \cup
    {Document(<<Space>>, st, Reverse(Order)) : st \in Statements}

\* The documents are what the theorem about whole documents is about.
ASSUME DocumentsAreWellWritten ==
    \A d \in SomeDocuments : WellWritten(d.text)

-----------------------------------------------------------------------------
Cut(text) == {SubSeq(text, 1, n) : n \in 0 .. Len(text) - 1}

Followed(text) == {text \o <<"{", "}">>, text \o <<Space, "}">>}

Keyed(key, value) == Object(<< >>, <<Member(<< >>, key, value)>>)

Number(digits) == Keyed("transaction", Keyed("amount", digits))

\* Bodies that are no documents: what is refused, and what is accepted though
\* its numbers or its category do not fit, or the risk of its category is not
\* one: of those of one number any, of those of none for category 0.
OtherBodies ==
    {<<"[", "]">>,
     <<"{", "key", "}">>, <<"{", Quote, "id", Quote, "tx", "}">>,
     <<"{">> \o Text(<<"id">>) \o <<":">> \o Text(<<"a">>) \o Text(<<"id">>)
        \o <<":">> \o Text(<<"b">>) \o <<"}">>,
     Keyed("customer", <<"null">>),
     Keyed("customer", Keyed("known_merchants", <<"null">>)),
     Keyed("customer", Keyed("known_merchants", Array(<<"1", ",">>))),
     Keyed("transaction", Keyed("requested_at", Text(<<"nosuch">>))),
     Keyed("last_transaction", <<"1">>),
     Number(<<"1", "e", "3">>),
     Number(<<"9", "9", "9", "9", "9">>),
     Keyed("merchant", Keyed("mcc", Text(<<"5">>))),
     Keyed("merchant", Keyed("mcc", Text(<<"0">>))),
     Keyed("merchant", Keyed("mcc", Text(<<"9", "9", "9", "9", "9">>)))}

\* Valid JSON with a bracket in the name of a known merchant.
Bracketed ==
    {Keyed("customer",
           Object(<< >>,
                  <<Member(<< >>, "known_merchants", Array(Text(<<"[">>))),
                    Member(<< >>, "tier", Text(<<"]">>))>>))}

\* The theorem that the array loop advances is about all documents here, and
\* not about the body that stops it.
ASSUME ListsAreFlat ==
    /\ \A d \in SomeDocuments : FlatLists(d.text)
    /\ \A b \in Bracketed : ~ FlatLists(b)

NoDocuments == {}

Texts == {d.text : d \in SomeDocuments}

SomeBodies ==
    Texts
    \cup UNION {Cut(t) \cup Followed(t) : t \in Texts}
    \cup OtherBodies
=============================================================================
