------------------------ MODULE RequestParserProofs ------------------------
(***************************************************************************)
(* Proofs about RequestParser and RequestVector, for every set of bodies:  *)
(* the calls of the parser keep their shape, every step that changes       *)
(* anything leaves less to look at, the request object keeps its types,    *)
(* its vector is one the search may be given, that of what the request     *)
(* says, nothing but a whole document is accepted, and on a body with      *)
(* flat lists the parser comes to an end.                                  *)
(***************************************************************************)
EXTENDS RequestVector, NumberLemmas, SequenceTheorems

(***************************************************************************)
(* Scanning.                                                               *)
(***************************************************************************)
\* The first position of a set is one of it.
LEMMA FirstOfIn ==
    ASSUME NEW S \in SUBSET Nat, NEW o
    PROVE  FirstOf(S, o) \in S \cup {o} /\ (S = {} => FirstOf(S, o) = o)
                                        /\ (S # {} => FirstOf(S, o) \in S)
<1>1. CASE S = {}
  BY <1>1 DEF FirstOf
<1>2. CASE S # {}
  <2>1. \E x \in S : \A y \in S : x <= y
    BY <1>2, LeastExists
  <2>2. Min(S) \in S
    BY <2>1 DEF Min
  <2> QED
    BY <1>2, <2>2 DEF FirstOf
<1> QED
  BY <1>1, <1>2

\* A window from some position on.
LEMMA FromWindow ==
    ASSUME NEW d \in Window, NEW i \in 1 .. Len(d) + 1
    PROVE  From(d, i) \in Window /\ Len(From(d, i)) = Len(d) + 1 - i
                                 /\ (i = 1 => From(d, i) = d)
  BY DEF From, Window

\* Skipping white space gives the data itself or something shorter.
LEMMA SkipWSShortens ==
    ASSUME NEW d \in Window
    PROVE  /\ SkipWS(d) \in Window /\ Len(SkipWS(d)) <= Len(d)
           /\ SkipWS(d) = d \/ Len(SkipWS(d)) < Len(d)
<1> DEFINE S == {i \in 1 .. Len(d) : d[i] # Space}
<1>1. Len(d) \in Nat /\ S \in SUBSET Nat
  BY DEF Window
<1>2. FirstOf(S, Len(d) + 1) \in 1 .. Len(d) + 1
  BY <1>1, FirstOfIn
<1>3. SkipWS(d) = From(d, FirstOf(S, Len(d) + 1))
  BY DEF SkipWS
<1> HIDE DEF S
<1> QED
  BY <1>1, <1>2, <1>3, FromWindow

\* The rest behind the first symbol.
LEMMA RestShortens ==
    ASSUME NEW d \in Window, d # << >>
    PROVE  Rest(d) \in Window /\ Len(Rest(d)) = Len(d) - 1
<1>1. Len(d) \in Nat /\ Len(d) > 0 /\ 2 \in 1 .. Len(d) + 1
  BY DEF Window
<1> QED
  BY <1>1, FromWindow DEF Rest

\* The end of a value is inside the data.
LEMMA ValueEndInside ==
    ASSUME NEW d \in Window
    PROVE  FindValueEnd(d) \in 0 .. Len(d)
<1>0. Len(d) \in Nat
  BY DEF Window
<1>1. StringEnds(d) \in SUBSET (0 .. Len(d))
  BY <1>0 DEF StringEnds
<1>2. \A open, close : Balanced(d, open, close) \in SUBSET (0 .. Len(d))
  BY <1>0 DEF Balanced
<1>3. {i - 1 : i \in Delimiters(d)} \in SUBSET (0 .. Len(d))
  <2>1. \A i \in Delimiters(d) : i \in 1 .. Len(d)
    BY DEF Delimiters
  <2> QED
    BY <1>0, <2>1
<1>4. ASSUME NEW S \in SUBSET (0 .. Len(d)) PROVE FirstOf(S, Len(d)) \in 0 .. Len(d)
  <2>1. S \in SUBSET Nat
    BY <1>0
  <2>2. FirstOf(S, Len(d)) \in S \cup {Len(d)}
    BY <2>1, FirstOfIn
  <2>3. Len(d) \in 0 .. Len(d)
    BY <1>0
  <2> QED
    BY <2>2, <2>3
<1>5. CASE Starts(d, Quote)
  <2>1. ~ Starts(d, "{") /\ ~ Starts(d, "[")
    BY <1>5 DEF Starts, Quote
  <2> QED
    BY <1>1, <1>4, <1>5, <2>1 DEF FindValueEnd
<1>6. CASE ~ Starts(d, Quote) /\ Starts(d, "{")
  BY <1>2, <1>4, <1>6 DEF FindValueEnd
<1>7. CASE ~ Starts(d, Quote) /\ ~ Starts(d, "{") /\ Starts(d, "[")
  BY <1>2, <1>4, <1>7 DEF FindValueEnd
<1>8. CASE ~ Starts(d, Quote) /\ ~ Starts(d, "{") /\ ~ Starts(d, "[")
  BY <1>3, <1>4, <1>8 DEF FindValueEnd
<1> QED
  BY <1>5, <1>6, <1>7, <1>8

\* What is between two brackets or quotes is shorter by two.
LEMMA InnerShortens ==
    ASSUME NEW v \in Window, Len(v) >= 2
    PROVE  Inner(v) \in Window /\ Len(Inner(v)) = Len(v) - 2
<1>1. Len(v) \in Nat /\ \A i \in 2 .. (Len(v) - 1) : v[i] \in STRING
  BY DEF Window
<1>2. SubSeq(v, 2, Len(v) - 1) \in Seq(STRING)
      /\ Len(SubSeq(v, 2, Len(v) - 1)) =
            IF 2 <= Len(v) - 1 THEN Len(v) - 1 - 2 + 1 ELSE 0
  <2>1. 2 \in Int /\ Len(v) - 1 \in Int
    BY <1>1
  <2> QED
    BY <1>1, <2>1, SubSeqProperties
<1>3. 2 <= Len(v) - 1 \/ Len(v) = 2
  <2>1. \A n \in Nat : n >= 2 => 2 <= n - 1 \/ n = 2
    OBVIOUS
  <2> QED
    BY <1>1, <2>1
<1>4. Len(SubSeq(v, 2, Len(v) - 1)) = Len(v) - 2
  BY <1>1, <1>2, <1>3
<1> QED
  BY <1>2, <1>4 DEF Inner, Window

\* What is between the quotes of a value is no longer than the value.
LEMMA UnquotedShortens ==
    ASSUME NEW v \in Window
    PROVE  Unquoted(v) \in Window /\ Len(Unquoted(v)) <= Len(v)
<1>1. CASE IsQuoted(v)
  <2>1. Len(v) \in Nat /\ Len(v) >= 2
    BY <1>1 DEF IsQuoted, Window
  <2>2. Inner(v) \in Window /\ Len(Inner(v)) = Len(v) - 2
    BY <2>1, InnerShortens
  <2> QED
    BY <1>1, <2>1, <2>2 DEF Unquoted
<1>2. CASE ~ IsQuoted(v)
  BY <1>2 DEF Unquoted, Window
<1> QED
  BY <1>1, <1>2

\* A key and its colon are behind a value and what follows it.
LEMMA KeyValueShortens ==
    ASSUME NEW d \in Window, d # << >>, NextKeyValue(d).ok
    PROVE  LET kv == NextKeyValue(d) IN
           /\ kv.value \in Window /\ kv.rest \in Window
           /\ Len(kv.value) + Len(kv.rest) < Len(d)
<1> DEFINE S == {i \in 2 .. Len(d) : d[i] = Quote}
           close == FirstOf(S, 0)
           colon == SkipWS(From(d, close + 1))
           text == SkipWS(Rest(colon))
           end == FindValueEnd(text)
<1>1. Len(d) \in Nat /\ S \in SUBSET Nat
  BY DEF Window
<1>2. close # 0 /\ Starts(colon, ":")
      /\ NextKeyValue(d).value = Unquoted(SubSeq(text, 1, end))
      /\ NextKeyValue(d).rest = From(text, end + 1)
  BY DEF NextKeyValue
<1> HIDE DEF S
<1>3. close \in S
  <2>1. close \in S \cup {0}
    BY <1>1, FirstOfIn
  <2> QED
    BY <1>2, <2>1
<1>4. close \in 2 .. Len(d)
  BY <1>3 DEF S
<1> HIDE DEF close
<1>5. From(d, close + 1) \in Window /\ Len(From(d, close + 1)) < Len(d)
  <2>1. close + 1 \in 1 .. Len(d) + 1
    BY <1>1, <1>4
  <2>2. Len(From(d, close + 1)) = Len(d) + 1 - (close + 1)
    BY <2>1, FromWindow
  <2> QED
    BY <1>1, <1>4, <2>1, <2>2, FromWindow
<1>6. colon \in Window /\ Len(colon) < Len(d)
  <2>1. Len(From(d, close + 1)) \in Nat
    BY <1>5 DEF Window
  <2>2. colon \in Window /\ Len(colon) <= Len(From(d, close + 1))
    BY <1>5, SkipWSShortens
  <2>3. Len(colon) \in Nat
    BY <2>2 DEF Window
  <2> QED
    BY <1>1, <1>5, <2>1, <2>2, <2>3
<1>7. colon # << >>
  BY <1>2 DEF Starts
<1> HIDE DEF colon
<1>8. Rest(colon) \in Window /\ Len(Rest(colon)) = Len(colon) - 1
  BY <1>6, <1>7, RestShortens
<1>9. text \in Window /\ Len(text) <= Len(Rest(colon))
  BY <1>8, SkipWSShortens
<1> HIDE DEF text
<1>10. Len(colon) \in Nat /\ Len(text) \in Nat
  BY <1>6, <1>9 DEF Window
<1>11. end \in 0 .. Len(text)
  BY <1>9, ValueEndInside
<1> HIDE DEF end
<1>12. SubSeq(text, 1, end) \in Window /\ Len(SubSeq(text, 1, end)) = end
  BY <1>9, <1>10, <1>11 DEF Window
<1>13. /\ Unquoted(SubSeq(text, 1, end)) \in Window
       /\ Len(Unquoted(SubSeq(text, 1, end))) <= end
  BY <1>12, UnquotedShortens
<1>14. From(text, end + 1) \in Window /\ Len(From(text, end + 1)) = Len(text) - end
  <2>1. end + 1 \in 1 .. Len(text) + 1
    BY <1>10, <1>11
  <2>2. Len(From(text, end + 1)) = Len(text) + 1 - (end + 1)
    BY <1>9, <2>1, FromWindow
  <2> QED
    BY <1>9, <1>10, <1>11, <2>1, <2>2, FromWindow
<1>15. Len(Unquoted(SubSeq(text, 1, end))) \in Nat
  BY <1>13 DEF Window
<1> QED
  BY <1>1, <1>2, <1>6, <1>8, <1>9, <1>10, <1>11, <1>13, <1>14, <1>15

\* Only the outermost object has objects in it, and those have known keys.
LEMMA NestedKinds ==
    ASSUME NEW p \in Prefixed, NEW k, KindOf(p, k) \in {"object", "pointer"}
    PROVE  p = "top" /\ k[1] \in Prefixed \ {"top"}
<1>1. k[1] \in DOMAIN Members[p] /\ Members[p][k[1]] \in {"object", "pointer"}
  BY DEF KindOf
<1>2. Prefixed = {"top", "transaction", "customer", "merchant", "terminal",
                  "last_transaction"}
  BY DEF Prefixed, Members
<1>3. p \notin {"transaction", "customer", "merchant", "terminal",
                "last_transaction"}
  BY <1>1 DEF Members
<1>4. k[1] \in {"id", "transaction", "customer", "merchant", "terminal",
               "last_transaction"} /\ k[1] # "id"
  BY <1>1, <1>2, <1>3 DEF Members
<1> QED
  BY <1>2, <1>3, <1>4

-----------------------------------------------------------------------------
(***************************************************************************)
(* The calls of the parser.                                                *)
(***************************************************************************)
\* What the innermost call has in front of it.
LEMMA TopShape ==
    ASSUME CallsOK, InLoop \/ AtBrace
    PROVE  /\ stack # << >> /\ Len(stack) \in {1, 2}
           /\ Top \in CallType /\ Top.data \in Window
           /\ Ahead \in Window /\ Len(Ahead) <= Len(Top.data)
<1>1. /\ phase = "object" /\ stack # << >>
      /\ stack \in Seq(CallType) /\ Len(stack) <= 2
  BY DEF CallsOK, Parsing, InLoop, AtBrace
<1>2. Len(stack) \in {1, 2}
  <2>1. Len(stack) \in Nat /\ Len(stack) # 0
    BY <1>1
  <2>2. \A n \in Nat : n # 0 /\ n <= 2 => n \in {1, 2}
    OBVIOUS
  <2> QED
    BY <1>1, <2>1, <2>2
<1>3. Top \in CallType
  BY <1>1, <1>2 DEF Top
<1>4. Top.data \in Window
  BY <1>3 DEF CallType
<1> QED
  BY <1>1, <1>2, <1>3, <1>4, SkipWSShortens DEF Ahead

\* At a member, its value and what follows it are shorter than what the call
\* had in front of it.
LEMMA MemberShortens ==
    ASSUME CallsOK, NEW kind, AtMember(kind)
    PROVE  /\ KeyValue.value \in Window /\ KeyValue.rest \in Window
           /\ Len(KeyValue.value) + Len(KeyValue.rest) < Len(Top.data)
           /\ Len(KeyValue.rest) < Len(Top.data)
           /\ Len(KeyValue.value) \in Nat /\ Len(KeyValue.rest) \in Nat
           /\ Len(Top.data) \in Nat
<1>1. InLoop /\ ~ Malformed
  BY DEF AtMember
<1>2. /\ Ahead \in Window /\ Len(Ahead) <= Len(Top.data) /\ Top.data \in Window
      /\ Ahead # << >> /\ KeyAhead # << >> /\ KeyValue.ok
  BY <1>1, TopShape DEF Malformed, Starts
<1>3. Len(Ahead) \in Nat /\ Len(Top.data) \in Nat
  BY <1>2 DEF Window
<1>4. KeyAhead \in Window /\ Len(KeyAhead) <= Len(Ahead) /\ Len(KeyAhead) \in Nat
  <2>1. Rest(Ahead) \in Window /\ Len(Rest(Ahead)) = Len(Ahead) - 1
    BY <1>2, RestShortens
  <2>2. /\ SkipWS(Rest(Ahead)) \in Window
        /\ Len(SkipWS(Rest(Ahead))) <= Len(Rest(Ahead))
    BY <2>1, SkipWSShortens
  <2>3. KeyAhead \in {Ahead, SkipWS(Rest(Ahead))}
    BY DEF KeyAhead
  <2>4. Len(SkipWS(Rest(Ahead))) \in Nat
    BY <2>2 DEF Window
  <2> QED
    BY <1>2, <1>3, <2>1, <2>2, <2>3, <2>4
<1>5. /\ KeyValue.value \in Window /\ KeyValue.rest \in Window
      /\ Len(KeyValue.value) + Len(KeyValue.rest) < Len(KeyAhead)
  BY <1>2, <1>4, KeyValueShortens DEF KeyValue
<1>6. Len(KeyValue.value) \in Nat /\ Len(KeyValue.rest) \in Nat
  BY <1>5 DEF Window
<1>7. Len(KeyValue.value) + Len(KeyValue.rest) < Len(Top.data)
  <2>1. \A a, b, k, n, m \in Nat : a + b < k /\ k <= n /\ n <= m => a + b < m
    OBVIOUS
  <2> QED
    BY <1>2, <1>3, <1>4, <1>5, <1>6, <2>1
<1>8. Len(KeyValue.rest) < Len(Top.data)
  <2>1. \A a, b, m \in Nat : a + b < m => b < m
    OBVIOUS
  <2> QED
    BY <1>3, <1>6, <1>7, <2>1
<1> QED
  BY <1>3, <1>5, <1>6, <1>7, <1>8

\* The call of a nested object has less in front of it than the value it is
\* made for.
LEMMA CallShape ==
    ASSUME NEW v \in Window, NEW p \in Prefixed, OpensObject(v)
    PROVE  /\ Call(p, v) \in CallType /\ Call(p, v).prefix = p
           /\ Len(Call(p, v).data) \in Nat /\ Len(Call(p, v).data) < Len(v)
<1>1. SkipWS(v) \in Window /\ SkipWS(v) # << >> /\ Len(SkipWS(v)) <= Len(v)
  BY SkipWSShortens DEF OpensObject, Starts
<1>2. Rest(SkipWS(v)) \in Window /\ Len(Rest(SkipWS(v))) = Len(SkipWS(v)) - 1
  BY <1>1, RestShortens
<1>3. Len(v) \in Nat /\ Len(SkipWS(v)) \in Nat /\ Len(Rest(SkipWS(v))) \in Nat
  BY <1>1, <1>2 DEF Window
<1> QED
  BY <1>1, <1>2, <1>3 DEF Call, CallType

\* A second call on top of the first.
LEMMA AppendToOne ==
    ASSUME NEW T, NEW s \in Seq(T), NEW x \in T, Len(s) = 1
    PROVE  /\ Append(s, x) \in Seq(T) /\ Len(Append(s, x)) = 2
           /\ Append(s, x)[1] = s[1] /\ Append(s, x)[2] = x
<1>1. Append(s, x) \in Seq(T)
  OBVIOUS
<1>2. Len(Append(s, x)) = 2
  OBVIOUS
<1>3. Append(s, x)[1] = s[1]
  OBVIOUS
<1>4. Append(s, x)[2] = x
  <2>1. Append(s, x)[Len(s) + 1] = x
    BY AppendProperties
  <2>2. Len(s) + 1 = 2
    OBVIOUS
  <2> QED
    BY <2>1, <2>2, Zenon
<1> QED
  BY <1>1, <1>2, <1>3, <1>4

\* Behind a member the calls are the same, the innermost one with less data.
LEMMA AdvancedShape ==
    ASSUME CallsOK, NEW kind, AtMember(kind)
    PROVE  /\ Advanced \in Seq(CallType) /\ Len(Advanced) = Len(stack)
           /\ \A i \in 1 .. Len(stack) : Advanced[i].prefix = stack[i].prefix
           /\ \A i \in 1 .. Len(stack) :
                Advanced[i].data =
                    IF i = Len(stack) THEN KeyValue.rest ELSE stack[i].data
<1>1. stack \in Seq(CallType) /\ Len(stack) \in {1, 2} /\ Top \in CallType
  BY TopShape DEF CallsOK, AtMember
<1>2. [Top EXCEPT !.data = KeyValue.rest, !.first = FALSE] \in CallType
  BY <1>1, MemberShortens DEF CallType
<1>3. Advanced = [stack EXCEPT ![Len(stack)] =
                     [Top EXCEPT !.data = KeyValue.rest, !.first = FALSE]]
  BY DEF Advanced, Top
<1>4. /\ [Top EXCEPT !.data = KeyValue.rest, !.first = FALSE].data = KeyValue.rest
      /\ [Top EXCEPT !.data = KeyValue.rest, !.first = FALSE].prefix = Top.prefix
  BY <1>1 DEF CallType
<1> HIDE DEF Advanced
<1> QED
  BY <1>1, <1>2, <1>3, <1>4 DEF Top

-----------------------------------------------------------------------------
(***************************************************************************)
(* What each step does to the calls.                                       *)
(***************************************************************************)
Shortened == phase' \in {"accepted", "rejected"} \/ Remaining' < Remaining

\* The parts of Remaining are numbers.
LEMMA UnreadType ==
    CallsOK =>
        /\ Unread(1) \in Nat /\ Unread(2) \in Nat /\ Len(array) \in Nat
        /\ Len(stack) \in Nat
        /\ phase = "object" => array = << >> /\ Remaining = Unread(1) + Unread(2)
<1> SUFFICES ASSUME CallsOK
             PROVE  /\ Unread(1) \in Nat /\ Unread(2) \in Nat
                    /\ Len(array) \in Nat /\ Len(stack) \in Nat
                    /\ phase = "object" =>
                        array = << >> /\ Remaining = Unread(1) + Unread(2)
  OBVIOUS
<1>1. stack \in Seq(CallType) /\ Len(stack) \in Nat /\ array \in Window
  BY DEF CallsOK
<1>2. \A i \in 1 .. Len(stack) : Len(stack[i].data) \in Nat
  BY <1>1 DEF CallType, Window
<1>3. Unread(1) \in Nat /\ Unread(2) \in Nat
  BY <1>1, <1>2 DEF Unread
<1>4. Len(array) \in Nat
  BY <1>1 DEF Window
<1>5. ASSUME phase = "object"
      PROVE  array = << >> /\ Remaining = Unread(1) + Unread(2)
  <2>1. array = << >> /\ Len(array) = 0
    BY <1>5 DEF CallsOK
  <2> QED
    BY <1>3, <1>5, <2>1 DEF Remaining
<1> QED
  BY <1>1, <1>3, <1>4, <1>5

\* And so they are after a step.
LEMMA UnreadTypeNext ==
    (CallsOK =>
        /\ Unread(1) \in Nat /\ Unread(2) \in Nat /\ Len(array) \in Nat
        /\ Len(stack) \in Nat
        /\ phase = "object" => array = << >> /\ Remaining = Unread(1) + Unread(2))'
  BY UnreadType, PTL

\* The parser gives up.
LEMMA RejectShape ==
    ASSUME CallsOK, phase = "object", phase' = "rejected", stack' = << >>,
           UNCHANGED array
    PROVE  CallsOK' /\ Shortened
  BY DEF CallsOK, Shortened, Parsing

\* The innermost call goes on behind a member.
LEMMA AdvanceShape ==
    ASSUME CallsOK, NEW kind, AtMember(kind), stack' = Advanced,
           UNCHANGED <<array, phase>>
    PROVE  CallsOK' /\ Shortened
<1>1. phase = "object" /\ stack # << >> /\ Len(stack) \in {1, 2}
  BY TopShape DEF AtMember, InLoop
<1>2. /\ stack' \in Seq(CallType) /\ Len(stack') = Len(stack)
      /\ \A i \in 1 .. Len(stack) : stack'[i].prefix = stack[i].prefix
      /\ \A i \in 1 .. Len(stack) :
            stack'[i].data =
                IF i = Len(stack) THEN KeyValue.rest ELSE stack[i].data
  BY AdvancedShape
<1>3. CallsOK'
  <2>1. stack' # << >>
    BY <1>1, <1>2
  <2> QED
    BY <1>1, <1>2, <2>1 DEF CallsOK, Parsing
<1>4. Unread(1)' + Unread(2)' < Unread(1) + Unread(2)
  <2>1. /\ Len(KeyValue.rest) \in Nat /\ Len(Top.data) \in Nat
        /\ Len(KeyValue.rest) < Len(Top.data)
    BY MemberShortens
  <2>2. CASE Len(stack) = 1
    <3>1. Unread(1) = Len(Top.data) /\ Unread(2) = 0
      BY <2>2 DEF Unread, Top
    <3>2. Unread(1)' = Len(KeyValue.rest) /\ Unread(2)' = 0
      BY <1>2, <2>2 DEF Unread
    <3> QED
      BY <2>1, <3>1, <3>2
  <2>3. CASE Len(stack) = 2
    <3>1. Unread(2) = Len(Top.data) /\ Unread(1) \in Nat
      BY <2>3, UnreadType DEF Unread, Top
    <3>2. Unread(2)' = Len(KeyValue.rest) /\ Unread(1)' = Unread(1)
      BY <1>2, <2>3 DEF Unread
    <3> QED
      BY <2>1, <3>1, <3>2
  <2> QED
    BY <1>1, <2>2, <2>3
<1>5. Remaining = Unread(1) + Unread(2)
  BY <1>1, UnreadType
<1>6. Remaining' = Unread(1)' + Unread(2)'
  <2>1. CallsOK' /\ phase' = "object"
    BY <1>1, <1>3
  <2>2. (CallsOK /\ phase = "object" => Remaining = Unread(1) + Unread(2))'
    BY UnreadTypeNext
  <2> QED
    BY <2>1, <2>2
<1> QED
  BY <1>3, <1>4, <1>5, <1>6 DEF Shortened

\* The parser goes into a nested object.
LEMMA DescendShape ==
    ASSUME CallsOK, NEW kind \in {"object", "pointer"}, AtMember(kind),
           OpensObject(KeyValue.value),
           stack' = Append(Advanced, Call(KeyValue.key[1], KeyValue.value)),
           UNCHANGED <<array, phase>>
    PROVE  CallsOK' /\ Shortened
<1> DEFINE c == Call(KeyValue.key[1], KeyValue.value)
<1>1. /\ phase = "object" /\ stack \in Seq(CallType) /\ Len(stack) \in {1, 2}
      /\ stack # << >> /\ Top \in CallType
  BY TopShape DEF AtMember, InLoop, CallsOK
<1>2. KindOf(Top.prefix, KeyValue.key) \in {"object", "pointer"}
  BY DEF AtMember
<1>3. Top.prefix = "top" /\ KeyValue.key[1] \in Prefixed \ {"top"}
  BY <1>1, <1>2, NestedKinds DEF CallType
<1>4. Len(stack) = 1
  <2>1. \A n \in {1, 2} : n \in 1 .. n
    OBVIOUS
  <2>2. stack[Len(stack)].prefix = "top" /\ Len(stack) \in 1 .. Len(stack)
    BY <1>1, <1>3, <2>1 DEF Top
  <2> QED
    BY <2>2 DEF CallsOK
<1>5. /\ c \in CallType /\ c.prefix # "top"
      /\ Len(c.data) \in Nat /\ Len(c.data) < Len(KeyValue.value)
  <2>1. KeyValue.value \in Window
    BY MemberShortens
  <2>2. c.prefix = KeyValue.key[1] /\ KeyValue.key[1] \in Prefixed
    BY <1>3, <2>1, CallShape
  <2> QED
    BY <1>3, <2>1, <2>2, CallShape
<1> HIDE DEF c
<1>6. /\ Advanced \in Seq(CallType) /\ Len(Advanced) = 1
      /\ Advanced[1].prefix = "top" /\ Advanced[1].data = KeyValue.rest
  <2>1. Len(Advanced) = Len(stack) /\ 1 \in 1 .. Len(stack)
    BY <1>4, AdvancedShape
  <2> QED
    BY <1>3, <1>4, <2>1, AdvancedShape DEF Top
<1>7. /\ stack' \in Seq(CallType) /\ Len(stack') = 2
      /\ stack'[1] = Advanced[1] /\ stack'[2] = c
  <2>1. stack' = Append(Advanced, c) /\ c \in CallType
    BY <1>5 DEF c
  <2> QED
    BY <1>6, <2>1, AppendToOne
<1>8. CallsOK'
  <2>1. stack' # << >>
    BY <1>7
  <2>2. \A i \in 1 .. Len(stack') : stack'[i].prefix = "top" <=> i = 1
    BY <1>5, <1>6, <1>7
  <2> QED
    BY <1>1, <1>7, <2>1, <2>2 DEF CallsOK, Parsing
<1>9. Remaining = Len(Top.data)
  <2>1. Unread(1) = Len(Top.data) /\ Unread(2) = 0
    BY <1>4 DEF Unread, Top
  <2>2. Len(Top.data) \in Nat /\ Remaining = Unread(1) + Unread(2)
    BY <1>1, UnreadType, MemberShortens
  <2> QED
    BY <2>1, <2>2
<1>10. Remaining' = Len(KeyValue.rest) + Len(c.data)
  <2>1. Unread(1)' = Len(KeyValue.rest) /\ Unread(2)' = Len(c.data)
    BY <1>6, <1>7 DEF Unread
  <2>2. Remaining' = Unread(1)' + Unread(2)'
    BY <1>1, <1>8, UnreadTypeNext
  <2> QED
    BY <2>1, <2>2
<1>11. Len(KeyValue.rest) + Len(c.data) < Len(Top.data)
  <2>1. \A a, b, d, m \in Nat : a + b < m /\ d < a => b + d < m
    OBVIOUS
  <2> QED
    BY <1>5, <2>1, MemberShortens
<1> QED
  BY <1>8, <1>9, <1>10, <1>11 DEF Shortened

\* The parser goes into an array.
LEMMA ArrayShape ==
    ASSUME CallsOK, NEW kind, AtMember(kind), stack' = Advanced,
           phase' = "array",
           NEW data, data = SkipWS(KeyValue.value), Len(data) >= 2,
           array' = Inner(data)
    PROVE  CallsOK' /\ Shortened
<1>1. phase = "object" /\ stack # << >> /\ Len(stack) \in {1, 2}
  BY TopShape DEF AtMember, InLoop
<1>2. /\ stack' \in Seq(CallType) /\ Len(stack') = Len(stack)
      /\ \A i \in 1 .. Len(stack) : stack'[i].prefix = stack[i].prefix
      /\ \A i \in 1 .. Len(stack) :
            stack'[i].data =
                IF i = Len(stack) THEN KeyValue.rest ELSE stack[i].data
  BY AdvancedShape
<1>3. array' \in Window /\ Len(array') \in Nat /\ Len(array') + 1 < Len(KeyValue.value)
  <2>1. data \in Window /\ Len(data) <= Len(KeyValue.value)
    BY MemberShortens, SkipWSShortens
  <2>2. array' \in Window /\ Len(array') = Len(data) - 2
    BY <2>1, InnerShortens
  <2>3. Len(data) \in Nat /\ Len(array') \in Nat
    BY <2>1, <2>2 DEF Window
  <2>4. Len(KeyValue.value) \in Nat
    BY MemberShortens
  <2>5. \A a, d, v \in Nat : a = d - 2 /\ d <= v => a + 1 < v
    OBVIOUS
  <2> QED
    BY <2>1, <2>2, <2>3, <2>4, <2>5
<1>4. CallsOK'
  <2>1. stack' # << >>
    BY <1>1, <1>2
  <2> QED
    BY <1>1, <1>2, <1>3, <2>1 DEF CallsOK, Parsing
<1>5. Remaining = Unread(1) + Unread(2)
  BY <1>1, UnreadType
<1>6. Remaining' = Unread(1)' + Unread(2)' + Len(array') + 1
  BY DEF Remaining
<1>7. /\ Len(KeyValue.rest) \in Nat /\ Len(Top.data) \in Nat
      /\ Len(KeyValue.rest) + Len(array') + 1 < Len(Top.data)
  <2>1. \A a, r, v, m \in Nat : v + r < m /\ a + 1 < v => r + a + 1 < m
    OBVIOUS
  <2> QED
    BY <1>3, <2>1, MemberShortens
<1>8. CASE Len(stack) = 1
  <2>1. Unread(1) = Len(Top.data) /\ Unread(2) = 0
    BY <1>8 DEF Unread, Top
  <2>2. Unread(1)' = Len(KeyValue.rest) /\ Unread(2)' = 0
    BY <1>2, <1>8 DEF Unread
  <2>3. \A r, a, m \in Nat : r + a + 1 < m => r + 0 + a + 1 < m + 0
    OBVIOUS
  <2> QED
    BY <1>3, <1>4, <1>5, <1>6, <1>7, <2>1, <2>2, <2>3 DEF Shortened
<1>9. CASE Len(stack) = 2
  <2>1. Unread(2) = Len(Top.data) /\ Unread(1) \in Nat
    BY <1>9, UnreadType DEF Unread, Top
  <2>2. Unread(2)' = Len(KeyValue.rest) /\ Unread(1)' = Unread(1)
    BY <1>2, <1>9 DEF Unread
  <2>3. \A u, r, a, m \in Nat : r + a + 1 < m => u + r + a + 1 < u + m
    OBVIOUS
  <2> QED
    BY <1>3, <1>4, <1>5, <1>6, <1>7, <2>1, <2>2, <2>3 DEF Shortened
<1> QED
  BY <1>1, <1>8, <1>9

\* What a round of the loop over an array looks at.
LEMMA ElementInside ==
    ASSUME array \in Window
    PROVE  /\ Element \in Window /\ Len(Element) \in Nat
           /\ Element = array \/ Len(Element) < Len(array)
<1>0. array \in Window /\ Len(array) \in Nat
  BY DEF Window
<1>1. /\ SkipWS(array) \in Window /\ Len(SkipWS(array)) \in Nat
      /\ SkipWS(array) = array \/ Len(SkipWS(array)) < Len(array)
  <2>1. SkipWS(array) \in Window
    BY <1>0, SkipWSShortens
  <2>2. Len(SkipWS(array)) \in Nat
    BY <2>1 DEF Window
  <2> QED
    BY <1>0, <2>1, <2>2, SkipWSShortens
<1>2. CASE Starts(SkipWS(array), ",")
  <2>1. SkipWS(array) # << >>
    BY <1>2 DEF Starts
  <2>2. /\ Rest(SkipWS(array)) \in Window
        /\ Len(Rest(SkipWS(array))) = Len(SkipWS(array)) - 1
    BY <1>1, <2>1, RestShortens
  <2>3. /\ Element = SkipWS(Rest(SkipWS(array))) /\ Element \in Window
        /\ Len(Element) <= Len(Rest(SkipWS(array)))
    BY <1>2, <2>2, SkipWSShortens DEF Element
  <2>4. Len(Element) \in Nat
    BY <2>3 DEF Window
  <2>5. \A a, s, e \in Nat : e <= s - 1 /\ s <= a => e < a
    OBVIOUS
  <2>6. Len(SkipWS(array)) <= Len(array)
    BY <1>0, SkipWSShortens
  <2> QED
    BY <1>0, <1>1, <2>2, <2>3, <2>4, <2>5, <2>6
<1>3. CASE ~ Starts(SkipWS(array), ",")
  BY <1>1, <1>3 DEF Element
<1> QED
  BY <1>2, <1>3

\* One round of the loop over an array.
LEMMA ElementShape ==
    ASSUME CallsOK, TakeElement
    PROVE  CallsOK' /\ (Shortened \/ UNCHANGED vars)
<1> DEFINE end == FindValueEnd(Element)
           value == SubSeq(Element, 1, end)
<1>0. /\ phase = "array" /\ Element # << >> /\ phase' = phase /\ stack' = stack
      /\ array \in Window /\ Len(array) \in Nat
      /\ UNCHANGED <<body, rest>>
  BY UnreadType DEF TakeElement, CallsOK
<1>1. /\ Element \in Window /\ Len(Element) \in Nat
      /\ Element = array \/ Len(Element) < Len(array)
  BY <1>0, ElementInside
<1>2. end \in 0 .. Len(Element)
  BY <1>1, ValueEndInside
<1>3. array' = From(Element, end + 1)
      /\ request' = IF IsQuoted(value)
                    THEN [request EXCEPT !.customer.known_merchants =
                                            Append(@, Inner(value))]
                    ELSE request
  BY DEF TakeElement
<1> HIDE DEF end
<1>4. /\ array' \in Window /\ Len(array') = Len(Element) - end
      /\ end = 0 => array' = Element
  <2>1. end + 1 \in 1 .. Len(Element) + 1
    BY <1>1, <1>2
  <2>2. Len(array') = Len(Element) + 1 - (end + 1)
    BY <1>1, <1>3, <2>1, FromWindow
  <2>3. end = 0 => end + 1 = 1
    OBVIOUS
  <2> QED
    BY <1>1, <1>2, <1>3, <2>1, <2>2, <2>3, FromWindow
<1>5. CallsOK'
  BY <1>0, <1>4 DEF CallsOK, Parsing
<1>6. Len(array') < Len(array) => Shortened
  <2>1. /\ Remaining = Unread(1) + Unread(2) + Len(array) + 1
        /\ Remaining' = Unread(1) + Unread(2) + Len(array') + 1
    BY <1>0 DEF Remaining, Unread
  <2>2. Unread(1) \in Nat /\ Unread(2) \in Nat /\ Len(array') \in Nat
    BY <1>5, UnreadType, UnreadTypeNext
  <2>3. \A u, v, a, b \in Nat : b < a => u + v + b + 1 < u + v + a + 1
    OBVIOUS
  <2> QED
    BY <1>0, <2>1, <2>2, <2>3 DEF Shortened
<1>7. CASE end = 0 /\ Element = array
  <2>1. array' = array
    BY <1>4, <1>7
  <2>2. ~ IsQuoted(value)
    <3>1. value = << >> /\ Len(value) = 0
      BY <1>7 DEF value
    <3> HIDE DEF value
    <3> QED
      BY <3>1 DEF IsQuoted
  <2> QED
    BY <1>0, <1>3, <1>5, <2>1, <2>2 DEF vars
<1>8. CASE end # 0 \/ Element # array
  <2>1. \A a, e, n \in Nat : (e = a \/ e < a) /\ n <= e /\ (n # 0 \/ e < a) => e - n < a
    OBVIOUS
  <2>2. end \in Nat /\ end <= Len(Element)
    BY <1>1, <1>2
  <2>3. Len(array') < Len(array)
    BY <1>0, <1>1, <1>4, <1>8, <2>1, <2>2
  <2> QED
    BY <1>5, <1>6, <2>3
<1> QED
  BY <1>7, <1>8

\* The other steps of the parser end a loop.
LEMMA LeaveShape ==
    ASSUME CallsOK, LeaveArray \/ LeaveObject \/ Finish
    PROVE  CallsOK' /\ Shortened
<1>1. CASE LeaveArray
  <2>1. /\ phase = "array" /\ phase' = "object" /\ array' = << >>
        /\ stack' = stack
    BY <1>1 DEF LeaveArray
  <2>2. << >> \in Window /\ Len(<< >>) = 0
    BY DEF Window
  <2>3. CallsOK'
    BY <2>1, <2>2 DEF CallsOK, Parsing
  <2>4. /\ Remaining = Unread(1) + Unread(2) + Len(array) + 1
        /\ Remaining' = Unread(1) + Unread(2) + 0 + 0
    BY <2>1, <2>2 DEF Remaining, Unread
  <2>5. \A u, v, a \in Nat : u + v + 0 + 0 < u + v + a + 1
    OBVIOUS
  <2> QED
    BY <2>3, <2>4, <2>5, UnreadType DEF Shortened
<1>2. CASE LeaveObject
  <2>1. /\ phase = "object" /\ phase' = phase /\ array' = array
        /\ stack' = Front(stack) /\ stack \in Seq(CallType) /\ Len(stack) = 2
    <3>1. Len(stack) > 1 /\ Len(stack) \in {1, 2}
      BY <1>2, TopShape DEF LeaveObject
    <3>2. Len(stack) = 2
      BY <3>1
    <3>3. /\ phase = "object" /\ phase' = phase /\ array' = array
          /\ stack' = Front(stack)
      BY <1>2 DEF LeaveObject, AtBrace
    <3> QED
      BY <3>2, <3>3 DEF CallsOK
  <2>2. stack' \in Seq(CallType) /\ Len(stack') = 1 /\ stack'[1] = stack[1]
    BY <2>1 DEF Front
  <2>3. CallsOK'
    <3>1. stack' # << >>
      BY <2>2
    <3>2. stack'[1].prefix = "top"
      BY <2>1, <2>2 DEF CallsOK
    <3> QED
      BY <2>1, <2>2, <3>1, <3>2 DEF CallsOK, Parsing
  <2>4. Len(Top.data) \in Nat /\ Len(Top.data) > 0
    <3>1. /\ Ahead \in Window /\ Ahead # << >> /\ Len(Ahead) <= Len(Top.data)
          /\ Top.data \in Window
      BY <1>2, TopShape DEF LeaveObject, AtBrace, Starts
    <3>2. Len(Ahead) \in Nat /\ Len(Ahead) # 0 /\ Len(Top.data) \in Nat
      BY <3>1 DEF Window
    <3> QED
      BY <3>1, <3>2
  <2>5. Unread(2) = Len(Top.data) /\ Unread(2)' = 0 /\ Unread(1)' = Unread(1)
    BY <2>1, <2>2 DEF Unread, Top
  <2>6. /\ Remaining = Unread(1) + Unread(2)
        /\ Remaining' = Unread(1)' + Unread(2)' /\ Unread(1) \in Nat
    BY <2>1, <2>3, UnreadType, UnreadTypeNext
  <2> QED
    BY <2>3, <2>4, <2>5, <2>6 DEF Shortened
<1>3. CASE Finish
  <2>1. /\ phase = "object" /\ phase' \in {"accepted", "rejected"}
        /\ stack' = << >> /\ array' = array
    BY <1>3 DEF Finish, AtBrace
  <2> QED
    BY <2>1 DEF CallsOK, Parsing, Shortened
<1> QED
  BY <1>1, <1>2, <1>3

\* Steps that end parsing, or take a member.
LEMMA MemberStepShape ==
    ASSUME CallsOK,
           \/ RejectMalformed \/ TakeString \/ TakeFloat \/ TakeInt \/ TakeBool
           \/ TakeTimestamp \/ SkipMember
    PROVE  CallsOK' /\ Shortened
<1>1. ASSUME InLoop, Reject PROVE CallsOK' /\ Shortened
  BY <1>1, RejectShape DEF Reject, InLoop
<1>2. ASSUME NEW kind, AtMember(kind), NEW v, Assign(v) PROVE CallsOK' /\ Shortened
  BY <1>2, AdvanceShape DEF Assign
<1>3. CASE RejectMalformed
  BY <1>1, <1>3 DEF RejectMalformed
<1>4. CASE TakeString
  BY <1>2, <1>4 DEF TakeString
<1>5. CASE TakeFloat
  BY <1>2, <1>5 DEF TakeFloat
<1>6. CASE TakeInt
  BY <1>2, <1>6 DEF TakeInt
<1>7. CASE TakeBool
  BY <1>2, <1>7 DEF TakeBool
<1>8. CASE TakeTimestamp
  <2>1. AtMember("timestamp") /\ InLoop
    BY <1>8 DEF TakeTimestamp, AtMember
  <2>2. Assign(ParseTimestamp(KeyValue.value)) \/ Reject
    BY <1>8 DEF TakeTimestamp
  <2> QED
    BY <1>1, <1>2, <2>1, <2>2
<1>9. CASE SkipMember
  BY <1>9, AdvanceShape DEF SkipMember
<1> QED
  BY <1>3, <1>4, <1>5, <1>6, <1>7, <1>8, <1>9

\* Steps that go into the value of a member.
LEMMA EnterShape ==
    ASSUME CallsOK, EnterObject \/ TakeLast \/ EnterArray
    PROVE  CallsOK' /\ Shortened
<1>1. ASSUME NEW kind \in {"object", "pointer"}, AtMember(kind),
             NEW r, Descend(r)
      PROVE  CallsOK' /\ Shortened
  <2>1. CASE OpensObject(KeyValue.value)
    <3>1. /\ stack' = Append(Advanced, Call(KeyValue.key[1], KeyValue.value))
          /\ UNCHANGED <<array, phase>>
      BY <1>1, <2>1 DEF Descend
    <3> QED
      BY <1>1, <2>1, <3>1, DescendShape
  <2>2. CASE ~ OpensObject(KeyValue.value)
    <3>1. phase' = "rejected" /\ stack' = << >> /\ UNCHANGED array
      BY <1>1, <2>2 DEF Descend
    <3>2. phase = "object"
      BY <1>1 DEF AtMember, InLoop
    <3> QED
      BY <3>1, <3>2, RejectShape
  <2> QED
    BY <2>1, <2>2
<1>2. CASE EnterObject
  BY <1>1, <1>2 DEF EnterObject
<1>3. CASE TakeLast
  <2>1. AtMember("pointer")
    BY <1>3 DEF TakeLast
  <2>2. CASE KeyValue.value = <<"null">>
    <3>1. stack' = Advanced /\ UNCHANGED <<array, phase>>
      BY <1>3, <2>2 DEF TakeLast
    <3> QED
      BY <2>1, <3>1, AdvanceShape
  <2>3. CASE KeyValue.value # <<"null">>
    <3>1. PICK r : Descend(r)
      BY <1>3, <2>3 DEF TakeLast
    <3> QED
      BY <1>1, <2>1, <3>1
  <2> QED
    BY <2>2, <2>3
<1>4. CASE EnterArray
  <2> DEFINE data == SkipWS(KeyValue.value)
  <2>1. AtMember("array") /\ phase = "object"
    BY <1>4 DEF EnterArray, AtMember, InLoop
  <2>2. \/ /\ Len(data) >= 2 /\ phase' = "array"
           /\ array' = Inner(data) /\ stack' = Advanced
        \/ Reject
    BY <1>4 DEF EnterArray
  <2>3. CASE Reject
    BY <2>1, <2>3, RejectShape DEF Reject
  <2>4. CASE /\ Len(data) >= 2 /\ phase' = "array"
             /\ array' = Inner(data) /\ stack' = Advanced
    BY <2>1, <2>4, ArrayShape
  <2> QED
    BY <2>2, <2>3, <2>4
<1> QED
  BY <1>2, <1>3, <1>4

-----------------------------------------------------------------------------
(***************************************************************************)
(* The results.                                                            *)
(***************************************************************************)
\* Every step of the parser.
LEMMA ParserStepShape ==
    ASSUME CallsOK, ParserStep
    PROVE  CallsOK' /\ (Shortened \/ UNCHANGED vars)
  BY MemberStepShape, EnterShape, ElementShape, LeaveShape DEF ParserStep

\* A body is handed over to a call of its own.
LEMMA BeginShape ==
    ASSUME CallsOK, NEW b \in Bodies, Begin(b)
    PROVE  CallsOK'
<1> DEFINE data == SkipWS(b)
           end == FindValueEnd(data)
           object == SubSeq(data, 1, end)
<1>1. phase = "pooled" /\ stack = << >> /\ array = << >> /\ array' = array
  BY DEF Begin, CallsOK, Parsing
<1>2. CASE OpensObject(b) /\ end > 0
  <2>1. b \in Window /\ data \in Window
    BY ParserAssumption, SkipWSShortens DEF Window
  <2>2. end \in 0 .. Len(data) /\ Len(data) \in Nat
    BY <2>1, ValueEndInside DEF Window
  <2>3. phase' = "object" /\ stack' = <<Call("top", object)>>
    BY <1>2 DEF Begin
  <2>4. object \in Window
    BY <2>1, <2>2 DEF Window
  <2> HIDE DEF object
  <2>5. Rest(SkipWS(object)) \in Window
    <3>1. SkipWS(object) \in Window
      BY <2>4, SkipWSShortens
    <3>2. CASE SkipWS(object) # << >>
      BY <3>1, <3>2, RestShortens
    <3>3. CASE SkipWS(object) = << >>
      BY <3>3 DEF Rest, From, Window
    <3> QED
      BY <3>2, <3>3
  <2>6. Call("top", object) \in CallType /\ Call("top", object).prefix = "top"
    BY <2>5 DEF Call, CallType, Prefixed, Members
  <2>7. /\ stack' \in Seq(CallType) /\ stack' # << >> /\ Len(stack') = 1
        /\ stack'[1].prefix = "top"
    BY <2>3, <2>6
  <2> QED
    BY <1>1, <2>3, <2>7 DEF CallsOK, Parsing
<1>3. CASE ~ (OpensObject(b) /\ end > 0)
  <2>1. phase' = "rejected" /\ stack' = stack
    BY <1>3 DEF Begin
  <2> QED
    BY <1>1, <2>1 DEF CallsOK, Parsing
<1> QED
  BY <1>2, <1>3

\* The calls have this shape at every moment (parser.go:36-160, 251-281).
THEOREM CallsKeepShape == Spec => []CallsOK
<1>1. Init => CallsOK
  BY DEF Init, CallsOK, Parsing, Window
<1>2. CallsOK /\ [Next]_vars => CallsOK'
  <2> SUFFICES ASSUME CallsOK, [Next]_vars PROVE CallsOK'
    OBVIOUS
  <2>1. CASE ParserStep
    BY <2>1, ParserStepShape
  <2>2. CASE PutBack
    BY <2>2 DEF PutBack, CallsOK, Parsing
  <2>3. ASSUME NEW b \in Bodies, Begin(b) PROVE CallsOK'
    BY <2>3, BeginShape
  <2>4. CASE UNCHANGED vars
    BY <2>4 DEF vars, CallsOK, Parsing
  <2> QED
    BY <2>1, <2>2, <2>3, <2>4 DEF Next
<1> QED
  BY <1>1, <1>2, PTL DEF Spec

\* Whatever is handed to the parser, each of its steps that changes anything
\* leaves it less to look at, or ends it (parser.go:36-187, 251-281).
THEOREM ParserShortens == Spec => StepsShorten
<1>1. CallsOK /\ [Next]_vars =>
        [Parsing => phase' \in {"accepted", "rejected"} \/ Remaining' < Remaining]_vars
  <2> SUFFICES ASSUME CallsOK, Next, Parsing
               PROVE  Shortened \/ UNCHANGED vars
    BY DEF Shortened
  <2>1. ParserStep
    BY DEF Next, Begin, PutBack, Parsing
  <2> QED
    BY <2>1, ParserStepShape
<1> QED
  BY <1>1, CallsKeepShape, PTL DEF Spec, StepsShorten

-----------------------------------------------------------------------------
(***************************************************************************)
(* Values.                                                                 *)
(***************************************************************************)
\* What holds of the first value of a loop and is kept by each round holds of
\* every value.
LEMMA LoopKeeps ==
    ASSUME NEW n \in Nat, NEW f, NEW T, f[0] \in T,
           \A i \in 1 .. n : f[i - 1] \in T => f[i] \in T
    PROVE  \A i \in 0 .. n : f[i] \in T
<1> DEFINE Bad == {i \in 0 .. n : f[i] \notin T}
<1>1. SUFFICES ASSUME Bad # {} PROVE FALSE
  OBVIOUS
<1>2. PICK k \in Bad : \A m \in Bad : k <= m
  <2>1. Bad \in SUBSET Nat
    OBVIOUS
  <2> HIDE DEF Bad
  <2> QED BY <1>1, <2>1, LeastExists
<1>3. k # 0 /\ k \in 0 .. n /\ f[k] \notin T
  BY <1>2
<1>4. k - 1 \in 0 .. n /\ ~ (k <= k - 1) /\ k \in 1 .. n
  BY <1>3
<1>5. f[k - 1] \in T
  <2>1. k - 1 \notin Bad
    BY <1>2, <1>4
  <2> QED BY <1>4, <2>1
<1> QED BY <1>3, <1>4, <1>5

\* The values of a loop over 1 .. m.
IsLoop(f, m, T, base, step) ==
    /\ f \in [0 .. m -> T]
    /\ f[0] = base
    /\ \A i \in 1 .. m : f[i] = step[<<i, f[i - 1]>>]

\* A loop whose rounds are given by a function has a value for every round.
LEMMA LoopEnds ==
    ASSUME NEW n \in Nat, NEW T, NEW base \in T, NEW step \in [(1 .. n) \X T -> T]
    PROVE  \E f : IsLoop(f, n, T, base, step)
<1> DEFINE Is(f, m) == IsLoop(f, m, T, base, step)
           Bad == {m \in 0 .. n : ~ \E f : Is(f, m)}
<1> USE DEF IsLoop
<1>1. ASSUME Bad # {} PROVE FALSE
  <2>1. PICK k \in Bad : \A m \in Bad : k <= m
    <3>1. Bad \in SUBSET Nat
      OBVIOUS
    <3> HIDE DEF Bad
    <3> QED BY <1>1, <3>1, LeastExists
  <2>2. k # 0
    <3>1. Is([i \in 0 .. 0 |-> base], 0)
      OBVIOUS
    <3> QED BY <2>1, <3>1
  <2>3. /\ k \in 1 .. n /\ k - 1 \in 0 .. n /\ ~ (k <= k - 1)
        /\ ~ \E f : Is(f, k)
    BY <2>1, <2>2
  <2>4. PICK g : Is(g, k - 1)
    <3>1. k - 1 \notin Bad
      BY <2>1, <2>3
    <3> HIDE DEF Is
    <3> QED BY <2>3, <3>1
  <2> DEFINE f == [i \in 0 .. k |-> IF i = k THEN step[<<k, g[k - 1]>>] ELSE g[i]]
  <2>5. step[<<k, g[k - 1]>>] \in T
    <3>1. g[k - 1] \in T
      BY <2>3, <2>4
    <3> QED BY <2>3, <3>1
  <2>6. f \in [0 .. k -> T] /\ f[0] = base
    BY <2>3, <2>4, <2>5
  <2>7. ASSUME NEW i \in 1 .. k PROVE f[i] = step[<<i, f[i - 1]>>]
    <3>1. CASE i = k
      <4>1. k - 1 \in 0 .. k /\ k - 1 # k /\ f[k - 1] = g[k - 1]
        BY <2>3
      <4>2. f[k] = step[<<k, g[k - 1]>>]
        BY <2>3
      <4> QED BY <3>1, <4>1, <4>2
    <3>2. CASE i # k
      <4>1. i \in 1 .. k - 1 /\ i - 1 \in 0 .. k /\ i - 1 # k
        BY <2>3, <3>2
      <4>2. f[i] = g[i] /\ f[i - 1] = g[i - 1]
        BY <3>2, <4>1
      <4>3. g[i] = step[<<i, g[i - 1]>>]
        BY <2>4, <4>1
      <4> QED BY <4>2, <4>3
    <3> QED BY <3>1, <3>2
  <2>8. Is(f, k)
    BY <2>6, <2>7
  <2> QED BY <2>3, <2>8
<1>2. n \notin Bad /\ n \in 0 .. n
  BY <1>1
<1>3. \E f : Is(f, n)
  BY <1>2
<1> QED BY <1>3

\* A number in two's complement is a number.
LEMMA SignedType ==
    ASSUME NEW n \in Int, NEW w \in Nat, w > 1
    PROVE  Signed(n, w) \in Int
<1>1. w \div 2 \in Int
  OBVIOUS
<1>2. \A a \in Int : a % w \in Int
  OBVIOUS
<1> QED BY <1>1, <1>2 DEF Signed

\* The value of a digit.
LEMMA DigitType ==
    ASSUME NEW c, IsDigit(c)
    PROVE  DigitValue(c) \in Int
<1> DEFINE n == CHOOSE n \in 1 .. 10 : Digits[n] = c
<1>1. n \in 1 .. 10
  BY DEF IsDigit
<1>2. DigitValue(c) = n - 1
  BY DEF DigitValue
<1> HIDE DEF n
<1> QED BY <1>1, <1>2

\* fastParseInt yields a number for all bytes.
LEMMA IntRead ==
    ASSUME NEW b \in Window
    PROVE  FastParseInt(b) \in Int
<1> DEFINE n == Len(b)
           Round(i, x) == IF IsDigit(b[i])
                          THEN Signed(10 * x + DigitValue(b[i]), Word)
                          ELSE x
           step == [p \in (1 .. n) \X Int |-> Round(p[1], p[2])]
           IsVal(f) == f = [i \in 0 .. n |-> IF i = 0 THEN 0
                                ELSE IF IsDigit(b[i])
                                THEN Signed(10 * f[i - 1] + DigitValue(b[i]), Word)
                                ELSE f[i - 1]]
           val == CHOOSE f : IsVal(f)
<1>1. n \in Nat
  BY DEF Window
<1>2. \A i \in 1 .. n : \A x \in Int : Round(i, x) \in Int
  <2>1. Word \in Nat /\ Word > 1
    BY WidthAssumption
  <2>2. ASSUME NEW i \in 1 .. n, NEW x \in Int, IsDigit(b[i])
        PROVE  Signed(10 * x + DigitValue(b[i]), Word) \in Int
    <3>1. 10 * x + DigitValue(b[i]) \in Int
      BY <2>2, DigitType
    <3> QED BY <2>1, <3>1, SignedType
  <2> QED BY <2>2
<1>3. step \in [(1 .. n) \X Int -> Int]
  BY <1>2
<1>4. PICK f : IsLoop(f, n, Int, 0, step)
  <2> DEFINE T == Int
             base == 0
  <2>1. base \in T /\ step \in [(1 .. n) \X T -> T]
    BY <1>3
  <2>2. \E f : IsLoop(f, n, T, base, step)
    <3> HIDE DEF step, n, T, base
    <3> QED BY <1>1, <2>1, LoopEnds
  <2> HIDE DEF step, n
  <2> QED BY <2>2
<1>5. IsVal(f)
  <2>1. ASSUME NEW i \in 1 .. n PROVE f[i] = Round(i, f[i - 1])
    <3>1. i - 1 \in 0 .. n
      BY <1>1
    <3>2. <<i, f[i - 1]>> \in (1 .. n) \X Int
      BY <1>4, <3>1 DEF IsLoop
    <3> HIDE DEF Round
    <3> QED BY <1>4, <3>2 DEF IsLoop
  <2>2. \A i \in 0 .. n : i # 0 => i \in 1 .. n
    BY <1>1
  <2> HIDE DEF n
  <2> QED BY <1>4, <2>1, <2>2 DEF IsLoop
<1>6. IsVal(val)
  <2> HIDE DEF IsVal
  <2> QED BY <1>5
<1>7. val[0] \in Int /\ \A i \in 1 .. n : val[i - 1] \in Int => val[i] \in Int
  <2>1. \A i \in 0 .. n : val[i] = IF i = 0 THEN 0 ELSE Round(i, val[i - 1])
    <3> HIDE DEF val, n
    <3> QED BY <1>6
  <2>2. 0 \in 0 .. n /\ \A i \in 1 .. n : i \in 0 .. n /\ i # 0
    BY <1>1
  <2> HIDE DEF val, n, Round
  <2> QED BY <1>2, <2>1, <2>2
<1>8. val[n] \in Int
  <2> DEFINE T == Int
  <2>1. val[0] \in T /\ \A i \in 1 .. n : val[i - 1] \in T => val[i] \in T
    BY <1>7
  <2>2. n \in 0 .. n
    BY <1>1
  <2>3. val[n] \in T
    <3> HIDE DEF val, n, T
    <3> QED BY <1>1, <2>1, <2>2, LoopKeeps
  <2> QED BY <2>3
<1> QED BY <1>8 DEF FastParseInt

\* Powers of ten are positive.
LEMMA TenToType ==
    ASSUME NEW n \in Nat
    PROVE  TenTo(n) \in Nat \ {0}
<1> DEFINE T == Nat \ {0}
           step == [p \in (1 .. n) \X T |-> 10 * p[2]]
           IsPower(f) == f = [i \in 0 .. n |-> IF i = 0 THEN 1 ELSE 10 * f[i - 1]]
           power == CHOOSE f : IsPower(f)
<1>1. step \in [(1 .. n) \X T -> T]
  OBVIOUS
<1>2. PICK f : IsLoop(f, n, T, 1, step)
  <2> DEFINE base == 1
  <2>1. base \in T
    OBVIOUS
  <2>2. \E f : IsLoop(f, n, T, base, step)
    <3> HIDE DEF step, T, base
    <3> QED BY <1>1, <2>1, LoopEnds
  <2> HIDE DEF step, T
  <2> QED BY <2>2
<1>3. IsPower(f)
  <2>1. ASSUME NEW i \in 1 .. n PROVE f[i] = 10 * f[i - 1]
    <3>1. <<i, f[i - 1]>> \in (1 .. n) \X T
      BY <1>2 DEF IsLoop
    <3> QED BY <1>2, <3>1 DEF IsLoop
  <2>2. \A i \in 0 .. n : i # 0 => i \in 1 .. n
    OBVIOUS
  <2> HIDE DEF T
  <2> QED BY <1>2, <2>1, <2>2 DEF IsLoop
<1>4. IsPower(power)
  <2> HIDE DEF IsPower
  <2> QED BY <1>3
<1>5. power[0] \in T /\ \A i \in 1 .. n : power[i - 1] \in T => power[i] \in T
  <2>1. \A i \in 0 .. n : power[i] = IF i = 0 THEN 1 ELSE 10 * power[i - 1]
    <3> HIDE DEF power
    <3> QED BY <1>4
  <2> HIDE DEF power
  <2> QED BY <2>1
<1>6. power[n] \in T
  <2> HIDE DEF power, T
  <2> QED BY <1>5, LoopKeeps
<1> QED BY <1>6 DEF TenTo

\* The position of the last point.
LEMMA DecimalsType ==
    ASSUME NEW b \in Window
    PROVE  Decimals(b) \in Nat
<1> DEFINE dots == {i \in 1 .. Len(b) : b[i] = "."}
<1>1. Len(b) \in Nat
  BY DEF Window
<1>2. CASE dots = {}
  BY <1>2 DEF Decimals
<1>3. CASE dots # {}
  <2> DEFINE down == {Len(b) - i : i \in dots}
  <2>1. down \in SUBSET Nat /\ down # {}
    BY <1>1, <1>3
  <2>2. PICK d \in down : \A e \in down : d <= e
    <3> HIDE DEF down
    <3> QED BY <2>1, LeastExists
  <2>3. PICK i \in dots : d = Len(b) - i
    BY <2>2
  <2>4. ASSUME NEW j \in dots PROVE i >= j
    <3>1. Len(b) - j \in down
      OBVIOUS
    <3>2. d <= Len(b) - j
      BY <2>2, <3>1
    <3> HIDE DEF down
    <3> QED BY <1>1, <2>3, <3>2
  <2>5. Max(dots) \in dots
    <3> HIDE DEF dots
    <3> QED BY <2>3, <2>4 DEF Max
  <2>6. Decimals(b) = Len(b) - Max(dots)
    BY <1>3 DEF Decimals
  <2>7. \A j \in dots : Len(b) - j \in Nat
    BY <1>1
  <2> HIDE DEF dots
  <2> QED BY <2>5, <2>6, <2>7
<1> QED BY <1>2, <1>3

\* fastParseFloat yields a fraction for all bytes.
LEMMA FloatRead ==
    ASSUME NEW b \in Window
    PROVE  FastParseFloat(b) \in FloatType
<1> DEFINE neg == b # << >> /\ Head(b) = "-"
           magnitude == IF neg THEN Tail(b) ELSE b
<1>1. magnitude \in Window
  <2>1. CASE neg
    <3>1. b # << >> /\ b \in Seq(STRING)
      BY <2>1 DEF Window
    <3>2. Tail(b) \in Seq(STRING)
      BY <3>1, HeadTailProperties
    <3> QED BY <2>1, <3>2 DEF Window
  <2>2. CASE ~ neg
    BY <2>2
  <2> QED BY <2>1, <2>2
<1>2. FastParseInt(magnitude) \in Int /\ Decimals(magnitude) \in Nat
  BY <1>1, IntRead, DecimalsType
<1>3. TenTo(Decimals(magnitude)) \in Nat \ {0}
  BY <1>2, TenToType
<1>4. FastParseFloat(b) =
        <<IF neg THEN -FastParseInt(magnitude) ELSE FastParseInt(magnitude),
          TenTo(Decimals(magnitude))>>
  BY DEF FastParseFloat
<1> HIDE DEF neg, magnitude
<1> QED BY <1>2, <1>3, <1>4 DEF FloatType

\* Days and leap years are numbers.
LEMMA MonthDaysType ==
    ASSUME NEW y, NEW m
    PROVE  MonthDays(y, m) \in Int
BY DEF MonthDays

LEMMA LeapYearsType ==
    ASSUME NEW y \in Int
    PROVE  LeapYearsUntil(y) \in Int
<1>1. y \div 4 \in Int /\ y \div 100 \in Int /\ y \div 400 \in Int
  OBVIOUS
<1> QED BY <1>1 DEF LeapYearsUntil

\* The day of a time is a number.
LEMMA DayType ==
    ASSUME NEW t, t.year \in Nat, t.month \in 1 .. 12, t.day \in Nat
    PROVE  DayNumber(t) \in Int
<1> DEFINE step == [p \in (1 .. 12) \X Int |-> p[2] + MonthDays(t.year, p[1])]
           IsMonths(f) == f = [m \in 0 .. 12 |->
                            IF m = 0 THEN 0
                            ELSE f[m - 1] + MonthDays(t.year, m)]
           months == CHOOSE f : IsMonths(f)
<1>1. step \in [(1 .. 12) \X Int -> Int]
  BY MonthDaysType
<1>2. PICK f : IsLoop(f, 12, Int, 0, step)
  <2> DEFINE T == Int
             base == 0
             n == 12
  <2>1. base \in T /\ n \in Nat /\ step \in [(1 .. n) \X T -> T]
    BY <1>1
  <2>2. \E f : IsLoop(f, n, T, base, step)
    <3> HIDE DEF step, T, base, n
    <3> QED BY <2>1, LoopEnds
  <2> HIDE DEF step
  <2> QED BY <2>2
<1>3. IsMonths(f)
  <2>1. ASSUME NEW m \in 1 .. 12 PROVE f[m] = f[m - 1] + MonthDays(t.year, m)
    <3>1. <<m, f[m - 1]>> \in (1 .. 12) \X Int
      BY <1>2 DEF IsLoop
    <3> QED BY <1>2, <3>1 DEF IsLoop
  <2>2. \A m \in 0 .. 12 : m # 0 => m \in 1 .. 12
    OBVIOUS
  <2> QED BY <1>2, <2>1, <2>2 DEF IsLoop
<1>4. IsMonths(months)
  <2> HIDE DEF IsMonths
  <2> QED BY <1>3
<1>5. \A m \in 0 .. 12 : months[m] \in Int
  <2>1. \A m \in 0 .. 12 :
           months[m] = IF m = 0 THEN 0 ELSE months[m - 1] + MonthDays(t.year, m)
    <3> HIDE DEF months
    <3> QED BY <1>4
  <2> DEFINE T == Int
  <2>2. months[0] \in T /\ \A m \in 1 .. 12 : months[m - 1] \in T => months[m] \in T
    <3> HIDE DEF months
    <3> QED BY <2>1, MonthDaysType
  <2>3. \A m \in 0 .. 12 : months[m] \in T
    <3> HIDE DEF months, T
    <3> QED BY <2>2, LoopKeeps
  <2> QED BY <2>3
<1>6. months[t.month - 1] \in Int
  <2>1. t.month - 1 \in 0 .. 12
    OBVIOUS
  <2> HIDE DEF months
  <2> QED BY <1>5, <2>1
<1>7. LeapYearsUntil(t.year - 1) \in Int /\ LeapYearsUntil(1969) \in Int
  BY LeapYearsType
<1>8. DayNumber(t) = 365 * (t.year - 1970)
        + LeapYearsUntil(t.year - 1) - LeapYearsUntil(1969)
        + months[t.month - 1]
        + t.day - 1
  BY DEF DayNumber
<1> HIDE DEF months
<1> QED BY <1>6, <1>7, <1>8

\* A timestamp that is accepted has an hour and a weekday of the calendar.
LEMMA TimestampRead ==
    ASSUME NEW v, IsTimestamp(v)
    PROVE  ParseTimestamp(v) \in TimestampType
<1> DEFINE t == Instants[v[1]]
<1>1. v[1] \in DOMAIN Instants /\ Exists(t)
  BY DEF IsTimestamp
<1>2. /\ t.year \in Nat /\ t.month \in Nat /\ t.day \in Nat
      /\ t.hour \in Nat /\ t.minute \in Nat /\ t.second \in Nat
  BY <1>1, InstantsAssumption
<1>3. t.month \in 1 .. 12 /\ t.hour \in 0 .. 23
  BY <1>1, <1>2 DEF Exists
<1> HIDE DEF t
<1>4. DayNumber(t) \in Int
  BY <1>2, <1>3, DayType
<1>5. WeekdayIndex(t) \in 0 .. 6
  BY <1>4 DEF WeekdayIndex
<1>6. UnixSeconds(t) \in Int
  BY <1>2, <1>4 DEF UnixSeconds
<1>7. Signed(UnixSeconds(t), Clock) \in Int
  BY <1>6, SignedType, WidthAssumption
<1>8. ParseTimestamp(v) = [unix |-> Signed(UnixSeconds(t), Clock),
                           hour |-> t.hour, weekday |-> WeekdayIndex(t)]
  BY DEF ParseTimestamp, t
<1> QED BY <1>3, <1>5, <1>7, <1>8 DEF TimestampType

-----------------------------------------------------------------------------
(***************************************************************************)
(* The request object.                                                     *)
(***************************************************************************)
\* What a member of a kind is given.
ValueOf(kind) ==
    CASE kind = "string" -> Window
      [] kind = "float" -> FloatType
      [] kind = "int" -> Int
      [] kind = "bool" -> BOOLEAN
      [] kind = "timestamp" -> TimestampType
      [] OTHER -> {}

\* A member of the request takes the values of its kind.
LEMMA MemberTyped ==
    ASSUME NEW r \in RequestType, NEW p \in Prefixed, NEW k \in DOMAIN Members[p],
           NEW v \in ValueOf(Members[p][k])
    PROVE  [r EXCEPT ![p][k] = v] \in RequestType
<1>1. p \in {"top", "transaction", "customer", "merchant", "terminal",
             "last_transaction"}
  BY DEF Prefixed, Members
<1>2. CASE p = "top"
  <2>1. k = "id" /\ v \in Window
    BY <1>2 DEF Members, ValueOf
  <2> QED BY <1>2, <2>1 DEF RequestType
<1>3. CASE p = "transaction"
  <2>1. \/ k = "amount" /\ v \in FloatType
        \/ k = "installments" /\ v \in Int
        \/ k = "requested_at" /\ v \in TimestampType
    BY <1>3 DEF Members, ValueOf
  <2> QED BY <1>3, <2>1 DEF RequestType
<1>4. CASE p = "customer"
  <2>1. \/ k = "avg_amount" /\ v \in FloatType
        \/ k = "tx_count_24h" /\ v \in Int
    BY <1>4 DEF Members, ValueOf
  <2> QED BY <1>4, <2>1 DEF RequestType
<1>5. CASE p = "merchant"
  <2>1. \/ k = "id" /\ v \in Window
        \/ k = "mcc" /\ v \in Window
        \/ k = "avg_amount" /\ v \in FloatType
    BY <1>5 DEF Members, ValueOf
  <2> QED BY <1>5, <2>1 DEF RequestType
<1>6. CASE p = "terminal"
  <2>1. \/ k = "is_online" /\ v \in BOOLEAN
        \/ k = "card_present" /\ v \in BOOLEAN
        \/ k = "km_from_home" /\ v \in FloatType
    BY <1>6 DEF Members, ValueOf
  <2> QED BY <1>6, <2>1 DEF RequestType
<1>7. CASE p = "last_transaction"
  <2>1. \/ k = "timestamp" /\ v \in TimestampType
        \/ k = "km_from_current" /\ v \in FloatType
    BY <1>7 DEF Members, ValueOf
  <2> QED BY <1>7, <2>1 DEF RequestType
<1> QED BY <1>1, <1>2, <1>3, <1>4, <1>5, <1>6, <1>7

\* The zero values.
LEMMA ZeroTyped ==
    /\ FreshRequest \in RequestType
    /\ \A isNil \in BOOLEAN : ZeroLast(isNil) \in
            [isNil : BOOLEAN, timestamp : TimestampType,
             km_from_current : FloatType]
<1>1. ZeroFloat \in FloatType /\ ZeroTimestamp \in TimestampType /\ << >> \in Window
  BY DEF ZeroFloat, FloatType, ZeroTimestamp, TimestampType, Window
<1>2. << >> \in Seq(Window) /\ {} \in SUBSET Window
  OBVIOUS
<1> HIDE DEF FloatType, TimestampType, Window
<1> QED BY <1>1, <1>2
        DEF FreshRequest, RequestType, ZeroTransaction, ZeroMerchant,
            ZeroTerminal, ZeroLast

\* Resetting, dropping the last transaction, and finalizing keep the types.
LEMMA ObjectTyped ==
    ASSUME NEW r \in RequestType
    PROVE  /\ Reset(r) \in RequestType
           /\ \A isNil \in BOOLEAN :
                [r EXCEPT !.last_transaction = ZeroLast(isNil)] \in RequestType
           /\ Finalized(r) \in RequestType
           /\ \A w \in Window :
                [r EXCEPT !.customer.known_merchants = Append(@, w)] \in RequestType
<1>1. r.last_transaction.isNil \in BOOLEAN
  BY DEF RequestType
<1>2. Reset(r) \in RequestType
  BY <1>1, ZeroTyped DEF Reset, RequestType
<1>3. \A isNil \in BOOLEAN :
         [r EXCEPT !.last_transaction = ZeroLast(isNil)] \in RequestType
  BY ZeroTyped DEF RequestType
<1>4. r.customer.known_merchants \in Seq(Window)
  BY DEF RequestType
<1>5. KnownMerchantSet(r.customer.known_merchants) \in SUBSET Window
  BY <1>4 DEF KnownMerchantSet, ToSet
<1>6. Finalized(r) \in RequestType
  BY <1>5 DEF Finalized, RequestType
<1>7. ASSUME NEW w \in Window
      PROVE  [r EXCEPT !.customer.known_merchants = Append(@, w)] \in RequestType
  <2>1. Append(r.customer.known_merchants, w) \in Seq(Window)
    BY <1>4
  <2> QED BY <2>1 DEF RequestType
<1> QED BY <1>2, <1>3, <1>6, <1>7

-----------------------------------------------------------------------------
(***************************************************************************)
(* What each step does to the request.                                     *)
(***************************************************************************)
\* A member that is taken is one of the object it stands in.
LEMMA MemberKnown ==
    ASSUME CallsOK, NEW kind, AtMember(kind), kind # "ignored"
    PROVE  /\ Top.prefix \in Prefixed
           /\ KeyValue.key[1] \in DOMAIN Members[Top.prefix]
           /\ Members[Top.prefix][KeyValue.key[1]] = kind
<1>1. Top \in CallType
  BY TopShape DEF AtMember
<1>2. KindOf(Top.prefix, KeyValue.key) = kind
  BY DEF AtMember
<1> QED BY <1>1, <1>2 DEF KindOf, CallType

\* Taking a member keeps the types.
LEMMA AssignTyped ==
    ASSUME CallsOK, request \in RequestType, NEW kind, AtMember(kind),
           kind # "ignored", NEW v \in ValueOf(kind), Assign(v)
    PROVE  request' \in RequestType
<1>1. request' = [request EXCEPT ![Top.prefix][KeyValue.key[1]] = v]
  BY DEF Assign
<1> DEFINE p == Top.prefix
           k == KeyValue.key[1]
<1>2. p \in Prefixed /\ k \in DOMAIN Members[p] /\ Members[p][k] = kind
  BY MemberKnown
<1>3. v \in ValueOf(Members[p][k])
  BY <1>2
<1>4. request' = [request EXCEPT ![p][k] = v]
  BY <1>1
<1> HIDE DEF p, k
<1>5. [request EXCEPT ![p][k] = v] \in RequestType
  BY <1>2, <1>3, MemberTyped
<1> QED BY <1>4, <1>5

\* Every step does.
LEMMA RequestTyped ==
    ASSUME TypeOK, Next
    PROVE  request' \in RequestType
<1>1. request \in RequestType /\ CallsOK /\ array \in Window
  BY DEF TypeOK, CallsOK
<1>2. ASSUME UNCHANGED request PROVE request' \in RequestType
  BY <1>1, <1>2
<1>3. ASSUME Reject PROVE request' \in RequestType
  BY <1>2, <1>3 DEF Reject
<1>4. ASSUME NEW r \in RequestType, Descend(r) PROVE request' \in RequestType
  BY <1>4 DEF Descend
<1>5. CASE RejectMalformed
  BY <1>3, <1>5 DEF RejectMalformed
<1>6. CASE TakeString
  <2>1. AtMember("string") /\ Assign(KeyValue.value)
    BY <1>6 DEF TakeString
  <2>2. KeyValue.value \in ValueOf("string")
    BY <1>1, <2>1, MemberShortens DEF ValueOf
  <2> QED BY <1>1, <2>1, <2>2, AssignTyped
<1>7. CASE TakeFloat
  <2>1. AtMember("float") /\ Assign(FastParseFloat(KeyValue.value))
    BY <1>7 DEF TakeFloat
  <2>2. FastParseFloat(KeyValue.value) \in ValueOf("float")
    BY <1>1, <2>1, MemberShortens, FloatRead DEF ValueOf
  <2> QED BY <1>1, <2>1, <2>2, AssignTyped
<1>8. CASE TakeInt
  <2>1. AtMember("int") /\ Assign(FastParseInt(KeyValue.value))
    BY <1>8 DEF TakeInt
  <2>2. FastParseInt(KeyValue.value) \in ValueOf("int")
    BY <1>1, <2>1, MemberShortens, IntRead DEF ValueOf
  <2> QED BY <1>1, <2>1, <2>2, AssignTyped
<1>9. CASE TakeBool
  <2>1. AtMember("bool") /\ Assign(KeyValue.value = <<"true">>)
    BY <1>9 DEF TakeBool
  <2>2. (KeyValue.value = <<"true">>) \in ValueOf("bool")
    BY DEF ValueOf
  <2> QED BY <1>1, <2>1, <2>2, AssignTyped
<1>10. CASE TakeTimestamp
  <2>1. AtMember("timestamp")
    BY <1>10 DEF TakeTimestamp
  <2>2. CASE Reject
    BY <1>3, <2>2
  <2>3. CASE IsTimestamp(KeyValue.value) /\ Assign(ParseTimestamp(KeyValue.value))
    <3>1. ParseTimestamp(KeyValue.value) \in ValueOf("timestamp")
      BY <2>3, TimestampRead DEF ValueOf
    <3> QED BY <1>1, <2>1, <2>3, <3>1, AssignTyped
  <2> QED BY <1>10, <2>2, <2>3 DEF TakeTimestamp
<1>11. CASE SkipMember
  BY <1>2, <1>11 DEF SkipMember
<1>12. CASE EnterObject
  BY <1>1, <1>4, <1>12 DEF EnterObject
<1>13. CASE TakeLast
  <2>1. /\ [request EXCEPT !.last_transaction = ZeroLast(TRUE)] \in RequestType
        /\ [request EXCEPT !.last_transaction = ZeroLast(FALSE)] \in RequestType
    BY <1>1, ObjectTyped
  <2>2. CASE KeyValue.value = <<"null">>
    BY <1>13, <2>1, <2>2 DEF TakeLast
  <2>3. CASE KeyValue.value # <<"null">>
    BY <1>1, <1>4, <1>13, <2>1, <2>3 DEF TakeLast
  <2> QED BY <2>2, <2>3
<1>14. CASE EnterArray
  BY <1>2, <1>3, <1>14 DEF EnterArray
<1>15. CASE TakeElement
  <2> DEFINE value == SubSeq(Element, 1, FindValueEnd(Element))
  <2>1. value \in Window
    <3>1. Element \in Window
      BY <1>1, ElementInside
    <3>2. FindValueEnd(Element) \in 0 .. Len(Element) /\ Len(Element) \in Nat
      BY <3>1, ValueEndInside DEF Window
    <3> QED BY <3>1, <3>2 DEF Window
  <2>2. request' = IF IsQuoted(value)
                   THEN [request EXCEPT !.customer.known_merchants =
                                           Append(@, Inner(value))]
                   ELSE request
    BY <1>15 DEF TakeElement
  <2> HIDE DEF value
  <2>3. CASE IsQuoted(value)
    <3>1. Inner(value) \in Window
      BY <2>1, <2>3, InnerShortens DEF IsQuoted
    <3> QED BY <1>1, <2>2, <2>3, <3>1, ObjectTyped
  <2> QED BY <1>1, <2>2, <2>3
<1>16. CASE LeaveArray \/ LeaveObject \/ PutBack
  BY <1>2, <1>16 DEF LeaveArray, LeaveObject, PutBack
<1>17. CASE Finish
  <2>1. request' \in {request, Finalized(request)}
    BY <1>17 DEF Finish
  <2> QED BY <1>1, <2>1, ObjectTyped
<1>18. ASSUME NEW b \in Bodies, Begin(b) PROVE request' \in RequestType
  <2>1. request' = Reset(request)
    BY <1>18 DEF Begin
  <2> QED BY <1>1, <2>1, ObjectTyped
<1> QED BY <1>5, <1>6, <1>7, <1>8, <1>9, <1>10, <1>11, <1>12, <1>13, <1>14,
           <1>15, <1>16, <1>17, <1>18 DEF Next, ParserStep

\* The body and what follows its object are windows.
LEMMA BodyTyped ==
    ASSUME TypeOK, Next
    PROVE  body' \in Window /\ rest' \in Window
<1>1. body \in Window /\ rest \in Window /\ << >> \in Window
  BY DEF TypeOK, Window
<1>2. ASSUME ParserStep PROVE UNCHANGED <<body, rest>>
  BY <1>2 DEF ParserStep, RejectMalformed, TakeString, TakeFloat, TakeInt,
              TakeBool, TakeTimestamp, SkipMember, EnterObject, TakeLast,
              EnterArray, TakeElement, LeaveArray, LeaveObject, Finish,
              Assign, Reject, Descend
<1>3. ASSUME NEW b \in Bodies, Begin(b)
      PROVE  body' \in Window /\ rest' \in Window
  <2> DEFINE data == SkipWS(b)
             end == FindValueEnd(data)
  <2>1. b \in Window /\ data \in Window
    BY ParserAssumption, SkipWSShortens DEF Window
  <2>2. end \in 0 .. Len(data) /\ Len(data) \in Nat
    BY <2>1, ValueEndInside DEF Window
  <2>3. From(data, end + 1) \in Window
    <3>1. end + 1 \in 1 .. Len(data) + 1
      BY <2>2
    <3> HIDE DEF data, end
    <3> QED BY <2>1, <3>1, FromWindow
  <2>4. body' = b /\ rest' \in {rest, From(data, end + 1)}
    BY <1>3 DEF Begin
  <2> QED BY <1>1, <2>1, <2>3, <2>4
<1>4. CASE PutBack
  BY <1>1, <1>4 DEF PutBack
<1> QED BY <1>1, <1>2, <1>3, <1>4 DEF Next

\* All variables of the parser have their types, for every set of bodies and
\* every history of the pooled object: no member is given a value of another
\* kind, floats have denominators, and times hours and weekdays (parser.go,
\* types.go:209-255).
THEOREM ParserTypeCorrect == Spec => []TypeOK
<1>1. Init => TypeOK
  <2>1. << >> \in Window
    BY DEF Window
  <2>2. Init => CallsOK
    BY DEF Init, CallsOK, Parsing, Window
  <2> QED BY <2>1, <2>2, ZeroTyped DEF Init, TypeOK
<1>2. TypeOK /\ CallsOK' /\ [Next]_vars => TypeOK'
  <2>1. CASE Next
    BY <2>1, RequestTyped, BodyTyped DEF TypeOK
  <2>2. CASE UNCHANGED vars
    BY <2>2 DEF vars, TypeOK
  <2> QED BY <2>1, <2>2
<1> QED BY <1>1, <1>2, CallsKeepShape, PTL DEF Spec
-----------------------------------------------------------------------------
(***************************************************************************)
(* The vector of a request.                                                *)
(***************************************************************************)
\* Products of fractions are fractions, and a clamped fraction is a share.
LEMMA TimesType ==
    ASSUME NEW x \in FloatType, NEW y \in FloatType
    PROVE  Times(x, y) \in FloatType
<1>1. \A a, b \in Nat \ {0} : a * b \in Nat \ {0}
  OBVIOUS
<1>2. x[1] \in Int /\ y[1] \in Int /\ x[2] \in Nat \ {0} /\ y[2] \in Nat \ {0}
  BY DEF FloatType
<1>3. x[1] * y[1] \in Int /\ x[2] * y[2] \in Nat \ {0}
  BY <1>1, <1>2
<1> QED BY <1>3 DEF Times, FloatType

LEMMA ClampInUnit ==
    ASSUME NEW x \in FloatType
    PROVE  InUnit(Clamp(x))
<1>1. x[1] \in Int /\ x[2] \in Nat \ {0}
  BY DEF FloatType
<1>2. CASE x[1] < 0
  <2>1. Clamp(x) = Zero
    BY <1>1, <1>2 DEF Clamp
  <2> QED BY <2>1 DEF InUnit, Zero
<1>3. CASE x[1] >= 0 /\ x[1] > x[2]
  <2>1. Clamp(x) = One
    BY <1>1, <1>3 DEF Clamp
  <2> QED BY <2>1 DEF InUnit, One
<1>4. CASE x[1] >= 0 /\ ~ (x[1] > x[2])
  <2>1. Clamp(x) = x
    BY <1>1, <1>4 DEF Clamp
  <2> QED BY <1>1, <1>4, <2>1 DEF InUnit
<1> QED BY <1>1, <1>2, <1>3, <1>4

\* So every scaled fraction is one, whatever the maximum.
LEMMA ScaledInUnit ==
    ASSUME NEW x \in FloatType, NEW m \in MaximumNames
    PROVE  InUnit(Clamp(Times(x, InverseOrOne(Normalization[m]))))
<1>1. Normalization[m] \in Int
  BY VectorizerAssumption
<1>2. InverseOrOne(Normalization[m]) \in FloatType
  BY <1>1 DEF InverseOrOne, One, FloatType
<1> QED BY <1>2, TimesType, ClampInUnit

\* The average that is divided by is positive.
LEMMA RatioType ==
    ASSUME NEW x \in FloatType, NEW c, c.avg_amount \in FloatType
    PROVE  Over(x, AverageOf(c)) \in FloatType
<1> DEFINE y == AverageOf(c)
<1>1. y[1] \in Nat \ {0} /\ y[2] \in Nat \ {0}
  BY DEF AverageOf, One, FloatType
<1>2. x[1] \in Int /\ x[2] \in Nat \ {0}
  BY DEF FloatType
<1> HIDE DEF y
<1>3. \A a, b \in Nat \ {0} : a * b \in Nat \ {0}
  OBVIOUS
<1>4. x[1] * y[2] \in Int /\ x[2] * y[1] \in Nat \ {0}
  BY <1>1, <1>2, <1>3
<1> QED BY <1>4 DEF Over, FloatType, y

\* Both components of the last transaction are sentinels, or both are shares.
LEMMA SinceInRange ==
    ASSUME NEW r \in RequestType
    PROVE  \/ InUnit(SinceLast(r)[1]) /\ InUnit(SinceLast(r)[2])
           \/ SinceLast(r)[1] = Sentinel /\ SinceLast(r)[2] = Sentinel
<1>1. CASE r.last_transaction.isNil
  BY <1>1 DEF SinceLast
<1>2. CASE ~ r.last_transaction.isNil
  <2> DEFINE minutes == MinutesBetween(r.transaction.requested_at,
                                       r.last_transaction.timestamp)
             km == r.last_transaction.km_from_current
  <2>1. minutes \in FloatType
    <3>1. /\ r.transaction.requested_at.unix \in Int
          /\ r.last_transaction.timestamp.unix \in Int
      BY DEF RequestType, TimestampType
    <3>2. Signed(r.transaction.requested_at.unix
                 - r.last_transaction.timestamp.unix, Clock) \in Int
      BY <3>1, SignedType, WidthAssumption
    <3> QED BY <3>2 DEF MinutesBetween, FloatType
  <2>2. km \in FloatType
    BY DEF RequestType
  <2>3. "max_minutes" \in MaximumNames /\ "max_km" \in MaximumNames
    BY DEF MaximumNames
  <2> DEFINE a == Clamp(Times(minutes, InverseOrOne(Normalization["max_minutes"])))
             b == Clamp(Times(km, InverseOrOne(Normalization["max_km"])))
  <2>4. InUnit(a) /\ InUnit(b)
    <3> HIDE DEF minutes, km
    <3> QED BY <2>1, <2>2, <2>3, ScaledInUnit
  <2>5. SinceLast(r) = <<a, b>>
    BY <1>2 DEF SinceLast
  <2> HIDE DEF a, b
  <2> QED BY <2>4, <2>5
<1> QED BY <1>1, <1>2

\* A risk is the default or one of the file.
LEMMA RiskInUnit ==
    ASSUME \A k \in DOMAIN MCCRisk : InUnit(MCCRisk[k]),
           NEW mcc, NEW risk \in LookupMCCRisk(mcc)
    PROVE  InUnit(risk)
<1>1. InUnit(Half)
  BY DEF InUnit, Half
<1>2. \A i : \A x \in RisksAt(i) : InUnit(x)
  BY <1>1 DEF RisksAt
<1> QED BY <1>1, <1>2 DEF LookupMCCRisk

\* All components together.
LEMMA VectorInRange ==
    ASSUME NEW r \in RequestType, NEW v \in Vectors(r)
    PROVE  /\ \A i \in (1 .. 14) \ {6, 7, 13} : InUnit(v[i])
           /\ \/ InUnit(v[6]) /\ InUnit(v[7])
              \/ v[6] = Sentinel /\ v[7] = Sentinel
           /\ (\A k \in DOMAIN MCCRisk : InUnit(MCCRisk[k])) => InUnit(v[13])
<1> DEFINE c1 == Clamp(Times(r.transaction.amount,
                             InverseOrOne(Normalization["max_amount"])))
           c2 == Clamp(Times(Fraction(r.transaction.installments),
                             InverseOrOne(Normalization["max_installments"])))
           c3 == Clamp(Times(Over(r.transaction.amount, AverageOf(r.customer)),
                             InverseOrOne(Normalization["amount_vs_avg_ratio"])))
           c4 == <<r.transaction.requested_at.hour, 23>>
           c5 == <<r.transaction.requested_at.weekday, 6>>
           c6 == SinceLast(r)[1]
           c7 == SinceLast(r)[2]
           c8 == Clamp(Times(r.terminal.km_from_home,
                             InverseOrOne(Normalization["max_km"])))
           c9 == Clamp(Times(Fraction(r.customer.tx_count_24h),
                             InverseOrOne(Normalization["max_tx_count_24h"])))
           c10 == BoolToFloat(r.terminal.is_online)
           c11 == BoolToFloat(r.terminal.card_present)
           c12 == BoolToFloat(~ HasKnownMerchant(r.customer, r.merchant.id))
           c14 == Clamp(Times(r.merchant.avg_amount,
                              InverseOrOne(Normalization["max_merchant_avg_amount"])))
<1>1. PICK risk \in LookupMCCRisk(r.merchant.mcc) :
         v = <<c1, c2, c3, c4, c5, c6, c7, c8, c9, c10, c11, c12, risk, c14>>
  BY DEF Vectors
<1>2. /\ r.transaction.amount \in FloatType /\ r.transaction.installments \in Int
      /\ r.transaction.requested_at \in TimestampType
      /\ r.customer.avg_amount \in FloatType /\ r.customer.tx_count_24h \in Int
      /\ r.terminal.km_from_home \in FloatType
      /\ r.merchant.avg_amount \in FloatType
  BY DEF RequestType
<1>3. /\ Fraction(r.transaction.installments) \in FloatType
      /\ Fraction(r.customer.tx_count_24h) \in FloatType
      /\ Over(r.transaction.amount, AverageOf(r.customer)) \in FloatType
  <2>1. \A n \in Int : Fraction(n) \in FloatType
    BY DEF Fraction, FloatType
  <2>2. Over(r.transaction.amount, AverageOf(r.customer)) \in FloatType
    BY <1>2, RatioType
  <2> QED BY <1>2, <2>1, <2>2
<1>4. /\ "max_amount" \in MaximumNames /\ "max_installments" \in MaximumNames
      /\ "amount_vs_avg_ratio" \in MaximumNames /\ "max_km" \in MaximumNames
      /\ "max_tx_count_24h" \in MaximumNames
      /\ "max_merchant_avg_amount" \in MaximumNames
  BY DEF MaximumNames
<1>5. InUnit(c1) /\ InUnit(c2) /\ InUnit(c3) /\ InUnit(c8) /\ InUnit(c9) /\ InUnit(c14)
  BY <1>2, <1>3, <1>4, ScaledInUnit
<1>6. InUnit(c4) /\ InUnit(c5)
  BY <1>2 DEF InUnit, TimestampType
<1>7. InUnit(c10) /\ InUnit(c11) /\ InUnit(c12)
  BY DEF BoolToFloat, InUnit, Zero, One
<1>8. \/ InUnit(c6) /\ InUnit(c7)
      \/ c6 = Sentinel /\ c7 = Sentinel
  BY SinceInRange
<1>9. (\A k \in DOMAIN MCCRisk : InUnit(MCCRisk[k])) => InUnit(risk)
  BY RiskInUnit
<1> HIDE DEF c1, c2, c3, c4, c5, c6, c7, c8, c9, c10, c11, c12, c14
<1>10. /\ v[1] = c1 /\ v[2] = c2 /\ v[3] = c3 /\ v[4] = c4 /\ v[5] = c5
       /\ v[6] = c6 /\ v[7] = c7 /\ v[8] = c8 /\ v[9] = c9 /\ v[10] = c10
       /\ v[11] = c11 /\ v[12] = c12 /\ v[13] = risk /\ v[14] = c14
  BY <1>1
<1>11. \A i \in (1 .. 14) \ {6, 7, 13} : i \in {1, 2, 3, 4, 5, 8, 9, 10, 11, 12, 14}
  OBVIOUS
<1>12. \A i \in {1, 2, 3, 4, 5, 8, 9, 10, 11, 12, 14} : InUnit(v[i])
  BY <1>5, <1>6, <1>7, <1>10
<1> QED BY <1>8, <1>9, <1>10, <1>11, <1>12

\* The vectorizer gives the search only what it can be given, for every set of
\* bodies, every normalization and every width of the numbers
\* (vectorizer.go:47-129).
THEOREM VectorsStayInRange == Spec => []VectorsInRange
<1>1. TypeOK => VectorsInRange
  <2> SUFFICES ASSUME TypeOK PROVE VectorsInRange
    OBVIOUS
  <2>1. request \in RequestType
    BY DEF TypeOK
  <2> QED BY <2>1, VectorInRange DEF VectorsInRange
<1> QED BY <1>1, ParserTypeCorrect, PTL

-----------------------------------------------------------------------------
(***************************************************************************)
(* Where the loop over an array may stop advancing.                        *)
(***************************************************************************)
\* What follows white space is no white space.
LEMMA SkippedStart ==
    ASSUME NEW d \in Window, SkipWS(d) # << >>
    PROVE  Head(SkipWS(d)) # Space
<1> DEFINE S == {i \in 1 .. Len(d) : d[i] # Space}
<1>1. Len(d) \in Nat /\ S \in SUBSET Nat
  BY DEF Window
<1>2. SkipWS(d) = From(d, FirstOf(S, Len(d) + 1))
  BY DEF SkipWS
<1>3. S # {}
  <2>1. SUFFICES ASSUME S = {} PROVE FALSE
    OBVIOUS
  <2>2. FirstOf(S, Len(d) + 1) = Len(d) + 1
    BY <2>1 DEF FirstOf
  <2>3. From(d, Len(d) + 1) \in Window /\ Len(From(d, Len(d) + 1)) = 0
    <3>1. Len(d) + 1 \in 1 .. Len(d) + 1 /\ Len(d) + 1 - (Len(d) + 1) = 0
      BY <1>1
    <3> QED BY <3>1, FromWindow
  <2>4. From(d, Len(d) + 1) = << >>
    BY <2>3 DEF Window
  <2> QED BY <1>2, <2>2, <2>4
<1> DEFINE i == FirstOf(S, Len(d) + 1)
<1>4. i \in S
  <2> HIDE DEF S
  <2> QED BY <1>1, <1>3, FirstOfIn
<1>5. i \in 1 .. Len(d) /\ d[i] # Space
  BY <1>4
<1> HIDE DEF i
<1>6. Head(From(d, i)) = d[i]
  BY <1>1, <1>5 DEF From, Window
<1> QED BY <1>2, <1>5, <1>6 DEF i

\* A value has no length only at a delimiter.
LEMMA NoLengthAtDelimiter ==
    ASSUME NEW d \in Window, d # << >>, Head(d) # Space
    PROVE  FindValueEnd(d) = 0 <=> Head(d) \in {",", "}", "]"}
<1>1. Len(d) \in Nat /\ Len(d) # 0 /\ Head(d) = d[1] /\ 1 \in 1 .. Len(d)
  BY DEF Window
<1>2. ASSUME NEW S \in SUBSET (2 .. Len(d)) PROVE FirstOf(S, Len(d)) # 0
  <2>1. S \in SUBSET Nat
    BY <1>1
  <2>2. FirstOf(S, Len(d)) \in S \cup {Len(d)}
    BY <2>1, FirstOfIn
  <2> QED BY <1>1, <2>2
<1>3. CASE Starts(d, Quote)
  <2>1. FindValueEnd(d) = FirstOf(StringEnds(d), Len(d))
    BY <1>3 DEF FindValueEnd, Starts, Quote
  <2>2. StringEnds(d) \in SUBSET (2 .. Len(d))
    BY DEF StringEnds
  <2>3. Head(d) = "quote"
    BY <1>3 DEF Starts, Quote
  <2> QED BY <1>2, <2>1, <2>2, <2>3
<1>4. CASE Starts(d, "{") \/ Starts(d, "[")
  <2>1. PICK o, c : FindValueEnd(d) = FirstOf(Balanced(d, o, c), Len(d))
    BY <1>4 DEF FindValueEnd, Starts, Quote
  <2>2. Balanced(d, o, c) \in SUBSET (2 .. Len(d))
    BY DEF Balanced
  <2>3. Head(d) \in {"{", "["}
    BY <1>4 DEF Starts
  <2> QED BY <1>2, <2>1, <2>2, <2>3
<1>5. CASE ~ Starts(d, Quote) /\ ~ Starts(d, "{") /\ ~ Starts(d, "[")
  <2> DEFINE S == {i - 1 : i \in Delimiters(d)}
  <2>1. FindValueEnd(d) = FirstOf(S, Len(d))
    BY <1>5 DEF FindValueEnd
  <2>2. S \in SUBSET Nat
    <3>1. ASSUME NEW i \in Delimiters(d) PROVE i - 1 \in Nat
      <4>1. i \in 1 .. Len(d)
        BY DEF Delimiters
      <4> QED BY <1>1, <4>1
    <3> QED BY <3>1
  <2>3. \A i \in Delimiters(d) : i \in 1 .. Len(d)
    BY DEF Delimiters
  <2>4. 0 \in S <=> 1 \in Delimiters(d)
    BY <1>1, <2>3
  <2>5. 1 \in Delimiters(d) <=> Head(d) \in {",", "}", "]"}
    BY <1>1 DEF Delimiters
  <2> HIDE DEF S
  <2>6. ASSUME 0 \in S PROVE FirstOf(S, Len(d)) = 0
    <3>1. \A n \in Nat : 0 <= n /\ (n <= 0 => n = 0)
      OBVIOUS
    <3>2. Min(S) = 0
      BY <2>2, <2>6, <3>1 DEF Min
    <3> QED BY <2>6, <3>2 DEF FirstOf
  <2>7. ASSUME 0 \notin S PROVE FirstOf(S, Len(d)) # 0
    <3>1. FirstOf(S, Len(d)) \in S \cup {Len(d)}
      BY <2>2, FirstOfIn
    <3> QED BY <1>1, <2>7, <3>1
  <2> QED BY <2>1, <2>4, <2>5, <2>6, <2>7
<1> QED BY <1>3, <1>4, <1>5

\* The loop over an array stands still exactly at a second comma or at a
\* closing bracket, as in bracketed_merchant; everywhere else each of its
\* rounds advances (parser.go:251-281).
THEOREM StallsAtDelimiter ==
    Spec => [](phase = "array" /\ Element # << >> =>
                 (ParserAdvances <=> Head(Element) \notin {",", "}", "]"}))
<1>1. CallsOK => (phase = "array" /\ Element # << >> =>
                    (ParserAdvances <=> Head(Element) \notin {",", "}", "]"}))
  <2> SUFFICES ASSUME CallsOK, phase = "array", Element # << >>
               PROVE  ParserAdvances <=> Head(Element) \notin {",", "}", "]"}
    OBVIOUS
  <2>1. array \in Window
    BY DEF CallsOK
  <2>2. Element \in Window /\ Len(Element) \in Nat
    BY <2>1, ElementInside
  <2>3. Head(Element) # Space
    <3>1. PICK d \in Window : Element = SkipWS(d)
      <4>1. SkipWS(array) \in Window
        BY <2>1, SkipWSShortens
      <4>2. CASE Starts(SkipWS(array), ",")
        <5>1. Rest(SkipWS(array)) \in Window
          BY <4>1, <4>2, RestShortens DEF Starts
        <5> QED BY <4>2, <5>1 DEF Element
      <4>3. CASE ~ Starts(SkipWS(array), ",")
        BY <2>1, <4>3 DEF Element
      <4> QED BY <4>2, <4>3
    <3> QED BY <3>1, SkippedStart
  <2>4. FindValueEnd(Element) \in Nat
    BY <2>2, ValueEndInside
  <2>5. ParserAdvances <=> FindValueEnd(Element) # 0
    BY <2>4 DEF ParserAdvances
  <2> QED BY <2>2, <2>3, <2>5, NoLengthAtDelimiter
<1> QED BY <1>1, CallsKeepShape, PTL

-----------------------------------------------------------------------------
(***************************************************************************)
(* The vector is that of what the request says.                            *)
(***************************************************************************)
\* Products have the sign and the order of their first factor when the other
\* is positive.
LEMMA ProductSign ==
    ASSUME NEW a \in Int, NEW q \in Int, q > 0
    PROVE  /\ a * q \in Int
           /\ a * q < 0 <=> a < 0
           /\ a * q > 0 <=> a > 0
<1>0. a * q \in Int
  OBVIOUS
<1>1. CASE a < 0
  <2>1. a <= -1
    BY <1>1
  <2>2. a * q <= (-1) * q
    BY <2>1
  <2> QED BY <1>0, <1>1, <2>2
<1>2. CASE a = 0
  BY <1>2
<1>3. CASE a > 0
  <2>1. a >= 1
    BY <1>3
  <2>2. a * q >= 1 * q
    BY <2>1
  <2> QED BY <1>0, <1>3, <2>2
<1> QED BY <1>1, <1>2, <1>3

LEMMA ProductOrder ==
    ASSUME NEW p \in Int, NEW q \in Int, NEW a \in Int, NEW b \in Int,
           q > 0, b > 0, p * b = a * q
    PROVE  /\ p < 0 <=> a < 0
           /\ p > 0 <=> a > 0
           /\ p > q <=> a > b
<1>1. (p < 0 <=> a < 0) /\ (p > 0 <=> a > 0)
  BY ProductSign
<1>2. (p - q) * b = p * b - q * b /\ (a - b) * q = a * q - b * q
  OBVIOUS
<1>3. q * b = b * q
  OBVIOUS
<1>4. (p - q) * b = (a - b) * q
  BY <1>2, <1>3
<1>5. p - q \in Int /\ a - b \in Int
  OBVIOUS
<1>6. p - q > 0 <=> a - b > 0
  BY <1>4, <1>5, ProductSign
<1> QED BY <1>1, <1>6

\* A scaled and clamped fraction is the cut of the share.
LEMMA ScaledIsCut ==
    ASSUME NEW x \in FloatType, NEW y \in FloatType, SameNumber(x, y),
           NEW m \in MaximumNames
    PROVE  IsCut(Clamp(Times(x, InverseOrOne(Normalization[m]))),
                 Share(y, Normalization[m]))
<1> DEFINE k == IF Normalization[m] > 0 THEN Normalization[m] ELSE 1
           p == x[1]
           q == x[2] * k
           a == y[1]
           b == y[2] * k
<1>1. Normalization[m] \in Int
  BY VectorizerAssumption
<1>2. k \in Int /\ k > 0
  BY <1>1
<1>3. x[1] \in Int /\ x[2] \in Int /\ x[2] > 0 /\ y[1] \in Int /\ y[2] \in Int /\ y[2] > 0
  BY DEF FloatType
<1>4. InverseOrOne(Normalization[m]) = <<1, k>>
  BY <1>1 DEF InverseOrOne, One
<1>5. Share(y, Normalization[m]) = <<a, b>>
  BY DEF Share
<1> HIDE DEF k
<1>6. Times(x, <<1, k>>) = <<p, q>>
  BY <1>2, <1>3 DEF Times
<1>7. q \in Int /\ q > 0 /\ b \in Int /\ b > 0
  BY <1>2, <1>3, ProductSign
<1>8. p * b = a * q
  <2>1. x[1] * y[2] = y[1] * x[2]
    BY DEF SameNumber
  <2>2. x[1] * (y[2] * k) = (x[1] * y[2]) * k /\ y[1] * (x[2] * k) = (y[1] * x[2]) * k
    BY <1>2, <1>3
  <2> QED BY <2>1, <2>2
<1>9. p \in Int /\ a \in Int
  BY <1>3
<1> HIDE DEF p, q, a, b
<1>10. (p < 0 <=> a < 0) /\ (p > q <=> a > b)
  BY <1>7, <1>8, <1>9, ProductOrder
<1> DEFINE v == Clamp(<<p, q>>)
<1>11. CASE a < 0
  <2>1. v = Zero
    BY <1>7, <1>9, <1>10, <1>11 DEF Clamp
  <2> HIDE DEF v
  <2>2. IsCut(v, <<a, b>>)
    BY <1>9, <1>11, <2>1 DEF IsCut
  <2> QED BY <1>4, <1>5, <1>6, <2>2 DEF v
<1>12. CASE a > b
  <2>1. v = One
    BY <1>7, <1>9, <1>10, <1>12 DEF Clamp
  <2> HIDE DEF v
  <2>2. IsCut(v, <<a, b>>)
    BY <1>7, <1>9, <1>12, <2>1 DEF IsCut
  <2> QED BY <1>4, <1>5, <1>6, <2>2 DEF v
<1>13. CASE 0 <= a /\ a <= b
  <2>1. v = <<p, q>>
    BY <1>7, <1>9, <1>10, <1>13 DEF Clamp
  <2> HIDE DEF v
  <2>2. IsCut(v, <<a, b>>)
    BY <1>8, <1>13, <2>1 DEF IsCut, SameNumber
  <2> QED BY <1>4, <1>5, <1>6, <2>2 DEF v
<1> QED BY <1>7, <1>9, <1>11, <1>12, <1>13

\* Ratios of equal fractions are equal, and so are the averages' signs.
LEMMA SameRatio ==
    ASSUME NEW x \in FloatType, NEW s \in FloatType, SameNumber(x, s),
           NEW c, c.avg_amount \in FloatType, NEW t \in FloatType,
           SameNumber(c.avg_amount, t)
    PROVE  LET y == IF t[1] > 0 THEN Over(s, t) ELSE s
           IN  y \in FloatType /\ SameNumber(Over(x, AverageOf(c)), y)
<1> DEFINE y == c.avg_amount
<1>1. /\ x[1] \in Int /\ x[2] \in Int /\ x[2] > 0
      /\ s[1] \in Int /\ s[2] \in Int /\ s[2] > 0
      /\ y[1] \in Int /\ y[2] \in Int /\ y[2] > 0
      /\ t[1] \in Int /\ t[2] \in Int /\ t[2] > 0
  BY DEF FloatType
<1>2. x[1] * s[2] = s[1] * x[2] /\ y[1] * t[2] = t[1] * y[2]
  BY DEF SameNumber
<1>3. y[1] > 0 <=> t[1] > 0
  BY <1>1, <1>2, ProductOrder
<1>4. AverageOf(c) = IF y[1] <= 0 THEN One ELSE y
  BY DEF AverageOf
<1> HIDE DEF y
<1>5. CASE t[1] > 0
  <2>1. AverageOf(c) = y
    BY <1>1, <1>3, <1>4, <1>5
  <2>2. Over(s, t) = <<s[1] * t[2], s[2] * t[1]>>
    BY DEF Over
  <2>3. s[1] * t[2] \in Int /\ s[2] * t[1] \in Nat \ {0}
    <3>1. t[1] * s[2] > 0 /\ t[1] * s[2] \in Int
      BY <1>1, <1>5, ProductSign
    <3>2. t[1] * s[2] = s[2] * t[1] /\ s[1] * t[2] \in Int
      BY <1>1
    <3> QED BY <3>1, <3>2
  <2>4. Over(s, t) \in FloatType
    BY <2>2, <2>3 DEF FloatType
  <2>5. Over(x, y) = <<x[1] * y[2], x[2] * y[1]>>
    BY DEF Over
  <2>6. (x[1] * y[2]) * (s[2] * t[1]) = (s[1] * t[2]) * (x[2] * y[1])
    <3> DEFINE A == x[1] * s[2]
               B == t[1] * y[2]
    <3>1. (x[1] * y[2]) * (s[2] * t[1]) = A * B
      BY <1>1
    <3>2. (s[1] * t[2]) * (x[2] * y[1]) = (s[1] * x[2]) * (y[1] * t[2])
      BY <1>1
    <3> QED BY <1>2, <3>1, <3>2
  <2>7. SameNumber(Over(x, y), Over(s, t))
    BY <2>2, <2>5, <2>6 DEF SameNumber
  <2> QED BY <1>5, <2>1, <2>4, <2>7
<1>6. CASE ~ (t[1] > 0)
  <2>1. AverageOf(c) = One
    BY <1>1, <1>3, <1>4, <1>6
  <2>2. Over(x, One) = <<x[1] * 1, x[2] * 1>>
    BY DEF Over, One
  <2>3. x[1] * 1 = x[1] /\ x[2] * 1 = x[2]
    BY <1>1
  <2>4. SameNumber(Over(x, One), s)
    BY <1>2, <2>2, <2>3 DEF SameNumber
  <2> QED BY <1>6, <2>1, <2>4
<1> QED BY <1>5, <1>6

\* The difference of two wrapped times is the difference of the times when that
\* fits.
LEMMA SignedDifference ==
    ASSUME NEW t \in Int, NEW l \in Int, NEW w \in Nat, w > 1,
           2 * (t - l) \in -w .. w - 1
    PROVE  Signed(Signed(t, w) - Signed(l, w), w) = t - l
<1> DEFINE h == w \div 2
           d == t - l
<1>1. h \in Int /\ (w = 2 * h \/ w = 2 * h + 1) /\ w \in Nat \ {0}
  OBVIOUS
<1> HIDE DEF h
<1>2. d \in Int /\ 0 <= d + h /\ d + h < w
  BY <1>1
<1>3. ASSUME NEW n \in Int
      PROVE  \E k \in Int : Signed(n, w) = n - k * w
  <2> DEFINE e == n + h
  <2>1. e \in Int
    BY <1>1
  <2>2. /\ e \div w \in Int /\ e % w \in Int /\ e = (e \div w) * w + (e % w)
    BY <1>1, <2>1, DivMod
  <2>3. Signed(n, w) = (e % w) - h
    BY DEF Signed, h
  <2> DEFINE k == e \div w
             r == e % w
             z == k * w
  <2>4. k \in Int /\ z \in Int /\ r \in Int /\ e = z + r
    BY <1>1, <2>2
  <2> HIDE DEF k, z, r
  <2>5. r - h = n - z
    BY <1>1, <2>4
  <2>6. Signed(n, w) = n - k * w
    BY <2>3, <2>5 DEF r, z
  <2> QED BY <2>4, <2>6
<1>4. PICK i \in Int : Signed(t, w) = t - i * w
  BY <1>3
<1>5. PICK j \in Int : Signed(l, w) = l - j * w
  BY <1>3
<1> DEFINE u == j - i
<1>6. Signed(t, w) - Signed(l, w) = u * w + d
  <2>1. (j - i) * w = j * w - i * w
    BY <1>1
  <2>2. i * w \in Int /\ j * w \in Int
    BY <1>1
  <2> QED BY <1>4, <1>5, <2>1, <2>2
<1>7. u \in Int
  OBVIOUS
<1> HIDE DEF u, d
<1>8. (u * w + (d + h)) % w = d + h
  <2>1. d + h \in Int
    BY <1>1, <1>2
  <2> QED BY <1>1, <1>2, <1>7, <2>1, ModOf
<1>9. (u * w + d) + h = u * w + (d + h)
  <2>1. u * w \in Int
    BY <1>1, <1>7
  <2> QED BY <1>1, <1>2, <2>1
<1>10. Signed(u * w + d, w) = (((u * w + d) + h) % w) - h
  BY DEF Signed, h
<1>11. Signed(u * w + d, w) = d
  BY <1>1, <1>2, <1>8, <1>9, <1>10
<1> QED BY <1>6, <1>11 DEF d

\* The time since the last transaction.
LEMMA SinceIsAsWritten ==
    ASSUME NEW r \in RequestType, NEW s,
           s.requested_at \in [unix : Int, hour : Int, weekday : Int],
           s.last_at \in [unix : Int, hour : Int, weekday : Int],
           s.last_km \in FloatType,
           SameInstant(r.transaction.requested_at, s.requested_at),
           LastAsWritten(r.last_transaction, s),
           NEW v, v[6] = SinceLast(r)[1], v[7] = SinceLast(r)[2]
    PROVE  SinceAsWritten(v, s)
<1>1. CASE r.last_transaction.isNil
  BY <1>1 DEF SinceAsWritten, SinceLast, LastAsWritten
<1>2. CASE ~ r.last_transaction.isNil
  <2> DEFINE last == r.last_transaction
             since == s.requested_at.unix - s.last_at.unix
             minutes == MinutesBetween(r.transaction.requested_at, last.timestamp)
             a == Clamp(Times(minutes, InverseOrOne(Normalization["max_minutes"])))
             b == Clamp(Times(last.km_from_current,
                              InverseOrOne(Normalization["max_km"])))
  <2>1. /\ s.last \in {"object", "absent"}
        /\ SameInstant(last.timestamp, s.last_at)
        /\ SameNumber(last.km_from_current, s.last_km)
    BY <1>2 DEF LastAsWritten
  <2>2. v[6] = a /\ v[7] = b
    BY <1>2 DEF SinceLast
  <2>3. last.km_from_current \in FloatType
    BY DEF RequestType
  <2>4. "max_minutes" \in MaximumNames /\ "max_km" \in MaximumNames
    BY DEF MaximumNames
  <2>5. IsCut(b, Share(s.last_km, Normalization["max_km"]))
    BY <2>1, <2>3, <2>4, ScaledIsCut
  <2>6. /\ s.requested_at.unix \in Int /\ s.last_at.unix \in Int
        /\ Clock \in Nat /\ Clock > 1
    BY WidthAssumption
  <2>7. /\ r.transaction.requested_at.unix = Signed(s.requested_at.unix, Clock)
        /\ last.timestamp.unix = Signed(s.last_at.unix, Clock)
    BY <2>1 DEF SameInstant
  <2>8. ASSUME Comparable(s.requested_at, s.last_at)
        PROVE  IsCut(a, Share(<<since, 60>>, Normalization["max_minutes"]))
    <3>1. minutes = <<since, 60>>
      <4>1. Signed(Signed(s.requested_at.unix, Clock)
                   - Signed(s.last_at.unix, Clock), Clock) = since
        BY <2>6, <2>8, SignedDifference DEF Comparable
      <4> QED BY <2>7, <4>1 DEF MinutesBetween
    <3>2. <<since, 60>> \in FloatType /\ SameNumber(<<since, 60>>, <<since, 60>>)
      BY <2>6 DEF FloatType, SameNumber
    <3> HIDE DEF minutes, since
    <3> QED BY <2>4, <3>1, <3>2, ScaledIsCut
  <2> HIDE DEF a, b
  <2> QED BY <2>1, <2>2, <2>5, <2>8 DEF SinceAsWritten
<1> QED BY <1>1, <1>2

\* A merchant is known when it is in the list, whether or not there is a set.
LEMMA KnownIsListed ==
    ASSUME NEW c, c.known_merchants \in Seq(Window),
           c.knownMerchantSet = KnownMerchantSet(c.known_merchants), NEW id
    PROVE  HasKnownMerchant(c, id) <=> id \in ToSet(c.known_merchants)
BY DEF HasKnownMerchant, KnownMerchantSet

\* The vectorizer, for every request: its vector is that of what the request
\* agrees with.
LEMMA VectorOfAgreeing ==
    ASSUME NEW r \in RequestType, NEW d \in Documents, Agrees(r, d.says),
           r.customer.knownMerchantSet =
                KnownMerchantSet(r.customer.known_merchants)
    PROVE  Vectors(r) # {} /\ \A v \in Vectors(r) : IsVectorOf(v, d.says)
<1> DEFINE s == d.says
<1>1. /\ s.amount \in FloatType /\ s.customer_avg \in FloatType
      /\ s.merchant_avg \in FloatType /\ s.home \in FloatType
      /\ s.last_km \in FloatType /\ s.installments \in Int /\ s.tx_count \in Int
      /\ s.requested_at \in [unix : Int, hour : Int, weekday : Int]
      /\ s.last_at \in [unix : Int, hour : Int, weekday : Int]
  BY DocumentsAssumption
<1>2. Agrees(r, s)
  OBVIOUS
<1> HIDE DEF s
<1>3. /\ r.transaction.amount \in FloatType /\ r.transaction.installments \in Int
      /\ r.transaction.requested_at \in TimestampType
      /\ r.customer.avg_amount \in FloatType /\ r.customer.tx_count_24h \in Int
      /\ r.customer.known_merchants \in Seq(Window)
      /\ r.terminal.km_from_home \in FloatType
      /\ r.merchant.avg_amount \in FloatType
  BY DEF RequestType
<1>4. /\ "max_amount" \in MaximumNames /\ "max_installments" \in MaximumNames
      /\ "amount_vs_avg_ratio" \in MaximumNames /\ "max_km" \in MaximumNames
      /\ "max_tx_count_24h" \in MaximumNames
      /\ "max_merchant_avg_amount" \in MaximumNames
  BY DEF MaximumNames
<1>5. LookupMCCRisk(r.merchant.mcc) = {s.risk}
  BY <1>2 DEF Agrees
<1>6. Vectors(r) # {}
  <2>1. s.risk \in LookupMCCRisk(r.merchant.mcc)
    BY <1>5
  <2> QED BY <2>1, Zenon DEF Vectors
<1> DEFINE c1 == Clamp(Times(r.transaction.amount,
                             InverseOrOne(Normalization["max_amount"])))
           c2 == Clamp(Times(Fraction(r.transaction.installments),
                             InverseOrOne(Normalization["max_installments"])))
           c3 == Clamp(Times(Over(r.transaction.amount, AverageOf(r.customer)),
                             InverseOrOne(Normalization["amount_vs_avg_ratio"])))
           c4 == <<r.transaction.requested_at.hour, 23>>
           c5 == <<r.transaction.requested_at.weekday, 6>>
           c6 == SinceLast(r)[1]
           c7 == SinceLast(r)[2]
           c8 == Clamp(Times(r.terminal.km_from_home,
                             InverseOrOne(Normalization["max_km"])))
           c9 == Clamp(Times(Fraction(r.customer.tx_count_24h),
                             InverseOrOne(Normalization["max_tx_count_24h"])))
           c10 == BoolToFloat(r.terminal.is_online)
           c11 == BoolToFloat(r.terminal.card_present)
           c12 == BoolToFloat(~ HasKnownMerchant(r.customer, r.merchant.id))
           c14 == Clamp(Times(r.merchant.avg_amount,
                              InverseOrOne(Normalization["max_merchant_avg_amount"])))
           ratio == IF s.customer_avg[1] > 0
                    THEN Over(s.amount, s.customer_avg) ELSE s.amount
<1>7. ASSUME NEW v \in Vectors(r) PROVE IsVectorOf(v, s)
  <2>1. v = <<c1, c2, c3, c4, c5, c6, c7, c8, c9, c10, c11, c12, s.risk, c14>>
    BY <1>5 DEF Vectors
  <2>2. IsCut(c1, Share(s.amount, Normalization["max_amount"]))
    BY <1>1, <1>2, <1>3, <1>4, ScaledIsCut DEF Agrees
  <2>3. IsCut(c2, Share(<<s.installments, 1>>, Normalization["max_installments"]))
    <3>1. /\ Fraction(r.transaction.installments) = <<s.installments, 1>>
          /\ <<s.installments, 1>> \in FloatType
          /\ SameNumber(<<s.installments, 1>>, <<s.installments, 1>>)
      BY <1>1, <1>2 DEF Agrees, Fraction, FloatType, SameNumber
    <3> QED BY <1>4, <3>1, ScaledIsCut
  <2>4. IsCut(c3, Share(ratio, Normalization["amount_vs_avg_ratio"]))
    <3>1. /\ SameNumber(r.transaction.amount, s.amount)
          /\ SameNumber(r.customer.avg_amount, s.customer_avg)
      BY <1>2 DEF Agrees
    <3> DEFINE over == Over(r.transaction.amount, AverageOf(r.customer))
    <3>2. over \in FloatType
      BY <1>3, RatioType
    <3>3. ratio \in FloatType /\ SameNumber(over, ratio)
      BY <1>1, <1>3, <3>1, SameRatio
    <3> HIDE DEF ratio, over
    <3>4. IsCut(Clamp(Times(over, InverseOrOne(Normalization["amount_vs_avg_ratio"]))),
                Share(ratio, Normalization["amount_vs_avg_ratio"]))
      BY <1>4, <3>2, <3>3, ScaledIsCut
    <3> QED BY <3>4 DEF over
  <2>5. /\ SameNumber(c4, <<s.requested_at.hour, 23>>)
        /\ SameNumber(c5, <<s.requested_at.weekday, 6>>)
    <3>1. /\ r.transaction.requested_at.hour = s.requested_at.hour
          /\ r.transaction.requested_at.weekday = s.requested_at.weekday
      BY <1>1, <1>2 DEF Agrees, SameInstant
    <3> QED BY <3>1 DEF SameNumber
  <2>6. IsCut(c8, Share(s.home, Normalization["max_km"]))
    BY <1>1, <1>2, <1>3, <1>4, ScaledIsCut DEF Agrees
  <2>7. IsCut(c9, Share(<<s.tx_count, 1>>, Normalization["max_tx_count_24h"]))
    <3>1. /\ Fraction(r.customer.tx_count_24h) = <<s.tx_count, 1>>
          /\ <<s.tx_count, 1>> \in FloatType
          /\ SameNumber(<<s.tx_count, 1>>, <<s.tx_count, 1>>)
      BY <1>1, <1>2 DEF Agrees, Fraction, FloatType, SameNumber
    <3> QED BY <1>4, <3>1, ScaledIsCut
  <2>8. c10 = BoolToFloat(s.online) /\ c11 = BoolToFloat(s.card)
    BY <1>2 DEF Agrees
  <2>9. c12 = BoolToFloat(s.merchant \notin ToSet(s.known))
    <3>1. HasKnownMerchant(r.customer, r.merchant.id)
             <=> r.merchant.id \in ToSet(r.customer.known_merchants)
      BY <1>3, KnownIsListed
    <3>2. r.merchant.id = s.merchant /\ r.customer.known_merchants = s.known
      BY <1>2 DEF Agrees
    <3> QED BY <3>1, <3>2 DEF BoolToFloat
  <2>10. IsCut(c14, Share(s.merchant_avg, Normalization["max_merchant_avg_amount"]))
    BY <1>1, <1>2, <1>3, <1>4, ScaledIsCut DEF Agrees
  <2>11. /\ SameInstant(r.transaction.requested_at, s.requested_at)
         /\ LastAsWritten(r.last_transaction, s)
    BY <1>2 DEF Agrees
  <2> HIDE DEF c1, c2, c3, c4, c5, c6, c7, c8, c9, c10, c11, c12, c14, ratio
  <2>12. /\ v[1] = c1 /\ v[2] = c2 /\ v[3] = c3 /\ v[4] = c4 /\ v[5] = c5
         /\ v[6] = c6 /\ v[7] = c7 /\ v[8] = c8 /\ v[9] = c9 /\ v[10] = c10
         /\ v[11] = c11 /\ v[12] = c12 /\ v[13] = s.risk /\ v[14] = c14
    BY <2>1
  <2>13. SinceAsWritten(v, s)
    <3>1. v[6] = SinceLast(r)[1] /\ v[7] = SinceLast(r)[2]
      BY <2>12 DEF c6, c7
    <3> QED BY <1>1, <2>11, <3>1, SinceIsAsWritten
  <2>14. IsCut(v[3], Share(IF s.customer_avg[1] > 0
                           THEN Over(s.amount, s.customer_avg)
                           ELSE s.amount,
                           Normalization["amount_vs_avg_ratio"]))
    BY <2>4, <2>12 DEF ratio
  <2> QED BY <2>2, <2>3, <2>5, <2>6, <2>7, <2>8, <2>9, <2>10, <2>12, <2>13, <2>14
          DEF IsVectorOf
<1> QED BY <1>6, <1>7 DEF s

\* The set of an accepted request is that of its list.
Completed ==
    phase = "accepted" =>
        request.customer.knownMerchantSet =
            KnownMerchantSet(request.customer.known_merchants)

LEMMA AcceptedIsCompleted == Spec => []Completed
<1>1. Init => Completed
  BY DEF Init, Completed
<1>2. TypeOK /\ Completed /\ [Next]_vars => Completed'
  <2> SUFFICES ASSUME TypeOK, Completed, [Next]_vars, phase' = "accepted"
               PROVE  request'.customer.knownMerchantSet =
                        KnownMerchantSet(request'.customer.known_merchants)
    BY DEF Completed
  <2>1. CASE Finish
    <3>1. request' = Finalized(request) /\ request \in RequestType
      BY <2>1 DEF Finish, TypeOK
    <3> QED BY <3>1 DEF Finalized, RequestType
  <2>2. CASE UNCHANGED vars
    BY <2>2 DEF vars, Completed
  <2>3. CASE ~ Finish /\ Next
    <3>1. phase' # "accepted"
      BY <2>3 DEF Next, ParserStep, RejectMalformed, TakeString, TakeFloat,
              TakeInt, TakeBool, TakeTimestamp, SkipMember, EnterObject,
              TakeLast, EnterArray, TakeElement, LeaveArray, LeaveObject,
              Assign, Reject, Descend, AtMember, InLoop, AtBrace, PutBack, Begin
    <3> QED BY <3>1
  <2> QED BY <2>1, <2>2, <2>3
<1> QED BY <1>1, <1>2, ParserTypeCorrect, PTL DEF Spec

\* If the parser reads every document as it is written, then the vector of
\* every accepted document is that of its meaning: of the two steps from a body
\* to a vector the second is right for all numbers, times, lists, maxima and
\* widths (vectorizer.go:22-149, types.go:130-170).
THEOREM VectorsFollowReading == Spec /\ []ReadsAsWritten => []VectorAsWritten
<1>1. TypeOK /\ Completed /\ ReadsAsWritten => VectorAsWritten
  <2> SUFFICES ASSUME TypeOK, Completed, ReadsAsWritten,
                      NEW d \in Documents, phase = "accepted", body = d.text
               PROVE  /\ Vectors(request) # {}
                      /\ \A v \in Vectors(request) : IsVectorOf(v, d.says)
    BY DEF VectorAsWritten
  <2>1. request \in RequestType /\ Agrees(request, d.says)
    BY DEF TypeOK, ReadsAsWritten
  <2>2. request.customer.knownMerchantSet =
            KnownMerchantSet(request.customer.known_merchants)
    BY DEF Completed
  <2> QED BY <2>1, <2>2, VectorOfAgreeing
<1> QED BY <1>1, ParserTypeCorrect, AcceptedIsCompleted, PTL

-----------------------------------------------------------------------------
(***************************************************************************)
(* Counting in windows.                                                    *)
(***************************************************************************)
\* How many members a set has up to a position.
Count(S, i) == Cardinality(S \cap (1 .. i))

\* A set has finitely many members up to a position.
LEMMA CountType ==
    ASSUME NEW S, NEW i \in Nat
    PROVE  /\ IsFiniteSet(S \cap (1 .. i)) /\ Count(S, i) \in Nat
           /\ (S \cap (1 .. i) = {} => Count(S, i) = 0)
<1>1. IsFiniteSet(1 .. i) /\ S \cap (1 .. i) \in SUBSET (1 .. i)
  BY UptoFinite
<1>2. IsFiniteSet(S \cap (1 .. i))
  BY <1>1, FS_Subset
<1> QED BY <1>2, FS_CardinalityType, FS_EmptySet DEF Count

\* The next position counts when it is a member.
LEMMA CountStep ==
    ASSUME NEW S, NEW i \in Nat
    PROVE  Count(S, i + 1) = Count(S, i) + (IF i + 1 \in S THEN 1 ELSE 0)
<1>1. IsFiniteSet(S \cap (1 .. i)) /\ Count(S, i) \in Nat
  BY CountType
<1>2. CASE i + 1 \in S
  <2>1. S \cap (1 .. (i + 1)) = (S \cap (1 .. i)) \cup {i + 1}
    BY <1>2
  <2>2. i + 1 \notin S \cap (1 .. i)
    OBVIOUS
  <2>3. Cardinality((S \cap (1 .. i)) \cup {i + 1})
            = Cardinality(S \cap (1 .. i)) + 1
    BY <1>1, <2>2, FS_AddElement
  <2> QED BY <1>2, <2>1, <2>3 DEF Count
<1>3. CASE i + 1 \notin S
  <2>1. S \cap (1 .. (i + 1)) = S \cap (1 .. i)
    BY <1>3
  <2> QED BY <1>1, <1>3, <2>1 DEF Count
<1> QED BY <1>2, <1>3

\* Positions that are no members do not count.
LEMMA CountSpan ==
    ASSUME NEW S, NEW i \in Nat, NEW k \in Nat, i <= k,
           \A j \in (i + 1) .. k : j \notin S
    PROVE  Count(S, k) = Count(S, i)
<1>1. S \cap (1 .. k) = S \cap (1 .. i)
  OBVIOUS
<1> QED BY <1>1 DEF Count

\* A window counts what it shows.
LEMMA CountWindow ==
    ASSUME NEW S, NEW p \in Nat, NEW i \in Nat
    PROVE  Count(S, p + i) =
                Count(S, p) + Cardinality({j \in 1 .. i : p + j \in S})
<1> DEFINE W == {j \in 1 .. i : p + j \in S}
           V == S \cap ((p + 1) .. (p + i))
           f == [j \in W |-> p + j]
<1>1. IsFiniteSet(W)
  BY UptoFinite, FS_Subset
<1>2. ExistsBijection(W, V)
  <2>1. f \in [W -> V]
    OBVIOUS
  <2>2. \A a, b \in W : f[a] = f[b] => a = b
    OBVIOUS
  <2>3. ASSUME NEW v \in V PROVE \E a \in W : f[a] = v
    <3>1. v - p \in W /\ f[v - p] = v
      OBVIOUS
    <3> QED BY <3>1
  <2>4. f \in Bijection(W, V)
    BY <2>1, <2>2, <2>3 DEF Bijection, Injection, Surjection, IsInjective
  <2> QED BY <2>4 DEF ExistsBijection
<1>3. IsFiniteSet(V) /\ Cardinality(V) = Cardinality(W)
  BY <1>1, <1>2, FS_Bijection
<1>4. IsFiniteSet(S \cap (1 .. p))
  BY CountType
<1>5. S \cap (1 .. (p + i)) = (S \cap (1 .. p)) \cup V
  OBVIOUS
<1>6. (S \cap (1 .. p)) \cap V = {}
  OBVIOUS
<1> HIDE DEF V, W
<1>7. Cardinality((S \cap (1 .. p)) \cup V) =
            Cardinality(S \cap (1 .. p)) + Cardinality(V)
                - Cardinality((S \cap (1 .. p)) \cap V)
  BY <1>3, <1>4, FS_Union
<1>8. Cardinality(S \cap (1 .. p)) \in Nat /\ Cardinality(V) \in Nat
  BY <1>3, <1>4, FS_CardinalityType
<1>9. Cardinality((S \cap (1 .. p)) \cap V) = 0
  BY <1>6, FS_EmptySet
<1>10. Cardinality((S \cap (1 .. p)) \cup V)
            = Cardinality(S \cap (1 .. p)) + Cardinality(V)
  BY <1>7, <1>8, <1>9
<1> QED BY <1>3, <1>5, <1>10 DEF Count, W

-----------------------------------------------------------------------------
(***************************************************************************)
(* Where symbols stand.                                                    *)
(***************************************************************************)
\* The first of a set of positions.
LEMMA FirstOfLeast ==
    ASSUME NEW S, S \subseteq Nat, NEW o
    PROVE  /\ S = {} => FirstOf(S, o) = o
           /\ S # {} => /\ FirstOf(S, o) \in S
                        /\ \A x \in S : FirstOf(S, o) <= x
<1>1. CASE S = {}
  BY <1>1 DEF FirstOf
<1>2. CASE S # {}
  <2>1. \E x \in S : \A y \in S : x <= y
    BY <1>2, LeastExists
  <2>2. Min(S) \in S /\ \A y \in S : Min(S) <= y
    BY <2>1 DEF Min
  <2> QED BY <1>2, <2>2 DEF FirstOf
<1> QED BY <1>1, <1>2

\* The symbols of a window from a position on.
LEMMA FromEntries ==
    ASSUME NEW d \in Window, NEW p \in 0 .. Len(d)
    PROVE  \A j \in 1 .. Len(d) - p : From(d, p + 1)[j] = d[p + j]
<1>1. Len(d) \in Nat /\ p + 1 \in 1 .. Len(d) + 1
  BY DEF Window
<1> QED BY <1>1 DEF From, Window

\* A window from a position on shows the symbols behind it.
LEMMA FromShows ==
    ASSUME NEW d \in Window, NEW p \in 0 .. Len(d)
    PROVE  LET w == From(d, p + 1) IN
           /\ w \in Window /\ Len(w) = Len(d) - p /\ Len(d) \in Nat
           /\ \A j \in 1 .. Len(d) - p : w[j] = d[p + j]
           /\ \A i \in 0 .. Len(d) - p : From(w, i + 1) = From(d, p + i + 1)
<1> DEFINE w == From(d, p + 1)
<1>1. Len(d) \in Nat /\ p + 1 \in 1 .. Len(d) + 1
  BY DEF Window
<1>2. w \in Window /\ Len(w) = Len(d) - p
  <2>1. w \in Window /\ Len(w) = Len(d) + 1 - (p + 1)
    BY <1>1, FromWindow
  <2> QED BY <1>1, <2>1
<1>3. \A j \in 1 .. Len(d) - p : w[j] = d[p + j]
  BY FromEntries
<1>4. ASSUME NEW i \in 0 .. Len(d) - p
      PROVE  From(w, i + 1) = From(d, p + i + 1)
  <2> DEFINE a == From(w, i + 1)
             b == From(d, p + i + 1)
  <2>1. i + 1 \in 1 .. Len(w) + 1 /\ p + i + 1 \in 1 .. Len(d) + 1
    BY <1>1, <1>2
  <2>2. a \in Window /\ b \in Window /\ Len(a) = Len(d) - p - i
        /\ Len(b) = Len(d) - p - i
    <3>1. a \in Window /\ Len(a) = Len(w) + 1 - (i + 1)
      BY <1>2, <2>1, FromWindow
    <3>2. b \in Window /\ Len(b) = Len(d) + 1 - (p + i + 1)
      BY <2>1, FromWindow
    <3> QED BY <1>1, <1>2, <3>1, <3>2
  <2>3. \A j \in 1 .. Len(d) - p - i : a[j] = w[i + j]
    <3> HIDE DEF w
    <3>1. \A j \in 1 .. Len(w) - i : From(w, i + 1)[j] = w[i + j]
      BY <1>1, <1>2, FromEntries
    <3> QED BY <1>1, <1>2, <3>1
  <2>4. \A j \in 1 .. Len(d) - p - i : b[j] = d[p + i + j]
    <3>1. p + i \in 0 .. Len(d)
      BY <1>1
    <3>2. \A j \in 1 .. Len(d) - (p + i) :
              From(d, (p + i) + 1)[j] = d[(p + i) + j]
      BY <3>1, FromEntries
    <3> QED BY <1>1, <3>2
  <2>5. \A j \in 1 .. Len(d) - p - i : w[i + j] = d[p + i + j]
    <3>1. \A j \in 1 .. Len(d) - p - i : i + j \in 1 .. Len(d) - p
                                          /\ p + (i + j) = p + i + j
      BY <1>1
    <3> QED BY <1>3, <3>1
  <2> HIDE DEF a, b, w
  <2>6. a = b
    BY <1>1, <2>2, <2>3, <2>4, <2>5, SeqEqual DEF Window
  <2> QED BY <2>6 DEF a, b, w
<1> QED BY <1>1, <1>2, <1>3, <1>4

\* Skipping white space goes to the first symbol that is none.
LEMMA SkipFrom ==
    ASSUME NEW d \in Window, NEW p \in 0 .. Len(d)
    PROVE  \E q \in p .. Len(d) :
                /\ SkipWS(From(d, p + 1)) = From(d, q + 1)
                /\ \A j \in (p + 1) .. q : d[j] = Space
                /\ q < Len(d) => d[q + 1] # Space
<1> DEFINE w == From(d, p + 1)
           S == {i \in 1 .. Len(w) : w[i] # Space}
           f == FirstOf(S, Len(w) + 1)
<1>1. /\ w \in Window /\ Len(w) = Len(d) - p /\ Len(d) \in Nat
      /\ \A j \in 1 .. Len(d) - p : w[j] = d[p + j]
      /\ \A i \in 0 .. Len(d) - p : From(w, i + 1) = From(d, p + i + 1)
  BY FromShows
<1>2. SkipWS(w) = From(w, f)
  BY DEF SkipWS
<1> HIDE DEF w
<1>3. /\ S = {} => f = Len(w) + 1
      /\ S # {} => f \in S /\ \A x \in S : f <= x
  <2>1. S \subseteq Nat
    BY <1>1
  <2> HIDE DEF S
  <2> QED BY <2>1, FirstOfLeast
<1> HIDE DEF f
<1>4. f \in 1 .. Len(w) + 1 /\ \A j \in 1 .. f - 1 : w[j] = Space
  <2>1. CASE S = {}
    <3>1. f = Len(w) + 1 /\ \A j \in 1 .. Len(w) : w[j] = Space
      BY <1>3, <2>1
    <3> QED BY <1>1, <3>1
  <2>2. CASE S # {}
    <3>1. f \in 1 .. Len(w) /\ \A x \in S : f <= x
      BY <1>3, <2>2
    <3>2. Len(w) \in Nat
      BY <1>1
    <3>3. ASSUME NEW j \in 1 .. f - 1, w[j] # Space PROVE FALSE
      <4>1. j \in S
        BY <3>1, <3>2, <3>3
      <4> QED BY <3>1, <3>2, <3>3, <4>1
    <3> QED BY <3>1, <3>2, <3>3
  <2> QED BY <2>1, <2>2
<1>5. f <= Len(w) => w[f] # Space
  <2>1. CASE S = {}
    BY <1>1, <1>3, <2>1
  <2>2. CASE S # {}
    BY <1>1, <1>3, <2>2
  <2> QED BY <2>1, <2>2
<1> HIDE DEF S
<1> DEFINE q == p + f - 1
<1>6. q \in p .. Len(d)
  BY <1>1, <1>4
<1>7. From(w, f) = From(d, q + 1)
  <2>1. f - 1 \in 0 .. Len(d) - p /\ f - 1 + 1 = f /\ p + (f - 1) + 1 = q + 1
    BY <1>1, <1>4
  <2>2. From(w, (f - 1) + 1) = From(d, p + (f - 1) + 1)
    BY <1>1, <2>1
  <2> QED BY <2>1, <2>2
<1>8. ASSUME NEW j \in (p + 1) .. q PROVE d[j] = Space
  <2>1. j - p \in 1 .. f - 1 /\ j - p \in 1 .. Len(d) - p /\ p + (j - p) = j
    BY <1>1, <1>4, <1>8
  <2> QED BY <1>1, <1>4, <2>1
<1>9. ASSUME q < Len(d) PROVE d[q + 1] # Space
  <2>1. f <= Len(w) /\ f \in 1 .. Len(d) - p /\ p + f = q + 1
    BY <1>1, <1>4, <1>9
  <2> QED BY <1>1, <1>5, <2>1
<1> QED BY <1>2, <1>6, <1>7, <1>8, <1>9 DEF w

\* The places of a symbol, and of the quotes that open and close strings.
Places(d, c) == {j \in 1 .. Len(d) : d[j] = c}
StringQuotes(d) == {j \in 1 .. Len(d) : Unescaped(d, j)}

\* The counts of the parser and of well-written texts are counts of sets.
LEMMA OccurrencesCount ==
    ASSUME NEW d \in Window, NEW i \in 0 .. Len(d), NEW c
    PROVE  Occurrences(d, i, c) = Count(Places(d, c), i)
<1>1. Len(d) \in Nat
  BY DEF Window
<1>2. {j \in 1 .. i : d[j] = c} = Places(d, c) \cap (1 .. i)
  BY <1>1 DEF Places
<1> QED BY <1>2 DEF Occurrences, Count

\* Outside of a string the number of quotes is even.
LEMMA OutsideCount ==
    ASSUME NEW d \in Window, NEW i \in 0 .. Len(d)
    PROVE  Outside(d, i) <=> Count(StringQuotes(d), i) % 2 = 0
<1>1. Len(d) \in Nat
  BY DEF Window
<1>2. {j \in 1 .. i : Unescaped(d, j)} = StringQuotes(d) \cap (1 .. i)
  BY <1>1 DEF StringQuotes
<1> QED BY <1>2 DEF Outside, Count

\* A quote opens or closes a string, and nothing else does.
LEMMA OutsideStep ==
    ASSUME NEW d \in Window, NEW i \in 0 .. Len(d), i < Len(d)
    PROVE  /\ Unescaped(d, i + 1) => (Outside(d, i + 1) <=> ~ Outside(d, i))
           /\ ~ Unescaped(d, i + 1) => (Outside(d, i + 1) <=> Outside(d, i))
<1>1. /\ Len(d) \in Nat /\ i \in Nat
      /\ i + 1 \in 0 .. Len(d) /\ i + 1 \in 1 .. Len(d)
  BY DEF Window
<1> DEFINE n == Count(StringQuotes(d), i)
           m == Count(StringQuotes(d), i + 1)
<1>2. n \in Nat /\ m = n + (IF i + 1 \in StringQuotes(d) THEN 1 ELSE 0)
  <2>1. n \in Nat
    BY <1>1, CountType
  <2>2. m = n + (IF i + 1 \in StringQuotes(d) THEN 1 ELSE 0)
    BY <1>1, CountStep
  <2> QED BY <2>1, <2>2
<1>3. i + 1 \in StringQuotes(d) <=> Unescaped(d, i + 1)
  BY <1>1 DEF StringQuotes
<1>4. Outside(d, i) <=> n % 2 = 0
  BY OutsideCount
<1>5. Outside(d, i + 1) <=> m % 2 = 0
  BY <1>1, OutsideCount
<1> HIDE DEF n, m
<1>6. (n + 1) % 2 = 0 <=> n % 2 # 0
  BY <1>2
<1>7. CASE Unescaped(d, i + 1)
  <2>1. m = n + 1
    BY <1>2, <1>3, <1>7
  <2> QED BY <1>4, <1>5, <1>6, <1>7, <2>1
<1>8. CASE ~ Unescaped(d, i + 1)
  <2>1. m = n
    BY <1>2, <1>3, <1>8
  <2> QED BY <1>4, <1>5, <1>8, <2>1
<1> QED BY <1>7, <1>8

\* Where no string opens or closes, both ends are outside or neither is.
LEMMA OutsideSpan ==
    ASSUME NEW d \in Window, NEW p \in 0 .. Len(d), NEW q \in p .. Len(d),
           \A j \in (p + 1) .. q : ~ Unescaped(d, j)
    PROVE  Outside(d, q) <=> Outside(d, p)
<1>1. Len(d) \in Nat /\ q \in 0 .. Len(d)
  BY DEF Window
<1>2. \A j \in (p + 1) .. q : j \notin StringQuotes(d)
  BY DEF StringQuotes
<1>3. Count(StringQuotes(d), q) = Count(StringQuotes(d), p)
  BY <1>1, <1>2, CountSpan
<1> QED BY <1>1, <1>3, OutsideCount

\* Symbols that do not occur in a span leave their count.
LEMMA OccurrencesSpan ==
    ASSUME NEW d \in Window, NEW p \in 0 .. Len(d), NEW q \in p .. Len(d),
           NEW c,
           \A j \in (p + 1) .. q : d[j] # c
    PROVE  Occurrences(d, q, c) = Occurrences(d, p, c)
<1>1. Len(d) \in Nat /\ q \in 0 .. Len(d)
  BY DEF Window
<1>2. \A j \in (p + 1) .. q : j \notin Places(d, c)
  BY DEF Places
<1>3. Count(Places(d, c), q) = Count(Places(d, c), p)
  BY <1>1, <1>2, CountSpan
<1> QED BY <1>1, <1>3, OccurrencesCount

\* The count of a symbol is a number.
LEMMA OccurrencesType ==
    ASSUME NEW d \in Window, NEW i \in 0 .. Len(d), NEW c
    PROVE  Occurrences(d, i, c) \in Nat
<1>1. Len(d) \in Nat /\ i \in Nat
  BY DEF Window
<1>2. Occurrences(d, i, c) = Count(Places(d, c), i)
  BY OccurrencesCount
<1>3. Count(Places(d, c), i) \in Nat
  BY <1>1, CountType
<1> QED BY <1>2, <1>3

\* What occurs in a window has occurred behind its start.
LEMMA OccurrencesWindow ==
    ASSUME NEW d \in Window, NEW p \in 0 .. Len(d),
           NEW i \in 0 .. Len(d) - p, NEW c
    PROVE  Occurrences(d, p + i, c) =
                Occurrences(d, p, c) + Occurrences(From(d, p + 1), i, c)
<1> DEFINE w == From(d, p + 1)
<1>1. Len(d) \in Nat /\ p + i \in 0 .. Len(d)
  BY DEF Window
<1>2. \A j \in 1 .. Len(d) - p : w[j] = d[p + j]
  BY FromEntries
<1>3. {j \in 1 .. i : w[j] = c} = {j \in 1 .. i : p + j \in Places(d, c)}
  <2> HIDE DEF w
  <2>1. ASSUME NEW j \in 1 .. i PROVE w[j] = c <=> p + j \in Places(d, c)
    <3>1. j \in 1 .. Len(d) - p /\ p + j \in 1 .. Len(d)
      BY <1>1
    <3> QED BY <1>2, <3>1 DEF Places
  <2> QED BY <2>1
<1>4. Count(Places(d, c), p + i) =
            Count(Places(d, c), p)
                + Cardinality({j \in 1 .. i : p + j \in Places(d, c)})
  BY <1>1, CountWindow
<1> QED BY <1>1, <1>3, <1>4, OccurrencesCount DEF Occurrences

-----------------------------------------------------------------------------
(***************************************************************************)
(* Where the parser is in a text.                                          *)
(***************************************************************************)
\* Behind a member of the object around everything.
Reached(d, p) ==
    Outside(d, p) /\ Occurrences(d, p, "{") = Occurrences(d, p, "}") + 1

\* A symbol that leaves it there.
Quiet(c) == c \notin {Quote, "{", "}"}

\* Symbols that are neither quotes nor braces may be passed.
LEMMA ReachedSpan ==
    ASSUME NEW d \in Window, NEW p \in 0 .. Len(d), NEW q \in p .. Len(d),
           Reached(d, p), \A j \in (p + 1) .. q : Quiet(d[j])
    PROVE  Reached(d, q)
<1>1. \A j \in (p + 1) .. q : ~ Unescaped(d, j) /\ d[j] # "{" /\ d[j] # "}"
  BY DEF Unescaped, Quiet
<1>2. Occurrences(d, q, "{") = Occurrences(d, p, "{")
  BY <1>1, OccurrencesSpan
<1>3. Occurrences(d, q, "}") = Occurrences(d, p, "}")
  BY <1>1, OccurrencesSpan
<1>4. Outside(d, q) <=> Outside(d, p)
  BY <1>1, OutsideSpan
<1> QED BY <1>2, <1>3, <1>4 DEF Reached

\* A string, of a key or of a value.
LEMMA ReachedString ==
    ASSUME NEW d \in Window, PlainStrings(d),
           NEW p \in 0 .. Len(d), Reached(d, p),
           NEW c \in (p + 2) .. Len(d), Unescaped(d, p + 1), Unescaped(d, c),
           \A j \in (p + 2) .. (c - 1) : ~ Unescaped(d, j)
    PROVE  Reached(d, c)
<1>1. Len(d) \in Nat
  BY DEF Window
<1>2. ~ Outside(d, p + 1)
  <2>1. p < Len(d)
    BY <1>1
  <2>3. Outside(d, p)
    BY DEF Reached
  <2>2. Unescaped(d, p + 1) => (Outside(d, p + 1) <=> ~ Outside(d, p))
    BY <2>1, OutsideStep
  <2> QED BY <2>2, <2>3
<1>3. ASSUME NEW k \in (p + 1) .. (c - 1) PROVE ~ Outside(d, k)
  <2>1. p + 1 \in 0 .. Len(d) /\ k \in (p + 1) .. Len(d)
        /\ \A j \in (p + 1 + 1) .. k : ~ Unescaped(d, j)
    BY <1>1
  <2>2. Outside(d, k) <=> Outside(d, p + 1)
    BY <2>1, OutsideSpan
  <2> QED BY <1>2, <2>2
<1>4. Outside(d, c)
  <2>1. c - 1 \in (p + 1) .. (c - 1) /\ c - 1 \in 0 .. Len(d) /\ c - 1 < Len(d)
        /\ c - 1 + 1 = c
    BY <1>1
  <2>2. Unescaped(d, c - 1 + 1) =>
            (Outside(d, c - 1 + 1) <=> ~ Outside(d, c - 1))
    BY <2>1, OutsideStep
  <2> QED BY <1>3, <2>1, <2>2
<1>5. \A j \in (p + 1) .. c : d[j] # "{" /\ d[j] # "}"
  <2>1. ASSUME NEW j \in (p + 1) .. c, d[j] \in {"{", "}"} PROVE FALSE
    <3>1. j \in 1 .. Len(d)
      BY <1>1
    <3>2. Outside(d, j)
      BY <2>1, <3>1 DEF PlainStrings
    <3>3. j = c
      BY <1>3, <3>2
    <3> QED BY <2>1, <3>3 DEF Unescaped, Quote
  <2> QED BY <2>1
<1>6. /\ Occurrences(d, c, "{") = Occurrences(d, p, "{")
      /\ Occurrences(d, c, "}") = Occurrences(d, p, "}")
  <2>1. c \in p .. Len(d)
    BY <1>1
  <2> QED BY <1>5, <2>1, OccurrencesSpan
<1> QED BY <1>4, <1>6 DEF Reached

\* White space is neither a quote nor a bracket, so it may be skipped.
LEMMA ReachedSkip ==
    ASSUME NEW d \in Window, NEW p \in 0 .. Len(d), Reached(d, p)
    PROVE  \E q \in p .. Len(d) :
                /\ SkipWS(From(d, p + 1)) = From(d, q + 1)
                /\ Reached(d, q)
                /\ \A j \in (p + 1) .. q : d[j] = Space
                /\ q < Len(d) => d[q + 1] # Space
<1>1. PICK q \in p .. Len(d) :
                /\ SkipWS(From(d, p + 1)) = From(d, q + 1)
                /\ \A j \in (p + 1) .. q : d[j] = Space
                /\ q < Len(d) => d[q + 1] # Space
  BY SkipFrom
<1>2. \A j \in (p + 1) .. q : Quiet(d[j])
  BY <1>1 DEF Quiet, Quote, Space
<1>3. Reached(d, q)
  BY <1>2, ReachedSpan
<1> QED BY <1>1, <1>3

\* What stands at the start of a window.
LEMMA FromStarts ==
    ASSUME NEW d \in Window, NEW p \in 0 .. Len(d), NEW c
    PROVE  /\ Starts(From(d, p + 1), c) <=> p < Len(d) /\ d[p + 1] = c
           /\ From(d, p + 1) = << >> <=> p = Len(d)
<1> DEFINE w == From(d, p + 1)
<1>1. /\ w \in Window /\ Len(w) = Len(d) - p /\ Len(d) \in Nat
      /\ \A j \in 1 .. Len(d) - p : w[j] = d[p + j]
  BY FromShows
<1> HIDE DEF w
<1>2. w = << >> <=> p = Len(d)
  BY <1>1 DEF Window
<1>3. w # << >> => Head(w) = d[p + 1]
  BY <1>1, <1>2 DEF Window
<1>4. p # Len(d) <=> p < Len(d)
  BY <1>1
<1> QED BY <1>2, <1>3, <1>4 DEF Starts, w

\* Dropping the first symbol of a window goes one on.
LEMMA FromRest ==
    ASSUME NEW d \in Window, NEW p \in 0 .. Len(d), p < Len(d)
    PROVE  p + 1 \in 0 .. Len(d) /\ Rest(From(d, p + 1)) = From(d, p + 1 + 1)
<1>1. Len(d) \in Nat
  BY DEF Window
<1>2. 1 \in 0 .. Len(d) - p /\ 1 + 1 = 2
  BY <1>1
<1>3. From(From(d, p + 1), 1 + 1) = From(d, p + 1 + 1)
  BY <1>2, FromShows
<1> QED BY <1>1, <1>2, <1>3 DEF Rest

\* The end of a value that is not everything there is.
LEMMA ValueEnds ==
    ASSUME NEW v \in Window, NEW e, e = FindValueEnd(v), e # Len(v)
    PROVE  /\ Starts(v, Quote) =>
                e \in StringEnds(v) /\ \A i \in StringEnds(v) : e <= i
           /\ Starts(v, "{") =>
                /\ e \in Balanced(v, "{", "}")
                /\ \A i \in Balanced(v, "{", "}") : e <= i
           /\ Starts(v, "[") => e \in Balanced(v, "[", "]")
           /\ ~ Starts(v, Quote) /\ ~ Starts(v, "{") /\ ~ Starts(v, "[") =>
                \A i \in 1 .. e : i \notin Delimiters(v)
<1>0. Len(v) \in Nat
  BY DEF Window
<1>1. \A open, close : Balanced(v, open, close) \subseteq Nat
  BY <1>0 DEF Balanced
<1>2. ASSUME NEW S, S \subseteq Nat, e = FirstOf(S, Len(v))
      PROVE  e \in S /\ \A i \in S : e <= i
  <2>1. /\ S = {} => FirstOf(S, Len(v)) = Len(v)
        /\ S # {} => /\ FirstOf(S, Len(v)) \in S
                     /\ \A x \in S : FirstOf(S, Len(v)) <= x
    BY <1>2, FirstOfLeast
  <2> QED BY <1>2, <2>1
<1>3. CASE Starts(v, Quote)
  <2>1. StringEnds(v) \subseteq Nat
    BY DEF StringEnds
  <2>2. /\ e = FirstOf(StringEnds(v), Len(v))
        /\ ~ Starts(v, "{") /\ ~ Starts(v, "[")
    BY <1>3 DEF FindValueEnd, Starts, Quote
  <2>3. e \in StringEnds(v) /\ \A i \in StringEnds(v) : e <= i
    BY <1>2, <2>1, <2>2
  <2> QED BY <1>3, <2>2, <2>3
<1>4. CASE Starts(v, "{")
  <2>1. Balanced(v, "{", "}") \subseteq Nat
    BY <1>1
  <2>2. /\ e = FirstOf(Balanced(v, "{", "}"), Len(v))
        /\ ~ Starts(v, Quote) /\ ~ Starts(v, "[")
    BY <1>4 DEF FindValueEnd, Starts, Quote
  <2>3. e \in Balanced(v, "{", "}") /\ \A i \in Balanced(v, "{", "}") : e <= i
    BY <1>2, <2>1, <2>2
  <2> QED BY <1>4, <2>2, <2>3
<1>5. CASE Starts(v, "[")
  <2>1. Balanced(v, "[", "]") \subseteq Nat
    BY <1>1
  <2>2. /\ e = FirstOf(Balanced(v, "[", "]"), Len(v))
        /\ ~ Starts(v, Quote) /\ ~ Starts(v, "{")
    BY <1>5 DEF FindValueEnd, Starts, Quote
  <2>3. e \in Balanced(v, "[", "]")
    BY <1>2, <2>1, <2>2
  <2> QED BY <1>5, <2>2, <2>3
<1>6. CASE ~ Starts(v, Quote) /\ ~ Starts(v, "{") /\ ~ Starts(v, "[")
  <2> DEFINE S == {i - 1 : i \in Delimiters(v)}
  <2>1. S \subseteq Nat
    <3>1. \A i \in Delimiters(v) : i \in 1 .. Len(v)
      BY DEF Delimiters
    <3> QED BY <1>0, <3>1
  <2>2. e = FirstOf(S, Len(v))
    BY <1>6 DEF FindValueEnd
  <2> HIDE DEF S
  <2>3. e \in S /\ \A i \in S : e <= i
    BY <1>2, <2>1, <2>2
  <2>4. ASSUME NEW i \in 1 .. e, i \in Delimiters(v) PROVE FALSE
    <3>1. i - 1 \in S
      BY <2>4 DEF S
    <3>2. e <= i - 1 /\ e \in Nat
      BY <2>1, <2>3, <3>1
    <3> QED BY <3>2
  <2> QED BY <1>6, <2>4
<1> QED BY <1>3, <1>4, <1>5, <1>6

\* A window in which two symbols occur equally often leaves their difference.
LEMMA AsDeep ==
    ASSUME NEW d \in Window, NEW p \in 0 .. Len(d), NEW i \in 0 .. Len(d) - p,
           NEW o, NEW c,
           Occurrences(d, p, o) = Occurrences(d, p, c) + 1,
           Occurrences(From(d, p + 1), i, o) = Occurrences(From(d, p + 1), i, c)
    PROVE  Occurrences(d, p + i, o) = Occurrences(d, p + i, c) + 1
<1>1. /\ Occurrences(d, p + i, o) =
            Occurrences(d, p, o) + Occurrences(From(d, p + 1), i, o)
      /\ Occurrences(d, p + i, c) =
            Occurrences(d, p, c) + Occurrences(From(d, p + 1), i, c)
  BY OccurrencesWindow
<1>2. From(d, p + 1) \in Window /\ i \in 0 .. Len(From(d, p + 1))
  BY FromShows
<1>3. /\ Occurrences(d, p, c) \in Nat
      /\ Occurrences(From(d, p + 1), i, c) \in Nat
  BY <1>2, OccurrencesType
<1> QED BY <1>1, <1>3

\* Behind a value the parser is where it was before it, or nothing is left.
LEMMA ReachedValue ==
    ASSUME NEW d \in Window, Orderly(d), NEW v \in 1 .. Len(d), d[v] = ":",
           Reached(d, v), NEW text, text = SkipWS(From(d, v + 1))
    PROVE  \E r \in 1 .. Len(d) :
                /\ From(text, FindValueEnd(text) + 1) = From(d, r + 1)
                /\ r < Len(d) => Reached(d, r)
<1>0. Len(d) \in Nat /\ v \in 0 .. Len(d)
  BY DEF Window
<1>1. PICK u \in v .. Len(d) :
            /\ text = From(d, u + 1) /\ Reached(d, u)
            /\ \A j \in (v + 1) .. u : d[j] = Space
            /\ u < Len(d) => d[u + 1] # Space
  BY <1>0, ReachedSkip
<1>2. u \in Nat /\ u \in 0 .. Len(d) /\ u \in 1 .. Len(d)
  BY <1>0
<1>3. /\ text \in Window /\ Len(text) = Len(d) - u
      /\ \A j \in 1 .. Len(d) - u : text[j] = d[u + j]
      /\ \A i \in 0 .. Len(d) - u : From(text, i + 1) = From(d, u + i + 1)
  <2>1. text = From(d, u + 1)
    BY <1>1
  <2>2. u \in 0 .. Len(d)
    BY <1>2
  <2> QED BY <2>1, <2>2, FromShows
<1> DEFINE e == FindValueEnd(text)
<1>4. e \in 0 .. Len(text)
  BY <1>3, ValueEndInside
<1> HIDE DEF e
<1>5. From(text, e + 1) = From(d, (u + e) + 1) /\ u + e \in 1 .. Len(d)
      /\ u + e \in 0 .. Len(d) /\ e \in Nat
  BY <1>0, <1>2, <1>3, <1>4
<1>6. SUFFICES ASSUME u + e < Len(d) PROVE Reached(d, u + e)
  BY <1>5 DEF e
<1>7. /\ e # Len(text) /\ text # << >>
      /\ 1 \in 1 .. Len(d) - u /\ u + 1 \in 1 .. Len(d)
  BY <1>0, <1>2, <1>3, <1>4, <1>6
<1>8. /\ Starts(text, Quote) =>
            e \in StringEnds(text) /\ \A i \in StringEnds(text) : e <= i
      /\ Starts(text, "{") => e \in Balanced(text, "{", "}")
      /\ Starts(text, "[") => e \in Balanced(text, "[", "]")
      /\ ~ Starts(text, Quote) /\ ~ Starts(text, "{") /\ ~ Starts(text, "[") =>
            \A i \in 1 .. e : i \notin Delimiters(text)
  BY <1>3, <1>7, ValueEnds DEF e
<1>9. /\ PlainStrings(d) /\ PlainWords(d) /\ WholeElements(d)
  BY DEF Orderly
<1>10. \A c : Starts(text, c) <=> d[u + 1] = c
  <2>1. \A c : Starts(text, c) <=> u < Len(d) /\ d[u + 1] = c
    BY <1>1, <1>2, FromStarts
  <2> QED BY <1>2, <1>5, <1>6, <2>1
<1>11. CASE Starts(text, Quote)
  <2>1. d[u] # Backslash
    <3>1. CASE u = v
      BY <3>1 DEF Backslash
    <3>2. CASE u # v
      <4>1. u \in (v + 1) .. u
        BY <1>2, <3>2
      <4> QED BY <1>1, <4>1 DEF Backslash, Space
    <3> QED BY <3>1, <3>2
  <2>2. Unescaped(d, u + 1)
    <3>1. d[u + 1] = Quote /\ u + 1 - 1 = u
      BY <1>2, <1>10, <1>11
    <3> QED BY <2>1, <3>1 DEF Unescaped
  <2>3. e \in 2 .. Len(text) /\ text[e] = Quote /\ text[e - 1] # Backslash
    BY <1>8, <1>11 DEF StringEnds
  <2>4. Unescaped(d, u + e)
    <3>1. /\ e \in 1 .. Len(d) - u /\ e - 1 \in 1 .. Len(d) - u
          /\ u + (e - 1) = u + e - 1
      BY <1>0, <1>2, <1>3, <2>3
    <3>2. d[u + e] = Quote /\ d[u + e - 1] # Backslash
      BY <1>3, <2>3, <3>1
    <3> QED BY <1>2, <1>5, <3>2 DEF Unescaped
  <2>5. ASSUME NEW j \in (u + 2) .. (u + e - 1), Unescaped(d, j) PROVE FALSE
    <3>1. /\ j - u \in 2 .. Len(text) /\ j - u < e /\ j > 1
          /\ j - u \in 1 .. Len(d) - u /\ j - u - 1 \in 1 .. Len(d) - u
          /\ u + (j - u) = j /\ u + (j - u - 1) = j - 1
      BY <1>0, <1>2, <1>3, <2>3
    <3>2. text[j - u] = d[j] /\ text[j - u - 1] = d[j - 1]
      BY <1>3, <3>1
    <3>3. d[j] = Quote /\ d[j - 1] # Backslash
      BY <2>5, <3>1 DEF Unescaped
    <3>4. j - u \in StringEnds(text)
      BY <3>1, <3>2, <3>3 DEF StringEnds
    <3>5. e <= j - u
      BY <1>8, <1>11, <3>4
    <3> QED BY <1>5, <3>1, <3>5
  <2>6. u + e \in (u + 2) .. Len(d)
    BY <1>0, <1>2, <1>5, <2>3
  <2>7. \A j \in (u + 2) .. (u + e - 1) : ~ Unescaped(d, j)
    BY <2>5
  <2>8. PlainStrings(d) /\ Reached(d, u)
    BY <1>1, <1>9
  <2> DEFINE c == u + e
  <2>9. c \in (u + 2) .. Len(d)
    BY <2>6
  <2>10. Unescaped(d, c)
    BY <2>4
  <2>11. \A j \in (u + 2) .. (c - 1) : ~ Unescaped(d, j)
    BY <1>2, <1>5, <2>7
  <2> HIDE DEF c
  <2>12. Reached(d, c)
    BY <1>2, <2>2, <2>8, <2>9, <2>10, <2>11, ReachedString
  <2> QED BY <2>12 DEF c
<1>12. ASSUME Starts(text, "{") \/ Starts(text, "[")
       PROVE  /\ Outside(d, u + e)
              /\ Occurrences(text, e, "{") = Occurrences(text, e, "}")
  <2>1. CASE Starts(text, "{")
    <3>1. e \in 2 .. Len(text)
      BY <1>8, <2>1 DEF Balanced
    <3>2. /\ text[e] = "}"
          /\ Occurrences(text, e, "{") = Occurrences(text, e, "}")
      BY <1>8, <2>1 DEF Balanced
    <3>3. d[u + e] = text[e]
      <4>1. e \in 1 .. Len(d) - u
        BY <1>0, <1>2, <1>3, <3>1
      <4> QED BY <1>3, <4>1
    <3>4. d[u + e] = "}"
      BY <3>2, <3>3, Zenon
    <3> QED BY <1>5, <1>9, <3>2, <3>4, Zenon DEF PlainStrings
  <2>2. CASE Starts(text, "[")
    <3>1. e \in 2 .. Len(text) /\ text[e] = "]"
      BY <1>8, <2>2 DEF Balanced
    <3>2. d[u + e] = "]"
      <4>1. e \in 1 .. Len(d) - u
        BY <1>0, <1>2, <1>3, <3>1
      <4> QED BY <1>3, <3>1, <4>1
    <3>3. /\ d[u + 1] = "[" /\ From(d, u + 1) = text
          /\ e \in Balanced(text, "[", "]")
      BY <1>1, <1>8, <1>10, <2>2
    <3>4. Occurrences(text, e, "{") = Occurrences(text, e, "}")
      BY <1>7, <1>9, <3>3 DEF WholeElements, e
    <3> QED BY <1>5, <1>9, <3>2, <3>4 DEF PlainStrings
  <2> QED BY <1>12, <2>1, <2>2
<1>13. CASE Starts(text, "{") \/ Starts(text, "[")
  <2>1. e \in 0 .. Len(d) - u
    BY <1>3, <1>4
  <2> DEFINE o == "{"
             c == "}"
  <2>2. Occurrences(d, u, o) = Occurrences(d, u, c) + 1
    BY <1>1 DEF Reached
  <2>3. Occurrences(From(d, u + 1), e, o) = Occurrences(From(d, u + 1), e, c)
    BY <1>1, <1>12, <1>13, Zenon
  <2> HIDE DEF o, c
  <2>4. Occurrences(d, u + e, o) = Occurrences(d, u + e, c) + 1
    BY <1>2, <2>1, <2>2, <2>3, AsDeep
  <2> QED BY <1>12, <1>13, <2>4, Zenon DEF Reached, o, c
<1>14. CASE ~ Starts(text, Quote) /\ ~ Starts(text, "{") /\ ~ Starts(text, "[")
  <2>1. \A i \in 1 .. e : i \notin Delimiters(text)
    BY <1>8, <1>14
  <2>2. ASSUME NEW j \in 1 .. e PROVE Quiet(d[u + j])
    <3>1. j \in 1 .. Len(text) /\ j \in 1 .. Len(d) - u
      BY <1>3, <1>4
    <3>2. 1 .. j \cap Delimiters(text) = {}
      BY <1>4, <2>1
    <3>3. text[1] = d[u + 1] /\ text[1] \notin {Quote, "{", "["}
      BY <1>3, <1>7, <1>10, <1>14
    <3>4. Outside(d, v)
      BY DEF Reached
    <3>5. text[j] \notin {Quote, "{"}
      BY <1>9, <3>1, <3>2, <3>3, <3>4 DEF PlainWords
    <3>6. text[j] # "}"
      BY <2>1, <3>1 DEF Delimiters
    <3>7. text[j] = d[u + j]
      BY <1>3, <3>1
    <3> QED BY <3>5, <3>6, <3>7, Zenon DEF Quiet
  <2>3. \A j \in (u + 1) .. (u + e) : Quiet(d[j])
    <3>1. \A j \in (u + 1) .. (u + e) : j - u \in 1 .. e /\ u + (j - u) = j
      BY <1>2, <1>5
    <3> QED BY <2>2, <3>1
  <2>4. u + e \in u .. Len(d)
    BY <1>2, <1>5
  <2> QED BY <1>1, <1>2, <2>3, <2>4, ReachedSpan
<1> QED BY <1>11, <1>13, <1>14

\* One symbol that is neither a quote nor a brace.
LEMMA ReachedSymbol ==
    ASSUME NEW d \in Window, NEW p \in 0 .. Len(d), p < Len(d), Reached(d, p),
           Quiet(d[p + 1])
    PROVE  Reached(d, p + 1)
<1>1. Len(d) \in Nat
  BY DEF Window
<1>2. p + 1 \in p .. Len(d) /\ \A j \in (p + 1) .. (p + 1) : j = p + 1
  BY <1>1
<1>3. \A j \in (p + 1) .. (p + 1) : Quiet(d[j])
  BY <1>2, Zenon
<1> QED BY <1>2, <1>3, ReachedSpan

\* Where the parser takes a key to end: at the next quote.
KeyEnd(key) == FirstOf({i \in 2 .. Len(key) : key[i] = Quote}, 0)

\* Behind the key and its colon the parser is as deep as before.
LEMMA ReachedColon ==
    ASSUME NEW d \in Window, PlainStrings(d), NEW k \in 1 .. Len(d), k < Len(d),
           Reached(d, k), d[k] # Backslash, d[k + 1] = Quote,
           NEW close, close = KeyEnd(From(d, k + 1)), close # 0,
           NEW colon, colon = SkipWS(From(From(d, k + 1), close + 1)),
           Starts(colon, ":")
    PROVE  \E v \in 1 .. Len(d) :
                d[v] = ":" /\ Reached(d, v) /\ Rest(colon) = From(d, v + 1)
<1> DEFINE key == From(d, k + 1)
           S == {i \in 2 .. Len(key) : key[i] = Quote}
<1>0. Len(d) \in Nat /\ k \in 0 .. Len(d) /\ k \in Nat
  BY DEF Window
<1>1. /\ key \in Window /\ Len(key) = Len(d) - k
      /\ \A j \in 1 .. Len(d) - k : key[j] = d[k + j]
      /\ \A i \in 0 .. Len(d) - k : From(key, i + 1) = From(d, k + i + 1)
  BY <1>0, FromShows
<1>2. close \in S /\ \A i \in S : close <= i
  <2>1. S \subseteq Nat
    OBVIOUS
  <2>2. close = FirstOf(S, 0)
    BY DEF KeyEnd
  <2> HIDE DEF S
  <2>3. /\ S = {} => FirstOf(S, 0) = 0
        /\ S # {} => FirstOf(S, 0) \in S /\ \A x \in S : FirstOf(S, 0) <= x
    BY <2>1, FirstOfLeast
  <2> QED BY <2>2, <2>3
<1> HIDE DEF key
<1>3. close \in 2 .. Len(d) - k /\ key[close] = Quote
  <2>1. close \in 2 .. Len(key) /\ key[close] = Quote
    BY <1>2
  <2>2. Len(key) = Len(d) - k
    BY <1>1
  <2> QED BY <2>1, <2>2
<1> DEFINE c == k + close
<1>4. /\ c \in (k + 2) .. Len(d) /\ c \in 0 .. Len(d) /\ c \in 2 .. Len(d)
      /\ d[c] = Quote /\ c \in Nat /\ c \in 1 .. Len(d)
  <2>1. close \in 1 .. Len(d) - k
    BY <1>3
  <2>2. key[close] = d[c]
    BY <1>1, <2>1
  <2>3. d[c] = Quote
    BY <1>3, <2>2
  <2>4. /\ c \in (k + 2) .. Len(d) /\ c \in 0 .. Len(d) /\ c \in 2 .. Len(d)
        /\ c \in Nat /\ c \in 1 .. Len(d)
    BY <1>0, <1>3
  <2> QED BY <2>3, <2>4
<1>5. From(key, close + 1) = From(d, c + 1)
  <2>1. close \in 0 .. Len(d) - k
    BY <1>0, <1>3
  <2> QED BY <1>1, <2>1
<1>6. \A j \in (k + 2) .. (c - 1) : ~ Unescaped(d, j)
  <2>1. ASSUME NEW j \in (k + 2) .. (c - 1), d[j] = Quote PROVE FALSE
    <3>1. /\ j - k \in 2 .. Len(key) /\ j - k \in 1 .. Len(d) - k
          /\ k + (j - k) = j /\ j - k < close
      <4>1. Len(key) = Len(d) - k
        BY <1>1
      <4>2. close \in 2 .. Len(d) - k
        BY <1>3
      <4> QED BY <1>0, <4>1, <4>2
    <3>2. j - k \in S
      BY <1>1, <2>1, <3>1
    <3>3. close <= j - k
      BY <1>2, <3>2
    <3> QED BY <1>3, <3>1, <3>3
  <2> QED BY <2>1 DEF Unescaped
<1> HIDE DEF S
<1>7. colon = SkipWS(From(d, c + 1))
  BY <1>5 DEF key
<1> HIDE DEF c
<1>8. Unescaped(d, k + 1)
  <2>1. k + 1 - 1 = k
    BY <1>0
  <2> QED BY <2>1 DEF Unescaped
<1>9. Unescaped(d, c)
  <2>1. CASE d[c - 1] = Backslash
    <3>1. ~ Starts(SkipWS(From(d, c + 1)), ":")
      BY <1>4, <2>1, Zenon DEF PlainStrings
    <3> QED BY <1>7, <3>1, Zenon
  <2>2. CASE d[c - 1] # Backslash
    BY <1>4, <2>2, Zenon DEF Unescaped
  <2> QED BY <2>1, <2>2
<1>10. Reached(d, c)
  BY <1>0, <1>4, <1>6, <1>8, <1>9, ReachedString
<1>11. PICK u \in c .. Len(d) : colon = From(d, u + 1) /\ Reached(d, u)
  BY <1>4, <1>7, <1>10, ReachedSkip
<1>12. u \in Nat /\ u \in 0 .. Len(d)
  BY <1>0, <1>4
<1>13. u < Len(d) /\ d[u + 1] = ":"
  BY <1>11, <1>12, FromStarts
<1>14. Quiet(d[u + 1])
  BY <1>13, Zenon DEF Quiet, Quote
<1>15. Reached(d, u + 1)
  BY <1>11, <1>12, <1>13, <1>14, ReachedSymbol
<1>16. u + 1 \in 1 .. Len(d)
  BY <1>0, <1>12, <1>13
<1>17. Rest(colon) = From(d, u + 1 + 1)
  BY <1>11, <1>12, <1>13, FromRest
<1> QED BY <1>13, <1>15, <1>16, <1>17

\* A key is reached over white space and, but for the first one, a comma.
LEMMA ReachedKey ==
    ASSUME NEW d \in Window, NEW p \in 1 .. Len(d), Reached(d, p),
           NEW first \in BOOLEAN, first => d[p] # Backslash,
           NEW ahead, ahead = SkipWS(From(d, p + 1)), ahead # << >>,
           NEW comma, Quiet(comma), comma # Backslash,
           ~ first => Starts(ahead, comma),
           NEW key, first => key = ahead, ~ first => key = SkipWS(Rest(ahead)),
           Starts(key, Quote)
    PROVE  \E k \in 1 .. Len(d) :
                /\ key = From(d, k + 1) /\ Reached(d, k) /\ d[k] # Backslash
                /\ k < Len(d) /\ d[k + 1] = Quote
<1>0. Len(d) \in Nat /\ p \in 0 .. Len(d) /\ p \in Nat
  BY DEF Window
<1>1. PICK q \in p .. Len(d) :
            /\ ahead = From(d, q + 1) /\ Reached(d, q)
            /\ \A j \in (p + 1) .. q : d[j] = Space
  BY <1>0, ReachedSkip
<1>2. q \in Nat /\ q \in 0 .. Len(d) /\ q \in 1 .. Len(d) /\ q < Len(d)
  <2>1. /\ q \in Nat /\ q \in 0 .. Len(d) /\ q \in 1 .. Len(d)
        /\ q # Len(d) => q < Len(d)
    BY <1>0
  <2> QED BY <1>1, <2>1, FromStarts
<1>3. PICK k \in 1 .. Len(d) :
            /\ key = From(d, k + 1) /\ Reached(d, k) /\ d[k] # Backslash
  <2>1. CASE first
    <3>1. d[q] # Backslash
      <4>1. CASE q = p
        BY <2>1, <4>1
      <4>2. CASE q # p
        <5>1. q \in (p + 1) .. q
          BY <1>0, <1>2, <4>2
        <5>2. d[q] = Space
          BY <1>1, <5>1
        <5> QED BY <5>2 DEF Space, Backslash
      <4> QED BY <4>1, <4>2
    <3> QED BY <1>1, <1>2, <2>1, <3>1
  <2>2. CASE ~ first
    <3>1. d[q + 1] = comma
      BY <1>1, <1>2, <2>2, FromStarts
    <3>2. Quiet(d[q + 1]) /\ d[q + 1] # Backslash
      BY <3>1
    <3>3. Reached(d, q + 1)
      BY <1>1, <1>2, <3>2, ReachedSymbol
    <3>4. q + 1 \in 0 .. Len(d) /\ Rest(ahead) = From(d, q + 1 + 1)
      BY <1>1, <1>2, FromRest
    <3>5. PICK k \in q + 1 .. Len(d) :
                /\ key = From(d, k + 1) /\ Reached(d, k)
                /\ \A j \in (q + 1 + 1) .. k : d[j] = Space
      BY <2>2, <3>3, <3>4, ReachedSkip
    <3>6. d[k] # Backslash
      <4>1. CASE k = q + 1
        BY <3>2, <4>1
      <4>2. CASE k # q + 1
        <5>1. k \in (q + 1 + 1) .. k
          BY <1>2, <4>2
        <5>2. d[k] = Space
          BY <3>5, <5>1
        <5> QED BY <5>2 DEF Space, Backslash
      <4> QED BY <4>1, <4>2
    <3>7. k \in 1 .. Len(d)
      BY <1>0, <1>2
    <3> QED BY <3>5, <3>6, <3>7
  <2> QED BY <2>1, <2>2
<1>4. k < Len(d) /\ d[k + 1] = Quote
  <2>1. k \in 0 .. Len(d)
    BY <1>0
  <2> QED BY <1>3, <2>1, FromStarts
<1> QED BY <1>3, <1>4

-----------------------------------------------------------------------------
(***************************************************************************)
(* A text and the beginning of it.                                         *)
(***************************************************************************)
\* One window shows what the other does, as far as it goes.
Begins(x, y) ==
    /\ x \in Window /\ y \in Window /\ Len(x) <= Len(y)
    /\ \A j \in 1 .. Len(x) : x[j] = y[j]

\* What begins alike does so from every place on.
LEMMA BeginsFrom ==
    ASSUME NEW x, NEW y, Begins(x, y), NEW p \in 0 .. Len(x)
    PROVE  Begins(From(x, p + 1), From(y, p + 1))
<1>1. /\ x \in Window /\ y \in Window /\ Len(x) \in Nat /\ Len(y) \in Nat
      /\ Len(x) <= Len(y) /\ p \in Nat /\ p \in 0 .. Len(y)
      /\ \A j \in 1 .. Len(x) : x[j] = y[j]
  BY DEF Begins, Window
<1> DEFINE v == From(x, p + 1)
           w == From(y, p + 1)
<1>2. v \in Window /\ Len(v) = Len(x) - p
      /\ \A j \in 1 .. Len(x) - p : v[j] = x[p + j]
  BY <1>1, FromShows
<1>3. w \in Window /\ Len(w) = Len(y) - p
      /\ \A j \in 1 .. Len(y) - p : w[j] = y[p + j]
  BY <1>1, FromShows
<1> HIDE DEF v, w
<1>4. ASSUME NEW j \in 1 .. Len(v) PROVE v[j] = w[j]
  <2>1. j \in 1 .. Len(x) - p /\ j \in 1 .. Len(y) - p /\ p + j \in 1 .. Len(x)
    BY <1>1, <1>2
  <2> QED BY <1>1, <1>2, <1>3, <2>1
<1> QED BY <1>1, <1>2, <1>3, <1>4 DEF Begins, v, w

\* White space ends in both at the same place.
LEMMA BeginsSkip ==
    ASSUME NEW x, NEW y, Begins(x, y), NEW p \in 0 .. Len(x),
           SkipWS(From(x, p + 1)) # << >>
    PROVE  \E q \in p .. Len(x) :
                /\ q < Len(x)
                /\ SkipWS(From(x, p + 1)) = From(x, q + 1)
                /\ SkipWS(From(y, p + 1)) = From(y, q + 1)
<1>1. /\ x \in Window /\ y \in Window /\ Len(x) \in Nat /\ Len(y) \in Nat
      /\ Len(x) <= Len(y) /\ p \in Nat /\ p \in 0 .. Len(y)
      /\ \A j \in 1 .. Len(x) : x[j] = y[j]
  BY DEF Begins, Window
<1>2. PICK q \in p .. Len(x) :
            /\ SkipWS(From(x, p + 1)) = From(x, q + 1)
            /\ \A j \in (p + 1) .. q : x[j] = Space
            /\ q < Len(x) => x[q + 1] # Space
  BY <1>1, SkipFrom
<1>3. PICK k \in p .. Len(y) :
            /\ SkipWS(From(y, p + 1)) = From(y, k + 1)
            /\ \A j \in (p + 1) .. k : y[j] = Space
            /\ k < Len(y) => y[k + 1] # Space
  BY <1>1, SkipFrom
<1>4. q < Len(x)
  <2>1. q \in 0 .. Len(x)
    BY <1>1
  <2> QED BY <1>1, <1>2, <2>1, FromStarts
<1>5. ~ (k < q)
  <2>1. SUFFICES ASSUME k < q PROVE FALSE
    OBVIOUS
  <2>2. k + 1 \in (p + 1) .. q /\ k + 1 \in 1 .. Len(x) /\ k < Len(y)
    BY <1>1, <2>1
  <2> QED BY <1>1, <1>2, <1>3, <2>2
<1>6. ~ (q < k)
  <2>1. SUFFICES ASSUME q < k PROVE FALSE
    OBVIOUS
  <2>2. q + 1 \in (p + 1) .. k /\ q + 1 \in 1 .. Len(x)
    BY <1>1, <1>4, <2>1
  <2> QED BY <1>1, <1>2, <1>3, <1>4, <2>2
<1>7. q = k
  BY <1>1, <1>5, <1>6
<1> QED BY <1>2, <1>3, <1>4, <1>7

\* Counts and strings are the same up to a place both windows have.
LEMMA BeginsOccurs ==
    ASSUME NEW x, NEW y, Begins(x, y), NEW i \in 0 .. Len(x)
    PROVE  /\ \A c : Occurrences(x, i, c) = Occurrences(y, i, c)
           /\ Outside(x, i) <=> Outside(y, i)
<1>1. /\ Len(x) \in Nat /\ \A j \in 1 .. Len(x) : x[j] = y[j]
  BY DEF Begins, Window
<1>2. ASSUME NEW c PROVE Occurrences(x, i, c) = Occurrences(y, i, c)
  <2>1. {j \in 1 .. i : x[j] = c} = {j \in 1 .. i : y[j] = c}
    BY <1>1
  <2> QED BY <2>1 DEF Occurrences
<1>3. ASSUME NEW j \in 1 .. i PROVE Unescaped(x, j) <=> Unescaped(y, j)
  <2>1. x[j] = y[j] /\ (j > 1 => x[j - 1] = y[j - 1])
    BY <1>1
  <2> QED BY <2>1 DEF Unescaped
<1>4. {j \in 1 .. i : Unescaped(x, j)} = {j \in 1 .. i : Unescaped(y, j)}
  BY <1>3
<1> QED BY <1>2, <1>4 DEF Outside

\* Brackets are balanced in both at the same places.
LEMMA BeginsBalanced ==
    ASSUME NEW x, NEW y, Begins(x, y), NEW o, NEW c
    PROVE  /\ Balanced(x, o, c) = Balanced(y, o, c) \cap (1 .. Len(x))
           /\ Balanced(x, o, c) # {} =>
                FirstOf(Balanced(x, o, c), Len(x)) =
                    FirstOf(Balanced(y, o, c), Len(y))
<1>1. /\ Len(x) \in Nat /\ Len(y) \in Nat /\ Len(x) <= Len(y)
      /\ \A j \in 1 .. Len(x) : x[j] = y[j]
  BY DEF Begins, Window
<1>2. \A i \in 0 .. Len(x) : \A a : Occurrences(x, i, a) = Occurrences(y, i, a)
  BY BeginsOccurs
<1> DEFINE X == Balanced(x, o, c)
           Y == Balanced(y, o, c)
<1>3. ASSUME NEW i \in 2 .. Len(x) PROVE i \in X <=> i \in Y
  <2>1. i \in 1 .. Len(x) /\ i \in 0 .. Len(x) /\ i \in 2 .. Len(y)
    BY <1>1
  <2>2. /\ x[i] = y[i] /\ Occurrences(x, i, o) = Occurrences(y, i, o)
        /\ Occurrences(x, i, c) = Occurrences(y, i, c)
    BY <1>1, <1>2, <2>1
  <2> QED BY <2>1, <2>2 DEF Balanced
<1>4. X \subseteq 2 .. Len(x) /\ Y \subseteq 2 .. Len(y)
  BY DEF Balanced
<1> HIDE DEF X, Y
<1>5. X = Y \cap (1 .. Len(x))
  <2>1. ASSUME NEW i \in X PROVE i \in Y /\ i \in 1 .. Len(x)
    <3>1. i \in 2 .. Len(x)
      BY <1>4
    <3> QED BY <1>1, <1>3, <3>1
  <2>2. ASSUME NEW i \in Y, i \in 1 .. Len(x) PROVE i \in X
    <3>1. i \in 2 .. Len(x)
      BY <1>1, <1>4, <2>2
    <3> QED BY <1>3, <2>2, <3>1
  <2> QED BY <2>1, <2>2
<1>6. ASSUME X # {} PROVE FirstOf(X, Len(x)) = FirstOf(Y, Len(y))
  <2>1. X \subseteq Nat /\ Y \subseteq Nat /\ Y # {}
    BY <1>4, <1>5, <1>6
  <2> DEFINE a == FirstOf(X, Len(x))
             b == FirstOf(Y, Len(y))
  <2>2. a \in X /\ \A i \in X : a <= i
    BY <1>6, <2>1, FirstOfLeast
  <2>3. b \in Y /\ \A i \in Y : b <= i
    BY <2>1, FirstOfLeast
  <2> HIDE DEF a, b
  <2>4. b <= a /\ a \in Nat /\ b \in Nat
    BY <1>5, <2>1, <2>2, <2>3
  <2>5. b \in X
    BY <1>1, <1>4, <1>5, <2>2, <2>3, <2>4
  <2>6. a <= b
    BY <2>2, <2>5
  <2> QED BY <2>4, <2>6 DEF a, b
<1> QED BY <1>5, <1>6 DEF X, Y

\* The end of an object, of a list.
LEMMA BracketEnds ==
    ASSUME NEW d
    PROVE  /\ Starts(d, "{") =>
                FindValueEnd(d) = FirstOf(Balanced(d, "{", "}"), Len(d))
           /\ Starts(d, "[") =>
                FindValueEnd(d) = FirstOf(Balanced(d, "[", "]"), Len(d))
<1>1. CASE Starts(d, "{")
  <2>1. ~ Starts(d, Quote) /\ ~ Starts(d, "[")
    BY <1>1 DEF Starts, Quote
  <2> QED BY <1>1, <2>1 DEF FindValueEnd
<1>2. CASE Starts(d, "[")
  <2>1. ~ Starts(d, Quote) /\ ~ Starts(d, "{")
    BY <1>2 DEF Starts, Quote
  <2> QED BY <1>2, <2>1 DEF FindValueEnd
<1> QED BY <1>1, <1>2

\* What the shorter window starts with the longer one does.
LEMMA BeginsStarts ==
    ASSUME NEW x, NEW y, Begins(x, y), NEW c, Starts(x, c)
    PROVE  Starts(y, c)
<1>1. /\ x \in Window /\ y \in Window /\ Len(x) \in Nat /\ Len(y) \in Nat
      /\ Len(x) <= Len(y) /\ x # << >>
      /\ \A j \in 1 .. Len(x) : x[j] = y[j]
  BY DEF Begins, Window, Starts
<1>2. Len(x) > 0 /\ 1 \in 1 .. Len(x) /\ y # << >>
  BY <1>1 DEF Window
<1>3. Head(x) = x[1] /\ Head(y) = y[1]
  BY <1>1, <1>2 DEF Window
<1> QED BY <1>1, <1>2, <1>3 DEF Starts

\* Strings are plain in what begins like a window of plain strings.
LEMMA PlainStringsBegin ==
    ASSUME NEW x, NEW y, Begins(x, y), PlainStrings(y)
    PROVE  PlainStrings(x)
<1>1. /\ x \in Window /\ Len(x) \in Nat /\ Len(y) \in Nat /\ Len(x) <= Len(y)
      /\ \A j \in 1 .. Len(x) : x[j] = y[j]
  BY DEF Begins, Window
<1>2. ASSUME NEW i \in 1 .. Len(x), x[i] \in {"{", "}", "[", "]"}
      PROVE  Outside(x, i)
  <2>1. i \in 1 .. Len(y) /\ i \in 0 .. Len(x) /\ x[i] = y[i]
    BY <1>1
  <2>2. Outside(y, i)
    BY <1>2, <2>1, Zenon DEF PlainStrings
  <2> QED BY <2>1, <2>2, BeginsOccurs
<1>3. ASSUME NEW i \in 2 .. Len(x), x[i] = Quote, x[i - 1] = Backslash,
             Starts(SkipWS(From(x, i + 1)), ":")
      PROVE  FALSE
  <2>1. /\ i \in 2 .. Len(y) /\ i \in 0 .. Len(x)
        /\ x[i] = y[i] /\ x[i - 1] = y[i - 1]
    BY <1>1
  <2>2. SkipWS(From(x, i + 1)) # << >>
    BY <1>3 DEF Starts
  <2>3. PICK q \in i .. Len(x) :
            /\ q < Len(x)
            /\ SkipWS(From(x, i + 1)) = From(x, q + 1)
            /\ SkipWS(From(y, i + 1)) = From(y, q + 1)
    BY <2>1, <2>2, BeginsSkip
  <2>4. q \in 0 .. Len(x)
    BY <1>1
  <2>5. Begins(From(x, q + 1), From(y, q + 1))
    BY <2>4, BeginsFrom
  <2>6. Starts(SkipWS(From(y, i + 1)), ":")
    BY <1>3, <2>3, <2>5, BeginsStarts
  <2> QED BY <1>3, <2>1, <2>6 DEF PlainStrings
<1> QED BY <1>2, <1>3, Zenon DEF PlainStrings

\* What no word starts with, and what none holds.
Openers == {Quote, "{", "["}
Stops == {Quote, "{"}

\* Words end at the same delimiters.
LEMMA PlainWordsBegin ==
    ASSUME NEW x, NEW y, Begins(x, y), PlainWords(y)
    PROVE  PlainWords(x)
<1>1. /\ x \in Window /\ Len(x) \in Nat /\ Len(y) \in Nat /\ Len(x) <= Len(y)
      /\ \A j \in 1 .. Len(x) : x[j] = y[j]
  BY DEF Begins, Window
<1> SUFFICES ASSUME NEW i \in 1 .. Len(x), x[i] = ":", Outside(x, i),
                    NEW v, v = SkipWS(From(x, i + 1)), NEW j \in 1 .. Len(v),
                    v[1] \notin Openers, 1 .. j \cap Delimiters(v) = {}
             PROVE  v[j] \notin Stops
  BY Zenon DEF PlainWords, Openers, Stops
<1> DEFINE w == SkipWS(From(y, i + 1))
<1>2. /\ i \in 1 .. Len(y) /\ i \in 0 .. Len(x) /\ i \in 0 .. Len(y)
      /\ y[i] = ":" /\ Outside(y, i)
  <2>1. /\ i \in 1 .. Len(y) /\ i \in 0 .. Len(x) /\ i \in 0 .. Len(y)
        /\ x[i] = y[i]
    BY <1>1
  <2> QED BY <2>1, BeginsOccurs
<1>3. v \in Window /\ Len(v) \in Nat
  <2>1. From(x, i + 1) \in Window
    BY <1>1, <1>2, FromShows
  <2> QED BY <2>1, SkipWSShortens DEF Window
<1>4. v # << >> /\ 1 \in 1 .. Len(v)
  BY <1>3
<1>5. PICK q \in i .. Len(x) :
            q < Len(x) /\ v = From(x, q + 1) /\ w = From(y, q + 1)
  BY <1>2, <1>4, BeginsSkip
<1>6. Begins(v, w)
  <2>1. q \in 0 .. Len(x)
    BY <1>1
  <2> QED BY <1>5, <2>1, BeginsFrom
<1> HIDE DEF w
<1>7. /\ Len(w) \in Nat /\ Len(v) <= Len(w)
      /\ \A k \in 1 .. Len(v) : v[k] = w[k]
  BY <1>6 DEF Begins, Window
<1>8. 1 .. j \cap Delimiters(w) = {}
  <2>1. ASSUME NEW k \in 1 .. j, k \in Delimiters(w) PROVE FALSE
    <3>1. k \in 1 .. Len(v) /\ v[k] = w[k]
      BY <1>3, <1>7
    <3>2. k \in Delimiters(v)
      BY <2>1, <3>1, Zenon DEF Delimiters
    <3> QED BY <2>1, <3>2, Zenon
  <2> QED BY <2>1, Zenon
<1>9. v[1] = w[1] /\ v[j] = w[j] /\ j \in 1 .. Len(w)
  BY <1>3, <1>4, <1>7
<1>10. w[1] \notin Openers
  BY <1>9
<1>11. w[j] \notin Stops
  BY <1>2, <1>8, <1>9, <1>10, Zenon DEF PlainWords, Openers, Stops, w
<1> QED BY <1>9, <1>11, Zenon

\* Lists end at the same brackets.
LEMMA WholeElementsBegin ==
    ASSUME NEW x, NEW y, Begins(x, y), WholeElements(y)
    PROVE  WholeElements(x)
<1>1. /\ x \in Window /\ Len(x) \in Nat /\ Len(y) \in Nat /\ Len(x) <= Len(y)
      /\ y \in Window /\ \A j \in 1 .. Len(x) : x[j] = y[j]
  BY DEF Begins, Window
<1> SUFFICES ASSUME NEW i \in 1 .. Len(x), x[i] = "[",
                    NEW v, v = From(x, i),
                    NEW j \in Balanced(v, "[", "]"), j = FindValueEnd(v)
             PROVE  Occurrences(v, j, "{") = Occurrences(v, j, "}")
  BY Zenon DEF WholeElements
<1> DEFINE w == From(y, i)
<1>2. /\ i - 1 \in 0 .. Len(x) /\ i - 1 + 1 = i /\ i \in 1 .. Len(y)
      /\ i - 1 \in 0 .. Len(y) /\ i - 1 < Len(x)
  BY <1>1
<1>3. Begins(v, w)
  <2>1. Begins(From(x, i - 1 + 1), From(y, i - 1 + 1))
    BY <1>2, BeginsFrom
  <2> QED BY <1>2, <2>1
<1>4. Starts(v, "[")
  <2>1. Starts(From(x, i - 1 + 1), "[")
    BY <1>1, <1>2, FromStarts
  <2> QED BY <1>2, <2>1
<1>5. Starts(w, "[")
  BY <1>3, <1>4, BeginsStarts
<1> HIDE DEF w
<1>6. /\ Balanced(v, "[", "]") = Balanced(w, "[", "]") \cap (1 .. Len(v))
      /\ FirstOf(Balanced(v, "[", "]"), Len(v)) =
            FirstOf(Balanced(w, "[", "]"), Len(w))
  BY <1>3, BeginsBalanced
<1>7. FindValueEnd(v) = FindValueEnd(w)
  BY <1>4, <1>5, <1>6, BracketEnds
<1>8. j \in Balanced(w, "[", "]") /\ j = FindValueEnd(w) /\ j \in 1 .. Len(v)
  BY <1>6, <1>7
<1>9. y[i] = "["
  BY <1>1
<1>10. Occurrences(w, j, "{") = Occurrences(w, j, "}")
  BY <1>2, <1>8, <1>9, Zenon DEF WholeElements, w
<1>11. \A c : Occurrences(v, j, c) = Occurrences(w, j, c)
  <2>1. Len(v) \in Nat
    BY <1>3 DEF Begins, Window
  <2>2. j \in 0 .. Len(v)
    BY <1>8, <2>1
  <2> QED BY <1>3, <2>2, BeginsOccurs
<1> QED BY <1>10, <1>11, Zenon

\* What begins like an orderly window is orderly.
LEMMA OrderlyBegin ==
    ASSUME NEW x, NEW y, Begins(x, y), Orderly(y)
    PROVE  Orderly(x)
  BY PlainStringsBegin, PlainWordsBegin, WholeElementsBegin DEF Orderly

\* Nothing but white space is behind a window exactly when skipping leaves
\* nothing.
LEMMA Blank ==
    ASSUME NEW d \in Window, NEW p \in 0 .. Len(d)
    PROVE  SkipWS(From(d, p + 1)) = << >> <=>
                \A j \in (p + 1) .. Len(d) : d[j] = Space
<1>1. Len(d) \in Nat
  BY DEF Window
<1>2. PICK q \in p .. Len(d) :
            /\ SkipWS(From(d, p + 1)) = From(d, q + 1)
            /\ \A j \in (p + 1) .. q : d[j] = Space
            /\ q < Len(d) => d[q + 1] # Space
  BY SkipFrom
<1>3. From(d, q + 1) = << >> <=> q = Len(d)
  <2>1. q \in 0 .. Len(d)
    BY <1>1
  <2> QED BY <2>1, FromStarts
<1>4. ASSUME q # Len(d) PROVE \E j \in (p + 1) .. Len(d) : d[j] # Space
  <2>1. q + 1 \in (p + 1) .. Len(d) /\ q < Len(d)
    BY <1>1, <1>4
  <2> QED BY <1>2, <2>1
<1> QED BY <1>2, <1>3, <1>4

\* An object that ends in the shorter of two windows ends there in both.
LEMMA BeginsBalancedEnd ==
    ASSUME NEW x, NEW y, Begins(x, y), NEW o, NEW c, Balanced(x, o, c) # {},
           NEW e, e = FirstOf(Balanced(x, o, c), Len(x)),
           NEW f, f = FirstOf(Balanced(y, o, c), Len(y))
    PROVE  e = f /\ e \in 1 .. Len(x)
<1> DEFINE X == Balanced(x, o, c)
<1>1. /\ FirstOf(X, Len(x)) = FirstOf(Balanced(y, o, c), Len(y))
      /\ X \subseteq 1 .. Len(x)
  BY BeginsBalanced
<1>2. X \subseteq Nat
  BY <1>1
<1> HIDE DEF X
<1>3. FirstOf(X, Len(x)) \in X
  <2>1. X # {}
    BY DEF X
  <2> QED BY <1>2, <2>1, FirstOfLeast
<1> QED BY <1>1, <1>3 DEF X

\* An object, and where its brace may be closed.
ObjectEnds(d) == Balanced(d, "{", "}")
IsObject(d) == Starts(d, "{")

\* The object ends where it does in the longer window.
LEMMA BeginsEnd ==
    ASSUME NEW x, NEW y, Begins(x, y), IsObject(x), ObjectEnds(x) # {}
    PROVE  FindValueEnd(x) = FindValueEnd(y) /\ FindValueEnd(x) \in 1 .. Len(x)
<1>1. IsObject(y)
  BY BeginsStarts, Zenon DEF IsObject
<1>2. /\ FindValueEnd(x) = FirstOf(ObjectEnds(x), Len(x))
      /\ FindValueEnd(y) = FirstOf(ObjectEnds(y), Len(y))
  BY <1>1, BracketEnds DEF IsObject, ObjectEnds
<1> DEFINE o == "{"
           c == "}"
<1>3. ObjectEnds(x) = Balanced(x, o, c) /\ ObjectEnds(y) = Balanced(y, o, c)
  BY DEF ObjectEnds
<1> HIDE DEF o, c
<1> QED BY <1>2, <1>3, BeginsBalancedEnd

\* Skipping white space in two windows of which one begins with the other.
LEMMA SkipTogether ==
    ASSUME NEW x, NEW y, Begins(x, y), SkipWS(x) # << >>
    PROVE  \E k \in 0 .. Len(x) :
                /\ k < Len(x)
                /\ SkipWS(x) = From(x, k + 1) /\ SkipWS(y) = From(y, k + 1)
<1>1. /\ x \in Window /\ y \in Window
      /\ Len(x) \in Nat /\ Len(y) \in Nat /\ 0 \in 0 .. Len(x)
  BY DEF Begins, Window
<1>2. From(x, 1) = x /\ From(y, 1) = y
  BY <1>1, FromWindow
<1>3. SkipWS(From(x, 0 + 1)) # << >>
  BY <1>2
<1>4. PICK k \in 0 .. Len(x) :
            /\ k < Len(x)
            /\ SkipWS(From(x, 0 + 1)) = From(x, k + 1)
            /\ SkipWS(From(y, 0 + 1)) = From(y, k + 1)
  BY <1>1, <1>3, BeginsSkip
<1> QED BY <1>2, <1>4

\* What begins alike does so without the white space ahead.
LEMMA SkipBegins ==
    ASSUME NEW x, NEW y, Begins(x, y), SkipWS(x) # << >>
    PROVE  Begins(SkipWS(x), SkipWS(y))
  BY SkipTogether, BeginsFrom

\* What is blank behind a place in the shorter one is blank behind that one.
LEMMA NothingBehind ==
    ASSUME NEW x, NEW y, Begins(x, y), SkipWS(x) # << >>,
           NEW e \in 1 .. Len(SkipWS(x)),
           SkipWS(From(SkipWS(y), e + 1)) = << >>
    PROVE  SkipWS(From(y, Len(x) + 1)) = << >>
<1>1. /\ x \in Window /\ Len(x) \in Nat /\ Len(y) \in Nat /\ Len(x) <= Len(y)
      /\ y \in Window
  BY DEF Begins, Window
<1>2. PICK k \in 0 .. Len(x) :
            /\ k < Len(x)
            /\ SkipWS(x) = From(x, k + 1) /\ SkipWS(y) = From(y, k + 1)
  BY SkipTogether
<1> DEFINE v == From(x, k + 1)
           w == From(y, k + 1)
<1>3. SkipWS(x) = v /\ SkipWS(y) = w
  BY <1>2
<1>4. k \in 0 .. Len(y) /\ k \in Nat
  BY <1>1
<1>5. /\ Len(v) = Len(x) - k /\ Len(w) = Len(y) - k /\ w \in Window
      /\ \A j \in 0 .. Len(y) - k : From(w, j + 1) = From(y, k + j + 1)
  BY <1>1, <1>4, FromShows
<1> HIDE DEF v, w
<1>6. e \in 1 .. Len(v)
  BY <1>3
<1>7. /\ From(w, e + 1) = From(y, k + e + 1)
      /\ k + e \in 0 .. Len(y) /\ k + e <= Len(x)
  BY <1>1, <1>4, <1>5, <1>6
<1>8. \A j \in (k + e + 1) .. Len(y) : y[j] = Space
  <2>1. SkipWS(From(y, (k + e) + 1)) = << >>
    BY <1>3, <1>7
  <2> QED BY <1>1, <1>7, <2>1, Blank
<1>9. \A j \in (Len(x) + 1) .. Len(y) : y[j] = Space
  <2>1. \A j \in (Len(x) + 1) .. Len(y) : j \in (k + e + 1) .. Len(y)
    BY <1>1, <1>7
  <2> QED BY <1>8, <2>1
<1>10. Len(x) \in 0 .. Len(y)
  BY <1>1
<1> QED BY <1>1, <1>9, <1>10, Blank

\* The next symbol counts when it is the one that is counted.
LEMMA OccurrencesStep ==
    ASSUME NEW d \in Window, NEW i \in 0 .. Len(d), i < Len(d), NEW c
    PROVE  /\ d[i + 1] = c =>
                Occurrences(d, i + 1, c) = Occurrences(d, i, c) + 1
           /\ d[i + 1] # c => Occurrences(d, i + 1, c) = Occurrences(d, i, c)
<1>1. /\ Len(d) \in Nat /\ i \in Nat
      /\ i + 1 \in 0 .. Len(d) /\ i + 1 \in 1 .. Len(d)
  BY DEF Window
<1>2. Occurrences(d, i, c) = Count(Places(d, c), i)
  BY OccurrencesCount
<1>3. Occurrences(d, i + 1, c) = Count(Places(d, c), i + 1)
  BY <1>1, OccurrencesCount
<1>4. Count(Places(d, c), i) \in Nat
  BY <1>1, CountType
<1>5. Count(Places(d, c), i + 1) =
            Count(Places(d, c), i) + (IF i + 1 \in Places(d, c) THEN 1 ELSE 0)
  BY <1>1, CountStep
<1>6. i + 1 \in Places(d, c) <=> d[i + 1] = c
  BY <1>1 DEF Places
<1> QED BY <1>2, <1>3, <1>4, <1>5, <1>6

\* The first symbol of an object.
LEMMA ReachedFirst ==
    ASSUME NEW d \in Window, IsObject(d)
    PROVE  /\ d # << >> /\ 1 \in 1 .. Len(d) /\ Reached(d, 1)
           /\ d[1] # Backslash /\ d[1] # Space
<1> DEFINE o == "{"
           c == "}"
<1>1. Starts(d, o)
  BY DEF IsObject
<1>2. o # c /\ o # Quote /\ o # Backslash /\ o # Space
  BY Zenon DEF Quote, Backslash, Space
<1> HIDE DEF o, c
<1>3. /\ d # << >> /\ Len(d) \in Nat /\ 0 < Len(d)
      /\ 0 \in 0 .. Len(d) /\ 1 \in 1 .. Len(d)
  <2>1. d # << >>
    BY <1>1 DEF Starts
  <2>2. Len(d) \in Nat /\ 0 < Len(d)
    BY <2>1 DEF Window
  <2> QED BY <2>1, <2>2
<1>4. d[1] = o /\ d[1] # c /\ d[1] # Quote /\ d[1] # Backslash /\ d[1] # Space
  <2>1. d[1] = o
    BY <1>1, <1>3 DEF Starts, Window
  <2> QED BY <1>2, <2>1
<1>5. Occurrences(d, 0, o) = 0 /\ Occurrences(d, 0, c) = 0
  <2>1. ASSUME NEW a PROVE Occurrences(d, 0, a) = 0
    <3>1. {j \in 1 .. 0 : d[j] = a} = {}
      OBVIOUS
    <3> QED BY <3>1, FS_EmptySet DEF Occurrences
  <2> QED BY <2>1
<1>6. Outside(d, 0)
  <2>1. {j \in 1 .. 0 : Unescaped(d, j)} = {}
    OBVIOUS
  <2>2. 0 % 2 = 0
    OBVIOUS
  <2> QED BY <2>1, <2>2, FS_EmptySet DEF Outside
<1>7. Outside(d, 0 + 1)
  <2>1. ~ Unescaped(d, 0 + 1)
    BY <1>4 DEF Unescaped
  <2>2. ~ Unescaped(d, 0 + 1) => (Outside(d, 0 + 1) <=> Outside(d, 0))
    BY <1>3, OutsideStep
  <2> QED BY <1>6, <2>1, <2>2
<1>8. Occurrences(d, 0 + 1, o) = Occurrences(d, 0, o) + 1
  BY <1>3, <1>4, OccurrencesStep
<1>9. Occurrences(d, 0 + 1, c) = Occurrences(d, 0, c)
  BY <1>3, <1>4, OccurrencesStep
<1>10. Occurrences(d, 1, o) = Occurrences(d, 1, c) + 1
  BY <1>5, <1>8, <1>9
<1>11. Outside(d, 1)
  BY <1>7
<1>12. Reached(d, 1)
  BY <1>10, <1>11 DEF Reached, o, c
<1> QED BY <1>3, <1>4, <1>12

\* A closing bracket there balances the first one.
LEMMA ReachedClose ==
    ASSUME NEW d \in Window, NEW q \in 1 .. Len(d), q < Len(d),
           NEW o, NEW c, o # c,
           Occurrences(d, q, o) = Occurrences(d, q, c) + 1, d[q + 1] = c
    PROVE  q + 1 \in Balanced(d, o, c)
<1>1. Len(d) \in Nat /\ q \in 0 .. Len(d)
  BY DEF Window
<1>2. q + 1 \in 2 .. Len(d)
  BY <1>1
<1>3. Occurrences(d, q + 1, o) = Occurrences(d, q, o)
  BY <1>1, OccurrencesStep
<1>4. Occurrences(d, q + 1, c) = Occurrences(d, q, c) + 1
  BY <1>1, OccurrencesStep
<1> QED BY <1>2, <1>3, <1>4 DEF Balanced

\* The closing brace.
IsEnd(d) == Starts(d, "}")

\* The brace behind the members closes the object around everything.
LEMMA ReachedEnd ==
    ASSUME NEW d \in Window, NEW q \in 1 .. Len(d), q < Len(d), Reached(d, q),
           IsEnd(From(d, q + 1))
    PROVE  ObjectEnds(d) # {}
<1> DEFINE o == "{"
           c == "}"
<1>1. /\ Occurrences(d, q, o) = Occurrences(d, q, c) + 1 /\ o # c
      /\ Starts(From(d, q + 1), c)
  BY Zenon DEF Reached, IsEnd
<1> HIDE DEF o, c
<1>2. q \in 0 .. Len(d)
  OBVIOUS
<1>3. d[q + 1] = c
  BY <1>1, <1>2, FromStarts
<1>4. q + 1 \in Balanced(d, o, c)
  BY <1>1, <1>3, ReachedClose
<1> QED BY <1>4, Zenon DEF ObjectEnds, o, c

-----------------------------------------------------------------------------
(***************************************************************************)
(* Well-written bodies and what is cut off from them.                      *)
(***************************************************************************)
\* The object around everything.
Data == SkipWS(body)

\* What its call has in front of it: all that is behind one of its members.
AtTop(call) ==
    \E p \in 1 .. Len(Data) :
        /\ call.data = From(Data, p + 1)
        /\ p < Len(Data) => /\ Reached(Data, p)
                            /\ call.first => Data[p] # Backslash

\* A well-written body that has been cut short: its bracket is not closed.
Unclosed == Orderly(Data) /\ ObjectEnds(Data) = {}

\* The inductive invariant: what follows the object stays beside it, and the
\* outermost call stays behind whole members of an object cut short, so that
\* it never finds the brace the object does not have.
OnTrack ==
    /\ Parsing \/ phase = "accepted" =>
            IsObject(Data) /\ rest = From(Data, FindValueEnd(Data) + 1)
    /\ Parsing /\ Unclosed => AtTop(stack[1])
    /\ phase = "accepted" => SkipWS(rest) = << >> /\ ~ Unclosed

\* The next member of the object around everything is passed whole: the
\* parser is outside of strings and as deep behind it as it was before it.
LEMMA TopAdvances ==
    ASSUME CallsOK, body \in Window, Orderly(Data), NEW kind, AtMember(kind),
           AtTop(stack[1])
    PROVE  AtTop(Advanced[1])
<1>1. /\ Len(stack) \in {1, 2} /\ stack \in Seq(CallType)
      /\ InLoop /\ ~ Malformed /\ Top \in CallType
  BY TopShape DEF AtMember, CallsOK
<1>2. CASE Len(stack) = 2
  <2>1. Advanced[1] = stack[1]
    BY <1>1, <1>2 DEF Advanced
  <2> QED BY <2>1
<1>3. CASE Len(stack) = 1
  <2> DEFINE d == Data
  <2>1. d \in Window /\ Len(d) \in Nat
    BY SkipWSShortens DEF Data, Window
  <2>2. Top = stack[1] /\ Top.first \in BOOLEAN
    BY <1>1, <1>3 DEF Top, CallType
  <2>3. Advanced[1].data = KeyValue.rest /\ Advanced[1].first = FALSE
    <3>1. Advanced[1] = [Top EXCEPT !.data = KeyValue.rest, !.first = FALSE]
      BY <1>1, <1>3 DEF Advanced, Top
    <3> QED BY <1>1, <3>1 DEF CallType
  <2>4. PICK p \in 1 .. Len(d) :
            /\ Top.data = From(d, p + 1)
            /\ p < Len(d) => Reached(d, p) /\ (Top.first => d[p] # Backslash)
    BY <2>2 DEF AtTop
  <2>5. Ahead = SkipWS(From(d, p + 1)) /\ Ahead # << >>
    BY <1>1, <2>4 DEF Ahead, Malformed
  <2> HIDE DEF d
  <2>6. p < Len(d)
    <3>1. p \in 0 .. Len(d) /\ (p # Len(d) => p < Len(d))
      BY <2>1
    <3>2. ASSUME p = Len(d) PROVE FALSE
      <4>1. From(d, p + 1) = << >> /\ From(d, p + 1) \in Window
        BY <2>1, <3>1, <3>2, FromStarts, FromShows
      <4>2. Len(SkipWS(From(d, p + 1))) <= Len(From(d, p + 1))
            /\ SkipWS(From(d, p + 1)) \in Window
        BY <4>1, SkipWSShortens
      <4> QED BY <2>5, <4>1, <4>2 DEF Window
    <3> QED BY <3>1, <3>2
  <2> DEFINE comma == ","
  <2>7. /\ Quiet(comma) /\ comma # Backslash
        /\ ~ Top.first => Starts(Ahead, comma)
    <3>1. Quiet(comma) /\ comma # Backslash
      BY Zenon DEF Quiet, Quote, Backslash
    <3>2. ~ Top.first => Starts(Ahead, comma)
      BY <1>1 DEF Malformed, AtComma
    <3> QED BY <3>1, <3>2
  <2> HIDE DEF comma
  <2>8. /\ KeyAhead = IF Top.first THEN Ahead ELSE SkipWS(Rest(Ahead))
        /\ Starts(KeyAhead, Quote)
    BY <1>1 DEF KeyAhead, Malformed
  <2> DEFINE close == KeyEnd(KeyAhead)
             colon == SkipWS(From(KeyAhead, close + 1))
             text == SkipWS(Rest(colon))
  <2>9. /\ close # 0 /\ Starts(colon, ":")
        /\ KeyValue.rest = From(text, FindValueEnd(text) + 1)
    BY <1>1 DEF Malformed, KeyValue, NextKeyValue, KeyEnd
  <2> HIDE DEF close, colon, text
  <2>10. Orderly(d) /\ Reached(d, p) /\ (Top.first => d[p] # Backslash)
    BY <2>4, <2>6 DEF d
  <2>11. PICK k \in 1 .. Len(d) :
            /\ KeyAhead = From(d, k + 1) /\ Reached(d, k) /\ d[k] # Backslash
            /\ k < Len(d) /\ d[k + 1] = Quote
    <3> DEFINE first == Top.first
    <3>1. /\ first \in BOOLEAN /\ (first => d[p] # Backslash)
          /\ ~ first => Starts(Ahead, comma)
          /\ first => KeyAhead = Ahead
          /\ ~ first => KeyAhead = SkipWS(Rest(Ahead))
      BY <2>2, <2>7, <2>8, <2>10
    <3> HIDE DEF first
    <3> QED BY <2>1, <2>5, <2>7, <2>8, <2>10, <3>1, ReachedKey
  <2>12. PICK v \in 1 .. Len(d) :
            d[v] = ":" /\ Reached(d, v) /\ Rest(colon) = From(d, v + 1)
    <3>1. PlainStrings(d)
      BY <2>10 DEF Orderly
    <3>2. close = KeyEnd(From(d, k + 1))
      BY <2>11 DEF close
    <3>3. colon = SkipWS(From(From(d, k + 1), close + 1))
      BY <2>11 DEF colon
    <3>4. close # 0 /\ Starts(colon, ":")
      BY <2>9
    <3>5. k < Len(d) /\ Reached(d, k) /\ d[k] # Backslash /\ d[k + 1] = Quote
      BY <2>11
    <3> HIDE DEF close, colon
    <3> QED BY <2>1, <3>1, <3>2, <3>3, <3>4, <3>5, ReachedColon
  <2>13. PICK r \in 1 .. Len(d) :
            /\ From(text, FindValueEnd(text) + 1) = From(d, r + 1)
            /\ r < Len(d) => Reached(d, r)
    <3>1. text = SkipWS(From(d, v + 1))
      BY <2>12 DEF text
    <3> QED BY <2>1, <2>10, <2>12, <3>1, ReachedValue
  <2> QED BY <2>3, <2>9, <2>13 DEF AtTop, d
<1> QED BY <1>1, <1>2, <1>3

\* A step that leaves the body and the outermost call where they are, or
\* behind the next member.
LEMMA CallOnTrack ==
    ASSUME OnTrack, Parsing, phase' \in {"object", "array"},
           UNCHANGED <<body, rest>>,
           Unclosed /\ AtTop(stack[1]) => AtTop(stack'[1])
    PROVE  OnTrack'
<1>1. Parsing' /\ phase' # "accepted"
  BY DEF Parsing
<1>2. Data' = Data /\ (Unclosed' <=> Unclosed)
  BY DEF Data, Unclosed
<1>3. AtTop(stack[1])' <=> AtTop(stack'[1])
  BY <1>2 DEF AtTop
<1> QED BY <1>1, <1>2, <1>3 DEF OnTrack

\* A round that takes a member.
LEMMA MemberOnTrack ==
    ASSUME CallsOK, body \in Window, OnTrack, NEW kind, AtMember(kind),
           phase' \in {"object", "array"}, UNCHANGED <<body, rest>>,
           stack'[1] = Advanced[1]
    PROVE  OnTrack'
<1>1. Parsing
  BY DEF AtMember, InLoop, Parsing
<1>2. ASSUME Unclosed, AtTop(stack[1]) PROVE AtTop(stack'[1])
  <2>1. Orderly(Data)
    BY <1>2 DEF Unclosed
  <2>2. AtTop(Advanced[1])
    BY <1>2, <2>1, TopAdvances
  <2> QED BY <2>2
<1> QED BY <1>1, <1>2, CallOnTrack

\* A rejected body needs nothing.
LEMMA RejectOnTrack ==
    ASSUME phase' = "rejected" PROVE OnTrack'
  BY DEF OnTrack, Parsing

\* A field that is assigned.
LEMMA AssignOnTrack ==
    ASSUME CallsOK, body \in Window, OnTrack, NEW kind, AtMember(kind),
           NEW v, Assign(v)
    PROVE  OnTrack'
<1>1. /\ phase' \in {"object", "array"} /\ UNCHANGED <<body, rest>>
      /\ stack' = Advanced
  BY DEF Assign, AtMember, InLoop
<1> QED BY <1>1, MemberOnTrack

\* An object that is entered.
LEMMA DescendOnTrack ==
    ASSUME CallsOK, body \in Window, OnTrack,
           NEW kind \in {"object", "pointer"}, AtMember(kind), NEW r, Descend(r)
    PROVE  OnTrack'
<1>1. CASE OpensObject(KeyValue.value)
  <2>1. /\ stack' = Append(Advanced, Call(KeyValue.key[1], KeyValue.value))
        /\ phase' \in {"object", "array"} /\ UNCHANGED <<body, rest>>
    BY <1>1 DEF Descend, AtMember, InLoop
  <2>2. Advanced \in Seq(CallType) /\ Len(Advanced) = Len(stack)
        /\ Len(stack) \in {1, 2}
    BY AdvancedShape, TopShape DEF AtMember
  <2>3. Append(Advanced, Call(KeyValue.key[1], KeyValue.value))[1] = Advanced[1]
    <3>1. 1 \in 1 .. Len(Advanced)
      BY <2>2
    <3> QED BY <2>2, <3>1, AppendProperties
  <2> QED BY <2>1, <2>3, MemberOnTrack
<1>2. CASE ~ OpensObject(KeyValue.value)
  BY <1>2, RejectOnTrack DEF Descend
<1> QED BY <1>1, <1>2

\* The closing brace is found only in a body that has it.
LEMMA FinishOnTrack ==
    ASSUME CallsOK, body \in Window, OnTrack, Finish
    PROVE  OnTrack'
<1>1. CASE SkipWS(rest) # << >>
  BY <1>1, RejectOnTrack DEF Finish
<1>2. CASE SkipWS(rest) = << >>
  <2>1. phase' = "accepted" /\ UNCHANGED <<body, rest>> /\ Parsing /\ ~ Parsing'
    BY <1>2 DEF Finish, AtBrace, Parsing
  <2>2. Data' = Data /\ (Unclosed' <=> Unclosed)
    BY <2>1 DEF Data, Unclosed
  <2>3. ASSUME Unclosed PROVE FALSE
    <3> DEFINE d == Data
    <3>1. d \in Window /\ Len(d) \in Nat
      BY SkipWSShortens DEF Data, Window
    <3>2. stack[1] = Top /\ IsEnd(Ahead)
      BY Zenon DEF Finish, AtBrace, Top, IsEnd
    <3>3. PICK p \in 1 .. Len(d) :
                /\ Top.data = From(d, p + 1)
                /\ p < Len(d) => Reached(d, p)
      BY <2>1, <2>3, <3>2 DEF OnTrack, AtTop
    <3> HIDE DEF d
    <3>4. SkipWS(From(d, p + 1)) # << >> /\ IsEnd(SkipWS(From(d, p + 1)))
      BY <3>2, <3>3 DEF Ahead, IsEnd, Starts
    <3>5. p \in 0 .. Len(d) /\ p < Len(d)
      <4>1. p \in 0 .. Len(d) /\ (p # Len(d) => p < Len(d))
        BY <3>1
      <4>2. ASSUME p = Len(d) PROVE FALSE
        <5>1. From(d, p + 1) = << >> /\ From(d, p + 1) \in Window
          BY <3>1, <4>1, <4>2, FromStarts, FromShows
        <5>2. Len(SkipWS(From(d, p + 1))) <= Len(From(d, p + 1))
              /\ SkipWS(From(d, p + 1)) \in Window
          BY <5>1, SkipWSShortens
        <5> QED BY <3>4, <5>1, <5>2 DEF Window
      <4> QED BY <4>1, <4>2
    <3>6. PICK q \in p .. Len(d) :
                SkipWS(From(d, p + 1)) = From(d, q + 1) /\ Reached(d, q)
      BY <3>1, <3>3, <3>5, ReachedSkip
    <3>7. q \in 1 .. Len(d) /\ q \in 0 .. Len(d)
      BY <3>1
    <3>8. q < Len(d)
      <4>1. q # Len(d)
        BY <3>1, <3>4, <3>6, <3>7, FromStarts
      <4> QED BY <3>1, <3>7, <4>1
    <3>9. ObjectEnds(d) # {}
      BY <3>1, <3>4, <3>6, <3>7, <3>8, ReachedEnd
    <3> QED BY <2>3, <3>9 DEF Unclosed, d
  <2> QED BY <1>2, <2>1, <2>2, <2>3 DEF OnTrack
<1> QED BY <1>1, <1>2

\* The rounds that only touch the innermost call.
LEMMA LoopOnTrack ==
    ASSUME CallsOK, body \in Window, OnTrack,
           TakeElement \/ LeaveArray \/ LeaveObject
    PROVE  OnTrack'
<1>1. Parsing /\ phase' \in {"object", "array"} /\ UNCHANGED <<body, rest>>
  BY DEF TakeElement, LeaveArray, LeaveObject, AtBrace, Parsing
<1>2. stack'[1] = stack[1]
  <2>1. CASE LeaveObject
    <3>1. stack \in Seq(CallType) /\ Len(stack) > 1 /\ stack' = Front(stack)
      BY <2>1 DEF LeaveObject, CallsOK
    <3> QED BY <3>1 DEF Front
  <2>2. CASE TakeElement \/ LeaveArray
    BY <2>2 DEF TakeElement, LeaveArray
  <2> QED BY <2>1, <2>2
<1> QED BY <1>1, <1>2, CallOnTrack

\* Every step of the parser.
LEMMA StepOnTrack ==
    ASSUME CallsOK, body \in Window, OnTrack, ParserStep
    PROVE  OnTrack'
<1>1. CASE RejectMalformed
  BY <1>1, RejectOnTrack DEF RejectMalformed, Reject
<1>2. CASE TakeString \/ TakeFloat \/ TakeInt \/ TakeBool
  BY <1>2, AssignOnTrack DEF TakeString, TakeFloat, TakeInt, TakeBool
<1>3. CASE TakeTimestamp
  BY <1>3, AssignOnTrack, RejectOnTrack DEF TakeTimestamp, Reject
<1>4. CASE SkipMember
  <2>1. /\ AtMember("ignored") /\ stack' = Advanced
        /\ phase' \in {"object", "array"} /\ UNCHANGED <<body, rest>>
    BY <1>4 DEF SkipMember, AtMember, InLoop
  <2> QED BY <2>1, MemberOnTrack
<1>5. CASE EnterObject
  BY <1>5, DescendOnTrack DEF EnterObject
<1>6. CASE TakeLast
  <2>1. CASE KeyValue.value = <<"null">>
    <3>1. /\ AtMember("pointer") /\ stack' = Advanced
          /\ phase' \in {"object", "array"} /\ UNCHANGED <<body, rest>>
      BY <1>6, <2>1 DEF TakeLast, AtMember, InLoop
    <3> QED BY <3>1, MemberOnTrack
  <2>2. CASE KeyValue.value # <<"null">>
    BY <1>6, <2>2, DescendOnTrack DEF TakeLast
  <2> QED BY <2>1, <2>2
<1>7. CASE EnterArray
  <2>1. CASE phase' = "rejected"
    BY <2>1, RejectOnTrack
  <2>2. CASE phase' # "rejected"
    <3>1. /\ AtMember("array") /\ stack' = Advanced
          /\ phase' = "array" /\ UNCHANGED <<body, rest>>
      BY <1>7, <2>2 DEF EnterArray, Reject
    <3> QED BY <3>1, MemberOnTrack
  <2> QED BY <2>1, <2>2
<1>8. CASE TakeElement \/ LeaveArray \/ LeaveObject
  BY <1>8, LoopOnTrack
<1>9. CASE Finish
  BY <1>9, FinishOnTrack
<1> QED
  BY <1>1, <1>2, <1>3, <1>4, <1>5, <1>6, <1>7, <1>8, <1>9 DEF ParserStep

\* The call of the outermost object has all of it in front but its bracket.
LEMMA BeginOnTrack ==
    ASSUME OnTrack, NEW b \in Window, Begin(b)
    PROVE  OnTrack'
<1>1. CASE phase' = "rejected"
  BY <1>1, RejectOnTrack
<1>2. CASE phase' # "rejected"
  <2> DEFINE d == SkipWS(b)
             end == FindValueEnd(d)
  <2>1. /\ body' = b /\ phase' = "object" /\ OpensObject(b)
        /\ stack' = <<Call("top", SubSeq(d, 1, end))>>
        /\ rest' = From(d, end + 1)
    BY <1>2 DEF Begin
  <2>2. Data' = d /\ Parsing' /\ phase' # "accepted"
    BY <2>1 DEF Data, Parsing
  <2>3. d \in Window /\ Len(d) \in Nat /\ IsObject(d)
    <3>1. d \in Window
      BY SkipWSShortens
    <3>2. IsObject(d)
      BY <2>1 DEF OpensObject, IsObject
    <3> QED BY <3>1, <3>2 DEF Window
  <2>4. ASSUME ObjectEnds(d) = {} PROVE AtTop(stack[1])'
    <3>1. end = Len(d)
      <4>1. end = FirstOf(ObjectEnds(d), Len(d))
        BY <2>3, BracketEnds, Zenon DEF IsObject, ObjectEnds
      <4> QED BY <2>4, <4>1 DEF FirstOf
    <3> HIDE DEF d, end
    <3>2. SubSeq(d, 1, end) = d
      BY <2>3, <3>1 DEF Window
    <3>3. /\ d # << >> /\ 1 \in 1 .. Len(d) /\ Reached(d, 1)
          /\ d[1] # Backslash /\ d[1] # Space
      BY <2>3, ReachedFirst
    <3>4. SkipWS(d) = d
      <4>1. From(d, 0 + 1) = d /\ 0 \in 0 .. Len(d)
        <5>1. 1 \in 1 .. Len(d) + 1 /\ 0 + 1 = 1 /\ 0 \in 0 .. Len(d)
          BY <2>3
        <5> QED BY <2>3, <5>1, FromWindow
      <4>2. PICK q \in 0 .. Len(d) :
                /\ SkipWS(From(d, 0 + 1)) = From(d, q + 1)
                /\ \A j \in (0 + 1) .. q : d[j] = Space
        BY <2>3, <4>1, SkipFrom
      <4>3. q = 0
        <5>1. ASSUME q # 0 PROVE FALSE
          <6>1. 1 \in (0 + 1) .. q
            BY <2>3, <5>1
          <6> QED BY <3>3, <4>2, <6>1
        <5> QED BY <5>1
      <4> QED BY <4>1, <4>2, <4>3
    <3>5. stack'[1].data = From(d, 1 + 1)
      <4>1. stack'[1] = Call("top", d)
        BY <2>1, <3>2
      <4>2. 1 + 1 = 2
        OBVIOUS
      <4> QED BY <3>4, <4>1, <4>2 DEF Call, Rest
    <3> QED BY <2>2, <3>3, <3>5 DEF AtTop
  <2>5. Unclosed' => ObjectEnds(d) = {}
    BY <2>2 DEF Unclosed
  <2> QED BY <2>1, <2>2, <2>3, <2>4, <2>5 DEF OnTrack
<1> QED BY <1>1, <1>2

\* The invariant of the parser on its way through well-written bodies.
LEMMA StaysOnTrack == Spec => []OnTrack
<1>1. Init => OnTrack
  BY DEF Init, OnTrack, Parsing
<1>2. TypeOK /\ OnTrack /\ [Next]_vars => OnTrack'
  <2> SUFFICES ASSUME TypeOK, OnTrack, [Next]_vars PROVE OnTrack'
    OBVIOUS
  <2>0. CallsOK /\ body \in Window
    BY DEF TypeOK
  <2>1. CASE ParserStep
    BY <2>0, <2>1, StepOnTrack
  <2>2. CASE PutBack
    BY <2>2 DEF PutBack, OnTrack, Parsing
  <2>3. ASSUME NEW b \in Bodies, Begin(b) PROVE OnTrack'
    <3>1. b \in Window
      BY ParserAssumption DEF Window
    <3> QED BY <2>3, <3>1, BeginOnTrack
  <2>4. CASE UNCHANGED vars
    BY <2>4 DEF vars, OnTrack, Parsing, AtTop, Unclosed, Data
  <2> QED BY <2>1, <2>2, <2>3, <2>4 DEF Next
<1> QED BY <1>1, <1>2, ParserTypeCorrect, PTL DEF Spec

\* A prefix begins like the whole.
LEMMA PrefixBegins ==
    ASSUME NEW x \in Window, NEW y \in Window, IsPrefix(x, y)
    PROVE  Begins(x, y)
<1>1. /\ Len(x) \in Nat /\ Len(y) \in Nat /\ Len(x) <= Len(y)
      /\ SubSeq(x, 1, Len(x)) = SubSeq(y, 1, Len(x))
  BY DEF IsPrefix, Window
<1>2. ASSUME NEW j \in 1 .. Len(x) PROVE x[j] = y[j]
  <2>1. SubSeq(x, 1, Len(x))[j] = x[j] /\ SubSeq(y, 1, Len(x))[j] = y[j]
    BY <1>1 DEF Window
  <2> QED BY <1>1, <2>1
<1> QED BY <1>1, <1>2 DEF Begins

\* When the texts of the documents are well written, nothing but a whole
\* document is accepted, whatever else is handed to the parser: not one cut
\* short anywhere, although the parser takes the end of the buffer for the end
\* of an object whose brace it does not find (parser.go:9-344), and not one
\* with anything but white space behind it (request_decoder.go:41).
THEOREM OnlyWholeIsAccepted ==
    ASSUME \A d \in Documents : WellWritten(d.text)
    PROVE  Spec => []OnlyWholeAccepted
<1>1. TypeOK /\ OnTrack => OnlyWholeAccepted
  <2> SUFFICES ASSUME TypeOK, OnTrack, phase = "accepted", NEW d \in Documents
               PROVE  /\ IsPrefix(body, d.text) =>
                            SkipWS(From(d.text, Len(body) + 1)) = << >>
                      /\ IsPrefix(d.text, body) =>
                            SkipWS(From(body, Len(d.text) + 1)) = << >>
    BY DEF OnlyWholeAccepted
  <2> DEFINE t == d.text
             data == SkipWS(t)
  <2>1. body \in Window /\ t \in Window
    BY DocumentsAssumption DEF TypeOK, Window
  <2>2. /\ IsObject(data) /\ ObjectEnds(data) # {} /\ Orderly(data)
        /\ SkipWS(From(data, FindValueEnd(data) + 1)) = << >>
    BY Zenon DEF WellWritten, IsObject, ObjectEnds
  <2>3. /\ IsObject(Data) /\ ~ Unclosed
        /\ SkipWS(From(Data, FindValueEnd(Data) + 1)) = << >>
    BY DEF OnTrack
  <2>4. data # << >> /\ Data # << >>
    BY <2>2, <2>3 DEF IsObject, Starts
  <2> HIDE DEF t, data
  <2>5. ASSUME IsPrefix(body, t) PROVE SkipWS(From(t, Len(body) + 1)) = << >>
    <3>1. Begins(body, t) /\ Begins(Data, data)
      <4>1. Begins(body, t)
        BY <2>1, <2>5, PrefixBegins
      <4> QED BY <2>4, <4>1, SkipBegins DEF Data, data
    <3>2. ObjectEnds(Data) # {}
      BY <2>2, <2>3, <3>1, OrderlyBegin DEF Unclosed
    <3>3. /\ FindValueEnd(Data) = FindValueEnd(data)
          /\ FindValueEnd(Data) \in 1 .. Len(Data)
      BY <2>3, <3>1, <3>2, BeginsEnd
    <3>4. SkipWS(From(data, FindValueEnd(Data) + 1)) = << >>
      BY <2>2, <3>3
    <3> QED BY <2>4, <3>1, <3>3, <3>4, NothingBehind DEF Data, data
  <2>6. ASSUME IsPrefix(t, body) PROVE SkipWS(From(body, Len(t) + 1)) = << >>
    <3>1. Begins(t, body) /\ Begins(data, Data)
      <4>1. Begins(t, body)
        BY <2>1, <2>6, PrefixBegins
      <4> QED BY <2>4, <4>1, SkipBegins DEF Data, data
    <3>2. /\ FindValueEnd(data) = FindValueEnd(Data)
          /\ FindValueEnd(data) \in 1 .. Len(data)
      BY <2>2, <3>1, BeginsEnd
    <3>3. SkipWS(From(Data, FindValueEnd(data) + 1)) = << >>
      BY <2>3, <3>2
    <3> QED BY <2>4, <3>1, <3>2, <3>3, NothingBehind DEF Data, data
  <2> QED BY <2>5, <2>6 DEF t
<1> QED BY <1>1, ParserTypeCorrect, StaysOnTrack, PTL

-----------------------------------------------------------------------------
(***************************************************************************)
(* Bodies with flat lists: the loop over an array advances.                *)
(***************************************************************************)
\* A window is a piece of another one.
Piece(w, d) ==
    /\ w \in Window /\ d \in Window
    /\ \E o \in Nat : /\ o + Len(w) <= Len(d)
                      /\ \A j \in 1 .. Len(w) : w[j] = d[o + j]

\* A piece of a piece is a piece.
LEMMA PieceOfPiece ==
    ASSUME NEW u, NEW w, NEW d, Piece(u, w), Piece(w, d)
    PROVE  Piece(u, d)
<1>1. /\ Len(u) \in Nat /\ Len(w) \in Nat /\ Len(d) \in Nat
      /\ u \in Window /\ d \in Window
  BY DEF Piece, Window
<1>2. PICK a \in Nat : /\ a + Len(u) <= Len(w)
                       /\ \A j \in 1 .. Len(u) : u[j] = w[a + j]
  BY DEF Piece
<1>3. PICK b \in Nat : /\ b + Len(w) <= Len(d)
                       /\ \A j \in 1 .. Len(w) : w[j] = d[b + j]
  BY DEF Piece
<1>4. (a + b) + Len(u) <= Len(d) /\ a + b \in Nat
  BY <1>1, <1>2, <1>3
<1>5. ASSUME NEW j \in 1 .. Len(u) PROVE u[j] = d[(a + b) + j]
  <2>1. a + j \in 1 .. Len(w) /\ b + (a + j) = (a + b) + j
    BY <1>1, <1>2, <1>3
  <2> QED BY <1>2, <1>3, <2>1
<1> QED BY <1>1, <1>4, <1>5 DEF Piece

\* A window is a piece of itself.
LEMMA PieceSelf ==
    ASSUME NEW d \in Window
    PROVE  Piece(d, d)
<1>1. Len(d) \in Nat /\ 0 \in Nat /\ 0 + Len(d) <= Len(d)
  BY DEF Window
<1>2. \A j \in 1 .. Len(d) : d[j] = d[0 + j]
  BY <1>1
<1> QED BY <1>1, <1>2 DEF Piece

\* Nothing is a piece of everything.
LEMMA PieceEmpty ==
    ASSUME NEW d \in Window
    PROVE  Piece(<< >>, d)
<1>1. Len(d) \in Nat /\ 0 \in Nat /\ << >> \in Window /\ Len(<< >>) = 0
  BY DEF Window
<1>2. 0 + 0 <= Len(d)
  BY <1>1
<1> QED BY <1>1, <1>2 DEF Piece

\* What is behind a position is a piece.
LEMMA PieceFrom ==
    ASSUME NEW d \in Window, NEW i \in 1 .. Len(d) + 1
    PROVE  Piece(From(d, i), d)
<1>1. /\ Len(d) \in Nat /\ i - 1 \in 0 .. Len(d) /\ i - 1 \in Nat
      /\ (i - 1) + 1 = i
  BY DEF Window
<1>2. /\ From(d, (i - 1) + 1) \in Window
      /\ Len(From(d, (i - 1) + 1)) = Len(d) - (i - 1)
      /\ \A j \in 1 .. Len(d) - (i - 1) :
            From(d, (i - 1) + 1)[j] = d[(i - 1) + j]
  BY <1>1, FromShows
<1>3. (i - 1) + Len(From(d, i)) <= Len(d)
  BY <1>1, <1>2
<1> QED BY <1>1, <1>2, <1>3 DEF Piece

\* What is up to a position is a piece.
LEMMA PieceUpTo ==
    ASSUME NEW d \in Window, NEW e \in 0 .. Len(d)
    PROVE  /\ Piece(SubSeq(d, 1, e), d) /\ Len(SubSeq(d, 1, e)) = e
           /\ \A j \in 1 .. e : SubSeq(d, 1, e)[j] = d[j]
<1>1. Len(d) \in Nat /\ e \in Nat /\ e <= Len(d)
  BY DEF Window
<1>2. /\ SubSeq(d, 1, e) \in Window /\ Len(SubSeq(d, 1, e)) = e
      /\ \A j \in 1 .. e : SubSeq(d, 1, e)[j] = d[j]
  BY <1>1 DEF Window
<1>3. \A j \in 1 .. e : SubSeq(d, 1, e)[j] = d[0 + j]
  BY <1>1, <1>2
<1> HIDE DEF Window
<1> QED BY <1>1, <1>2, <1>3 DEF Piece

\* What follows white space, or a first symbol, is a piece.
LEMMA PieceSkip ==
    ASSUME NEW d \in Window
    PROVE  Piece(SkipWS(d), d)
<1>1. Len(d) \in Nat /\ 0 \in 0 .. Len(d) /\ 1 \in 1 .. Len(d) + 1 /\ 0 + 1 = 1
  BY DEF Window
<1>2. From(d, 0 + 1) = d
  BY <1>1, FromWindow
<1>3. PICK q \in 0 .. Len(d) : SkipWS(From(d, 0 + 1)) = From(d, q + 1)
  BY <1>1, SkipFrom
<1>4. q + 1 \in 1 .. Len(d) + 1
  BY <1>1
<1> QED BY <1>2, <1>3, <1>4, PieceFrom

LEMMA PieceRest ==
    ASSUME NEW d \in Window, d # << >>
    PROVE  Piece(Rest(d), d)
<1>1. Len(d) \in Nat /\ Len(d) > 0
  BY DEF Window
<1>2. 2 \in 1 .. Len(d) + 1
  BY <1>1
<1> QED BY <1>2, PieceFrom DEF Rest

\* What is between two brackets or quotes is a piece.
LEMMA PieceInner ==
    ASSUME NEW v \in Window, Len(v) >= 2
    PROVE  /\ Piece(Inner(v), v) /\ Len(Inner(v)) = Len(v) - 2
           /\ \A j \in 1 .. Len(v) - 2 : Inner(v)[j] = v[1 + j]
<1>1. /\ Inner(v) \in Window /\ Len(Inner(v)) = Len(v) - 2
      /\ Len(v) \in Nat /\ Len(v) - 2 \in Nat
  BY InnerShortens DEF Window
<1>2. ASSUME NEW j \in 1 .. Len(v) - 2 PROVE Inner(v)[j] = v[1 + j]
  <2>1. /\ 2 \in 1 .. Len(v) /\ Len(v) - 1 \in 1 .. Len(v)
        /\ j \in 1 .. (Len(v) - 1) - 2 + 1 /\ 2 + j - 1 = 1 + j
    BY <1>1
  <2>2. SubSeq(v, 2, Len(v) - 1)[j] = v[2 + j - 1]
    BY <1>1, <2>1 DEF Window
  <2> QED BY <2>1, <2>2 DEF Inner
<1>3. 1 + Len(Inner(v)) <= Len(v)
  BY <1>1
<1> QED BY <1>1, <1>2, <1>3 DEF Piece

LEMMA PieceUnquoted ==
    ASSUME NEW v \in Window
    PROVE  Piece(Unquoted(v), v)
<1>1. CASE IsQuoted(v)
  <2>1. Len(v) >= 2
    BY <1>1 DEF IsQuoted
  <2> QED BY <1>1, <2>1, PieceInner DEF Unquoted
<1>2. CASE ~ IsQuoted(v)
  BY <1>2, PieceSelf DEF Unquoted
<1> QED BY <1>1, <1>2

-----------------------------------------------------------------------------
\* What may stand where, symbol by symbol.
Opens(c) == c = "["
Closes(c) == c = "]"
Odd(c) == c \in {"[", "}"}
Separates(c) == c = ","

LEMMA ListSymbols ==
    \A d, i, k :
        /\ ListBetween(d, i, k) <=>
                /\ i < k /\ Opens(d[i]) /\ Closes(d[k])
                /\ \A m \in (i + 1) .. (k - 1) : ~ Closes(d[m])
        /\ PlainBetween(d, i, k) <=>
                /\ \A m \in (i + 1) .. (k - 1) : ~ Odd(d[m])
                /\ \A m, n \in (i + 1) .. (k - 1) :
                    m < n /\ Separates(d[m]) /\ Separates(d[n]) =>
                        \E o \in (m + 1) .. (n - 1) : d[o] # Space
  BY Zenon DEF ListBetween, PlainBetween, Opens, Closes, Odd, Separates

\* A list of a piece is a list of the whole, as far from a quote and as plain.
LEMMA ListOfPiece ==
    ASSUME NEW w \in Window, NEW d \in Window, NEW o \in Nat,
           o + Len(w) <= Len(d), \A j \in 1 .. Len(w) : w[j] = d[o + j],
           NEW i \in 1 .. Len(w), NEW k \in 1 .. Len(w)
    PROVE  /\ o + i \in 1 .. Len(d) /\ o + k \in 1 .. Len(d)
           /\ ListBetween(w, i, k) => ListBetween(d, o + i, o + k)
           /\ QuoteBefore(w, i) => QuoteBefore(d, o + i)
           /\ PlainBetween(d, o + i, o + k) => PlainBetween(w, i, k)
<1>1. Len(w) \in Nat /\ Len(d) \in Nat
  BY DEF Window
<1>2. o + i \in 1 .. Len(d) /\ o + k \in 1 .. Len(d)
  BY <1>1
<1>3. \A m \in (o + i + 1) .. (o + k - 1) :
            m - o \in (i + 1) .. (k - 1) /\ m - o \in 1 .. Len(w)
                /\ o + (m - o) = m
  BY <1>1
<1>4. \A m \in (o + i + 1) .. (o + k - 1) : w[m - o] = d[m]
  BY <1>3
<1>5. \A m \in (i + 1) .. (k - 1) :
            m \in 1 .. Len(w) /\ o + m \in (o + i + 1) .. (o + k - 1)
  BY <1>1
<1>6. ASSUME ListBetween(w, i, k) PROVE ListBetween(d, o + i, o + k)
  <2>1. /\ i < k /\ Opens(w[i]) /\ Closes(w[k])
        /\ \A m \in (i + 1) .. (k - 1) : ~ Closes(w[m])
    BY <1>6, ListSymbols
  <2>2. o + i < o + k /\ Opens(d[o + i]) /\ Closes(d[o + k])
    BY <1>1, <2>1
  <2>3. \A m \in (o + i + 1) .. (o + k - 1) : ~ Closes(d[m])
    BY <1>3, <1>4, <2>1
  <2> QED BY <2>2, <2>3, ListSymbols
<1>7. ASSUME QuoteBefore(w, i) PROVE QuoteBefore(d, o + i)
  <2>1. PICK q \in 1 .. (i - 1) :
            w[q] = Quote /\ \A m \in (q + 1) .. (i - 1) : w[m] = Space
    BY <1>7 DEF QuoteBefore
  <2>2. o + q \in 1 .. (o + i - 1) /\ q \in 1 .. Len(w)
    BY <1>1
  <2>3. d[o + q] = Quote
    BY <2>1, <2>2
  <2>4. ASSUME NEW m \in (o + q + 1) .. (o + i - 1) PROVE d[m] = Space
    <3>1. m - o \in (q + 1) .. (i - 1) /\ m - o \in 1 .. Len(w)
            /\ o + (m - o) = m
      BY <1>1, <2>2
    <3>2. w[m - o] = Space /\ w[m - o] = d[o + (m - o)]
      BY <2>1, <3>1
    <3> QED BY <3>1, <3>2
  <2> QED BY <2>2, <2>3, <2>4 DEF QuoteBefore
<1>8. ASSUME PlainBetween(d, o + i, o + k) PROVE PlainBetween(w, i, k)
  <2> DEFINE a == o + i
             b == o + k
  <2>1. /\ \A m \in (a + 1) .. (b - 1) : ~ Odd(d[m])
        /\ \A m, n \in (a + 1) .. (b - 1) :
            m < n /\ Separates(d[m]) /\ Separates(d[n]) =>
                \E x \in (m + 1) .. (n - 1) : d[x] # Space
    <3>1. PlainBetween(d, a, b)
      BY <1>8
    <3> HIDE DEF a, b
    <3> QED BY <3>1, ListSymbols
  <2>2. ASSUME NEW m \in (i + 1) .. (k - 1) PROVE ~ Odd(w[m])
    <3>1. w[m] = d[o + m] /\ o + m \in (o + i + 1) .. (o + k - 1)
      BY <1>5
    <3> QED BY <2>1, <3>1
  <2>3. ASSUME NEW m \in (i + 1) .. (k - 1), NEW n \in (i + 1) .. (k - 1),
               m < n, Separates(w[m]), Separates(w[n])
        PROVE  \E x \in (m + 1) .. (n - 1) : w[x] # Space
    <3>1. /\ o + m \in (o + i + 1) .. (o + k - 1) /\ w[m] = d[o + m]
          /\ o + n \in (o + i + 1) .. (o + k - 1) /\ w[n] = d[o + n]
      BY <1>5
    <3>2. o + m < o + n
      BY <1>1, <2>3
    <3>3. PICK x \in (o + m + 1) .. (o + n - 1) : d[x] # Space
      BY <2>1, <2>3, <3>1, <3>2
    <3>4. /\ x - o \in (m + 1) .. (n - 1) /\ x - o \in 1 .. Len(w)
          /\ o + (x - o) = x
      BY <1>1
    <3>5. w[x - o] # Space
      BY <3>3, <3>4
    <3> QED BY <3>4, <3>5
  <2> QED BY <2>2, <2>3, ListSymbols
<1> QED BY <1>2, <1>6, <1>7, <1>8

\* Pieces of bodies with flat lists have flat lists.
LEMMA FlatPiece ==
    ASSUME NEW w, NEW d, Piece(w, d), FlatLists(d)
    PROVE  FlatLists(w)
<1>1. w \in Window /\ d \in Window
  BY DEF Piece
<1>2. PICK o \in Nat : /\ o + Len(w) <= Len(d)
                       /\ \A j \in 1 .. Len(w) : w[j] = d[o + j]
  BY DEF Piece
<1>3. SUFFICES ASSUME NEW i \in 1 .. Len(w), NEW k \in 1 .. Len(w),
                      ListBetween(w, i, k)
               PROVE  ~ QuoteBefore(w, i) /\ PlainBetween(w, i, k)
  BY DEF FlatLists
<1>4. /\ o + i \in 1 .. Len(d) /\ o + k \in 1 .. Len(d)
      /\ ListBetween(w, i, k) => ListBetween(d, o + i, o + k)
      /\ QuoteBefore(w, i) => QuoteBefore(d, o + i)
      /\ PlainBetween(d, o + i, o + k) => PlainBetween(w, i, k)
  BY <1>1, <1>2, ListOfPiece
<1>5. ~ QuoteBefore(d, o + i) /\ PlainBetween(d, o + i, o + k)
  BY <1>3, <1>4 DEF FlatLists
<1> QED BY <1>4, <1>5

\* In a window that begins with a bracket and holds one that closes, the value
\* ends at the first of these.
LEMMA FlatListEnds ==
    ASSUME NEW d \in Window, FlatLists(d), d # << >>, Opens(d[1]),
           NEW e, e = FindValueEnd(d), e >= 2, Closes(d[e])
    PROVE  e \in 2 .. Len(d) /\ ListBetween(d, 1, e)
<1>1. Len(d) \in Nat /\ e \in 2 .. Len(d) /\ 1 \in 1 .. Len(d)
  <2>1. e \in 0 .. Len(d) /\ Len(d) \in Nat
    BY ValueEndInside DEF Window
  <2> QED BY <2>1
<1> DEFINE S == {k \in 2 .. Len(d) : Closes(d[k])}
<1>2. S \subseteq Nat /\ e \in S
  BY <1>1
<1>3. PICK f \in S : \A k \in S : f <= k
  BY <1>2, LeastExists
<1>4. f \in 2 .. Len(d) /\ Closes(d[f]) /\ f <= e
  BY <1>1, <1>2, <1>3
<1>5. ASSUME NEW m \in 2 .. (f - 1) PROVE ~ Closes(d[m])
  <2>1. m \in 2 .. Len(d) /\ ~ (f <= m)
    BY <1>1, <1>4
  <2> QED BY <1>3, <2>1
<1> HIDE DEF S
<1>6. ListBetween(d, 1, f)
  <2>1. 1 < f /\ 1 + 1 = 2
    BY <1>1, <1>4
  <2> QED BY <1>4, <1>5, <2>1, ListSymbols
<1>7. \A m \in 2 .. (f - 1) : ~ Odd(d[m])
  <2>1. f \in 1 .. Len(d) /\ 1 + 1 = 2
    BY <1>1, <1>4
  <2>2. PlainBetween(d, 1, f)
    BY <1>1, <1>6, <2>1 DEF FlatLists
  <2> QED BY <2>1, <2>2, ListSymbols
<1>8. Occurrences(d, f, "[") = 1 /\ Occurrences(d, f, "]") = 1
  <2>1. /\ {j \in 1 .. f : d[j] = "["} = {1}
        /\ {j \in 1 .. f : d[j] = "]"} = {f}
    <3>1. \A j \in 1 .. f : j = 1 \/ j = f \/ j \in 2 .. (f - 1)
      BY <1>1, <1>4
    <3>2. 1 \in 1 .. f /\ f \in 1 .. f /\ 1 # f
      BY <1>1, <1>4
    <3>3. ASSUME NEW j \in 1 .. f PROVE d[j] = "[" <=> j = 1
      <4>1. CASE j = 1
        BY <4>1 DEF Opens
      <4>2. CASE j = f
        BY <1>4, <3>2, <4>2 DEF Closes
      <4>3. CASE j \in 2 .. (f - 1)
        <5>1. j # 1
          BY <4>3
        <5> QED BY <1>7, <4>3, <5>1 DEF Odd
      <4> QED BY <3>1, <4>1, <4>2, <4>3
    <3>4. ASSUME NEW j \in 1 .. f PROVE d[j] = "]" <=> j = f
      <4>1. CASE j = 1
        BY <3>2, <4>1 DEF Opens
      <4>2. CASE j = f
        BY <1>4, <4>2 DEF Closes
      <4>3. CASE j \in 2 .. (f - 1)
        <5>1. j # f
          BY <1>1, <1>4, <4>3
        <5> QED BY <1>5, <4>3, <5>1 DEF Closes
      <4> QED BY <3>1, <4>1, <4>2, <4>3
    <3> QED BY <3>2, <3>3, <3>4, Zenon
  <2>2. Cardinality({1}) = 1 /\ Cardinality({f}) = 1
    BY FS_Singleton
  <2> QED BY <2>1, <2>2 DEF Occurrences
<1>9. f \in Balanced(d, "[", "]")
  <2>1. d[f] = "]"
    BY <1>4 DEF Closes
  <2> QED BY <1>4, <1>8, <2>1, Zenon DEF Balanced
<1>10. e <= f
  <2>1. Balanced(d, "[", "]") \subseteq Nat
    BY <1>1 DEF Balanced
  <2>2. Starts(d, "[")
    <3>1. Head(d) = d[1]
      BY DEF Window
    <3> QED BY <3>1 DEF Starts, Opens
  <2>3. e = FirstOf(Balanced(d, "[", "]"), Len(d))
    BY <2>2, BracketEnds
  <2>4. \A x \in Balanced(d, "[", "]") :
            FirstOf(Balanced(d, "[", "]"), Len(d)) <= x
    BY <1>9, <2>1, FirstOfLeast
  <2> QED BY <1>9, <2>3, <2>4
<1>11. e = f
  BY <1>1, <1>4, <1>10
<1> QED BY <1>1, <1>6, <1>11

-----------------------------------------------------------------------------
\* What is left of a flat list: no brackets, and one comma at a time.
Smooth(w) ==
    /\ \A m \in 1 .. Len(w) : ~ Closes(w[m]) /\ ~ Odd(w[m])
    /\ \A m, n \in 1 .. Len(w) :
        m < n /\ Separates(w[m]) /\ Separates(w[n]) =>
            \E x \in (m + 1) .. (n - 1) : w[x] # Space

\* It stays so to its end.
LEMMA SmoothPiece ==
    ASSUME NEW u, NEW w, Piece(u, w), Smooth(w)
    PROVE  Smooth(u)
<1>1. Len(u) \in Nat /\ Len(w) \in Nat
  BY DEF Piece, Window
<1>2. PICK o \in Nat : /\ o + Len(u) <= Len(w)
                       /\ \A j \in 1 .. Len(u) : u[j] = w[o + j]
  BY DEF Piece
<1>3. \A m \in 1 .. Len(u) : o + m \in 1 .. Len(w)
  BY <1>1, <1>2
<1>4. ASSUME NEW m \in 1 .. Len(u) PROVE ~ Closes(u[m]) /\ ~ Odd(u[m])
  <2>1. u[m] = w[o + m] /\ o + m \in 1 .. Len(w)
    BY <1>2, <1>3
  <2> QED BY <2>1 DEF Smooth
<1>5. ASSUME NEW m \in 1 .. Len(u), NEW n \in 1 .. Len(u), m < n,
             Separates(u[m]), Separates(u[n])
      PROVE  \E x \in (m + 1) .. (n - 1) : u[x] # Space
  <2>1. /\ u[m] = w[o + m] /\ o + m \in 1 .. Len(w)
        /\ u[n] = w[o + n] /\ o + n \in 1 .. Len(w) /\ o + m < o + n
    BY <1>2, <1>3, <1>5
  <2>2. PICK x \in (o + m + 1) .. (o + n - 1) : w[x] # Space
    BY <1>5, <2>1 DEF Smooth
  <2>3. /\ x - o \in (m + 1) .. (n - 1) /\ x - o \in 1 .. Len(u)
        /\ o + (x - o) = x
    BY <1>1
  <2>4. u[x - o] # Space
    BY <1>2, <2>2, <2>3
  <2> QED BY <2>3, <2>4
<1> QED BY <1>4, <1>5 DEF Smooth

\* A list without its brackets.
LEMMA SmoothList ==
    ASSUME NEW v \in Window, FlatLists(v), Len(v) >= 2,
           ListBetween(v, 1, Len(v))
    PROVE  Smooth(Inner(v))
<1>1. /\ Len(v) \in Nat /\ 1 \in 1 .. Len(v) /\ Len(v) \in 1 .. Len(v)
      /\ 1 + 1 = 2
  BY DEF Window
<1>2. PlainBetween(v, 1, Len(v))
  BY <1>1 DEF FlatLists
<1>3. /\ Len(Inner(v)) = Len(v) - 2
      /\ \A j \in 1 .. Len(v) - 2 : Inner(v)[j] = v[1 + j]
  BY PieceInner
<1>4. \A m \in 2 .. (Len(v) - 1) : ~ Closes(v[m]) /\ ~ Odd(v[m])
  BY <1>1, <1>2, ListSymbols
<1>5. \A m, n \in 2 .. (Len(v) - 1) :
        m < n /\ Separates(v[m]) /\ Separates(v[n]) =>
            \E x \in (m + 1) .. (n - 1) : v[x] # Space
  BY <1>1, <1>2, ListSymbols
<1>6. \A m \in 1 .. Len(v) - 2 : 1 + m \in 2 .. (Len(v) - 1)
  BY <1>1
<1>7. ASSUME NEW m \in 1 .. Len(v) - 2
      PROVE  ~ Closes(Inner(v)[m]) /\ ~ Odd(Inner(v)[m])
  <2>1. Inner(v)[m] = v[1 + m] /\ 1 + m \in 2 .. (Len(v) - 1)
    BY <1>3, <1>6
  <2> QED BY <1>4, <2>1
<1>8. ASSUME NEW m \in 1 .. Len(v) - 2, NEW n \in 1 .. Len(v) - 2, m < n,
             Separates(Inner(v)[m]), Separates(Inner(v)[n])
      PROVE  \E x \in (m + 1) .. (n - 1) : Inner(v)[x] # Space
  <2>1. /\ Inner(v)[m] = v[1 + m] /\ 1 + m \in 2 .. (Len(v) - 1)
        /\ Inner(v)[n] = v[1 + n] /\ 1 + n \in 2 .. (Len(v) - 1)
        /\ 1 + m < 1 + n
    BY <1>3, <1>6, <1>8
  <2>2. PICK x \in (1 + m + 1) .. (1 + n - 1) : v[x] # Space
    BY <1>5, <1>8, <2>1
  <2>3. /\ x - 1 \in (m + 1) .. (n - 1) /\ x - 1 \in 1 .. Len(v) - 2
        /\ 1 + (x - 1) = x
    BY <1>1
  <2>4. Inner(v)[x - 1] # Space
    BY <1>3, <2>2, <2>3
  <2> QED BY <2>3, <2>4
<1> QED BY <1>3, <1>7, <1>8 DEF Smooth

\* A window that does not begin with white space begins there.
LEMMA SkipNothing ==
    ASSUME NEW d \in Window, d # << >>, d[1] # Space
    PROVE  SkipWS(d) = d
<1>1. Len(d) \in Nat /\ Len(d) > 0 /\ 0 \in 0 .. Len(d) /\ 0 + 1 = 1
      /\ 1 \in 1 .. Len(d) + 1
  BY DEF Window
<1>2. From(d, 0 + 1) = d
  BY <1>1, FromWindow
<1>3. PICK q \in 0 .. Len(d) : /\ SkipWS(From(d, 0 + 1)) = From(d, q + 1)
                               /\ \A j \in (0 + 1) .. q : d[j] = Space
  BY <1>1, SkipFrom
<1>4. q = 0
  <2>1. ASSUME q # 0 PROVE FALSE
    <3>1. 1 \in (0 + 1) .. q
      BY <1>1, <2>1
    <3> QED BY <1>3, <3>1
  <2> QED BY <2>1
<1> QED BY <1>2, <1>3, <1>4

\* No list begins a string, so what is taken for a list is one.
LEMMA NoListInString ==
    ASSUME NEW u \in Window, FlatLists(u), IsQuoted(u),
           NEW data, data = SkipWS(Inner(u)), Len(data) >= 2,
           Opens(data[1]), Closes(data[Len(data)])
    PROVE  FALSE
<1> DEFINE v == Inner(u)
<1>1. /\ Len(u) \in Nat /\ Len(u) >= 2 /\ u[1] = Quote
      /\ v \in Window /\ Len(v) = Len(u) - 2
      /\ \A j \in 1 .. Len(u) - 2 : v[j] = u[1 + j]
  BY PieceInner DEF IsQuoted, Window, Piece
<1> HIDE DEF v
<1>2. Len(v) \in Nat /\ 0 \in 0 .. Len(v) /\ 1 \in 1 .. Len(v) + 1 /\ 0 + 1 = 1
  BY <1>1
<1>3. From(v, 0 + 1) = v
  BY <1>1, <1>2, FromWindow
<1>4. PICK q \in 0 .. Len(v) : /\ SkipWS(From(v, 0 + 1)) = From(v, q + 1)
                               /\ \A j \in (0 + 1) .. q : v[j] = Space
  BY <1>1, <1>2, SkipFrom
<1>5. data = From(v, q + 1)
  BY <1>3, <1>4 DEF v
<1>6. Len(data) = Len(v) - q /\ \A j \in 1 .. Len(v) - q : data[j] = v[q + j]
  <2>1. /\ Len(From(v, q + 1)) = Len(v) - q
        /\ \A j \in 1 .. Len(v) - q : From(v, q + 1)[j] = v[q + j]
    BY <1>1, FromShows
  <2> QED BY <1>5, <2>1
<1>7. q \in Nat /\ q + 2 <= Len(v)
  BY <1>1, <1>2, <1>6
<1> DEFINE i == q + 2
           e == Len(u) - 1
<1>8. i \in 1 .. Len(u) /\ e \in 1 .. Len(u) /\ i < e /\ i \in Nat /\ e \in Nat
  BY <1>1, <1>7
<1>9. Opens(u[i])
  <2>1. 1 \in 1 .. Len(v) - q /\ q + 1 \in 1 .. Len(u) - 2 /\ 1 + (q + 1) = i
    BY <1>1, <1>7
  <2>2. data[1] = v[q + 1] /\ v[q + 1] = u[1 + (q + 1)]
    BY <1>1, <1>6, <2>1
  <2> QED BY <2>1, <2>2
<1>10. Closes(u[e])
  <2>1. /\ Len(data) \in 1 .. Len(v) - q /\ q + Len(data) \in 1 .. Len(u) - 2
        /\ 1 + (q + Len(data)) = e
    BY <1>1, <1>6, <1>7
  <2>2. /\ data[Len(data)] = v[q + Len(data)]
        /\ v[q + Len(data)] = u[1 + (q + Len(data))]
    BY <1>1, <1>6, <2>1
  <2> QED BY <2>1, <2>2
<1>11. \A m \in 2 .. (i - 1) : u[m] = Space
  <2>1. ASSUME NEW m \in 2 .. (i - 1) PROVE u[m] = Space
    <3>1. m - 1 \in (0 + 1) .. q /\ m - 1 \in 1 .. Len(u) - 2 /\ 1 + (m - 1) = m
      BY <1>1, <1>7
    <3>2. v[m - 1] = Space /\ v[m - 1] = u[1 + (m - 1)]
      BY <1>1, <1>4, <3>1
    <3> QED BY <3>1, <3>2
  <2> QED BY <2>1
<1> HIDE DEF i, e
<1>12. PICK k \in 1 .. Len(u) : ListBetween(u, i, k)
  <2> DEFINE S == {k \in (i + 1) .. Len(u) : Closes(u[k])}
  <2>1. S \subseteq Nat /\ e \in S
    BY <1>1, <1>8, <1>10
  <2>2. PICK k \in S : \A x \in S : k <= x
    BY <2>1, LeastExists
  <2>3. k \in (i + 1) .. Len(u) /\ Closes(u[k])
    BY <2>2
  <2>4. ASSUME NEW m \in (i + 1) .. (k - 1) PROVE ~ Closes(u[m])
    <3>1. m \in (i + 1) .. Len(u) /\ ~ (k <= m)
      BY <1>1, <1>8, <2>3
    <3> QED BY <2>2, <3>1
  <2> HIDE DEF S
  <2>5. i < k /\ k \in 1 .. Len(u)
    BY <1>1, <1>8, <2>3
  <2> QED BY <1>9, <2>3, <2>4, <2>5, ListSymbols
<1>13. QuoteBefore(u, i)
  <2>1. 1 \in 1 .. (i - 1) /\ 1 + 1 = 2
    BY <1>7 DEF i
  <2> QED BY <1>1, <1>11, <2>1 DEF QuoteBefore
<1> QED BY <1>8, <1>12, <1>13 DEF FlatLists

\* A member's value and what follows it are pieces, and a list among the
\* values is smooth.
LEMMA FlatMember ==
    ASSUME NEW d \in Window, d # << >>, NextKeyValue(d).ok, FlatLists(d)
    PROVE  LET kv == NextKeyValue(d)
               data == SkipWS(kv.value)
           IN  /\ FlatLists(kv.value) /\ FlatLists(kv.rest)
               /\ Len(data) >= 2 /\ Opens(data[1]) /\ Closes(data[Len(data)])
                    => Smooth(Inner(data))
<1> DEFINE S == {i \in 2 .. Len(d) : d[i] = Quote}
           close == FirstOf(S, 0)
           colon == SkipWS(From(d, close + 1))
           text == SkipWS(Rest(colon))
           end == FindValueEnd(text)
           u == SubSeq(text, 1, end)
<1>1. Len(d) \in Nat /\ S \in SUBSET Nat
  BY DEF Window
<1>2. close # 0 /\ Starts(colon, ":")
      /\ NextKeyValue(d).value = Unquoted(u)
      /\ NextKeyValue(d).rest = From(text, end + 1)
  BY DEF NextKeyValue
<1> HIDE DEF S
<1>3. close \in 2 .. Len(d)
  <2>1. close \in S
    BY <1>1, <1>2, FirstOfIn
  <2> QED BY <2>1 DEF S
<1> HIDE DEF close
<1>4. Piece(From(d, close + 1), d)
  <2>1. close + 1 \in 1 .. Len(d) + 1
    BY <1>1, <1>3
  <2> QED BY <2>1, PieceFrom
<1>5. Piece(colon, d) /\ colon \in Window /\ colon # << >>
  <2>1. Piece(colon, From(d, close + 1))
    BY <1>4, PieceSkip DEF Piece
  <2>2. Piece(colon, d)
    BY <1>4, <2>1, PieceOfPiece
  <2> QED BY <1>2, <2>2 DEF Piece, Starts
<1> HIDE DEF colon
<1>6. Rest(colon) \in Window /\ Piece(Rest(colon), d)
  <2>1. Piece(Rest(colon), colon)
    BY <1>5, PieceRest
  <2>2. Piece(Rest(colon), d)
    BY <1>5, <2>1, PieceOfPiece
  <2> QED BY <2>2 DEF Piece
<1>7. text \in Window /\ Piece(text, d)
  <2>1. Piece(text, Rest(colon))
    BY <1>6, PieceSkip
  <2>2. Piece(text, d)
    BY <1>6, <2>1, PieceOfPiece
  <2> QED BY <2>2 DEF Piece
<1>8. text # << >> => text[1] # Space
  <2>1. ASSUME text # << >> PROVE text[1] # Space
    <3>1. Head(text) # Space
      BY <1>6, <2>1, SkippedStart
    <3> QED BY <1>7, <2>1, <3>1 DEF Window
  <2> QED BY <2>1
<1> HIDE DEF text
<1>9. Len(text) \in Nat /\ end \in 0 .. Len(text)
  BY <1>7, ValueEndInside DEF Window
<1>10. /\ Piece(u, text) /\ u \in Window /\ Len(u) = end
       /\ \A j \in 1 .. end : u[j] = text[j]
  BY <1>7, <1>9, PieceUpTo DEF Piece
<1>11. FlatLists(text) /\ FlatLists(u)
  <2>1. FlatLists(text)
    BY <1>7, FlatPiece
  <2> QED BY <1>10, <2>1, FlatPiece
<1>12. FlatLists(NextKeyValue(d).rest)
  <2>1. end + 1 \in 1 .. Len(text) + 1
    BY <1>9
  <2>2. Piece(From(text, end + 1), text)
    BY <1>7, <2>1, PieceFrom
  <2> QED BY <1>2, <1>11, <2>2, FlatPiece
<1> HIDE DEF u
<1>13. FlatLists(NextKeyValue(d).value)
  <2>1. Piece(Unquoted(u), u)
    BY <1>10, PieceUnquoted
  <2> QED BY <1>2, <1>11, <2>1, FlatPiece
<1> DEFINE data == SkipWS(NextKeyValue(d).value)
<1>14. ASSUME Len(data) >= 2, Opens(data[1]), Closes(data[Len(data)])
       PROVE  Smooth(Inner(data))
  <2>1. CASE IsQuoted(u)
    <3>1. data = SkipWS(Inner(u))
      BY <1>2, <2>1 DEF Unquoted
    <3> QED BY <1>10, <1>11, <1>14, <2>1, <3>1, NoListInString
  <2>2. CASE ~ IsQuoted(u)
    <3>1. data = SkipWS(u)
      BY <1>2, <2>2 DEF Unquoted
    <3>2. Len(u) >= 2
      <4>1. Len(data) <= Len(u) /\ Len(data) \in Nat
        BY <1>10, <3>1, SkipWSShortens DEF Window
      <4> QED BY <1>9, <1>10, <1>14, <4>1
    <3>3. text # << >> /\ u # << >> /\ u[1] = text[1]
      <4>1. 1 \in 1 .. end /\ Len(text) # 0 /\ Len(u) # 0
        BY <1>9, <1>10, <3>2
      <4>2. text # << >> /\ u # << >>
        BY <4>1 
      <4> QED BY <1>10, <4>1, <4>2
    <3>4. data = u
      BY <1>8, <1>10, <3>1, <3>3, SkipNothing
    <3>5. Opens(text[1]) /\ Closes(text[end])
      <4>1. end \in 1 .. end
        BY <1>9, <1>10, <3>2
      <4>2. u[end] = text[end]
        BY <1>10, <4>1
      <4> QED BY <1>10, <1>14, <3>3, <3>4, <4>2
    <3>6. ListBetween(text, 1, end) /\ end \in 2 .. Len(text)
      BY <1>7, <1>10, <1>11, <3>2, <3>3, <3>5, FlatListEnds
    <3>7. ListBetween(u, 1, Len(u))
      <4>1. \A m \in (1 + 1) .. (end - 1) : m \in 1 .. end
        BY <1>9
      <4>2. \A m \in (1 + 1) .. (end - 1) : ~ Closes(u[m])
        BY <1>10, <3>6, <4>1, ListSymbols
      <4>3. 1 < end /\ Opens(u[1]) /\ Closes(u[end])
        BY <1>10, <1>14, <3>4, <3>6
      <4> QED BY <1>10, <4>2, <4>3, ListSymbols
    <3> QED BY <1>10, <1>11, <3>2, <3>4, <3>7, SmoothList
  <2> QED BY <2>1, <2>2
<1> QED BY <1>12, <1>13, <1>14

\* What stands at an element of what is left of a flat list.
LEMMA SmoothElement ==
    ASSUME array \in Window, Smooth(array), Element # << >>
    PROVE  /\ Piece(Element, array) /\ Element[1] # Space
           /\ ~ Separates(Element[1]) /\ ~ Closes(Element[1])
           /\ ~ Odd(Element[1])
<1>1. /\ Len(array) \in Nat /\ 0 \in 0 .. Len(array) /\ 0 + 1 = 1
      /\ 1 \in 1 .. Len(array) + 1
  BY DEF Window
<1>2. From(array, 0 + 1) = array
  BY <1>1, FromWindow
<1>3. PICK q \in 0 .. Len(array) :
            /\ SkipWS(From(array, 0 + 1)) = From(array, q + 1)
            /\ q < Len(array) => array[q + 1] # Space
  BY <1>1, SkipFrom
<1>4. SkipWS(array) = From(array, q + 1)
  BY <1>2, <1>3
<1>5. PICK r \in 0 .. Len(array) :
            /\ Element = From(array, r + 1)
            /\ r < Len(array) =>
                array[r + 1] # Space /\ ~ Separates(array[r + 1])
  <2>1. CASE Starts(SkipWS(array), ",")
    <3>1. q < Len(array)
      BY <1>4, <2>1, FromStarts
    <3>2. /\ q + 1 \in 0 .. Len(array)
          /\ Rest(From(array, q + 1)) = From(array, q + 1 + 1)
      BY <1>3, <3>1, FromRest
    <3>3. PICK r \in q + 1 .. Len(array) :
            /\ SkipWS(From(array, q + 1 + 1)) = From(array, r + 1)
            /\ \A j \in (q + 1 + 1) .. r : array[j] = Space
            /\ r < Len(array) => array[r + 1] # Space
      BY <3>2, SkipFrom
    <3>4. r \in 0 .. Len(array) /\ r >= q + 1
      BY <1>1
    <3>5. Element = From(array, r + 1)
      BY <1>4, <2>1, <3>2, <3>3 DEF Element
    <3>6. ASSUME r < Len(array), Separates(array[r + 1]) PROVE FALSE
      <4>1. /\ q + 1 \in 1 .. Len(array) /\ r + 1 \in 1 .. Len(array)
            /\ q + 1 < r + 1
        BY <1>1, <3>1, <3>4, <3>6
      <4>2. Separates(array[q + 1])
        BY <1>4, <2>1, FromStarts DEF Separates
      <4>3. PICK x \in (q + 1 + 1) .. (r + 1 - 1) : array[x] # Space
        BY <3>6, <4>1, <4>2 DEF Smooth
      <4>4. x \in (q + 1 + 1) .. r
        BY <3>4
      <4> QED BY <3>3, <4>3, <4>4
    <3> QED BY <3>3, <3>4, <3>5, <3>6
  <2>2. CASE ~ Starts(SkipWS(array), ",")
    <3>1. Element = From(array, q + 1)
      BY <1>4, <2>2 DEF Element
    <3>2. ASSUME q < Len(array) PROVE array[q + 1] # ","
      BY <1>3, <1>4, <2>2, <3>2, FromStarts
    <3> QED BY <1>3, <3>1, <3>2 DEF Separates
  <2> QED BY <2>1, <2>2
<1>6. r < Len(array)
  <2>1. From(array, r + 1) # << >>
    BY <1>5
  <2>2. r # Len(array)
    BY <2>1, FromStarts
  <2> QED BY <1>1, <2>2
<1>7. Piece(Element, array)
  <2>1. r + 1 \in 1 .. Len(array) + 1
    BY <1>1, <1>6
  <2> QED BY <1>5, <2>1, PieceFrom
<1>8. Element[1] = array[r + 1] /\ r + 1 \in 1 .. Len(array)
  <2>1. 1 \in 1 .. Len(array) - r /\ r + 1 \in 1 .. Len(array)
    BY <1>1, <1>6
  <2>2. From(array, r + 1)[1] = array[r + 1]
    BY <2>1, FromEntries
  <2> QED BY <1>5, <2>1, <2>2
<1>9. ~ Closes(array[r + 1]) /\ ~ Odd(array[r + 1])
  BY <1>8 DEF Smooth
<1> QED BY <1>5, <1>6, <1>7, <1>8, <1>9

\* So it has a length.
LEMMA SmoothAdvances ==
    ASSUME array \in Window, Smooth(array)
    PROVE  ParserAdvances
<1> SUFFICES ASSUME Element # << >> PROVE FindValueEnd(Element) > 0
  BY DEF ParserAdvances
<1>1. /\ Piece(Element, array) /\ Element[1] # Space
      /\ ~ Separates(Element[1]) /\ ~ Closes(Element[1]) /\ ~ Odd(Element[1])
  BY SmoothElement
<1>2. Element \in Window /\ Head(Element) = Element[1]
  BY <1>1 DEF Piece, Window
<1>3. Head(Element) \notin {",", "}", "]"}
  BY <1>1, <1>2 DEF Separates, Closes, Odd
<1>4. FindValueEnd(Element) # 0
  BY <1>1, <1>2, <1>3, NoLengthAtDelimiter
<1>5. FindValueEnd(Element) \in 0 .. Len(Element) /\ Len(Element) \in Nat
  BY <1>2, ValueEndInside DEF Window
<1> QED BY <1>4, <1>5

-----------------------------------------------------------------------------
\* What the parser looks at is part of the body, so its lists are flat when
\* those of the body are.
Flat ==
    FlatLists(body) =>
        /\ \A i \in 1 .. Len(stack) : FlatLists(stack[i].data)
        /\ phase = "array" => Smooth(array)

\* At a member.
LEMMA MemberFlat ==
    ASSUME CallsOK, Flat, FlatLists(body), NEW kind, AtMember(kind)
    PROVE  /\ \A i \in 1 .. Len(stack) : FlatLists(Advanced[i].data)
           /\ Len(Advanced) = Len(stack) /\ Advanced \in Seq(CallType)
           /\ KeyValue.value \in Window /\ FlatLists(KeyValue.value)
           /\ LET data == SkipWS(KeyValue.value) IN
              Len(data) >= 2 /\ Opens(data[1]) /\ Closes(data[Len(data)])
                    => Smooth(Inner(data))
<1>1. InLoop /\ ~ Malformed
  BY DEF AtMember
<1>2. /\ Ahead \in Window /\ Ahead # << >> /\ Top.data \in Window
      /\ KeyAhead # << >> /\ KeyValue.ok /\ Len(stack) \in {1, 2}
  BY <1>1, TopShape DEF Malformed, Starts
<1>3. FlatLists(Top.data)
  <2>1. \A n \in {1, 2} : n \in 1 .. n
    OBVIOUS
  <2>2. Len(stack) \in 1 .. Len(stack)
    BY <1>2, <2>1
  <2> QED BY <2>2 DEF Flat, Top
<1>4. FlatLists(Ahead)
  BY <1>2, <1>3, PieceSkip, FlatPiece DEF Ahead
<1>5. KeyAhead \in Window /\ FlatLists(KeyAhead)
  <2>1. Rest(Ahead) \in Window /\ FlatLists(Rest(Ahead))
    <3>1. Piece(Rest(Ahead), Ahead)
      BY <1>2, PieceRest
    <3> QED BY <1>4, <3>1, FlatPiece DEF Piece
  <2>2. SkipWS(Rest(Ahead)) \in Window /\ FlatLists(SkipWS(Rest(Ahead)))
    <3>1. Piece(SkipWS(Rest(Ahead)), Rest(Ahead))
      BY <2>1, PieceSkip
    <3> QED BY <2>1, <3>1, FlatPiece DEF Piece
  <2> QED BY <1>2, <1>4, <2>2 DEF KeyAhead
<1>6. /\ FlatLists(KeyValue.value) /\ FlatLists(KeyValue.rest)
      /\ LET data == SkipWS(KeyValue.value) IN
         Len(data) >= 2 /\ Opens(data[1]) /\ Closes(data[Len(data)])
               => Smooth(Inner(data))
  BY <1>2, <1>5, FlatMember DEF KeyValue
<1>7. /\ Len(Advanced) = Len(stack) /\ Advanced \in Seq(CallType)
      /\ \A i \in 1 .. Len(stack) :
            Advanced[i].data =
                IF i = Len(stack) THEN KeyValue.rest ELSE stack[i].data
  BY AdvancedShape
<1>8. ASSUME NEW i \in 1 .. Len(stack) PROVE FlatLists(Advanced[i].data)
  <2>1. CASE i = Len(stack)
    BY <1>6, <1>7, <2>1
  <2>2. CASE i # Len(stack)
    BY <1>7, <2>2 DEF Flat
  <2> QED BY <2>1, <2>2
<1>9. KeyValue.value \in Window
  BY MemberShortens
<1> QED BY <1>6, <1>7, <1>8, <1>9

\* A rejected body, an accepted one.
LEMMA EndFlat ==
    ASSUME stack' = << >>, phase' \in {"accepted", "rejected"} PROVE Flat'
<1>1. Len(stack') = 0 /\ 1 .. 0 = {}
  OBVIOUS
<1> QED BY <1>1 DEF Flat

\* A member that is taken.
LEMMA AdvanceFlat ==
    ASSUME CallsOK, Flat, NEW kind, AtMember(kind), stack' = Advanced,
           UNCHANGED <<body, phase>>
    PROVE  Flat'
<1>1. phase = "object"
  BY DEF AtMember, InLoop
<1> SUFFICES ASSUME FlatLists(body)
             PROVE  \A i \in 1 .. Len(stack') : FlatLists(stack'[i].data)
  BY <1>1 DEF Flat
<1> QED BY MemberFlat

\* A nested object is entered.
LEMMA DescendFlat ==
    ASSUME CallsOK, Flat, NEW kind \in {"object", "pointer"}, AtMember(kind),
           NEW r, Descend(r)
    PROVE  Flat'
<1>1. CASE ~ OpensObject(KeyValue.value)
  <2>1. stack' = << >> /\ phase' = "rejected"
    BY <1>1 DEF Descend
  <2> QED BY <2>1, EndFlat
<1>2. CASE OpensObject(KeyValue.value)
  <2> DEFINE c == Call(KeyValue.key[1], KeyValue.value)
  <2>1. stack' = Append(Advanced, c) /\ UNCHANGED <<body, phase>>
    BY <1>2 DEF Descend
  <2>2. phase = "object"
    BY DEF AtMember, InLoop
  <2> SUFFICES ASSUME FlatLists(body)
               PROVE  \A i \in 1 .. Len(stack') : FlatLists(stack'[i].data)
    BY <2>1, <2>2 DEF Flat
  <2>3. /\ \A i \in 1 .. Len(stack) : FlatLists(Advanced[i].data)
        /\ Len(Advanced) = Len(stack) /\ Advanced \in Seq(CallType)
        /\ KeyValue.value \in Window /\ FlatLists(KeyValue.value)
    BY MemberFlat
  <2>4. FlatLists(c.data)
    <3>1. SkipWS(KeyValue.value) \in Window /\ SkipWS(KeyValue.value) # << >>
      BY <1>2, <2>3, SkipWSShortens DEF OpensObject, Starts
    <3>2. FlatLists(SkipWS(KeyValue.value))
      BY <2>3, PieceSkip, FlatPiece
    <3>3. FlatLists(Rest(SkipWS(KeyValue.value)))
      BY <3>1, <3>2, PieceRest, FlatPiece
    <3> QED BY <3>3 DEF Call
  <2> HIDE DEF c
  <2>5. /\ Len(Append(Advanced, c)) = Len(Advanced) + 1
        /\ Append(Advanced, c)[Len(Advanced) + 1] = c
        /\ \A i \in 1 .. Len(Advanced) : Append(Advanced, c)[i] = Advanced[i]
    BY <2>3, AppendProperties
  <2>6. ASSUME NEW i \in 1 .. Len(stack') PROVE FlatLists(stack'[i].data)
    <3>1. Len(Advanced) \in Nat /\ i \in 1 .. Len(Advanced) + 1
      BY <2>1, <2>3, <2>5
    <3>2. CASE i = Len(Advanced) + 1
      BY <2>1, <2>4, <2>5, <3>2
    <3>3. CASE i # Len(Advanced) + 1
      <4>1. i \in 1 .. Len(Advanced)
        BY <3>1, <3>3
      <4> QED BY <2>1, <2>3, <2>5, <4>1
    <3> QED BY <3>2, <3>3
  <2> QED BY <2>6
<1> QED BY <1>1, <1>2

\* A list is entered.
LEMMA EnterFlat ==
    ASSUME CallsOK, Flat, EnterArray
    PROVE  Flat'
<1> DEFINE data == SkipWS(KeyValue.value)
<1>1. AtMember("array")
  BY DEF EnterArray
<1>2. CASE Reject
  BY <1>2, EndFlat DEF Reject
<1>3. CASE ~ Reject
  <2>1. /\ Len(data) >= 2 /\ Opens(Head(data)) /\ Closes(data[Len(data)])
        /\ array' = Inner(data) /\ stack' = Advanced /\ UNCHANGED body
    BY <1>3, Zenon DEF EnterArray, Opens, Closes
  <2> SUFFICES ASSUME FlatLists(body)
               PROVE  /\ \A i \in 1 .. Len(stack') : FlatLists(stack'[i].data)
                      /\ Smooth(array')
    BY <2>1 DEF Flat, Smooth
  <2>2. /\ \A i \in 1 .. Len(stack) : FlatLists(Advanced[i].data)
        /\ Len(Advanced) = Len(stack) /\ KeyValue.value \in Window
        /\ Len(data) >= 2 /\ Opens(data[1]) /\ Closes(data[Len(data)])
                => Smooth(Inner(data))
    BY <1>1, MemberFlat
  <2>3. data \in Window /\ Head(data) = data[1]
    BY <2>1, <2>2, SkipWSShortens DEF Window
  <2> HIDE DEF data
  <2> QED BY <2>1, <2>2, <2>3
<1> QED BY <1>2, <1>3

\* The rounds of the loops that take no member.
LEMMA LoopFlat ==
    ASSUME CallsOK, Flat, TakeElement \/ LeaveArray \/ LeaveObject
    PROVE  Flat'
<1>1. CASE TakeElement
  <2> DEFINE end == FindValueEnd(Element)
  <2>1. /\ phase = "array" /\ Element # << >>
        /\ UNCHANGED <<body, stack, phase>>
        /\ array' = From(Element, end + 1) /\ array \in Window
    BY <1>1 DEF TakeElement, CallsOK
  <2>2. ASSUME Smooth(array) PROVE Smooth(array')
    <3>1. Piece(Element, array) /\ Element \in Window
      BY <2>1, <2>2, SmoothElement DEF Piece
    <3>2. end + 1 \in 1 .. Len(Element) + 1
      <4>1. end \in 0 .. Len(Element) /\ Len(Element) \in Nat
        BY <3>1, ValueEndInside DEF Window
      <4> QED BY <4>1
    <3> HIDE DEF end
    <3>3. Piece(From(Element, end + 1), array)
      BY <3>1, <3>2, PieceFrom, PieceOfPiece
    <3> QED BY <2>1, <2>2, <3>3, SmoothPiece
  <2>3. Smooth(array)' <=> Smooth(array')
    BY DEF Smooth
  <2> QED BY <2>1, <2>2, <2>3 DEF Flat
<1>2. CASE LeaveArray
  BY <1>2 DEF LeaveArray, Flat
<1>3. CASE LeaveObject
  <2>1. /\ stack \in Seq(CallType) /\ Len(stack) > 1 /\ stack' = Front(stack)
        /\ phase' = "object" /\ UNCHANGED body
    BY <1>3 DEF LeaveObject, AtBrace, CallsOK
  <2>2. /\ Len(stack') <= Len(stack)
        /\ Len(stack') \in Nat /\ Len(stack) \in Nat
        /\ \A i \in 1 .. Len(stack') : stack'[i] = stack[i]
    BY <2>1 DEF Front
  <2> QED BY <2>1, <2>2 DEF Flat
<1> QED BY <1>1, <1>2, <1>3

\* Every step of the parser.
LEMMA StepFlat ==
    ASSUME CallsOK, Flat, ParserStep
    PROVE  Flat'
<1>1. CASE RejectMalformed
  BY <1>1, EndFlat DEF RejectMalformed, Reject
<1>2. ASSUME NEW kind, AtMember(kind), NEW v, Assign(v) PROVE Flat'
  BY <1>2, AdvanceFlat DEF Assign
<1>3. CASE TakeString \/ TakeFloat \/ TakeInt \/ TakeBool
  BY <1>2, <1>3 DEF TakeString, TakeFloat, TakeInt, TakeBool
<1>4. CASE TakeTimestamp
  BY <1>2, <1>4, EndFlat DEF TakeTimestamp, Reject
<1>5. CASE SkipMember
  BY <1>5, AdvanceFlat DEF SkipMember
<1>6. CASE EnterObject
  BY <1>6, DescendFlat DEF EnterObject
<1>7. CASE TakeLast
  <2>1. CASE KeyValue.value = <<"null">>
    <3>1. AtMember("pointer") /\ stack' = Advanced /\ UNCHANGED <<body, phase>>
      BY <1>7, <2>1 DEF TakeLast
    <3> QED BY <3>1, AdvanceFlat
  <2>2. CASE KeyValue.value # <<"null">>
    <3>1. AtMember("pointer")
      BY <1>7 DEF TakeLast
    <3>2. PICK r : Descend(r)
      BY <1>7, <2>2 DEF TakeLast
    <3> QED BY <3>1, <3>2, DescendFlat
  <2> QED BY <2>1, <2>2
<1>8. CASE EnterArray
  BY <1>8, EnterFlat
<1>9. CASE TakeElement \/ LeaveArray \/ LeaveObject
  BY <1>9, LoopFlat
<1>10. CASE Finish
  <2>1. stack' = << >> /\ phase' \in {"accepted", "rejected"}
    BY <1>10 DEF Finish
  <2> QED BY <2>1, EndFlat
<1> QED
  BY <1>1, <1>3, <1>4, <1>5, <1>6, <1>7, <1>8, <1>9, <1>10 DEF ParserStep

\* The outermost object is part of the body.
LEMMA BeginFlat ==
    ASSUME CallsOK, NEW b \in Window, Begin(b)
    PROVE  Flat'
<1> DEFINE d == SkipWS(b)
           end == FindValueEnd(d)
           object == SubSeq(d, 1, end)
<1>1. phase = "pooled" /\ stack = << >> /\ body' = b
  BY DEF Begin, CallsOK, Parsing
<1>2. CASE OpensObject(b) /\ end > 0
  <2>1. phase' = "object" /\ stack' = <<Call("top", object)>>
    BY <1>2 DEF Begin
  <2>2. ASSUME FlatLists(b) PROVE FlatLists(Call("top", object).data)
    <3>1. d \in Window /\ FlatLists(d)
      BY <2>2, PieceSkip, FlatPiece DEF Piece
    <3>2. Len(d) \in Nat /\ end \in 0 .. Len(d)
      BY <3>1, ValueEndInside DEF Window
    <3> HIDE DEF d, end
    <3>3. Piece(object, d) /\ object \in Window
      BY <3>1, <3>2, PieceUpTo DEF Piece
    <3>4. FlatLists(object)
      BY <3>1, <3>3, FlatPiece
    <3> HIDE DEF object
    <3>5. SkipWS(object) \in Window /\ FlatLists(SkipWS(object))
      BY <3>3, <3>4, PieceSkip, FlatPiece DEF Piece
    <3>6. FlatLists(Rest(SkipWS(object)))
      <4>1. CASE SkipWS(object) # << >>
        BY <3>5, <4>1, PieceRest, FlatPiece
      <4>2. CASE SkipWS(object) = << >>
        <5>1. Rest(<< >>) = << >>
          BY DEF Rest, From
        <5>2. Piece(<< >>, b)
          BY PieceEmpty
        <5> QED BY <2>2, <4>2, <5>1, <5>2, FlatPiece
      <4> QED BY <4>1, <4>2
    <3> QED BY <3>6 DEF Call
  <2>3. Len(stack') = 1 /\ stack'[1] = Call("top", object)
    BY <2>1
  <2> HIDE DEF d, end, object
  <2>4. ASSUME FlatLists(b), NEW i \in 1 .. Len(stack')
        PROVE  FlatLists(stack'[i].data)
    <3>1. i = 1
      BY <2>3
    <3> QED BY <2>2, <2>3, <2>4, <3>1
  <2> QED BY <1>1, <2>1, <2>4 DEF Flat
<1>3. CASE ~ (OpensObject(b) /\ end > 0)
  <2>1. phase' = "rejected" /\ stack' = << >>
    BY <1>1, <1>3 DEF Begin
  <2> QED BY <2>1, EndFlat
<1> QED BY <1>2, <1>3

\* As long as the lists of a body are flat, whatever else is in it and wherever
\* it is cut, every round of the loop over an array advances
\* (parser.go:258-278): with ParserShortens, the parser comes to an end on it.
\* The body of bracketed_merchant is one whose lists are not flat.
THEOREM FlatListsAdvance == Spec => [](FlatLists(body) => ParserAdvances)
<1>1. Init => Flat
  BY DEF Init, Flat
<1>2. CallsOK /\ Flat /\ [Next]_vars => Flat'
  <2> SUFFICES ASSUME CallsOK, Flat, [Next]_vars PROVE Flat'
    OBVIOUS
  <2>1. CASE ParserStep
    BY <2>1, StepFlat
  <2>2. CASE PutBack
    <3>1. stack' = << >> /\ phase' = "pooled"
      BY <2>2 DEF PutBack, CallsOK, Parsing
    <3> QED BY <3>1 DEF Flat
  <2>3. ASSUME NEW b \in Bodies, Begin(b) PROVE Flat'
    <3>1. b \in Window
      BY ParserAssumption DEF Window
    <3> QED BY <2>3, <3>1, BeginFlat
  <2>4. CASE UNCHANGED vars
    BY <2>4 DEF vars, Flat, Smooth
  <2> QED BY <2>1, <2>2, <2>3, <2>4 DEF Next
<1>3. CallsOK /\ Flat => (FlatLists(body) => ParserAdvances)
  <2> SUFFICES ASSUME CallsOK, Flat, FlatLists(body) PROVE ParserAdvances
    OBVIOUS
  <2>1. CASE phase = "array"
    BY <2>1, SmoothAdvances DEF Flat, CallsOK
  <2>2. CASE phase # "array"
    BY <2>2 DEF ParserAdvances
  <2> QED BY <2>1, <2>2
<1> QED BY <1>1, <1>2, <1>3, CallsKeepShape, PTL DEF Spec
=============================================================================
