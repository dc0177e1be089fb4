----------------------------- MODULE Vectorizer -----------------------------
(***************************************************************************)
(* internal/fraud/vectorizer.go: the feature vector of a request.  Numbers *)
(* are exact fractions with a positive denominator.                        *)
(***************************************************************************)
EXTENDS RequestValues

CONSTANTS
    Normalization,  \* normalization.json, with integer maxima
    MCCRisk,        \* mcc_risk.json: the risk of each key
    MCCSize         \* length of the mccRisk array

MaximumNames ==
    {"max_amount", "max_installments", "amount_vs_avg_ratio", "max_minutes",
     "max_km", "max_tx_count_24h", "max_merchant_avg_amount"}

ASSUME VectorizerAssumption ==
    /\ MCCSize \in Nat \ {0}
    /\ Normalization \in [MaximumNames -> Int]
    /\ \A k \in DOMAIN MCCRisk : k \in Seq(STRING)

Zero == <<0, 1>>
One == <<1, 1>>
Half == <<1, 2>>
Sentinel == <<-1, 1>>

Fraction(n) == <<n, 1>>
Times(x, y) == <<x[1] * y[1], x[2] * y[2]>>
Over(x, y) == <<x[1] * y[2], x[2] * y[1]>>

Clamp(x) ==
    CASE x[1] < 0    -> Zero
      [] x[1] > x[2] -> One
      [] OTHER       -> x

InverseOrOne(maximum) == IF maximum <= 0 THEN One ELSE <<1, maximum>>

BoolToFloat(b) == IF b THEN One ELSE Zero

-----------------------------------------------------------------------------
(***************************************************************************)
(* The risk of a merchant category.  NewVectorizer ignores the error of    *)
(* strconv.Atoi, which then returns 0, or the nearest int.  It visits the  *)
(* map in any order, and of two keys of one index the last one wins: an    *)
(* index may hold any of a set of risks.                                   *)
(***************************************************************************)
AtoiOrZero(key) ==
    LET signed == key # << >> /\ Head(key) \in {"+", "-"}
        digits == IF signed THEN Tail(key) ELSE key
        read   == FoldLeft(LAMBDA n, c : 10 * n + DigitValue(c), 0, digits)
    IN  IF digits = << >> \/ ~ ToSet(digits) \subseteq ToSet(Digits) THEN 0
        ELSE IF signed /\ Head(key) = "-" THEN -read
        ELSE read

RisksAt(i) ==
    LET keys == {k \in DOMAIN MCCRisk : AtoiOrZero(k) = i}
    IN  IF keys = {} THEN {Half} ELSE {MCCRisk[k] : k \in keys}

\* lookupMCCRisk.  A number that wraps around below zero is an index out of
\* range: a panic, and no risk.
LookupMCCRisk(mcc) ==
    LET val == FastParseInt(mcc)
    IN  IF mcc = << >> \/ ~ ToSet(mcc) \subseteq ToSet(Digits) THEN {Half}
        ELSE IF val >= MCCSize THEN {Half}
        ELSE IF val < 0 THEN {}
        ELSE RisksAt(val)

-----------------------------------------------------------------------------
\* Mutant: only the set is looked at, which short lists do not have.
InKnownMerchantSet(customer, id) == id \in customer.knownMerchantSet

HasKnownMerchant(customer, id) ==
    IF customer.knownMerchantSet # {}
    THEN id \in customer.knownMerchantSet
    ELSE id \in ToSet(customer.known_merchants)

\* Mutant: an average of zero is divided by.
AverageAsRead(customer) == customer.avg_amount

\* A zero or negative average counts as one.
AverageOf(customer) ==
    IF customer.avg_amount[1] <= 0 THEN One ELSE customer.avg_amount

\* Minutes between two Unix times, subtracted in int64.
MinutesBetween(t, last) == <<Signed(t.unix - last.unix, Clock), 60>>

SinceLast(r) ==
    IF r.last_transaction.isNil
    THEN <<Sentinel, Sentinel>>
    ELSE <<Clamp(Times(MinutesBetween(r.transaction.requested_at,
                                      r.last_transaction.timestamp),
                       InverseOrOne(Normalization.max_minutes))),
           Clamp(Times(r.last_transaction.km_from_current,
                       InverseOrOne(Normalization.max_km)))>>

\* Component i of the program is element i + 1; the two components of padding
\* are left out.  There is one vector for every risk the category may have,
\* and none when its lookup panics.
Vectors(r) ==
    {<<Clamp(Times(r.transaction.amount,
                   InverseOrOne(Normalization.max_amount))),
       Clamp(Times(Fraction(r.transaction.installments),
                   InverseOrOne(Normalization.max_installments))),
       Clamp(Times(Over(r.transaction.amount, AverageOf(r.customer)),
                   InverseOrOne(Normalization.amount_vs_avg_ratio))),
       <<r.transaction.requested_at.hour, 23>>,
       <<r.transaction.requested_at.weekday, 6>>,
       SinceLast(r)[1],
       SinceLast(r)[2],
       Clamp(Times(r.terminal.km_from_home,
                   InverseOrOne(Normalization.max_km))),
       Clamp(Times(Fraction(r.customer.tx_count_24h),
                   InverseOrOne(Normalization.max_tx_count_24h))),
       BoolToFloat(r.terminal.is_online),
       BoolToFloat(r.terminal.card_present),
       BoolToFloat(~ HasKnownMerchant(r.customer, r.merchant.id)),
       risk,
       Clamp(Times(r.merchant.avg_amount,
                   InverseOrOne(Normalization.max_merchant_avg_amount)))>> :
     risk \in LookupMCCRisk(r.merchant.mcc)}
=============================================================================
