--------------------------- MODULE RequestValues ---------------------------
(***************************************************************************)
(* The values of a request body: how internal/fraud turns the bytes of a   *)
(* value into a number or a time.  A symbol is one byte the code looks at  *)
(* or a word, a run of bytes it only copies or compares as a whole.        *)
(* Floating-point numbers are exact fractions <<numerator, denominator>>.  *)
(***************************************************************************)
EXTENDS Integers, Sequences, SequencesExt, FiniteSetsExt

CONSTANTS
    Word,     \* 2^64: the integers of the number parsers wrap around
    Clock,    \* 2^64 nanoseconds, in seconds: int64 Unix time wraps around
    Instants  \* the words laid out like "2026-03-11T20:23:35Z", and what
              \* their digits say

ASSUME WidthAssumption ==
    /\ Word \in Nat /\ Word > 1
    /\ Clock \in Nat /\ Clock > 1

\* The fields of a time are read digit by digit.
ASSUME InstantsAssumption ==
    \A w \in DOMAIN Instants :
        \A f \in {"year", "month", "day", "hour", "minute", "second"} :
            Instants[w][f] \in Nat

Digits == <<"0", "1", "2", "3", "4", "5", "6", "7", "8", "9">>

IsDigit(c) == \E n \in 1 .. 10 : Digits[n] = c
DigitValue(c) == (CHOOSE n \in 1 .. 10 : Digits[n] = c) - 1

\* n in a two's complement integer of so many values.
Signed(n, width) == ((n + width \div 2) % width) - width \div 2

-----------------------------------------------------------------------------
(***************************************************************************)
(* fastParseInt and fastParseFloat read the digits and skip whatever else  *)
(* there is, signs and exponents included; only a leading minus of a float *)
(* counts.                                                                 *)
(***************************************************************************)
FastParseInt(b) ==
    LET val[i \in 0 .. Len(b)] ==
            IF i = 0 THEN 0
            ELSE IF IsDigit(b[i])
            THEN Signed(10 * val[i - 1] + DigitValue(b[i]), Word)
            ELSE val[i - 1]
    IN  val[Len(b)]

\* The bytes behind the last point.
Decimals(b) ==
    LET dots == {i \in 1 .. Len(b) : b[i] = "."}
    IN  IF dots = {} THEN 0 ELSE Len(b) - Max(dots)

\* 10^n.
TenTo(n) ==
    LET power[i \in 0 .. n] == IF i = 0 THEN 1 ELSE 10 * power[i - 1]
    IN  power[n]

FastParseFloat(b) ==
    LET neg == b # << >> /\ Head(b) = "-"
        magnitude == IF neg THEN Tail(b) ELSE b
        val == FastParseInt(magnitude)
    IN  <<IF neg THEN -val ELSE val, TenTo(Decimals(magnitude))>>

\* Two fractions are the same number.
SameNumber(x, y) == x[1] * y[2] = y[1] * x[2]

-----------------------------------------------------------------------------
(***************************************************************************)
(* parseTimestampRFC3339UTCBytes.  The calendar is that of time.Date.      *)
(***************************************************************************)
LeapYear(y) == y % 4 = 0 /\ (y % 100 # 0 \/ y % 400 = 0)

LeapYearsUntil(y) == y \div 4 - y \div 100 + y \div 400

MonthDays(y, m) ==
    CASE m = 2             -> IF LeapYear(y) THEN 29 ELSE 28
      [] m \in {4, 6, 9, 11} -> 30
      [] OTHER             -> 31

\* Days from 1970-01-01.
DayNumber(t) ==
    LET months[m \in 0 .. 12] ==
            IF m = 0 THEN 0 ELSE months[m - 1] + MonthDays(t.year, m)
    IN  365 * (t.year - 1970)
        + LeapYearsUntil(t.year - 1) - LeapYearsUntil(1969)
        + months[t.month - 1]
        + t.day - 1

Exists(t) ==
    /\ t.month \in 1 .. 12 /\ t.day \in 1 .. 31
    /\ t.hour <= 23 /\ t.minute <= 59 /\ t.second <= 59
    /\ t.day <= MonthDays(t.year, t.month)

IsTimestamp(b) ==
    /\ Len(b) = 1 /\ b[1] \in DOMAIN Instants
    /\ Exists(Instants[b[1]])

\* Monday is 0 and Sunday 6; the first day of 1970 was a Thursday.
WeekdayIndex(t) == (DayNumber(t) + 3) % 7

UnixSeconds(t) ==
    86400 * DayNumber(t) + 3600 * t.hour + 60 * t.minute + t.second

ParseTimestamp(b) ==
    LET t == Instants[b[1]]
    IN  [unix    |-> Signed(UnixSeconds(t), Clock),
         hour    |-> t.hour,
         weekday |-> WeekdayIndex(t)]

ZeroTimestamp == [unix |-> 0, hour |-> 0, weekday |-> 0]
=============================================================================
