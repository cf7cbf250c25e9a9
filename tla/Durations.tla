------------------------------ MODULE Durations -----------------------------
(***************************************************************************)
(* Durations as text: ToString of a std::chrono::duration selects a unit   *)
(* and writes as many digits as a stream does by default; StringTo reads   *)
(* the number, scales it as a floating point number and cuts it off to     *)
(* whole nanoseconds.  A value that is written and read again, as scripts  *)
(* and configuration files do with what they are shown, may come out as    *)
(* another one each time.                                                  *)
(*                                                                         *)
(* A text is its unit and the number it stands for, in nanoseconds.  How   *)
(* floating point falls, at a tie and when a product is cut off, is left   *)
(* open.  The durations are less than eleven days, so that their           *)
(* nanoseconds are numbers that a double has.                              *)
(***************************************************************************)
EXTENDS Integers

CONSTANTS
    Inputs,         \* durations in ns
    MaxPasses       \* bound: times a duration is written and read

VARIABLES
    t,              \* a duration
    text,           \* what it was written as
    given, passes   \* history: the first duration, and how often it was read

durationsVars == <<t, text, given, passes>>

-----------------------------------------------------------------------------
absDuration(d) == IF d >= 0 THEN d ELSE -d

\* A stream writes six digits: numbers below this one.
SixDigits == 1000000

ASSUME InputsAssumption ==
    /\ Inputs \subseteq Int
    /\ \A d \in Inputs : absDuration(d) \div 1000000000 < SixDigits - 1
ASSUME MaxPassesAssumption == MaxPasses \in Nat

Units == [ns |-> 1, us |-> 1000, ms |-> 1000000, s |-> 1000000000]
NoText == [unit |-> "none", value |-> 0]
Texts == [unit : DOMAIN Units, value : Int] \cup {NoText}

DurationsTypeOK ==
    /\ t \in Int /\ given \in Inputs /\ passes \in 0 .. MaxPasses
    /\ text \in Texts

DurationsInit ==
    /\ given \in Inputs /\ t = given
    /\ text = NoText /\ passes = 0

-----------------------------------------------------------------------------
UnitFor(d) ==
    IF absDuration(d) < Units.us THEN "ns"
    ELSE IF absDuration(d) < Units.ms THEN "us"
    ELSE IF absDuration(d) < 99 * Units.ms THEN "ms" ELSE "s"

Powers == {1, 10, 100, 1000, 10000, 100000, 1000000, 10000000, 100000000,
           1000000000}

\* What the last digit written of d stands for.
LastDigit(d) ==
    CHOOSE p \in Powers :
        /\ absDuration(d) \div p < SixDigits
        /\ \A q \in Powers : absDuration(d) \div q < SixDigits => p <= q

\* d to the digits that are written: the nearer number above or below it.
WriteText(d) ==
    LET last  == LastDigit(d)
        below == d - (d % last)
        near  == {v \in {below, below + last} : 2 * absDuration(v - d) <= last}
    IN  [unit : {UnitFor(d)}, value : near]

\* The product is exact for a whole number of the unit, and may fall short of
\* the nanosecond otherwise.
Read(txt) ==
    IF txt.value % Units[txt.unit] = 0 THEN {txt.value}
    ELSE IF txt.value > 0 THEN {txt.value - 1, txt.value}
    ELSE {txt.value, txt.value + 1}

DurationToString ==
    /\ text = NoText
    /\ text' \in WriteText(t)
    /\ UNCHANGED <<t, given, passes>>

StringToDuration ==
    /\ text # NoText /\ passes < MaxPasses
    /\ t' \in Read(text)
    /\ text' = NoText
    /\ passes' = passes + 1
    /\ UNCHANGED given

DurationsNext == DurationToString \/ StringToDuration

DurationsSpec == DurationsInit /\ [][DurationsNext]_durationsVars

-----------------------------------------------------------------------------
\* However often a duration is written and read, it changes by no more than
\* half of the last digit written of the first, and a nanosecond each time.
DriftIsBounded == 2 * absDuration(t - given) <= LastDigit(given) + 2 * passes

\* A duration of less than a microsecond, or of a whole number of its unit that
\* has no more digits than are written, never changes.
ExactStays ==
    LET whole(n) == given % n = 0
    IN  absDuration(given) < 1000
            \/ (whole(Units[UnitFor(given)]) /\ whole(LastDigit(given)))
        => t = given

\* Writing keeps the order, and so does reading what was written: of two
\* durations the longer never becomes the shorter one.
OrderIsKept ==
    \A d \in Inputs : d > t =>
        \A v \in WriteText(t), w \in WriteText(d) :
            /\ v.value <= w.value
            /\ (v.value < w.value => \A x \in Read(v), y \in Read(w) : x <= y)

\* Unless it is in seconds a number is written with one to three digits before
\* its point.
UnitIsTelling ==
    text # NoText /\ text.value # 0 /\ text.unit # "s" =>
        absDuration(text.value) \div Units[text.unit] \in 1 .. 999

\* Writing a duration and reading it back again and again neither carries it
\* away nor changes the order of two, and leaves alone what can be written.
TextKeepsDurations ==
    DriftIsBounded /\ ExactStays /\ OrderIsKept /\ UnitIsTelling
=============================================================================
