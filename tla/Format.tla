------------------------------- MODULE Format -------------------------------
(***************************************************************************)
(* The conversions of src/src/core/format.cpp.  A number printed with one  *)
(* decimal is the integer of its tenths, [tenths, unit] with the index of  *)
(* its unit; doubles are exact ratios, as in CoreMath.                     *)
(***************************************************************************)
EXTENDS CoreMath, Sequences

CONSTANT Kilo       \* how many of a unit make one of the next: 1024

ASSUME KiloAssumption == Kilo \in Nat /\ Kilo > 1

Units == <<"B", "KB", "MB", "GB", "TB", "PB">>

\* How many bytes each unit is: what is left of the loop that divides by 1024.
UnitSize == <<1, Kilo, Kilo * Kilo, Kilo * Kilo * Kilo, Kilo * Kilo * Kilo * Kilo,
              Kilo * Kilo * Kilo * Kilo * Kilo>>

\* std::setprecision(1): the nearest tenth, the even one of two.
Nearest(n, d) ==
    LET q == n \div d
        r == n % d
    IN  IF 2 * r < d \/ (2 * r = d /\ q % 2 = 0) THEN q ELSE q + 1

Tenths(ratio) == Nearest(10 * ratio.num, ratio.den)

\* Mutated: > for >=.
UnitIndex_Strict(value) ==
    CHOOSE u \in 1 .. Len(Units) :
        /\ u = 1 \/ value > UnitSize[u]
        /\ u = Len(Units) \/ value <= UnitSize[u + 1]
\* Where the loop stops dividing: at the last unit, or below one of the next.
UnitIndex(value) ==
    CHOOSE u \in 1 .. Len(Units) :
        /\ u = 1 \/ value >= UnitSize[u]
        /\ u = Len(Units) \/ value < UnitSize[u + 1]

Bytes(value) ==
    [tenths |-> Tenths(Ratio(value, UnitSize[UnitIndex(value)])), unit |-> UnitIndex(value)]

\* Values only; the % sign and the padding are layout.
Percent(ratio) == Tenths(ratio)

\* Mutated: `started` is forgotten, so that a zero between two units vanishes.
Kept_NonZero(parts, k) == parts[k] > 0 \/ k = 4
\* A unit is printed if it or a larger one is not zero; seconds always are.
Kept(parts, k) == (\E j \in 1 .. k : parts[j] > 0) \/ k = 4

\* Days, hours, minutes and seconds; -1 for a unit that is left out.
DurationSeconds(total) ==
    LET parts == <<total \div 86400, (total % 86400) \div 3600,
                   (total % 3600) \div 60, total % 60>>
    IN  [k \in 1 .. 4 |-> IF Kept(parts, k) THEN parts[k] ELSE -1]
-----------------------------------------------------------------------------
(* What they promise of a value. *)

\* The bytes that [tenths, unit] reads as, times 10.
Read(bytes) == bytes.tenths * UnitSize[bytes.unit]

\* It is right to half a tenth of its unit, below one unit it is exact, the
\* number before the unit is at least 1.0, and unless there is no larger unit
\* it is less than Kilo, or rounds up to it.
BytesRight(value) ==
    LET bytes == Bytes(value)
        unit  == UnitSize[bytes.unit]
    IN  /\ 2 * (Read(bytes) - 10 * value) \in -unit .. unit
        /\ value < Kilo => Read(bytes) = 10 * value
        /\ value >= Kilo => bytes.tenths >= 10
        /\ bytes.unit < Len(Units) => value < Kilo * unit

\* A duration can be read back: its units follow one another down to seconds
\* and add up, each within its range.
DurationRight(total) ==
    LET d == DurationSeconds(total)
        first == CHOOSE k \in 1 .. 4 : d[k] >= 0 /\ \A j \in 1 .. k - 1 : d[j] < 0
        OrZero(n) == IF n < 0 THEN 0 ELSE n
    IN  /\ \A k \in first .. 4 : d[k] >= 0
        /\ first < 4 => d[first] > 0
        /\ d[2] < 24 /\ d[3] < 60 /\ d[4] < 60
        /\ OrZero(d[1]) * 86400 + OrZero(d[2]) * 3600 + OrZero(d[3]) * 60 + d[4] = total
=============================================================================
