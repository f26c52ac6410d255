------------------------------ MODULE CoreMath ------------------------------
(***************************************************************************)
(* The calculations of src/src/core/math.cpp.  A double is an exact ratio  *)
(* of two integers here, [num, den] with den > 0: what the callers rely on *)
(* is the order of the values and where they are bounded, not rounding.    *)
(* Elapsed time is an integer in the unit of the module that measures it.  *)
(***************************************************************************)
EXTENDS Integers

Ratio(n, d) == [num |-> n, den |-> d]
Zero        == Ratio(0, 1)

IsRatio(r) == DOMAIN r = {"num", "den"} /\ r.num \in Int /\ r.den \in Nat \ {0}

\* r <= n, for an integer n.
AtMost(r, n)  == r.num <= n * r.den
AtLeast(r, n) == r.num >= n * r.den

\* std::clamp(percent, 0.0, 100.0)
Clamp100(r) == IF ~AtLeast(r, 0) THEN Zero
               ELSE IF ~AtMost(r, 100) THEN Ratio(100, 1) ELSE r

Lesser(a, b) == IF b < a THEN b ELSE a

PercentUsed(total, available) ==
    IF total = 0 THEN Zero
    ELSE LET used == IF available >= total THEN 0 ELSE total - available
         IN  Clamp100(Ratio(100 * used, total))

\* Mutated: no test for a counter that went backwards.
RatePerSecond_Unguarded(previous, current, elapsed) ==
    IF elapsed <= 0 THEN Zero ELSE Ratio(current - previous, elapsed)

\* Per unit of elapsed time.  A counter that went backwards counts nothing.
RatePerSecond(previous, current, elapsed) ==
    IF elapsed <= 0 \/ current < previous THEN Zero
    ELSE Ratio(current - previous, elapsed)

\* Mutated: no test for a total that did not advance.
CpuPercentFromTicks_Unguarded(prevIdle, prevTotal, currIdle, currTotal) ==
    LET totalDelta == currTotal - prevTotal
        idleDelta  == IF currIdle >= prevIdle
                      THEN Lesser(currIdle - prevIdle, totalDelta) ELSE 0
    IN  Clamp100(Ratio(100 * (totalDelta - idleDelta), totalDelta))

\* The share of the ticks since the previous reading that were not idle.
CpuPercentFromTicks(prevIdle, prevTotal, currIdle, currTotal) ==
    IF currTotal <= prevTotal THEN Zero
    ELSE LET totalDelta == currTotal - prevTotal
             idleDelta  == IF currIdle >= prevIdle
                           THEN Lesser(currIdle - prevIdle, totalDelta) ELSE 0
         IN  Clamp100(Ratio(100 * (totalDelta - idleDelta), totalDelta))

\* Mutated: no test for a counter that went backwards.
CpuPercentOfWallTime_Unguarded(previousTicks, currentTicks, elapsed, ticksPerSecond) ==
    IF elapsed <= 0 \/ ticksPerSecond <= 0 THEN Zero
    ELSE Ratio(100 * (currentTicks - previousTicks), ticksPerSecond * elapsed)

\* Not clamped: several threads may use more than one processor.
CpuPercentOfWallTime(previousTicks, currentTicks, elapsed, ticksPerSecond) ==
    IF elapsed <= 0 \/ ticksPerSecond <= 0 \/ currentTicks < previousTicks THEN Zero
    ELSE Ratio(100 * (currentTicks - previousTicks), ticksPerSecond * elapsed)
=============================================================================
