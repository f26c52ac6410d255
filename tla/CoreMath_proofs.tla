-------------------------- MODULE CoreMath_proofs --------------------------
(***************************************************************************)
(* What the callers of src/src/core/math.cpp rely on, for counters of any  *)
(* size: every result is a proper ratio, percentages stay within 0..100,   *)
(* rates are never negative, and a counter that went backwards counts for  *)
(* nothing.                                                                *)
(***************************************************************************)
EXTENDS CoreMath, TLAPS

\* clamp() is the last step of both bounded percentages (L13, L34).
LEMMA ClampInRange ==
    ASSUME NEW n \in Int, NEW d \in Nat \ {0}
    PROVE  /\ IsRatio(Clamp100(Ratio(n, d)))
           /\ AtLeast(Clamp100(Ratio(n, d)), 0) /\ AtMost(Clamp100(Ratio(n, d)), 100)
BY DEF IsRatio, Clamp100, Ratio, Zero, AtLeast, AtMost

\* percent_used is within 0..100 whatever the two counters, also when the
\* system reports more available than total (math.cpp L7-L14).
THEOREM PercentUsedInRange ==
    ASSUME NEW total \in Nat, NEW available \in Nat
    PROVE  /\ IsRatio(PercentUsed(total, available))
           /\ AtLeast(PercentUsed(total, available), 0)
           /\ AtMost(PercentUsed(total, available), 100)
<1>1. CASE total = 0
  BY <1>1 DEF PercentUsed, Zero, Ratio, IsRatio, AtLeast, AtMost
<1>2. CASE total # 0
  <2>. DEFINE used == IF available >= total THEN 0 ELSE total - available
  <2>1. PercentUsed(total, available) = Clamp100(Ratio(100 * used, total))
    BY <1>2 DEF PercentUsed
  <2>2. 100 * used \in Int
    OBVIOUS
  <2>. QED
    BY <1>2, <2>1, <2>2, ClampInRange
<1>. QED
  BY <1>1, <1>2

\* The clamp of percent_used only tidies rounding: on exact numbers the
\* percentage is already within bounds.
THEOREM PercentUsedNeedsNoClamp ==
    ASSUME NEW total \in Nat \ {0}, NEW available \in Nat
    PROVE  PercentUsed(total, available)
             = Ratio(100 * (IF available >= total THEN 0 ELSE total - available), total)
BY DEF PercentUsed, Clamp100, Ratio, AtLeast, AtMost

\* cpu_percent_from_ticks is within 0..100 even when the idle counter ran
\* ahead of the total, or backwards (math.cpp L23-L35).
THEOREM CpuPercentInRange ==
    ASSUME NEW prevIdle \in Nat, NEW prevTotal \in Nat,
           NEW currIdle \in Nat, NEW currTotal \in Nat
    PROVE  /\ IsRatio(CpuPercentFromTicks(prevIdle, prevTotal, currIdle, currTotal))
           /\ AtLeast(CpuPercentFromTicks(prevIdle, prevTotal, currIdle, currTotal), 0)
           /\ AtMost(CpuPercentFromTicks(prevIdle, prevTotal, currIdle, currTotal), 100)
<1>1. CASE currTotal <= prevTotal
  BY <1>1 DEF CpuPercentFromTicks, Zero, Ratio, IsRatio, AtLeast, AtMost
<1>2. CASE ~(currTotal <= prevTotal)
  <2>. DEFINE totalDelta == currTotal - prevTotal
              idleDelta  == IF currIdle >= prevIdle
                            THEN Lesser(currIdle - prevIdle, totalDelta) ELSE 0
  <2>1. CpuPercentFromTicks(prevIdle, prevTotal, currIdle, currTotal)
          = Clamp100(Ratio(100 * (totalDelta - idleDelta), totalDelta))
    BY <1>2 DEF CpuPercentFromTicks
  <2>2. totalDelta \in Nat \ {0} /\ 100 * (totalDelta - idleDelta) \in Int
    BY <1>2 DEF Lesser
  <2>. QED
    BY <2>1, <2>2, ClampInRange
<1>. QED
  BY <1>1, <1>2

\* rate_per_second is never negative, and is 0 after a counter reset
\* (math.cpp L16-L21).
THEOREM RateNonNegative ==
    ASSUME NEW previous \in Nat, NEW current \in Nat, NEW elapsed \in Int
    PROVE  /\ IsRatio(RatePerSecond(previous, current, elapsed))
           /\ AtLeast(RatePerSecond(previous, current, elapsed), 0)
           /\ current < previous => RatePerSecond(previous, current, elapsed) = Zero
BY DEF RatePerSecond, Zero, Ratio, IsRatio, AtLeast

\* cpu_percent_of_wall_time is never negative, and is 0 when the ticks went
\* backwards, as they do under a reused pid (math.cpp L37-L44).
THEOREM CpuOfWallTimeNonNegative ==
    ASSUME NEW previous \in Nat, NEW current \in Nat,
           NEW elapsed \in Int, NEW perSecond \in Int
    PROVE  /\ IsRatio(CpuPercentOfWallTime(previous, current, elapsed, perSecond))
           /\ AtLeast(CpuPercentOfWallTime(previous, current, elapsed, perSecond), 0)
           /\ current < previous
                => CpuPercentOfWallTime(previous, current, elapsed, perSecond) = Zero
<1>1. CASE elapsed <= 0 \/ perSecond <= 0 \/ current < previous
  BY <1>1 DEF CpuPercentOfWallTime, Zero, Ratio, IsRatio, AtLeast
<1>2. CASE ~(elapsed <= 0 \/ perSecond <= 0 \/ current < previous)
  <2>1. perSecond * elapsed \in Nat \ {0}
    BY <1>2
  <2>2. 100 * (current - previous) \in Nat
    BY <1>2
  <2>. QED
    BY <1>2, <2>1, <2>2 DEF CpuPercentOfWallTime, Ratio, IsRatio, AtLeast
<1>. QED
  BY <1>1, <1>2
=============================================================================
