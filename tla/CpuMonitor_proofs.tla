------------------------- MODULE CpuMonitor_proofs -------------------------
(***************************************************************************)
(* The properties of CpuMonitor, for any number of processors and any      *)
(* pattern of failing readings.                                            *)
(***************************************************************************)
EXTENDS CpuMonitor, CoreMath_proofs

\* The inductive invariant: the baseline is the last reading that succeeded,
\* and busy and idle ticks have both only grown since.
BaselineInv ==
    /\ previous.succeeded = everRead
    /\ everRead =>
          /\ previous.idle <= idle
          /\ previous.total - previous.idle <= Busy
          /\ lastBusy = previous.total - previous.idle
          /\ firstBusy <= lastBusy
    /\ ~everRead => firstBusy = 0 /\ lastBusy = 0

IInv == TypeOK /\ BaselineInv /\ BusyAccounted
-----------------------------------------------------------------------------
\* What cpu_percent_from_ticks yields when neither busy nor idle time went
\* backwards: exactly the busy ticks, and never a clamped value
\* (math.cpp L23-L35).
LEMMA BusyTicks ==
    ASSUME NEW prevIdle \in Nat, NEW prevTotal \in Nat,
           NEW currIdle \in Nat, NEW currTotal \in Nat,
           prevIdle <= currIdle, prevTotal - prevIdle <= currTotal - currIdle
    PROVE  LET percent == CpuPercentFromTicks(prevIdle, prevTotal, currIdle, currTotal)
           IN  percent.num \div 100 = (currTotal - currIdle) - (prevTotal - prevIdle)
<1>. DEFINE t == currTotal - prevTotal
            b == (currTotal - currIdle) - (prevTotal - prevIdle)
            percent == CpuPercentFromTicks(prevIdle, prevTotal, currIdle, currTotal)
<1>1. t \in Nat /\ b \in Nat /\ b <= t /\ currIdle - prevIdle <= t
  OBVIOUS
<1>2. CASE t = 0
  BY <1>1, <1>2 DEF CpuPercentFromTicks, Zero, Ratio
<1>3. CASE t > 0
  <2>1. Lesser(currIdle - prevIdle, t) = currIdle - prevIdle
    BY <1>1 DEF Lesser
  <2>2. t - (currIdle - prevIdle) = b
    OBVIOUS
  <2>3. percent = Clamp100(Ratio(100 * b, t))
    BY <1>3, <2>1, <2>2 DEF CpuPercentFromTicks
  <2>4. 100 * b >= 0 /\ 100 * b <= 100 * t
    BY <1>1
  <2>5. percent = Ratio(100 * b, t)
    BY <1>1, <2>3, <2>4 DEF Clamp100, AtLeast, AtMost, Ratio
  <2>6. (100 * b) \div 100 = b
    BY <1>1
  <2>. QED
    BY <2>5, <2>6 DEF Ratio
<1>. QED
  BY <1>1, <1>2, <1>3

\* What translate() makes of a reading (cpu_monitor.cpp L36-L55).
LEMMA Translated ==
    ASSUME TypeOK, BaselineInv, NEW current \in Readings
    PROVE  LET r == Translate(current)
           IN  /\ r.status \in {"ok", "failed", "unavailable"}
               /\ IsRatio(r.percent) /\ AtLeast(r.percent, 0) /\ AtMost(r.percent, 100)
               /\ r.percent.num \div 100
                    = IF everRead /\ current.succeeded THEN Busy - lastBusy ELSE 0
               /\ everRead /\ current.succeeded => r.status = "ok"
               /\ everRead => r.status # "unavailable"
<1>1. /\ previous.idle \in Nat /\ previous.total \in Nat /\ idle \in Nat /\ total \in Nat
      /\ previous.succeeded \in BOOLEAN /\ everRead \in BOOLEAN
      /\ previous.succeeded = everRead
  BY DEF TypeOK, BaselineInv
<1>2. CASE everRead /\ current.succeeded
  <2>1. current.idle = idle /\ current.total = total
    BY <1>2 DEF Readings, Failed
  <2>2. Translate(current) = [status |-> "ok", percent |->
          CpuPercentFromTicks(previous.idle, previous.total, idle, total)]
    BY <1>1, <1>2, <2>1 DEF Translate
  <2>3. CpuPercentFromTicks(previous.idle, previous.total, idle, total).num \div 100
          = (total - idle) - (previous.total - previous.idle)
    BY <1>1, <1>2, BusyTicks DEF BaselineInv, Busy
  <2>. QED
    BY <1>1, <1>2, <2>2, <2>3, CpuPercentInRange DEF BaselineInv, Busy
<1>3. CASE ~(everRead /\ current.succeeded)
  <2>1. Translate(current).percent = Zero
        /\ Translate(current).status \in {"failed", "unavailable"}
        /\ (everRead => Translate(current).status = "failed")
    BY <1>1, <1>3 DEF Translate
  <2>2. /\ Zero.num \div 100 = 0
        /\ IsRatio(Zero) /\ AtLeast(Zero, 0) /\ AtMost(Zero, 100)
    BY DEF Zero, Ratio, IsRatio, AtLeast, AtMost
  <2>. QED
    BY <1>3, <2>1, <2>2
<1>. QED
  BY <1>2, <1>3

LEMMA InitInv == Init => IInv
<1>. SUFFICES ASSUME Init PROVE IInv
  OBVIOUS
<1>1. IsRatio(Zero) /\ AtLeast(Zero, 0) /\ AtMost(Zero, 100)
  BY DEF Zero, Ratio, IsRatio, AtLeast, AtMost
<1>2. previous \in [succeeded : BOOLEAN, idle : Nat, total : Nat]
      /\ previous.idle = 0 /\ previous.total = 0
  <2>1. \/ previous = [succeeded |-> FALSE, idle |-> 0, total |-> 0]
        \/ previous = [succeeded |-> TRUE, idle |-> 0, total |-> 0]
    BY DEF Init, Readings, Failed
  <2>2. 0 \in Nat /\ TRUE \in BOOLEAN /\ FALSE \in BOOLEAN
    OBVIOUS
  <2>3. CASE previous = [succeeded |-> FALSE, idle |-> 0, total |-> 0]
    BY <2>2, <2>3
  <2>4. CASE previous = [succeeded |-> TRUE, idle |-> 0, total |-> 0]
    BY <2>2, <2>4
  <2>. QED
    BY <2>1, <2>3, <2>4
<1>. QED
  BY <1>1, <1>2 DEF Init, IInv, TypeOK, BaselineInv, BusyAccounted, Busy

LEMMA TickInv == IInv /\ Tick => IInv'
<1>. SUFFICES ASSUME IInv, Tick PROVE IInv'
  OBVIOUS
<1>1. PICK i \in 0 .. Cores : idle' = idle + i
  BY DEF Tick
<1>2. total' = total + Cores /\ i \in Nat /\ i <= Cores /\ Cores \in Nat
  BY CoresAssumption DEF Tick
<1>3. total' \in Nat /\ idle' \in 0 .. total' /\ Busy <= Busy' /\ idle <= idle'
  BY <1>1, <1>2 DEF IInv, TypeOK, Busy
<1>4. TypeOK'
  BY <1>3 DEF Tick, IInv, TypeOK
<1>5. BaselineInv' /\ BusyAccounted'
  <2>1. /\ previous.idle \in Nat /\ previous.total \in Nat /\ idle \in Nat
        /\ Busy \in Int /\ Busy' \in Int /\ idle' \in Nat
    BY <1>3 DEF IInv, TypeOK, Busy
  <2>. QED
    BY <1>3, <2>1 DEF Tick, IInv, BaselineInv, BusyAccounted
<1>. QED
  BY <1>4, <1>5 DEF IInv

LEMMA SampleInv ==
    ASSUME IInv, NEW current \in Readings, Sample(current)
    PROVE  IInv'
<1>1. /\ result'.status \in {"ok", "failed", "unavailable"}
      /\ IsRatio(result'.percent) /\ AtLeast(result'.percent, 0)
      /\ AtMost(result'.percent, 100)
      /\ shown' = shown + IF everRead /\ current.succeeded THEN Busy - lastBusy ELSE 0
  BY Translated DEF IInv, Sample
<1>2. /\ total \in Nat /\ idle \in Nat /\ idle <= total /\ Busy \in Nat
      /\ {firstBusy, lastBusy, shown} \subseteq Nat /\ everRead \in BOOLEAN
      /\ previous.succeeded = everRead
      /\ everRead => lastBusy <= Busy
      /\ shown = lastBusy - firstBusy
  BY DEF IInv, TypeOK, BaselineInv, BusyAccounted, Busy
<1>3. CASE current.succeeded
  <2>1. current = [succeeded |-> TRUE, idle |-> idle, total |-> total]
    BY <1>3 DEF Readings, Failed
  <2>2. previous' = current /\ everRead' = TRUE /\ lastBusy' = Busy
        /\ firstBusy' = (IF ~everRead THEN Busy ELSE firstBusy)
        /\ total' = total /\ idle' = idle
    BY <1>2, <1>3 DEF Sample, Refresh
  <2>3. BaselineInv'
    <3>1. /\ previous'.idle = idle /\ previous'.total = total
          /\ previous'.succeeded = TRUE /\ Busy' = total - idle
      BY <2>1, <2>2 DEF Busy
    <3>2. everRead => firstBusy <= lastBusy
      BY DEF IInv, BaselineInv
    <3>3. firstBusy' <= lastBusy'
      BY <1>2, <2>2, <3>2
    <3>4. /\ previous'.idle <= idle'
          /\ previous'.total - previous'.idle <= Busy'
          /\ lastBusy' = previous'.total - previous'.idle
      BY <1>2, <2>2, <3>1 DEF Busy
    <3>5. previous'.succeeded = everRead' /\ everRead'
      BY <2>2, <3>1
    <3>. QED
      BY <3>3, <3>4, <3>5 DEF BaselineInv
  <2>4. BusyAccounted' /\ {firstBusy', lastBusy', shown'} \subseteq Nat
    BY <1>1, <1>2, <1>3, <2>2 DEF BusyAccounted, IInv, BaselineInv
  <2>5. TypeOK'
    BY <1>1, <1>2, <2>1, <2>2, <2>4 DEF TypeOK
  <2>. QED
    BY <2>3, <2>4, <2>5 DEF IInv
<1>4. CASE ~current.succeeded
  <2>1. current.succeeded = FALSE
    BY <1>4 DEF Readings, Failed
  <2>2. UNCHANGED <<previous, everRead, lastBusy, firstBusy, total, idle, shown>>
    BY <1>1, <1>2, <2>1 DEF Sample, Refresh
  <2>. QED
    BY <1>1, <2>2 DEF IInv, TypeOK, BaselineInv, BusyAccounted, Busy
<1>. QED
  BY <1>3, <1>4

LEMMA Inductive == Spec => []IInv
<1>1. IInv /\ UNCHANGED vars => IInv'
  BY DEF vars, IInv, TypeOK, BaselineInv, BusyAccounted, Busy
<1>2. IInv /\ [Next]_vars => IInv'
  BY <1>1, TickInv, SampleInv DEF Next
<1>. QED
  BY <1>2, InitInv, PTL DEF Spec
-----------------------------------------------------------------------------
\* Every variable keeps its type, and a percentage is from 0 to 100.
THEOREM TypeCorrect == Spec => []TypeOK
<1>1. IInv => TypeOK
  BY DEF IInv
<1>. QED
  BY Inductive, <1>1, PTL

\* The percentages stand for all the busy ticks between the first reading that
\* succeeded and the last, whichever failed in between.
THEOREM NoBusyTickLost == Spec => []BusyAccounted
<1>1. IInv => BusyAccounted
  BY DEF IInv
<1>. QED
  BY Inductive, <1>1, PTL

\* Once a reading has succeeded, the monitor never lacks a baseline again.
THEOREM Recovers == Spec => NeverStranded
<1>. DEFINE Served ==
       \A current \in Readings : Sample(current) =>
          /\ everRead /\ current.succeeded => result'.status = "ok"
          /\ everRead => result'.status # "unavailable"
<1>1. IInv => [Served]_vars
  BY Translated DEF IInv, Sample
<1>. QED
  BY Inductive, <1>1, PTL DEF NeverStranded
=============================================================================
