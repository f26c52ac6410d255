----------------------- MODULE ProcessMonitor_proofs -----------------------
(***************************************************************************)
(* The safety properties of ProcessMonitor, for any number of pids,        *)
(* processes and processors and any interleaving of the process table with *)
(* sample().                                                               *)
(***************************************************************************)
EXTENDS ProcessMonitor, CoreMath_proofs

(***************************************************************************)
(* The inductive invariant.                                                *)
(***************************************************************************)
\* Readings lie within the enumeration that made them.
TimeInv ==
    /\ FreshBaseline
    /\ last.began <= last.ended /\ last.ended <= clock /\ began <= clock
    /\ pc # "query" => DOMAIN raw = {}
    /\ \A p \in DOMAIN raw : began <= raw[p].at /\ raw[p].at <= clock

\* A process has one pid all its life, and a pid one process at a time.
OwnerInv ==
    /\ \A p \in Pids : table[p] <= born
    /\ \A p, q \in Pids : table[p] = table[q] /\ table[p] # NoProc => p = q
    /\ \A p \in DOMAIN prevTicks : prevTicks[p].of <= born
    /\ \A p \in DOMAIN raw : raw[p].of <= born
    /\ \A p \in DOMAIN raw, q \in Pids :
          raw[p].of = table[q] /\ table[q] # NoProc => p = q
    /\ \A p, q \in DOMAIN raw : raw[p].of = raw[q].of /\ raw[p].of # NoProc => p = q

\* What was attributed to a process is covered by its latest reading, and a
\* process that took over a pid after that pid was read has been attributed
\* nothing yet.
CreditInv ==
    /\ \A o \in Procs : credited[o] <= cpu[o] /\ (o > born => credited[o] = 0)
    /\ \A p \in DOMAIN prevTicks :
          /\ credited[prevTicks[p].of] <= prevTicks[p].ticks
          /\ table[p] \notin {NoProc, prevTicks[p].of} => credited[table[p]] = 0
    /\ \A p \in DOMAIN raw : raw[p].cpuOk =>
          /\ credited[raw[p].of] <= raw[p].ticks
          /\ raw[p].ticks <= cpu[raw[p].of]
          /\ table[p] \notin {NoProc, raw[p].of} => credited[table[p]] = 0
          /\ p \in DOMAIN prevTicks /\ prevTicks[p].of # raw[p].of
                => credited[raw[p].of] = 0

\* No process outruns its processors.
SpeedInv ==
    /\ \A p \in DOMAIN prevTicks :
          cpu[prevTicks[p].of] <= prevTicks[p].ticks + Cores * (clock - prevTicks[p].at)
    /\ \A p \in DOMAIN raw : raw[p].cpuOk =>
          cpu[raw[p].of] <= raw[p].ticks + Cores * (clock - raw[p].at)

IInv == TypeOK /\ TimeInv /\ OwnerInv /\ CreditInv /\ SpeedInv
-----------------------------------------------------------------------------
\* What Translate puts into a row (process_monitor.cpp L26-L54).
LEMMA TranslateRows ==
    ASSUME TypeOK, NEW elapsed \in Int, NEW p \in DOMAIN raw
    PROVE  /\ DOMAIN Translate(elapsed) = DOMAIN raw
           /\ Translate(elapsed)[p] \in RowType
           /\ Translate(elapsed)[p].cpuPercent =
                IF raw[p].cpuOk /\ p \in DOMAIN prevTicks
                THEN CpuPercentOfWallTime(prevTicks[p].ticks, raw[p].ticks,
                                          elapsed, TicksPerSecond)
                ELSE Zero
<1>. DEFINE percent == IF raw[p].cpuOk /\ p \in DOMAIN prevTicks
                       THEN CpuPercentOfWallTime(prevTicks[p].ticks, raw[p].ticks,
                                                 elapsed, TicksPerSecond)
                       ELSE Zero
            row == [name |-> raw[p].name, cpuPercent |-> percent,
                    resident |-> IF raw[p].memOk THEN raw[p].of ELSE NoProc]
<1>1. raw[p] \in RawType
  BY DEF TypeOK, PidMap
<1>2. percent \in [num : Nat, den : Nat \ {0}]
  <2>1. CASE raw[p].cpuOk /\ p \in DOMAIN prevTicks
    <3>1. raw[p].ticks \in Nat /\ prevTicks[p].ticks \in Nat
      BY <1>1, <2>1 DEF TypeOK, PidMap, RawType, ReadingType
    <3>2. CASE elapsed <= 0 \/ raw[p].ticks < prevTicks[p].ticks
      BY <2>1, <3>2 DEF CpuPercentOfWallTime, Zero, Ratio
    <3>3. CASE ~(elapsed <= 0 \/ raw[p].ticks < prevTicks[p].ticks)
      BY <2>1, <3>1, <3>3 DEF CpuPercentOfWallTime, Ratio, TicksPerSecond
    <3>. QED
      BY <3>2, <3>3
  <2>2. CASE ~(raw[p].cpuOk /\ p \in DOMAIN prevTicks)
    BY <2>2 DEF Zero, Ratio
  <2>. QED
    BY <2>1, <2>2
<1>3. row \in RowType
  BY <1>1, <1>2 DEF RawType, RowType
<1>4. DOMAIN Translate(elapsed) = DOMAIN raw /\ Translate(elapsed)[p] = row
  BY DEF Translate
<1>. QED
  BY <1>3, <1>4

\* The ticks in a row: nothing without a baseline, and with one no more than
\* what the counter advanced.
LEMMA RowTicks ==
    ASSUME TypeOK, NEW elapsed \in Int, NEW p \in Measured
    PROVE  LET row == Translate(elapsed)[p]
           IN  /\ TicksIn(row) \in Nat
               /\ p \notin DOMAIN prevTicks => TicksIn(row) = 0
               /\ p \in DOMAIN prevTicks /\ TicksIn(row) # 0
                    => TicksIn(row) = raw[p].ticks - prevTicks[p].ticks
<1>. DEFINE row == Translate(elapsed)[p]
<1>1. p \in DOMAIN raw /\ raw[p].cpuOk /\ raw[p].ticks \in Nat
  BY DEF Measured, TypeOK, PidMap, RawType
<1>2. CASE p \notin DOMAIN prevTicks
  BY <1>1, <1>2, TranslateRows DEF TicksIn, Zero, Ratio
<1>3. CASE p \in DOMAIN prevTicks
  <2>1. prevTicks[p].ticks \in Nat
    BY <1>3 DEF TypeOK, PidMap, ReadingType
  <2>2. row.cpuPercent = CpuPercentOfWallTime(prevTicks[p].ticks, raw[p].ticks,
                                              elapsed, TicksPerSecond)
    BY <1>1, <1>3, TranslateRows
  <2>3. CASE elapsed <= 0 \/ raw[p].ticks < prevTicks[p].ticks
    BY <1>3, <2>2, <2>3 DEF TicksIn, CpuPercentOfWallTime, Zero, Ratio
  <2>4. CASE ~(elapsed <= 0 \/ raw[p].ticks < prevTicks[p].ticks)
    <3>1. row.cpuPercent.num = 100 * (raw[p].ticks - prevTicks[p].ticks)
      BY <1>1, <2>1, <2>2, <2>4 DEF CpuPercentOfWallTime, Ratio, TicksPerSecond
    <3>. QED
      BY <1>1, <1>3, <2>1, <2>4, <3>1 DEF TicksIn
  <2>. QED
    BY <2>3, <2>4
<1>. QED
  BY <1>2, <1>3
-----------------------------------------------------------------------------
\* result is something sample() may return.
Answer(r) == r.status \in {"none", "ok", "failed"} /\ PidMap(r.rows, RowType)

LEMMA TypeInit == Init => TypeOK
<1>. SUFFICES ASSUME Init PROVE TypeOK
  OBVIOUS
<1>1. \A T : PidMap(Empty, T)
  BY DEF PidMap, Empty
<1>2. table \in [Pids -> Procs \cup {NoProc}] /\ cpu \in [Procs -> Nat]
      /\ credited \in [Procs -> Nat]
  BY DEF Init
<1>3. born \in 0 .. MaxProcs
  BY BoundAssumption DEF Init
<1>. QED
  BY <1>1, <1>2, <1>3 DEF Init, TypeOK, Measured, Empty

LEMMA TypeStep == TypeOK /\ [Next]_vars => TypeOK'
<1>. SUFFICES ASSUME TypeOK, [Next]_vars PROVE TypeOK'
  OBVIOUS
<1>0. \A T : PidMap(Empty, T)
  BY DEF PidMap, Empty
<1>1. CASE Tick
  <2>1. clock' \in Nat /\ cpu' \in [Procs -> Nat]
    BY <1>1, CoresAssumption DEF Tick, TypeOK
  <2>. QED
    BY <1>1, <2>1 DEF Tick, monitor, TypeOK, PidMap, Measured
<1>2. ASSUME NEW p \in Pids, Spawn(p) PROVE TypeOK'
  <2>1. born' \in 0 .. MaxProcs /\ table' \in [Pids -> Procs \cup {NoProc}]
    BY <1>2, BoundAssumption DEF Spawn, TypeOK, Procs
  <2>. QED
    BY <1>2, <2>1 DEF Spawn, monitor, TypeOK, PidMap, Measured
<1>3. ASSUME NEW p \in Pids, Exit(p) PROVE TypeOK'
  <2>1. table' \in [Pids -> Procs \cup {NoProc}]
    BY <1>3 DEF Exit, TypeOK
  <2>. QED
    BY <1>3, <2>1 DEF Exit, monitor, TypeOK, PidMap, Measured
<1>4. CASE StartSample
  BY <1>0, <1>4 DEF StartSample, system, TypeOK, PidMap, Measured
<1>5. CASE TakeSnapshot
  <2>1. PidMap(entries', Procs)
    BY <1>5 DEF TakeSnapshot, TypeOK, PidMap
  <2>. QED
    BY <1>5, <2>1 DEF TakeSnapshot, system, TypeOK, PidMap, Measured
<1>6. CASE BadLength
  <2>1. attempt' \in Nat /\ (attempt' > 0 => attempt' < MaxAttempts)
    BY <1>6, BoundAssumption DEF BadLength, Fail, TypeOK
  <2>2. pc' \in {"idle", "snapshot"} /\ Answer(result')
    BY <1>0, <1>6 DEF BadLength, Fail, TypeOK, Answer
  <2>. QED
    BY <1>6, <2>1, <2>2 DEF BadLength, system, TypeOK, PidMap, Measured, Answer
<1>7. CASE OtherError
  <2>1. pc' = "idle" /\ attempt' = 0 /\ Answer(result')
    BY <1>0, <1>7 DEF OtherError, Fail, Answer
  <2>. QED
    BY <1>7, <2>1 DEF OtherError, system, TypeOK, PidMap, Measured, Answer
<1>8. ASSUME NEW p \in Pids, Query(p) PROVE TypeOK'
  <2>1. PidMap(entries', Procs)
    BY <1>8 DEF Query, TypeOK, PidMap
  <2>2. PidMap(raw', RawType) /\ \A q \in Measured' : raw'[q].of \in Procs
    <3>1. DOMAIN raw' = DOMAIN raw \cup {p} /\ DOMAIN raw' \subseteq Pids
      BY <1>8 DEF Query, TypeOK, PidMap
    <3>2. ASSUME NEW q \in DOMAIN raw, q # p PROVE raw'[q] \in RawType
      BY <1>8, <3>2 DEF Query, TypeOK, PidMap
    <3>3. raw'[p] \in RawType /\ (raw'[p].cpuOk => raw'[p].of \in Procs)
      <4>1. PICK cpuOk, memOk \in (IF table[p] = NoProc THEN {FALSE} ELSE BOOLEAN) :
               raw'[p] = [name |-> entries[p], cpuOk |-> cpuOk,
                          ticks |-> IF cpuOk THEN cpu[table[p]] ELSE 0,
                          memOk |-> memOk, of |-> table[p], at |-> clock]
        BY <1>8 DEF Query
      <4>2. cpuOk \in BOOLEAN /\ memOk \in BOOLEAN /\ (cpuOk => table[p] \in Procs)
        BY <4>1 DEF TypeOK
      <4>3. entries[p] \in Procs
        BY <1>8 DEF Query, TypeOK, PidMap
      <4>. QED
        BY <4>1, <4>2, <4>3 DEF TypeOK, RawType
    <3>4. raw' \in [DOMAIN raw' -> RawType]
      BY <1>8, <3>1, <3>2, <3>3 DEF Query
    <3>. QED
      BY <1>8, <3>1, <3>3, <3>4 DEF PidMap, Query, Measured, TypeOK
  <2>. QED
    BY <1>8, <2>1, <2>2 DEF Query, system, TypeOK, PidMap, Measured
<1>9. CASE Finish
  <2>. DEFINE rows == Translate(clock - prevTime)
  <2>0. clock - prevTime \in Int
    BY DEF TypeOK
  <2>1. PidMap(rows, RowType)
    <3>1. \A p \in DOMAIN raw : DOMAIN rows = DOMAIN raw /\ rows[p] \in RowType
      BY <2>0, TranslateRows
    <3>. QED
      BY <3>1 DEF Translate, TypeOK, PidMap
  <2>2. PidMap(prevTicks', ReadingType)
    BY <1>9 DEF Finish, Baseline, Measured, TypeOK, PidMap, RawType, ReadingType
  <2>3. credited' \in [Procs -> Nat]
    <3>1. \A p \in Measured : TicksIn(rows[p]) \in Nat
      BY <2>0, RowTicks
    <3>2. \A o \in Procs : Credit(rows, o) \in Nat
      BY <3>1 DEF Credit
    <3>. QED
      BY <1>9, <3>2 DEF Finish, TypeOK
  <2>. QED
    <3>1. Answer(result')
      BY <1>9, <2>1 DEF Finish, Answer
    <3>2. PidMap(entries', Procs) /\ PidMap(raw', RawType) /\ Measured' = {}
      BY <1>0, <1>9 DEF Finish, Measured, Empty
    <3>. QED
      BY <1>9, <2>2, <2>3, <3>1, <3>2 DEF Finish, system, TypeOK, Answer
<1>10. CASE UNCHANGED vars
  BY <1>10 DEF vars, TypeOK, PidMap, Measured
<1>. QED
  BY <1>1, <1>2, <1>3, <1>4, <1>5, <1>6, <1>7, <1>8, <1>9, <1>10 DEF Next, SampleStep
-----------------------------------------------------------------------------
\* What a query adds to the raw samples (process_monitor.cpp L81-L116).
LEMMA QueryReads ==
    ASSUME TypeOK, NEW p \in Pids, Query(p)
    PROVE  /\ DOMAIN raw' = DOMAIN raw \cup {p}
           /\ \A q \in DOMAIN raw : q # p => raw'[q] = raw[q]
           /\ raw'[p].of = table[p] /\ raw'[p].at = clock
           /\ raw'[p].cpuOk => raw'[p].ticks = cpu[table[p]] /\ table[p] \in Procs
<1>1. PICK cpuOk, memOk \in (IF table[p] = NoProc THEN {FALSE} ELSE BOOLEAN) :
         raw' = [q \in DOMAIN raw \cup {p} |->
                    IF q # p THEN raw[q]
                    ELSE [name  |-> entries[p], cpuOk |-> cpuOk,
                          ticks |-> IF cpuOk THEN cpu[table[p]] ELSE 0,
                          memOk |-> memOk, of |-> table[p], at |-> clock]]
  BY DEF Query
<1>2. cpuOk => table[p] \in Procs
  BY <1>1 DEF TypeOK
<1>. QED
  BY <1>1, <1>2

\* What a successful sample() leaves behind (process_monitor.cpp L120-L131).
LEMMA FinishSaves ==
    ASSUME Finish
    PROVE  /\ DOMAIN raw' = {}
           /\ DOMAIN prevTicks' = Measured
           /\ \A p \in Measured :
                 /\ p \in DOMAIN raw /\ raw[p].cpuOk
                 /\ prevTicks'[p].ticks = raw[p].ticks
                 /\ prevTicks'[p].of = raw[p].of
                 /\ prevTicks'[p].at = raw[p].at
BY DEF Finish, Baseline, Measured, Empty

LEMMA TimeStep == TypeOK /\ TimeInv /\ [Next]_vars => TimeInv'
<1>. SUFFICES ASSUME TypeOK, TimeInv, [Next]_vars PROVE TimeInv'
  OBVIOUS
<1>. USE DEF TimeInv, FreshBaseline
<1>0. /\ {clock, prevTime, began, last.began, last.ended} \subseteq Nat
      /\ \A p \in DOMAIN raw : raw[p].at \in Nat
      /\ \A p \in DOMAIN prevTicks : prevTicks[p].at \in Nat
  BY DEF TypeOK, PidMap, RawType, ReadingType
<1>1. CASE Tick
  BY <1>0, <1>1 DEF Tick, monitor
<1>2. ASSUME NEW p \in Pids, Spawn(p) \/ Exit(p) PROVE TimeInv'
  BY <1>2 DEF Spawn, Exit, monitor
<1>3. CASE StartSample \/ BadLength \/ OtherError
  BY <1>3 DEF StartSample, BadLength, OtherError, Fail, system
<1>4. CASE TakeSnapshot
  BY <1>0, <1>4 DEF TakeSnapshot, system, Empty
<1>5. ASSUME NEW p \in Pids, Query(p) PROVE TimeInv'
  BY <1>0, <1>5, QueryReads DEF Query, system
<1>6. CASE Finish
  <2>1. \A p \in DOMAIN prevTicks' : prevTicks'[p].at \in began .. clock
    BY <1>0, <1>6, FinishSaves
  <2>. QED
    BY <1>0, <1>6, <2>1, FinishSaves DEF Finish, system
<1>7. CASE UNCHANGED vars
  BY <1>7 DEF vars
<1>. QED
  BY <1>1, <1>2, <1>3, <1>4, <1>5, <1>6, <1>7 DEF Next, SampleStep

LEMMA OwnerStep == TypeOK /\ OwnerInv /\ [Next]_vars => OwnerInv'
<1>. SUFFICES ASSUME TypeOK, OwnerInv, [Next]_vars PROVE OwnerInv'
  OBVIOUS
<1>. USE DEF OwnerInv
<1>0. /\ born \in Nat
      /\ \A p \in Pids : table[p] \in Nat
      /\ DOMAIN raw \subseteq Pids /\ \A p \in DOMAIN raw : raw[p].of \in Nat
      /\ DOMAIN prevTicks \subseteq Pids
      /\ \A p \in DOMAIN prevTicks : prevTicks[p].of \in Nat
  BY DEF TypeOK, PidMap, RawType, ReadingType, Procs, NoProc
<1>1. CASE Tick \/ StartSample \/ BadLength \/ OtherError
  BY <1>1 DEF Tick, StartSample, BadLength, OtherError, Fail, system, monitor
\* The newcomer's number is larger than any that was read.
<1>2. ASSUME NEW p \in Pids, Spawn(p) PROVE OwnerInv'
  <2>1. /\ table' = [table EXCEPT ![p] = born + 1] /\ born' = born + 1
        /\ raw' = raw /\ prevTicks' = prevTicks
    BY <1>2 DEF Spawn, monitor
  <2>2. /\ table'[p] = born + 1
        /\ \A q \in Pids : q # p => table'[q] = table[q]
    BY <2>1 DEF TypeOK
  <2>. QED
    BY <1>0, <2>1, <2>2
<1>3. ASSUME NEW p \in Pids, Exit(p) PROVE OwnerInv'
  <2>1. /\ table'[p] = NoProc /\ \A q \in Pids : q # p => table'[q] = table[q]
        /\ born' = born /\ raw' = raw /\ prevTicks' = prevTicks
    BY <1>3 DEF Exit, TypeOK, monitor
  <2>. QED
    BY <1>0, <2>1 DEF NoProc
<1>4. CASE TakeSnapshot
  BY <1>4 DEF TakeSnapshot, system, Empty
<1>5. ASSUME NEW p \in Pids, Query(p) PROVE OwnerInv'
  <2>1. table' = table /\ born' = born /\ prevTicks' = prevTicks
    BY <1>5 DEF Query, system
  <2>2. /\ DOMAIN raw' = DOMAIN raw \cup {p} /\ raw'[p].of = table[p]
        /\ \A q \in DOMAIN raw : q # p => raw'[q].of = raw[q].of
    BY <1>5, QueryReads
  <2>. QED
    BY <1>0, <2>1, <2>2
<1>6. CASE Finish
  <2>1. table' = table /\ born' = born
    BY <1>6 DEF Finish, system
  <2>. QED
    BY <1>0, <1>6, <2>1, FinishSaves
<1>7. CASE UNCHANGED vars
  BY <1>7 DEF vars
<1>. QED
  BY <1>1, <1>2, <1>3, <1>4, <1>5, <1>6, <1>7 DEF Next, SampleStep

\* The row of a process accounts for no more than its reading covers beyond
\* what was attributed to it before; and a process without a row gets nothing.
LEMMA CreditCovered ==
    ASSUME TypeOK, OwnerInv, CreditInv, Finish
    PROVE  /\ \A p \in Measured : credited'[raw[p].of] <= raw[p].ticks
           /\ \A o \in Procs : (\A p \in Measured : raw[p].of # o)
                                  => credited'[o] = credited[o]
<1>. DEFINE rows == Translate(clock - prevTime)
<1>1. \A o \in Procs : credited'[o] = credited[o] + Credit(rows, o)
  BY DEF Finish
<1>2. \A o \in Procs : credited[o] \in Nat
  BY DEF TypeOK
<1>3. ASSUME NEW p \in Measured PROVE credited'[raw[p].of] <= raw[p].ticks
  <2>1. /\ p \in DOMAIN raw /\ raw[p].cpuOk
        /\ raw[p].of \in Procs /\ raw[p].of # NoProc /\ raw[p].ticks \in Nat
    BY DEF Measured, TypeOK, PidMap, RawType, Procs, NoProc
  <2>2. \A q \in Measured : raw[q].of = raw[p].of => q = p
    BY <2>1 DEF OwnerInv, Measured
  <2>3. Credit(rows, raw[p].of) = TicksIn(rows[p])
    BY <2>2 DEF Credit
  <2>4. /\ TicksIn(rows[p]) \in Nat
        /\ p \notin DOMAIN prevTicks => TicksIn(rows[p]) = 0
        /\ p \in DOMAIN prevTicks /\ TicksIn(rows[p]) # 0
             => TicksIn(rows[p]) = raw[p].ticks - prevTicks[p].ticks
    <3>1. clock - prevTime \in Int
      BY DEF TypeOK
    <3>. QED
      BY <3>1, RowTicks
  <2>5. credited[raw[p].of] <= raw[p].ticks
    BY <2>1 DEF CreditInv
  <2>6. CASE TicksIn(rows[p]) = 0
    BY <1>1, <1>2, <2>1, <2>3, <2>5, <2>6
  <2>7. CASE TicksIn(rows[p]) # 0
    <3>1. p \in DOMAIN prevTicks /\ prevTicks[p].ticks \in Nat
      BY <2>4, <2>7 DEF TypeOK, PidMap, ReadingType
    <3>2. credited[raw[p].of] <= prevTicks[p].ticks
      BY <1>2, <2>1, <3>1 DEF CreditInv
    <3>. QED
      BY <1>1, <1>2, <2>1, <2>3, <2>4, <2>7, <3>1, <3>2
  <2>. QED
    BY <2>6, <2>7
<1>4. ASSUME NEW o \in Procs, \A p \in Measured : raw[p].of # o
      PROVE  credited'[o] = credited[o]
  <2>1. Credit(rows, o) = 0
    BY <1>4 DEF Credit
  <2>. QED
    BY <1>1, <1>2, <2>1
<1>. QED
  BY <1>3, <1>4

LEMMA CreditStep == TypeOK /\ OwnerInv /\ CreditInv /\ [Next]_vars => CreditInv'
<1>. SUFFICES ASSUME TypeOK, OwnerInv, CreditInv, [Next]_vars PROVE CreditInv'
  OBVIOUS
<1>0. /\ born \in Nat
      /\ \A o \in Procs : credited[o] \in Nat /\ cpu[o] \in Nat /\ o \in Nat
      /\ \A p \in Pids : table[p] \in Nat /\ (table[p] # NoProc => table[p] \in Procs)
      /\ DOMAIN raw \subseteq Pids
      /\ \A p \in DOMAIN raw : /\ raw[p].ticks \in Nat
                               /\ raw[p].cpuOk => raw[p].of \in Procs
      /\ DOMAIN prevTicks \subseteq Pids
      /\ \A p \in DOMAIN prevTicks : prevTicks[p].of \in Procs /\ prevTicks[p].ticks \in Nat
  BY DEF TypeOK, PidMap, RawType, ReadingType, Procs, NoProc, Measured
\* Readings stay below a counter that only grows.
<1>1. CASE Tick
  <2>1. /\ \A o \in Procs : cpu'[o] \in Nat /\ cpu'[o] >= cpu[o]
        /\ table' = table /\ born' = born /\ raw' = raw /\ prevTicks' = prevTicks
        /\ credited' = credited
    BY <1>0, <1>1, CoresAssumption DEF Tick, monitor
  <2>. QED
    BY <1>0, <2>1 DEF CreditInv
\* Nothing was attributed to the newcomer.
<1>2. ASSUME NEW p \in Pids, Spawn(p) PROVE CreditInv'
  <2>1. /\ table'[p] = born + 1 /\ \A q \in Pids : q # p => table'[q] = table[q]
        /\ born' = born + 1 /\ cpu' = cpu /\ raw' = raw /\ prevTicks' = prevTicks
        /\ credited' = credited
    BY <1>2 DEF Spawn, TypeOK, monitor
  <2>2. born + 1 \in Procs /\ credited[born + 1] = 0
    BY <1>0, <1>2, BoundAssumption DEF Spawn, Procs, CreditInv
  <2>. QED
    BY <1>0, <2>1, <2>2 DEF CreditInv
<1>3. ASSUME NEW p \in Pids, Exit(p) PROVE CreditInv'
  <2>1. /\ table'[p] = NoProc /\ \A q \in Pids : q # p => table'[q] = table[q]
        /\ born' = born /\ cpu' = cpu /\ raw' = raw /\ prevTicks' = prevTicks
        /\ credited' = credited
    BY <1>3 DEF Exit, TypeOK, monitor
  <2>. QED
    BY <1>0, <2>1 DEF CreditInv
<1>4. CASE StartSample \/ TakeSnapshot \/ BadLength \/ OtherError
  BY <1>4 DEF StartSample, TakeSnapshot, BadLength, OtherError, Fail, system, CreditInv
\* The reading is the current value of the counter, of the current owner.
<1>5. ASSUME NEW p \in Pids, Query(p) PROVE CreditInv'
  <2>1. /\ table' = table /\ born' = born /\ cpu' = cpu /\ prevTicks' = prevTicks
        /\ credited' = credited
    BY <1>5 DEF Query, system
  <2>2. /\ DOMAIN raw' = DOMAIN raw \cup {p}
        /\ \A q \in DOMAIN raw : q # p => raw'[q] = raw[q]
        /\ raw'[p].of = table[p]
        /\ raw'[p].cpuOk => raw'[p].ticks = cpu[table[p]] /\ table[p] \in Procs
    BY <1>5, QueryReads
  <2>3. \A q \in DOMAIN raw' : q # p => q \in DOMAIN raw
    BY <2>2
  <2>4. raw'[p].cpuOk =>
           /\ credited[table[p]] <= cpu[table[p]]
           /\ table[p] # NoProc
           /\ p \in DOMAIN prevTicks /\ prevTicks[p].of # table[p]
                => credited[table[p]] = 0
    BY <2>2 DEF CreditInv, Procs, NoProc
  <2>. QED
    BY <1>0, <2>1, <2>2, <2>3, <2>4 DEF CreditInv
<1>6. CASE Finish
  <2>1. /\ table' = table /\ born' = born /\ cpu' = cpu
        /\ DOMAIN raw' = {} /\ DOMAIN prevTicks' = Measured
        /\ \A p \in Measured : /\ p \in DOMAIN raw /\ raw[p].cpuOk
                               /\ prevTicks'[p].ticks = raw[p].ticks
                               /\ prevTicks'[p].of = raw[p].of
    BY <1>6, FinishSaves DEF Finish, system
  <2>2. \A p \in Measured : credited'[raw[p].of] <= raw[p].ticks
    BY <1>6, CreditCovered
  <2>3. \A o \in Procs : (\A p \in Measured : raw[p].of # o)
                            => credited'[o] = credited[o]
    BY <1>6, CreditCovered
  <2>4. ASSUME NEW o \in Procs PROVE credited'[o] <= cpu[o] /\ (o > born => credited'[o] = 0)
    <3>1. CASE \E p \in Measured : raw[p].of = o
      <4>1. PICK p \in Measured : raw[p].of = o
        BY <3>1
      <4>2. raw[p].ticks <= cpu[o] /\ o <= born /\ credited'[o] <= raw[p].ticks
        BY <2>1, <2>2, <4>1 DEF CreditInv, OwnerInv
      <4>3. credited'[o] \in Nat
        BY <1>6, TypeStep DEF TypeOK
      <4>. QED
        BY <1>0, <2>1, <4>1, <4>2, <4>3
    <3>2. CASE \A p \in Measured : raw[p].of # o
      BY <2>3, <3>2 DEF CreditInv
    <3>. QED
      BY <3>1, <3>2
  <2>5. ASSUME NEW p \in Measured, table[p] \notin {NoProc, raw[p].of}
        PROVE  credited'[table[p]] = 0
    <3>1. table[p] \in Procs /\ credited[table[p]] = 0
      BY <1>0, <2>1, <2>5 DEF CreditInv
    <3>2. \A q \in Measured : raw[q].of # table[p]
      BY <1>0, <2>1, <2>5 DEF OwnerInv
    <3>. QED
      BY <2>3, <3>1, <3>2
  <2>. QED
    BY <2>1, <2>2, <2>4, <2>5 DEF CreditInv
<1>7. CASE UNCHANGED vars
  BY <1>7 DEF vars, CreditInv
<1>. QED
  BY <1>1, <1>2, <1>3, <1>4, <1>5, <1>6, <1>7 DEF Next, SampleStep

LEMMA SpeedStep == TypeOK /\ TimeInv /\ SpeedInv /\ [Next]_vars => SpeedInv'
<1>. SUFFICES ASSUME TypeOK, TimeInv, SpeedInv, [Next]_vars PROVE SpeedInv'
  OBVIOUS
<1>0. /\ Cores \in Nat /\ clock \in Nat
      /\ \A o \in Procs : cpu[o] \in Nat
      /\ \A p \in DOMAIN raw : /\ raw[p].ticks \in Nat /\ raw[p].at \in Nat
                               /\ raw[p].cpuOk => raw[p].of \in Procs
      /\ \A p \in DOMAIN prevTicks : /\ prevTicks[p].of \in Procs
                                     /\ prevTicks[p].ticks \in Nat /\ prevTicks[p].at \in Nat
  BY CoresAssumption DEF TypeOK, PidMap, RawType, ReadingType, Measured
<1>1. CASE Tick
  <2>1. /\ \A o \in Procs : cpu'[o] \in Nat /\ cpu'[o] <= cpu[o] + Cores
        /\ clock' = clock + 1 /\ raw' = raw /\ prevTicks' = prevTicks
    BY <1>0, <1>1 DEF Tick, monitor
  <2>2. \A at \in Nat : Cores * (clock' - at) = Cores * (clock - at) + Cores
    BY <1>0, <2>1
  <2>3. \A at \in Nat : Cores * (clock - at) \in Int
    BY <1>0
  <2>4. \A at, ticks \in Nat, o \in Procs :
           cpu[o] <= ticks + Cores * (clock - at)
              => cpu'[o] <= ticks + Cores * (clock' - at)
    BY <1>0, <2>1, <2>2, <2>3
  <2>. QED
    BY <1>0, <2>1, <2>4 DEF SpeedInv
<1>2. ASSUME NEW p \in Pids, Spawn(p) \/ Exit(p) PROVE SpeedInv'
  BY <1>2 DEF Spawn, Exit, monitor, SpeedInv
<1>3. CASE StartSample \/ TakeSnapshot \/ BadLength \/ OtherError
  BY <1>3 DEF StartSample, TakeSnapshot, BadLength, OtherError, Fail, system, SpeedInv
<1>4. ASSUME NEW p \in Pids, Query(p) PROVE SpeedInv'
  <2>1. clock' = clock /\ cpu' = cpu /\ prevTicks' = prevTicks
    BY <1>4 DEF Query, system
  <2>2. /\ DOMAIN raw' = DOMAIN raw \cup {p}
        /\ \A q \in DOMAIN raw : q # p => raw'[q] = raw[q]
        /\ raw'[p].of = table[p] /\ raw'[p].at = clock
        /\ raw'[p].cpuOk => raw'[p].ticks = cpu[table[p]] /\ table[p] \in Procs
    BY <1>4, QueryReads
  <2>3. raw'[p].cpuOk => cpu[raw'[p].of] <= raw'[p].ticks + Cores * (clock - raw'[p].at)
    BY <1>0, <2>2
  <2>4. ASSUME NEW q \in DOMAIN raw', q # p
        PROVE  raw'[q].cpuOk => cpu[raw'[q].of] <= raw'[q].ticks + Cores * (clock - raw'[q].at)
    BY <2>2, <2>4 DEF SpeedInv
  <2>. QED
    BY <2>1, <2>3, <2>4 DEF SpeedInv
<1>5. CASE Finish
  <2>1. clock' = clock /\ cpu' = cpu
    BY <1>5 DEF Finish, system
  <2>. QED
    BY <1>5, <2>1, FinishSaves DEF SpeedInv
<1>6. CASE UNCHANGED vars
  BY <1>6 DEF vars, SpeedInv
<1>. QED
  BY <1>1, <1>2, <1>3, <1>4, <1>5, <1>6 DEF Next, SampleStep

LEMMA Inductive == Spec => []IInv
<1>1. Init => IInv
  <2>1. Init => TypeOK
    BY TypeInit
  <2>2. Init => TimeInv /\ OwnerInv /\ CreditInv /\ SpeedInv
    BY DEF Init, Empty, NoProc, TimeInv, FreshBaseline, OwnerInv, CreditInv, SpeedInv
  <2>. QED
    BY <2>1, <2>2 DEF IInv
<1>2. IInv /\ [Next]_vars => IInv'
  BY TypeStep, TimeStep, OwnerStep, CreditStep, SpeedStep DEF IInv
<1>. QED
  BY <1>1, <1>2, PTL DEF Spec
-----------------------------------------------------------------------------
\* Every variable keeps its type; no row ever shows a negative percentage.
THEOREM TypeCorrect == Spec => []TypeOK
<1>1. IInv => TypeOK
  BY DEF IInv
<1>. QED
  BY Inductive, <1>1, PTL

\* Every baseline was read during the last sample() that succeeded
\* (process_monitor.cpp L125-L131), whatever failed in between.
THEOREM BaselineIsFresh == Spec => []FreshBaseline
<1>1. IInv => FreshBaseline
  BY DEF IInv, TimeInv
<1>. QED
  BY Inductive, <1>1, PTL

\* No CPU time is shown twice, however pids are reused and queries fail.
THEOREM NothingCountedTwice == Spec => []NoDoubleCounting
<1>1. IInv => NoDoubleCounting
  BY DEF IInv, CreditInv, NoDoubleCounting
<1>. QED
  BY Inductive, <1>1, PTL

\* The percentage of a process exceeds what its processors allow by no more
\* than the previous enumeration's length accounts for.
THEOREM SkewIsBounded == Spec => SkewBound
<1>. DEFINE Bounded ==
       Returning =>
         \A p \in Tracked :
            LET percent == result'.rows[p].cpuPercent
            IN  percent.num * (clock - last.ended)
                  <= 100 * Cores * (clock - last.began) * percent.den
<1>1. IInv /\ [Next]_vars => [Bounded]_vars
  <2>. SUFFICES ASSUME IInv, [Next]_vars, Returning, NEW p \in Tracked
                PROVE  LET percent == result'.rows[p].cpuPercent
                       IN  percent.num * (clock - last.ended)
                             <= 100 * Cores * (clock - last.began) * percent.den
    OBVIOUS
  <2>. DEFINE t == clock - last.ended
              d == raw[p].ticks - prevTicks[p].ticks
              percent == result'.rows[p].cpuPercent
              span == clock - last.began
  <2>1. Finish
    BY DEF Returning, Next, Tick, Spawn, Exit, monitor, StartSample, SampleStep,
           TakeSnapshot, BadLength, OtherError, Fail, Query, vars
  <2>2. /\ p \in DOMAIN raw /\ p \in DOMAIN prevTicks /\ raw[p].cpuOk
        /\ raw[p].of = prevTicks[p].of /\ raw[p].of \in Procs
        /\ cpu[raw[p].of] \in Nat
        /\ {raw[p].ticks, prevTicks[p].ticks, prevTicks[p].at} \subseteq Nat
        /\ {clock, last.began, last.ended} \subseteq Nat
        /\ prevTime = last.ended /\ last.began <= last.ended /\ last.ended <= clock
        /\ last.began <= prevTicks[p].at /\ prevTicks[p].at <= clock
    BY DEF IInv, TypeOK, PidMap, RawType, ReadingType, TimeInv, FreshBaseline,
           Tracked, Measured
  <2>3. d <= Cores * span
    <3>1. raw[p].ticks <= cpu[raw[p].of]
      BY <2>2 DEF IInv, CreditInv
    <3>2. cpu[raw[p].of] <= prevTicks[p].ticks + Cores * (clock - prevTicks[p].at)
      BY <2>2 DEF IInv, SpeedInv
    <3>3. Cores * (clock - prevTicks[p].at) <= Cores * span
      BY <2>2, CoresAssumption
    <3>4. Cores * (clock - prevTicks[p].at) \in Int /\ Cores * span \in Int
      BY <2>2, CoresAssumption
    <3>. QED
      BY <2>2, <3>1, <3>2, <3>3, <3>4
  <2>4. percent = CpuPercentOfWallTime(prevTicks[p].ticks, raw[p].ticks, t, TicksPerSecond)
    <3>1. t \in Int /\ result'.rows = Translate(t)
      BY <2>1, <2>2 DEF Finish
    <3>. QED
      BY <2>2, <3>1, TranslateRows DEF IInv
  <2>5. CASE t <= 0 \/ raw[p].ticks < prevTicks[p].ticks
    <3>1. percent.num = 0 /\ percent.den = 1
      BY <2>4, <2>5 DEF CpuPercentOfWallTime, Zero, Ratio
    <3>2. span \in Nat /\ Cores * span \in Nat
      BY <2>2, CoresAssumption
    <3>. QED
      BY <2>2, <3>1, <3>2, CoresAssumption
  <2>6. CASE ~(t <= 0 \/ raw[p].ticks < prevTicks[p].ticks)
    <3>1. percent.num = 100 * d /\ percent.den = t
      BY <2>2, <2>4, <2>6 DEF CpuPercentOfWallTime, Ratio, TicksPerSecond
    <3>2. t \in Nat /\ d \in Nat /\ span \in Nat /\ Cores * span \in Nat
      BY <2>2, <2>6, CoresAssumption
    <3>3. \A a, b, c \in Nat : a <= b => 100 * a * c <= 100 * b * c
      OBVIOUS
    <3>4. 100 * d * t <= 100 * (Cores * span) * t
      BY <2>3, <3>2, <3>3
    <3>5. 100 * (Cores * span) = 100 * Cores * span
      BY <3>2, CoresAssumption
    <3>. QED
      BY <3>1, <3>4, <3>5
  <2>. QED
    BY <2>5, <2>6
<1>. QED
  BY Inductive, <1>1, PTL DEF Spec, SkewBound
=============================================================================
