--------------------------- MODULE ProcessMonitor ---------------------------
(***************************************************************************)
(* src/src/platform/windows/process_monitor.cpp over a process table that  *)
(* changes while it is being read.                                         *)
(*                                                                         *)
(* sample() takes a Toolhelp snapshot (retrying ERROR_BAD_LENGTH), then    *)
(* opens and queries the processes of the snapshot one by one by pid, and  *)
(* only then reads the clock.  Between any two of these steps processes    *)
(* run, exit, and start - possibly under the pid of one that exited.       *)
(*                                                                         *)
(* A process (not a pid) is a number in Procs, in order of creation.       *)
(***************************************************************************)
EXTENDS Integers, FiniteSets, CoreMath

CONSTANTS
    Pids,           \* process identifiers, reused by the system
    MaxProcs,       \* bound: processes ever created
    MaxTime,        \* bound: clock
    Cores,          \* CPU ticks one process can use per unit of time
    MaxAttempts     \* attempts at CreateToolhelp32Snapshot (4)

ASSUME CoresAssumption == Cores \in Nat \ {0}
ASSUME BoundAssumption == {MaxProcs, MaxTime, MaxAttempts} \subseteq Nat

Procs          == 1 .. MaxProcs
NoProc         == 0
TicksPerSecond == 1     \* a unit of CPU time is a unit of the clock

\* The system.
VARIABLES
    clock,      \* steady_clock
    table,      \* per pid, the process that has it, or NoProc
    born,       \* processes created so far
    cpu         \* per process, kernel + user ticks since its creation

\* The monitor: previous_ticks_, previous_sample_time_ and the locals of
\* sample().  A reading remembers, as history, whose it is and when it was made.
VARIABLES
    prevTicks,  \* per pid with a baseline: [ticks, of, at]
    prevTime,
    pc,         \* "idle" (outside sample()), "snapshot", "query"
    attempt,
    entries,    \* entries not yet visited: per pid, the process that was named
    raw,        \* per visited pid: [name, cpuOk, ticks, memOk, of, at]
    result      \* what sample() returned, until the next call: [status, rows]

\* History variables.
VARIABLES
    began,      \* when the enumeration under way began
    last,       \* when the last successful sample() began its enumeration and ended
    credited    \* per process, the CPU ticks all the rows so far attributed to it

system  == <<clock, table, born, cpu>>
vars    == <<clock, table, born, cpu, prevTicks, prevTime, pc, attempt, entries,
             raw, result, began, last, credited>>

Empty == [p \in {} |-> 0]
-----------------------------------------------------------------------------
Init ==
    /\ clock = 0
    /\ table \in [Pids -> {NoProc}]
    /\ born = 0
    /\ cpu = [o \in Procs |-> 0]
    /\ prevTicks = Empty
    /\ prevTime = 0
    /\ pc = "idle"
    /\ attempt = 0
    /\ entries = Empty
    /\ raw = Empty
    /\ result = [status |-> "none", rows |-> Empty]
    /\ began = 0
    /\ last = [began |-> 0, ended |-> 0]
    /\ credited = [o \in Procs |-> 0]

monitor == <<prevTicks, prevTime, pc, attempt, entries, raw, result,
             began, last, credited>>

Live == {table[p] : p \in Pids} \ {NoProc}

\* Time passes, and every live process uses some of it on up to Cores
\* processors.
Tick ==
    /\ clock < MaxTime
    /\ clock' = clock + 1
    /\ \E used \in [Live -> 0 .. Cores] :
           cpu' = [o \in Procs |-> IF o \in Live THEN cpu[o] + used[o] ELSE cpu[o]]
    /\ UNCHANGED <<table, born, monitor>>

\* A process is created under any free pid.
Spawn(p) ==
    /\ table[p] = NoProc /\ born < MaxProcs
    /\ born' = born + 1
    /\ table' = [table EXCEPT ![p] = born + 1]
    /\ UNCHANGED <<clock, cpu, monitor>>

Exit(p) ==
    /\ table[p] # NoProc
    /\ table' = [table EXCEPT ![p] = NoProc]
    /\ UNCHANGED <<clock, born, cpu, monitor>>
-----------------------------------------------------------------------------
(* sample() *)

\* The caller has dropped what the previous call returned.
StartSample ==
    /\ pc = "idle"
    /\ pc' = "snapshot"
    /\ result' = [status |-> "none", rows |-> Empty]
    /\ UNCHANGED <<system, prevTicks, prevTime, attempt, entries, raw,
                   began, last, credited>>

\* CreateToolhelp32Snapshot succeeds.
TakeSnapshot ==
    /\ pc = "snapshot"
    /\ pc' = "query"
    /\ entries' = [p \in {q \in Pids : table[q] # NoProc} |-> table[p]]
    /\ attempt' = 0
    /\ began' = clock
    /\ UNCHANGED <<system, prevTicks, prevTime, raw, result, last, credited>>

\* The early return leaves the baseline as it was.
Fail ==
    /\ pc' = "idle"
    /\ attempt' = 0
    /\ result' = [status |-> "failed", rows |-> Empty]

\* Mutated: the attempts are never used up.
BadLength_Unbounded ==
    /\ pc = "snapshot"
    /\ attempt' = (attempt + 1) % MaxAttempts
    /\ UNCHANGED <<system, prevTicks, prevTime, pc, entries, raw, result,
                   began, last, credited>>

\* ... or fails with ERROR_BAD_LENGTH, and is retried while attempts remain.
BadLength ==
    /\ pc = "snapshot"
    /\ IF attempt + 1 < MaxAttempts
       THEN attempt' = attempt + 1 /\ UNCHANGED <<pc, result>>
       ELSE Fail
    /\ UNCHANGED <<system, prevTicks, prevTime, entries, raw, began, last, credited>>

\* Mutated: the sample time is taken before the early return.
OtherError_Restarts ==
    /\ pc = "snapshot"
    /\ Fail
    /\ prevTime' = clock
    /\ UNCHANGED <<system, prevTicks, entries, raw, began, last, credited>>

\* ... or fails otherwise, and is not retried.
OtherError ==
    /\ pc = "snapshot"
    /\ Fail
    /\ UNCHANGED <<system, prevTicks, prevTime, entries, raw, began, last, credited>>

\* OpenProcess, GetProcessTimes and GetProcessMemoryInfo on the pid of one
\* entry.  The pid may be gone, access may be denied, and each query may fail
\* on its own; the process found is the one that has the pid now.
Query(p) ==
    /\ pc = "query" /\ p \in DOMAIN entries
    /\ \E cpuOk, memOk \in (IF table[p] = NoProc THEN {FALSE} ELSE BOOLEAN) :
           raw' = [q \in DOMAIN raw \cup {p} |->
                      IF q # p THEN raw[q]
                      ELSE [name  |-> entries[p],
                            cpuOk |-> cpuOk,
                            ticks |-> IF cpuOk THEN cpu[table[p]] ELSE 0,
                            memOk |-> memOk,
                            of    |-> table[p],
                            at    |-> clock]]
    /\ entries' = [q \in DOMAIN entries \ {p} |-> entries[q]]
    /\ UNCHANGED <<system, prevTicks, prevTime, pc, attempt, result,
                   began, last, credited>>

\* translate(): one row per raw entry; `resident` is the process whose working
\* set the row shows, NoProc when it shows 0.
Translate(elapsed) ==
    [p \in DOMAIN raw |->
        [name       |-> raw[p].name,
         cpuPercent |-> IF raw[p].cpuOk /\ p \in DOMAIN prevTicks
                        THEN CpuPercentOfWallTime(prevTicks[p].ticks, raw[p].ticks,
                                                  elapsed, TicksPerSecond)
                        ELSE Zero,
         resident   |-> IF raw[p].memOk THEN raw[p].of ELSE NoProc]]

\* Mutated: a failed GetProcessTimes leaves a baseline of 0 ticks.
Measured_All == DOMAIN raw

Measured == {p \in DOMAIN raw : raw[p].cpuOk}

\* Mutated: previous_ticks_.clear() is missing; emplace keeps what is there.
Baseline_NotCleared ==
    [p \in DOMAIN prevTicks \cup Measured |->
        IF p \in DOMAIN prevTicks THEN prevTicks[p]
        ELSE [ticks |-> raw[p].ticks, of |-> raw[p].of, at |-> raw[p].at]]

Baseline ==
    [p \in Measured |-> [ticks |-> raw[p].ticks, of |-> raw[p].of, at |-> raw[p].at]]

\* The ticks that the rows attribute to a process.
TicksIn(row)    == row.cpuPercent.num \div 100
Credit(rows, o) ==
    IF \E p \in Measured : raw[p].of = o
    THEN TicksIn(rows[CHOOSE p \in Measured : raw[p].of = o])
    ELSE 0

\* Process32First or Process32Next returned FALSE.  The code takes every FALSE
\* for the end of the snapshot, so entries may be left.
Finish ==
    /\ pc = "query"
    /\ LET rows == Translate(clock - prevTime)
       IN  /\ result' = [status |-> "ok", rows |-> rows]
           /\ credited' = [o \in Procs |-> credited[o] + Credit(rows, o)]
    /\ prevTicks' = Baseline
    /\ prevTime' = clock
    /\ last' = [began |-> began, ended |-> clock]
    /\ pc' = "idle"
    /\ entries' = Empty
    /\ raw' = Empty
    /\ began' = 0
    /\ UNCHANGED <<system, attempt>>

SampleStep ==
    \/ TakeSnapshot \/ BadLength \/ OtherError \/ Finish
    \/ \E p \in Pids : Query(p)

Next ==
    \/ Tick
    \/ \E p \in Pids : Spawn(p) \/ Exit(p)
    \/ StartSample
    \/ SampleStep

Spec     == Init /\ [][Next]_vars
FairSpec == Spec /\ WF_vars(SampleStep)
-----------------------------------------------------------------------------
(* Properties. *)

Returning == pc = "query" /\ pc' = "idle"

\* Rows whose two readings are of one process.
Tracked == {p \in Measured \cap DOMAIN prevTicks : raw[p].of = prevTicks[p].of}

RawType     == [name : Procs, cpuOk : BOOLEAN, ticks : Nat, memOk : BOOLEAN,
                of : Procs \cup {NoProc}, at : Nat]
ReadingType == [ticks : Nat, of : Procs, at : Nat]
RowType     == [name : Procs, cpuPercent : [num : Nat, den : Nat \ {0}],
                resident : Procs \cup {NoProc}]

\* A map from some of the pids, with values in T.
PidMap(f, T) == f \in [DOMAIN f -> T] /\ DOMAIN f \subseteq Pids

\* Every variable keeps its type.  In particular no row shows a negative
\* percentage: the ticks under a reused pid may well be fewer than before.
TypeOK ==
    /\ clock \in Nat /\ prevTime \in Nat /\ began \in Nat
    /\ last \in [began : Nat, ended : Nat]
    /\ table \in [Pids -> Procs \cup {NoProc}]
    /\ born \in 0 .. MaxProcs
    /\ cpu \in [Procs -> Nat]
    /\ credited \in [Procs -> Nat]
    /\ pc \in {"idle", "snapshot", "query"}
    /\ attempt \in Nat /\ (attempt > 0 => attempt < MaxAttempts)
    /\ PidMap(prevTicks, ReadingType)
    /\ PidMap(entries, Procs)
    /\ PidMap(raw, RawType) /\ \A p \in Measured : raw[p].of \in Procs
    /\ result.status \in {"none", "ok", "failed"}
    /\ PidMap(result.rows, RowType)

\* Every baseline was read during the last sample() that succeeded, however
\* many failed since: no reading of a pid outlives the next success, although
\* emplace() would keep it (process_monitor.cpp L125-L131).
FreshBaseline ==
    /\ prevTime = last.ended
    /\ \A p \in DOMAIN prevTicks : prevTicks[p].at \in last.began .. last.ended

\* No CPU time is shown twice: over all samples, failed ones, failed queries
\* and reused pids included, the rows measured on a process account for no
\* more CPU time than it has used.
NoDoubleCounting == \A o \in Procs : credited[o] <= cpu[o]

\* The readings of one process are not elapsed seconds apart (the clock is
\* read once, after the enumeration), but the error this makes is bounded by
\* the length of the previous enumeration: with t since that sample ended
\* and d for how long it took, a row shows at most 100 * Cores * (t + d) / t.
SkewBound ==
    [][Returning =>
         \A p \in Tracked :
            LET percent == result'.rows[p].cpuPercent
            IN  percent.num * (clock - last.ended)
                  <= 100 * Cores * (clock - last.began) * percent.den]_vars

\* A sample() that has begun returns, even if the process table changes size
\* at every attempt and every query fails (the retry loop of L63-L69).
SampleReturns == pc # "idle" ~> pc = "idle"
=============================================================================
