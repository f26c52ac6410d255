----------------------------- MODULE CpuMonitor -----------------------------
(***************************************************************************)
(* src/src/platform/windows/cpu_monitor.cpp over tick counters that run on *)
(* and a GetSystemTimes that may fail at any call, the one made by the     *)
(* constructor included.  One sample() is one system call, hence one step. *)
(***************************************************************************)
EXTENDS Integers, CoreMath

CONSTANTS
    Cores,      \* processors: ticks per unit of time, busy and idle together
    MaxTicks    \* bound: total ticks

ASSUME CoresAssumption == Cores \in Nat \ {0}

\* The system's counters since boot, and the monitor.
VARIABLES
    total,      \* kernel + user; Windows counts idle time as kernel time
    idle,
    previous,   \* previous_: [succeeded, idle, total]
    result      \* what sample() returned last: [status, percent]

\* History variables: no step of the monitor reads them.
VARIABLES
    everRead,   \* a reading has succeeded
    firstBusy,  \* busy ticks at the first that did, and
    lastBusy,   \* at the last
    shown       \* busy ticks that all the percentages so far stand for

vars == <<total, idle, previous, result, everRead, firstBusy, lastBusy, shown>>

Failed == [succeeded |-> FALSE, idle |-> 0, total |-> 0]
Busy   == total - idle

\* The outcomes of read_raw_cpu_times().
Readings == {Failed, [succeeded |-> TRUE, idle |-> idle, total |-> total]}
-----------------------------------------------------------------------------
\* The constructor takes the first reading.
Init ==
    /\ total = 0
    /\ idle = 0
    /\ previous \in Readings
    /\ result = [status |-> "none", percent |-> Zero]
    /\ everRead = previous.succeeded
    /\ firstBusy = 0
    /\ lastBusy = 0
    /\ shown = 0

\* A unit of time: every processor is busy or idle.
Tick ==
    /\ total < MaxTicks
    /\ total' = total + Cores
    /\ \E i \in 0 .. Cores : idle' = idle + i
    /\ UNCHANGED <<previous, result, everRead, firstBusy, lastBusy, shown>>

\* translate(): without a baseline there is nothing to subtract, whatever the
\* current reading is.
Translate(current) ==
    IF ~previous.succeeded     THEN [status |-> "unavailable", percent |-> Zero]
    ELSE IF ~current.succeeded THEN [status |-> "failed", percent |-> Zero]
    ELSE [status  |-> "ok",
          percent |-> CpuPercentFromTicks(previous.idle, previous.total,
                                          current.idle, current.total)]

\* Mutated: a failed reading becomes the baseline.
Refresh_Always(current) == current

\* Mutated: only a sample() that returned a value refreshes the baseline.
Refresh_OnSuccess(current) ==
    IF Translate(current).status = "ok" THEN current ELSE previous

\* The baseline after a sample: the last reading that succeeded.
Refresh(current) == IF current.succeeded THEN current ELSE previous

\* The busy ticks a percentage stands for: its numerator.
Sample(current) ==
    /\ result' = Translate(current)
    /\ previous' = Refresh(current)
    /\ shown' = shown + (result'.percent.num \div 100)
    /\ everRead' = (everRead \/ current.succeeded)
    /\ firstBusy' = IF current.succeeded /\ ~everRead THEN Busy ELSE firstBusy
    /\ lastBusy' = IF current.succeeded THEN Busy ELSE lastBusy
    /\ UNCHANGED <<total, idle>>

Next == Tick \/ \E current \in Readings : Sample(current)

Spec == Init /\ [][Next]_vars
-----------------------------------------------------------------------------
(* Properties. *)

\* Every variable keeps its type, and a percentage is a number from 0 to 100,
\* two samples within one tick of the counters included.
TypeOK ==
    /\ total \in Nat /\ idle \in 0 .. total
    /\ previous \in [succeeded : BOOLEAN, idle : Nat, total : Nat]
    /\ result.status \in {"none", "ok", "failed", "unavailable"}
    /\ IsRatio(result.percent) /\ AtLeast(result.percent, 0) /\ AtMost(result.percent, 100)
    /\ everRead \in BOOLEAN
    /\ {firstBusy, lastBusy, shown} \subseteq Nat

\* The windows of the percentages tile the time from the first reading that
\* succeeded to the last: all the busy ticks in it are shown, none twice, and
\* none lost to a sample that failed in between (sample(), L62-L67).
BusyAccounted == shown = lastBusy - firstBusy

\* A failed reading never strands the monitor: once any reading has succeeded,
\* every sample() whose own reading succeeds returns a percentage, and
\* "unavailable" is returned only before (the comment at L63-L65).
NeverStranded ==
    [][\A current \in Readings : Sample(current) =>
          /\ everRead /\ current.succeeded => result'.status = "ok"
          /\ everRead => result'.status # "unavailable"]_vars
=============================================================================
