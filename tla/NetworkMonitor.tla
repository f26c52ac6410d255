--------------------------- MODULE NetworkMonitor ---------------------------
(***************************************************************************)
(* src/src/platform/windows/network_monitor.cpp over interfaces that come  *)
(* and go, change state, and whose byte counters wrap or start again.      *)
(*                                                                         *)
(* sample() reads the whole table at once (GetIfTable2) and the clock      *)
(* afterwards; what the interfaces do in between is seen by the next call. *)
(***************************************************************************)
EXTENDS Integers, CoreMath

CONSTANTS
    Luids,       \* NET_LUID values
    Adapters,    \* those that are neither loopback nor NDIS filter rows
    CounterSize, \* the octet counters hold 0 .. CounterSize - 1 (2^64)
    MaxTraffic,  \* bound: octets carried per interface and direction
    MaxRestarts, \* bound: how often a counter of an interface starts again
    MaxTime      \* bound: clock

ASSUME AdapterAssumption == Adapters \subseteq Luids
ASSUME CounterAssumption == CounterSize \in Nat \ {0}

Dirs == {"received", "sent"}

\* The system.
VARIABLES
    clock,      \* steady_clock
    present,    \* the interfaces in the table
    up,         \* those whose OperStatus is IfOperStatusUp
    octets      \* per interface and direction, InOctets / OutOctets

\* The monitor: previous_bytes_, previous_sample_time_ and sample()'s locals.
\* A reading is [octets, carried, epoch]; the last two are history.
VARIABLES
    prevBytes,  \* per interface with a baseline, its reading
    prevTime,
    pc,         \* "idle", or "read": the table is read, the clock is not
    raw,        \* per interface of the table, its reading
    shown,      \* those of them that translate() does not drop
    result      \* [status, rows], until the next call

\* History variables.
VARIABLES
    carried,    \* octets each interface really carried, per direction
    epoch,      \* how often its counters wrapped or started again
    reported,   \* octets that all the rows so far stand for
    lastEnd,    \* when the last successful sample() ended
    lastTable   \* the readings of the table it copied

system  == <<clock, present, up, octets, carried, epoch>>
monitor == <<prevBytes, prevTime, pc, raw, shown, result, reported, lastEnd,
             lastTable>>
vars    == <<clock, present, up, octets, carried, epoch,
             prevBytes, prevTime, pc, raw, shown, result, reported, lastEnd,
             lastTable>>

Empty   == [l \in {} |-> 0]
Nothing == [d \in Dirs |-> 0]
-----------------------------------------------------------------------------
Init ==
    /\ clock = 0
    /\ present \in SUBSET Luids
    /\ up \in SUBSET present
    /\ octets = [l \in Luids |-> Nothing]
    /\ prevBytes = Empty
    /\ prevTime = 0
    /\ pc = "idle"
    /\ raw = Empty
    /\ shown = {}
    /\ result = [status |-> "none", rows |-> Empty]
    /\ carried = [l \in Luids |-> Nothing]
    /\ epoch = [l \in Luids |-> 0]
    /\ reported = [l \in Luids |-> Nothing]
    /\ lastEnd = 0
    /\ lastTable = Empty

Tick ==
    /\ clock < MaxTime
    /\ clock' = clock + 1
    /\ UNCHANGED <<present, up, octets, carried, epoch, monitor>>

\* An interface carries an octet; its counter may wrap.
Carry(l, d) ==
    /\ l \in up /\ carried[l][d] < MaxTraffic
    /\ carried' = [carried EXCEPT ![l][d] = @ + 1]
    /\ IF octets[l][d] + 1 < CounterSize
       THEN octets' = [octets EXCEPT ![l][d] = @ + 1] /\ UNCHANGED epoch
       ELSE /\ epoch[l] < MaxRestarts
            /\ octets' = [octets EXCEPT ![l][d] = 0]
            /\ epoch' = [epoch EXCEPT ![l] = @ + 1]
    /\ UNCHANGED <<clock, present, up, monitor>>

\* The link of an interface goes up or down.
LinkChange(l) ==
    /\ l \in present
    /\ up' = IF l \in up THEN up \ {l} ELSE up \cup {l}
    /\ UNCHANGED <<clock, present, octets, carried, epoch, monitor>>

\* A driver restarts, and the counters with it.
Restart(l) ==
    /\ l \in present /\ epoch[l] < MaxRestarts
    /\ octets' = [octets EXCEPT ![l] = Nothing]
    /\ epoch' = [epoch EXCEPT ![l] = @ + 1]
    /\ UNCHANGED <<clock, present, up, carried, monitor>>

\* An interface disappears, or (re)appears under its old LUID counting from 0.
Remove(l) ==
    /\ l \in present
    /\ present' = present \ {l} /\ up' = up \ {l}
    /\ UNCHANGED <<clock, octets, carried, epoch, monitor>>

Appear(l) ==
    /\ l \notin present /\ epoch[l] < MaxRestarts
    /\ present' = present \cup {l}
    /\ octets' = [octets EXCEPT ![l] = Nothing]
    /\ epoch' = [epoch EXCEPT ![l] = @ + 1]
    /\ UNCHANGED <<clock, up, carried, monitor>>
-----------------------------------------------------------------------------
(* sample() *)

\* GetIfTable2 fails: an early return that leaves the baseline as it was.
TableFails ==
    /\ pc = "idle"
    /\ result' = [status |-> "failed", rows |-> Empty]
    /\ UNCHANGED <<system, prevBytes, prevTime, pc, raw, shown, reported, lastEnd,
                   lastTable>>

\* GetIfTable2 succeeds: every row is copied, with what translate() filters on.
ReadTable ==
    /\ pc = "idle"
    /\ pc' = "read"
    /\ raw' = [l \in present |-> [octets  |-> octets[l],
                                  carried |-> carried[l],
                                  epoch   |-> epoch[l]]]
    /\ shown' = up \cap Adapters
    /\ result' = [status |-> "none", rows |-> Empty]
    /\ UNCHANGED <<system, prevBytes, prevTime, reported, lastEnd, lastTable>>

\* translate(): a row per interface that is up and neither loopback nor a
\* filter, with a rate per direction.
Translate(elapsed) ==
    [l \in shown |->
        [d \in Dirs |->
            IF l \in DOMAIN prevBytes
            THEN RatePerSecond(prevBytes[l].octets[d], raw[l].octets[d], elapsed)
            ELSE Zero]]

\* Mutated: only the interfaces shown get a baseline.
Baseline_ShownOnly == [l \in shown |-> raw[l]]

\* Mutated: previous_bytes_.clear() is missing; emplace keeps what is there.
Baseline_NotCleared ==
    [l \in DOMAIN raw \cup DOMAIN prevBytes |->
        IF l \in DOMAIN prevBytes THEN prevBytes[l] ELSE raw[l]]

\* previous_bytes_ is cleared and refilled from every row of the table, the
\* ones translate() drops included.
Baseline == raw

\* The octets that a rate in a row stands for: its numerator.
Finish ==
    /\ pc = "read"
    /\ LET rows == Translate(clock - prevTime)
       IN  /\ result' = [status |-> "ok", rows |-> rows]
           /\ reported' = [l \in Luids |-> [d \in Dirs |->
                  reported[l][d] + IF l \in shown THEN rows[l][d].num ELSE 0]]
    /\ prevBytes' = Baseline
    /\ prevTime' = clock
    /\ lastEnd' = clock
    /\ lastTable' = raw
    /\ pc' = "idle"
    /\ raw' = Empty
    /\ shown' = {}
    /\ UNCHANGED system

Next ==
    \/ Tick
    \/ \E l \in Luids :
          \/ \E d \in Dirs : Carry(l, d)
          \/ LinkChange(l) \/ Restart(l) \/ Remove(l) \/ Appear(l)
    \/ TableFails \/ ReadTable \/ Finish

Spec == Init /\ [][Next]_vars
-----------------------------------------------------------------------------
(* Properties. *)

PerDir(T)   == [Dirs -> T]
ReadingType == [octets : PerDir(Nat), carried : PerDir(Nat), epoch : Nat]

\* A map from some of the interfaces, with values in T.
LuidMap(f, T) == f \in [DOMAIN f -> T] /\ DOMAIN f \subseteq Luids

\* Every variable keeps its type.  In particular no row shows a negative rate:
\* a counter may well be below its baseline.
TypeOK ==
    /\ clock \in Nat /\ prevTime \in Nat /\ lastEnd \in Nat
    /\ present \subseteq Luids /\ up \subseteq present
    /\ octets \in [Luids -> PerDir(0 .. CounterSize - 1)]
    /\ carried \in [Luids -> PerDir(Nat)]
    /\ reported \in [Luids -> PerDir(Nat)]
    /\ epoch \in [Luids -> Nat]
    /\ pc \in {"idle", "read"}
    /\ LuidMap(prevBytes, ReadingType)
    /\ LuidMap(lastTable, ReadingType)
    /\ LuidMap(raw, ReadingType)
    /\ shown \subseteq DOMAIN raw
    /\ result.status \in {"none", "ok", "failed"}
    /\ LuidMap(result.rows, PerDir([num : Nat, den : Nat \ {0}]))

\* Over all samples the rows of an interface stand for no more octets than it
\* carried: no wrap, driver restart, removal or failed sample makes up
\* traffic (translate, L47-L52; the refill of L94-L97).
NeverOverReports ==
    \A l \in Luids, d \in Dirs : reported[l][d] <= carried[l][d]

\* And none is lost: an interface that was in the table of the last successful
\* sample, shown then or not, and whose counters ran on since, is shown with
\* exactly what it carried between the two tables, over the time since that
\* sample ended - the samples that failed in between included.  (Two samples
\* at the very same instant of steady_clock are shown as 0.)
NothingMissed ==
    [][pc = "read" /\ pc' = "idle" /\ clock > lastEnd =>
         \A l \in shown \cap DOMAIN lastTable :
            raw[l].epoch = lastTable[l].epoch =>
               \A d \in Dirs :
                  result'.rows[l][d] = Ratio(raw[l].carried[d] - lastTable[l].carried[d],
                                             clock - lastEnd)]_vars
=============================================================================
