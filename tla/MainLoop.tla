------------------------------ MODULE MainLoop ------------------------------
(***************************************************************************)
(* The control flow of src/src/main.cpp: argument outcome, baseline poll,  *)
(* --once, the live loop with its interruptible sleep, and the console     *)
(* control handler that Windows runs on a thread of its own.               *)
(*                                                                         *)
(* Time is counted in abstract units and passes only while the main thread *)
(* is blocked, in engine.poll() or in sleep_for; everything else main does *)
(* takes no time.  A poll lasts at most MaxPoll and a sleep overshoots by  *)
(* at most MaxOversleep: both are bounds of the environment, not of the    *)
(* code.  What a poll computes is the business of other modules.           *)
(***************************************************************************)
EXTENDS Naturals

CONSTANTS
    Intervals,      \* the refresh intervals parse_args accepts
    Slice,          \* interruptible_sleep's slice (100 ms)
    BaselineWindow, \* kBaselineWindow (200 ms)
    MaxPoll,        \* the longest engine.poll() + render + print
    MaxOversleep,   \* the most a sleep_for overshoots its duration
    Events          \* the console control events the environment may raise

ASSUME IntervalAssumption == Intervals \subseteq Nat \ {0}
ASSUME SliceAssumption    == Slice \in Nat \ {0}
ASSUME TimeAssumption     == {BaselineWindow, MaxPoll, MaxOversleep} \subseteq Nat
ASSUME EventAssumption    ==
    Events \subseteq {"CTRL_C", "CTRL_BREAK", "CTRL_CLOSE", "CTRL_SHUTDOWN"}

VARIABLES
    pc,         \* where the main thread is
    config,     \* the outcome of parse_args: mode and interval
    installed,  \* console_ctrl_handler is registered with Windows
    requested,  \* g_shutdown_requested
    handler,    \* per event, the thread Windows runs the handler on
    remaining,  \* interruptible_sleep's `remaining`
    spent       \* time spent so far in the current blocking call

\* History variables: no step reads them.
VARIABLES
    latency,    \* time since g_shutdown_requested became true (saturates)
    late,       \* frames painted since then (saturates at 2)
    slept       \* time slept in the current interruptible_sleep

history == <<latency, late, slept>>
vars    == <<pc, config, installed, requested, handler, remaining, spent,
             latency, late, slept>>

Min2(a, b) == IF a <= b THEN a ELSE b
Max2(a, b) == IF a >= b THEN a ELSE b

Modes       == {"error", "help", "once", "live"}
\* Mutated: the case for CTRL_BREAK_EVENT is missing.
Handled_NoBreak == {"CTRL_C", "CTRL_CLOSE"}
Handled     == {"CTRL_C", "CTRL_BREAK", "CTRL_CLOSE"}
Polling     == {"prime", "once", "poll"}
Blocking    == Polling \cup {"baseline", "slice"}
Loop        == {"check", "poll", "nap", "slice"}
Terminated  == {"exited", "killed"}
Locations   == Blocking \cup Loop \cup Terminated \cup {"parse", "install", "bye"}

\* Mutated: the last slice is not clipped to what remains.
ThisSlice_Unclipped == Slice
ThisSlice     == Min2(Slice, remaining)
Limit         == IF pc \in Polling THEN MaxPoll
                 ELSE (IF pc = "slice" THEN ThisSlice ELSE BaselineWindow) + MaxOversleep
ResponseBound == Max2(MaxPoll, Slice + MaxOversleep)
Running       == pc \notin Terminated
-----------------------------------------------------------------------------
Init ==
    /\ pc = "parse"
    /\ config \in [mode : Modes, interval : Intervals]
    /\ installed = FALSE
    /\ requested = FALSE
    /\ handler = [e \in Events |-> "idle"]
    /\ remaining = 0
    /\ spent = 0
    /\ latency = 0
    /\ late = 0
    /\ slept = 0

Goto(from, to) == pc = from /\ pc' = to

\* A bad argument ends with status 1, --help with status 0; otherwise the
\* engine is built and its throwaway poll starts.
ParseArgs ==
    /\ Goto("parse", IF config.mode \in {"error", "help"} THEN "exited" ELSE "prime")
    /\ UNCHANGED <<config, installed, requested, handler, remaining, spent, history>>

PrimeReturns ==
    /\ Goto("prime", "baseline")
    /\ spent' = 0
    /\ UNCHANGED <<config, installed, requested, handler, remaining, history>>

BaselineOver ==
    /\ spent >= BaselineWindow
    /\ Goto("baseline", IF config.mode = "once" THEN "once" ELSE "install")
    /\ spent' = 0
    /\ UNCHANGED <<config, installed, requested, handler, remaining, history>>

\* --once: one frame, then return 0.
PrintOnce ==
    /\ Goto("once", "exited")
    /\ spent' = 0
    /\ UNCHANGED <<config, installed, requested, handler, remaining, history>>

\* The result of SetConsoleCtrlHandler is ignored: it may have failed.
InstallHandler ==
    /\ Goto("install", "check")
    /\ installed' \in BOOLEAN
    /\ UNCHANGED <<config, requested, handler, remaining, spent, history>>

\* Mutated: while (true).
CheckLoop_Forever ==
    /\ Goto("check", "poll")
    /\ UNCHANGED <<config, installed, requested, handler, remaining, spent, history>>

CheckLoop ==
    /\ Goto("check", IF requested THEN "bye" ELSE "poll")
    /\ UNCHANGED <<config, installed, requested, handler, remaining, spent, history>>

\* The poll returns, its frame is painted over the last one, and
\* interruptible_sleep(config.interval) begins.
PollReturns ==
    /\ Goto("poll", "nap")
    /\ spent' = 0
    /\ remaining' = config.interval
    /\ slept' = 0
    /\ late' = IF requested THEN Min2(late + 1, 2) ELSE late
    /\ UNCHANGED <<config, installed, requested, handler, latency>>

\* Mutated: the sleep does not look at the flag.
Nap_Deaf ==
    /\ Goto("nap", IF remaining > 0 THEN "slice" ELSE "check")
    /\ UNCHANGED <<config, installed, requested, handler, remaining, spent, history>>

\* Mutated: only whole slices are slept.
Nap_WholeSlices ==
    /\ Goto("nap", IF remaining >= Slice /\ ~requested THEN "slice" ELSE "check")
    /\ UNCHANGED <<config, installed, requested, handler, remaining, spent, history>>

\* Mutated: reading the flag consumes it (exchange(false) for load()).
Nap_Consumes ==
    /\ Goto("nap", IF remaining > 0 /\ ~requested THEN "slice" ELSE "check")
    /\ requested' = FALSE
    /\ UNCHANGED <<config, installed, handler, remaining, spent, history>>

\* The loop condition of interruptible_sleep.
Nap ==
    /\ Goto("nap", IF remaining > 0 /\ ~requested THEN "slice" ELSE "check")
    /\ UNCHANGED <<config, installed, requested, handler, remaining, spent, history>>

\* Mutated: `remaining` is not decremented.
SliceOver_NoProgress ==
    /\ spent >= ThisSlice
    /\ Goto("slice", "nap")
    /\ slept' = slept
    /\ spent' = 0
    /\ UNCHANGED <<config, installed, requested, handler, remaining, latency, late>>

SliceOver ==
    /\ spent >= ThisSlice
    /\ Goto("slice", "nap")
    /\ remaining' = remaining - ThisSlice
    /\ slept' = slept + spent
    /\ spent' = 0
    /\ UNCHANGED <<config, installed, requested, handler, latency, late>>

SayGoodbye ==
    /\ Goto("bye", "exited")
    /\ UNCHANGED <<config, installed, requested, handler, remaining, spent, history>>

MainStep ==
    \/ ParseArgs \/ PrimeReturns \/ BaselineOver \/ PrintOnce \/ InstallHandler
    \/ CheckLoop \/ PollReturns \/ Nap \/ SliceOver \/ SayGoodbye
-----------------------------------------------------------------------------
\* One unit of time, while the main thread is blocked in a call that is not
\* yet overdue.
Tick ==
    /\ pc \in Blocking /\ spent < Limit
    /\ spent' = spent + 1
    /\ latency' = IF requested THEN Min2(latency + 1, ResponseBound + 1) ELSE latency
    /\ UNCHANGED <<pc, config, installed, requested, handler, remaining, late, slept>>

\* A control event arrives.  Windows runs the registered handler on a new
\* thread; with none registered, the default handler ends the process.
\* (One thread in flight per kind of event.)
RaiseEvent(e) ==
    /\ Running /\ handler[e] = "idle"
    /\ IF installed
       THEN handler' = [handler EXCEPT ![e] = "entered"] /\ UNCHANGED pc
       ELSE pc' = "killed" /\ UNCHANGED handler
    /\ UNCHANGED <<config, installed, requested, remaining, spent, history>>

\* console_ctrl_handler: store the flag, or return FALSE and leave the event
\* to the default handler, which ends the process.
HandlerRuns(e) ==
    /\ Running /\ handler[e] = "entered"
    /\ IF e \in Handled
       THEN /\ requested' = TRUE
            /\ handler' = [handler EXCEPT ![e] = "stored"]
            /\ UNCHANGED pc
       ELSE pc' = "killed" /\ UNCHANGED <<requested, handler>>
    /\ UNCHANGED <<config, installed, remaining, spent, history>>

\* The handler returns TRUE.  Windows goes on for Ctrl+C and Ctrl+Break, and
\* ends the process for CTRL_CLOSE_EVENT whatever the handler returned.
HandlerReturns(e) ==
    /\ Running /\ handler[e] = "stored"
    /\ handler' = [handler EXCEPT ![e] = "idle"]
    /\ IF e = "CTRL_CLOSE" THEN pc' = "killed" ELSE UNCHANGED pc
    /\ UNCHANGED <<config, installed, requested, remaining, spent, history>>

HandlerStep(e) == HandlerRuns(e) \/ HandlerReturns(e)

\* The process is gone.
Done == pc \in Terminated /\ UNCHANGED vars

Next ==
    \/ MainStep
    \/ Tick
    \/ \E e \in Events : RaiseEvent(e) \/ HandlerStep(e)
    \/ Done

\* Windows schedules both threads and lets time pass; blocking calls return.
\* Nothing obliges anyone to press Ctrl+C.
Fairness ==
    /\ WF_vars(MainStep)
    /\ WF_vars(Tick)
    /\ \A e \in Events : WF_vars(HandlerStep(e))

Spec     == Init /\ [][Next]_vars
FairSpec == Spec /\ Fairness
-----------------------------------------------------------------------------
(* Properties. *)

\* Every variable keeps its type, `remaining` never goes negative (chrono's
\* count is signed), and no blocking call outlives its bound.
TypeOK ==
    /\ pc \in Locations
    /\ config \in [mode : Modes, interval : Intervals]
    /\ installed \in BOOLEAN
    /\ requested \in BOOLEAN
    /\ handler \in [Events -> {"idle", "entered", "stored"}]
    /\ remaining \in Nat
    /\ spent \in Nat
    /\ latency \in 0 .. ResponseBound + 1
    /\ late \in 0 .. 2
    /\ slept \in Nat
    /\ pc \in Blocking => spent <= Limit

\* After the handler has stored the flag, at most the frame whose poll was
\* under way is still painted, wherever the store fell in the main thread
\* (main.cpp L117-L123 reads the flag in two places only).
AtMostOneLateFrame == late <= 1

\* The stop is noticed within one poll or one slice, whichever is longer,
\* however long --interval is (interruptible_sleep, main.cpp L46-L56).
PromptStop == latency <= ResponseBound

\* An interruptible_sleep that nobody interrupts lasts the whole interval,
\* the partial last slice included.
NapNotCutShort ==
    [][pc = "nap" /\ pc' = "check" /\ ~requested => slept >= config.interval]_vars

\* ... and overshoots by at most one oversleep per slice: the refresh period
\* drifts with interval / slice, and no further.
NapDrift ==
    [][pc = "nap" /\ pc' = "check" =>
         slept <= config.interval
                  + MaxOversleep * ((config.interval + Slice - 1) \div Slice)]_vars

\* Once the handler is registered, Ctrl+C and Ctrl+Break never end the
\* process abruptly: if it is killed, an event of another kind was in flight.
CtrlCNeverKills ==
    [][installed /\ Running /\ pc' = "killed" =>
         \E e \in Events \ {"CTRL_C", "CTRL_BREAK"} : handler[e] # "idle"]_vars

\* Until something ends the program, the live loop goes on polling: no
\* interval, slice or oversleep leaves it asleep for ever.
KeepsRefreshing == []<>(pc = "poll") \/ <>(pc \in Terminated)

\* The whole loop keeps the promise of StopPromise: a request, one more frame
\* at most, a bounded wait, and then the end.
Promise == INSTANCE StopPromise WITH
    Bound   <- ResponseBound,
    phase   <- IF pc \in Terminated THEN "ended"
               ELSE IF requested THEN "stopping" ELSE "running",
    waited  <- latency,
    painted <- late

KeepsPromise == Promise!Spec
=============================================================================
