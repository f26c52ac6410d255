------------------------------- MODULE Frames -------------------------------
(***************************************************************************)
(* What the frames of src/src/main.cpp show: the main loop composed with   *)
(* the monitors that measure over an interval (CPU, processes, network),   *)
(* which engine.poll() samples in this order.  Each keeps a baseline: its  *)
(* last reading that succeeded.  A figure is worth what the time since     *)
(* that baseline, its window, is worth; here every section has the age of  *)
(* its baseline.                                                           *)
(***************************************************************************)
EXTENDS MainLoop, Sequences

CONSTANTS
    Sections,   \* the interval-based sections, in the order of poll()
    AgeCap      \* bound: ages saturate here

\* The longest an interruptible_sleep lasts, and the longest window of two
\* samples in a row.
NapMax(interval) == interval + MaxOversleep * ((interval + Slice - 1) \div Slice)
WindowMax == 2 * MaxPoll + Max2(NapMax(config.interval), BaselineWindow + MaxOversleep)

SectionNames == {Sections[i] : i \in 1 .. Len(Sections)}

ASSUME SectionAssumption ==
    /\ Sections \in Seq({"cpu", "processes", "network"})
    /\ \A i, j \in 1 .. Len(Sections) : Sections[i] = Sections[j] => i = j
ASSUME AgeCapAssumption ==
    /\ AgeCap \in Nat
    /\ \A i \in Intervals :
          AgeCap > 2 * MaxPoll + Max2(NapMax(i), BaselineWindow + MaxOversleep)

VARIABLES
    sampled,    \* how many sections the poll under way has sampled
    status,     \* per section: "none" without a baseline, else the outcome of
                \* its last reading, "ok" or "failed"
    age         \* per section, the time since its baseline was read (0 if none)

\* History variable.
VARIABLE
    painted     \* a frame has been painted

frameOwn  == <<sampled, status, age, painted>>
frameVars == <<vars, sampled, status, age, painted>>

Unsampled == {Sections[i] : i \in sampled + 1 .. Len(Sections)}
-----------------------------------------------------------------------------
FramesInit ==
    /\ Init
    /\ sampled = 0
    /\ status = [s \in SectionNames |-> "none"]
    /\ age = [s \in SectionNames |-> 0]
    /\ painted = FALSE

\* make_engine(): only CpuMonitor's constructor takes a reading, which may
\* fail.
MakeEngine ==
    /\ ParseArgs
    /\ status' \in {f \in [SectionNames -> {"none", "ok"}] :
                      \A s \in SectionNames : f[s] = "ok" => s = "cpu"}
    /\ UNCHANGED <<sampled, age, painted>>

\* Mutated: the first reading stays the baseline.
AgeAfter_First(s, ok) == IF ok /\ status[s] = "none" THEN 0 ELSE age[s]
AgeAfter(s, ok) == IF ok THEN 0 ELSE age[s]

\* engine.poll() samples the next section; the reading becomes its baseline
\* unless it failed.
SampleSection ==
    /\ pc \in Polling /\ sampled < Len(Sections)
    /\ LET s == Sections[sampled + 1]
       IN  \E ok \in BOOLEAN :
             /\ status' = [status EXCEPT ![s] =
                              IF ok THEN "ok" ELSE IF @ = "none" THEN "none" ELSE "failed"]
             /\ age' = [age EXCEPT ![s] = AgeAfter(s, ok)]
    /\ sampled' = sampled + 1
    /\ UNCHANGED <<vars, painted>>

\* The poll returns all its sections; all but the first one are painted.
PollDone ==
    /\ sampled = Len(Sections)
    /\ PrimeReturns \/ PrintOnce \/ PollReturns
    /\ sampled' = 0
    /\ painted' = (pc # "prime")
    /\ UNCHANGED <<status, age>>

Advance ==
    /\ Tick
    /\ age' = [s \in SectionNames |-> IF status[s] = "none" THEN 0
                                       ELSE Min2(age[s] + 1, AgeCap)]
    /\ UNCHANGED <<sampled, status, painted>>

OtherMainStep ==
    /\ BaselineOver \/ InstallHandler \/ CheckLoop \/ Nap \/ SliceOver \/ SayGoodbye
    /\ UNCHANGED frameOwn

EventRaised(e)   == RaiseEvent(e) /\ UNCHANGED frameOwn
HandlerThread(e) == HandlerStep(e) /\ UNCHANGED frameOwn

MainThread == MakeEngine \/ SampleSection \/ PollDone \/ OtherMainStep

FramesNext ==
    \/ MainThread \/ Advance
    \/ \E e \in Events : EventRaised(e) \/ HandlerThread(e)
    \/ Done /\ UNCHANGED frameOwn

FramesSpec     == FramesInit /\ [][FramesNext]_frameVars
FairFramesSpec ==
    /\ FramesSpec
    /\ WF_frameVars(MainThread) /\ WF_frameVars(Advance)
    /\ \A e \in Events : WF_frameVars(HandlerThread(e))
-----------------------------------------------------------------------------
(* Properties. *)

FramesTypeOK ==
    /\ TypeOK
    /\ sampled \in 0 .. Len(Sections)
    /\ pc \notin Polling \cup Terminated => sampled = 0
    /\ status \in [SectionNames -> {"none", "ok", "failed"}]
    /\ age \in [SectionNames -> 0 .. AgeCap]
    /\ painted \in BOOLEAN

\* The window each reading of a painted poll closes: the age of its baseline.
Measured(s) == pc \in {"once", "poll"} /\ s \in Unsampled /\ status[s] # "none"

\* No painted figure is measured over less than it needs: the first frame's
\* windows last at least kBaselineWindow, and all later ones at least the
\* user's interval, the frame painted after a Ctrl+C included, although the
\* same Ctrl+C cuts sleeps short (the comment at main.cpp L26-L30).
WindowsMeaningful ==
    \A s \in SectionNames :
        Measured(s) => age[s] >= IF painted THEN config.interval ELSE BaselineWindow

\* ... nor over much more: unless its last reading failed, a section is
\* measured over one nap or baseline sleep and the two polls around it, never
\* over two rounds of the loop.
WindowsRecent ==
    \A s \in SectionNames : Measured(s) /\ status[s] = "ok" => age[s] <= WindowMax
=============================================================================
