--------------------------- MODULE Frames_proofs ---------------------------
(***************************************************************************)
(* What Frames measures, for every interval, every duration of the polls   *)
(* and oversleeps and any sections; and that Frames only adds to MainLoop, *)
(* whose theorems therefore hold of it.                                    *)
(***************************************************************************)
EXTENDS Frames, MainLoop_proofs

\* Every step of Frames is one of MainLoop or leaves its variables alone.
LEMMA StepIsMainLoops == [FramesNext]_frameVars => [Next]_vars
<1>1. MainThread => MainStep \/ UNCHANGED vars
  BY DEF MainThread, MakeEngine, SampleSection, PollDone, OtherMainStep, MainStep
<1>. QED
  BY <1>1 DEF FramesNext, Advance, EventRaised, HandlerThread, Next, Done, frameVars, vars

\* Frames implements MainLoop: whatever its theorems say of main() holds of
\* the composition with the monitors.
THEOREM FramesImplementMainLoop == FramesSpec => Spec
<1>1. FramesInit => Init
  BY DEF FramesInit
<1>. QED
  BY <1>1, StepIsMainLoops, PTL DEF FramesSpec, Spec
-----------------------------------------------------------------------------
(***************************************************************************)
(* The inductive invariant of WindowsMeaningful.  A baseline is as old as  *)
(* the sleep under way has lasted so far, and once the sleep is over, as   *)
(* old as it was to last; a nap that was cut short leaves a younger one,   *)
(* but then the stop has been requested and no poll follows.               *)
(***************************************************************************)
OldEnough(s, time) == age[s] >= time \/ age[s] = AgeCap

AgeInv == \A s \in SectionNames : status[s] # "none" =>
    /\ pc = "baseline" => OldEnough(s, spent)
    /\ pc = "install" \/ (pc = "check" /\ ~painted) => OldEnough(s, BaselineWindow)
    /\ pc \in {"once", "poll"} /\ ~painted /\ s \in Unsampled
          => OldEnough(s, BaselineWindow)
    /\ pc = "nap" => OldEnough(s, slept)
    /\ pc = "slice" => OldEnough(s, slept + spent)
    /\ pc = "check" /\ painted => requested \/ OldEnough(s, config.interval)
    /\ pc = "poll" /\ painted /\ s \in Unsampled => OldEnough(s, config.interval)

PaintedInv ==
    /\ pc \in {"parse", "prime", "baseline", "install", "once"} => ~painted
    /\ pc \in {"nap", "slice"} => painted

FInv == IInv /\ FramesTypeOK /\ PaintedInv /\ AgeInv

\* The cap of the ages is beyond all that is measured.
LEMMA AgeCapBeyond ==
    ASSUME TypeOK
    PROVE  /\ AgeCap \in Nat /\ config.interval \in Nat /\ BaselineWindow \in Nat
           /\ AgeCap >= config.interval /\ AgeCap >= BaselineWindow
<1>1. config.interval \in Intervals /\ config.interval \in Nat
  BY IntervalAssumption DEF TypeOK
<1>. DEFINE q == (config.interval + Slice - 1) \div Slice
<1>2. q \in Nat
  BY <1>1, SliceAssumption
<1>. HIDE DEF q
<1>3. MaxOversleep \in Nat /\ MaxPoll \in Nat /\ BaselineWindow \in Nat
  BY TimeAssumption
<1>4. MaxOversleep * q \in Nat
  BY <1>2, <1>3
<1>5. AgeCap \in Nat
      /\ AgeCap > 2 * MaxPoll + Max2(config.interval + MaxOversleep * q,
                                     BaselineWindow + MaxOversleep)
  BY <1>1, AgeCapAssumption DEF NapMax, q
<1>. QED
  BY <1>1, <1>3, <1>4, <1>5 DEF Max2

\* The initial states satisfy the invariant.
LEMMA FramesInitInv == FramesInit => FInv
<1>. SUFFICES ASSUME FramesInit PROVE FInv
  OBVIOUS
<1>1. IInv
  BY InitInv DEF FramesInit
<1>2. pc = "parse"
  BY DEF FramesInit, Init
<1>3. AgeCap \in Nat /\ Len(Sections) \in Nat
  BY AgeCapAssumption, SectionAssumption
<1>4. FramesTypeOK
  <2>1. status \in [SectionNames -> {"none", "ok", "failed"}]
    BY DEF FramesInit
  <2>2. age \in [SectionNames -> 0 .. AgeCap]
    BY <1>3 DEF FramesInit
  <2>3. sampled = 0 /\ painted \in BOOLEAN
    BY DEF FramesInit
  <2>4. sampled \in 0 .. Len(Sections)
    BY <1>3, <2>3
  <2>. QED
    BY <1>1, <2>1, <2>2, <2>3, <2>4 DEF FramesTypeOK, IInv
<1>5. PaintedInv /\ AgeInv
  BY <1>2 DEF PaintedInv, AgeInv, FramesInit
<1>. QED
  BY <1>1, <1>4, <1>5 DEF FInv

\* What is still to be sampled shrinks by the section being sampled.
LEMMA NextSection ==
    ASSUME FramesTypeOK, sampled < Len(Sections), sampled' = sampled + 1
    PROVE  /\ Sections[sampled + 1] \in SectionNames
           /\ Unsampled' \subseteq Unsampled \ {Sections[sampled + 1]}
<1>1. sampled \in Nat /\ Len(Sections) \in Nat /\ Unsampled \subseteq SectionNames
  BY SectionAssumption DEF FramesTypeOK, Unsampled, SectionNames
<1>2. Sections[sampled + 1] \in SectionNames
  BY <1>1 DEF SectionNames
<1>3. ASSUME NEW s \in Unsampled'
      PROVE  s \in Unsampled /\ s # Sections[sampled + 1]
  <2>1. PICK i \in sampled + 2 .. Len(Sections) : s = Sections[i]
    BY <1>1 DEF Unsampled
  <2>2. i # sampled + 1 /\ i \in 1 .. Len(Sections) /\ sampled + 1 \in 1 .. Len(Sections)
    BY <1>1
  <2>. QED
    BY <1>1, <2>1, <2>2, SectionAssumption DEF Unsampled
<1>. QED
  BY <1>2, <1>3

\* Sampling a section changes the age of no other one.
LEMMA SampleSectionInv == ASSUME FInv, SampleSection PROVE FInv'
<1>. USE DEF FInv
<1>. DEFINE s0 == Sections[sampled + 1]
<1>0. /\ UNCHANGED <<vars, painted>> /\ pc \in Polling
      /\ sampled \in Nat /\ sampled < Len(Sections) /\ Len(Sections) \in Nat
      /\ sampled' = sampled + 1
  BY SectionAssumption DEF SampleSection, FramesTypeOK
<1>1. s0 \in SectionNames /\ Unsampled' \subseteq Unsampled \ {s0}
  BY <1>0, NextSection
<1>2. PICK ok \in BOOLEAN :
         /\ status' = [status EXCEPT ![s0] =
                          IF ok THEN "ok" ELSE IF @ = "none" THEN "none" ELSE "failed"]
         /\ age' = [age EXCEPT ![s0] = AgeAfter(s0, ok)]
  BY DEF SampleSection
<1>. HIDE DEF s0
<1>3. IInv'
  BY <1>0, StepInv
<1>4. FramesTypeOK'
  <2>1. AgeAfter(s0, ok) \in 0 .. AgeCap
    BY <1>1, AgeCapAssumption DEF AgeAfter, FramesTypeOK
  <2>2. pc' \in Polling /\ TypeOK'
    BY <1>0, <1>3 DEF vars, IInv
  <2>. QED
    BY <1>0, <1>1, <1>2, <2>1, <2>2 DEF FramesTypeOK
<1>5. PaintedInv'
  BY <1>0 DEF PaintedInv, vars
<1>6. AgeInv'
  <2>. SUFFICES ASSUME NEW s \in Unsampled', status'[s] # "none"
       PROVE  /\ pc \in {"once", "poll"} /\ ~painted => OldEnough(s, BaselineWindow)'
              /\ pc = "poll" /\ painted => OldEnough(s, config.interval)'
    BY <1>0 DEF AgeInv, vars, Polling
  <2>1. s \in Unsampled /\ s # s0 /\ s \in SectionNames
    BY <1>0, <1>1 DEF Unsampled, SectionNames, FramesTypeOK
  <2>2. status'[s] = status[s] /\ age'[s] = age[s]
    BY <1>2, <2>1 DEF FramesTypeOK
  <2>. QED
    BY <1>0, <2>1, <2>2 DEF AgeInv, OldEnough, vars
<1>. QED
  BY <1>3, <1>4, <1>5, <1>6

\* make_engine() leaves a baseline that nothing is measured against yet.
LEMMA MakeEngineInv == ASSUME FInv, MakeEngine PROVE FInv'
<1>. USE DEF FInv
<1>1. IInv'
  BY StepInv DEF MakeEngine, Next, MainStep
<1>2. pc = "parse" /\ pc' \in {"exited", "prime"}
  BY DEF MakeEngine, ParseArgs, Goto
<1>3. FramesTypeOK'
  BY <1>1, <1>2 DEF MakeEngine, FramesTypeOK, IInv, Polling, Terminated
<1>4. PaintedInv' /\ AgeInv'
  BY <1>2 DEF MakeEngine, PaintedInv, AgeInv
<1>. QED
  BY <1>1, <1>3, <1>4

\* A sleep begins when a poll returns.
LEMMA PollDoneInv == ASSUME FInv, PollDone PROVE FInv'
<1>. USE DEF FInv
<1>1. IInv'
  BY StepInv DEF PollDone, Next, MainStep
<1>2. FramesTypeOK'
  BY <1>1, SectionAssumption DEF PollDone, FramesTypeOK, IInv
<1>3. \/ pc' = "baseline" /\ spent' = 0 /\ ~painted'
      \/ pc' = "nap" /\ slept' = 0 /\ painted'
      \/ pc' = "exited"
  BY DEF PollDone, PrimeReturns, PrintOnce, PollReturns, Goto
<1>4. age' \in [SectionNames -> 0 .. AgeCap]
  BY <1>2 DEF FramesTypeOK
<1>5. PaintedInv' /\ AgeInv'
  BY <1>3, <1>4, AgeCapAssumption DEF PaintedInv, AgeInv, OldEnough
<1>. QED
  BY <1>1, <1>2, <1>5

\* Time makes every baseline older by what it adds to the sleep.
LEMMA AdvanceInv == ASSUME FInv, Advance PROVE FInv'
<1>. USE DEF FInv
<1>1. IInv'
  BY StepInv DEF Advance, Next
<1>2. /\ spent' = spent + 1 /\ spent \in Nat /\ slept \in Nat
      /\ UNCHANGED <<pc, config, requested, slept, sampled, status, painted>>
      /\ AgeCap \in Nat /\ BaselineWindow \in Nat /\ config.interval \in Nat
  BY AgeCapBeyond DEF Advance, Tick, IInv, TypeOK
<1>3. \A s \in SectionNames :
         /\ age[s] \in 0 .. AgeCap
         /\ status[s] # "none" => age'[s] = Min2(age[s] + 1, AgeCap)
         /\ age'[s] \in 0 .. AgeCap
  BY <1>2 DEF Advance, FramesTypeOK, Min2
<1>4. FramesTypeOK'
  BY <1>1, <1>2, <1>3 DEF FramesTypeOK, IInv, Advance
<1>5. Unsampled' = Unsampled
  BY <1>2 DEF Unsampled
<1>6. \A s \in SectionNames : status[s] # "none" =>
         \A t \in Nat : OldEnough(s, t) => OldEnough(s, t)' /\ OldEnough(s, t + 1)'
  BY <1>2, <1>3 DEF OldEnough, Min2
<1>7. PaintedInv' /\ AgeInv'
  BY <1>2, <1>5, <1>6 DEF PaintedInv, AgeInv, OldEnough
<1>. QED
  BY <1>1, <1>4, <1>7

\* Between polls a sleep ends only when it has lasted as long as it was to,
\* unless the stop is requested, and then no poll follows.
LEMMA OtherMainStepInv == ASSUME FInv, OtherMainStep PROVE FInv'
<1>. USE DEF FInv
<1>1. IInv'
  BY StepInv DEF OtherMainStep, Next, MainStep
<1>2. UNCHANGED <<sampled, status, age, painted>> /\ Unsampled' = Unsampled
  BY DEF OtherMainStep, frameOwn, Unsampled
<1>3. pc \notin Polling \cup Terminated
  BY DEF OtherMainStep, BaselineOver, InstallHandler, CheckLoop, Nap, SliceOver, SayGoodbye,
         Goto, Polling, Terminated
<1>4. FramesTypeOK'
  BY <1>1, <1>2, <1>3 DEF FramesTypeOK, IInv
<1>5. /\ AgeCap \in Nat /\ config.interval \in Nat /\ BaselineWindow \in Nat
      /\ AgeCap >= config.interval /\ AgeCap >= BaselineWindow
      /\ spent \in Nat /\ slept \in Nat /\ remaining \in Nat
      /\ \A s \in SectionNames : age[s] \in 0 .. AgeCap
  BY AgeCapBeyond DEF IInv, TypeOK, FramesTypeOK
<1>. USE DEF Goto, history
<1>6. PaintedInv'
  BY <1>2 DEF OtherMainStep, PaintedInv, BaselineOver, InstallHandler, CheckLoop, Nap,
              SliceOver, SayGoodbye
<1>7. AgeInv'
  <2>1. CASE BaselineOver
    BY <1>2, <1>5, <2>1 DEF BaselineOver, AgeInv, OldEnough, PaintedInv
  <2>2. CASE InstallHandler
    BY <1>2, <1>5, <2>2 DEF InstallHandler, AgeInv, OldEnough, PaintedInv
  <2>3. CASE CheckLoop
    BY <1>2, <1>5, <2>3 DEF CheckLoop, AgeInv, OldEnough
  <2>4. CASE Nap
    <3>1. spent = 0
      BY <2>4 DEF Nap, IInv, CallInv, Blocking, Polling, Terminated
    <3>2. pc' = "check" => requested \/ slept >= config.interval
      BY <1>5, <2>4 DEF Nap, IInv, NapInv
    <3>. QED
      BY <1>2, <1>5, <2>4, <3>1, <3>2 DEF Nap, AgeInv, OldEnough, PaintedInv
  <2>5. CASE SliceOver
    BY <1>2, <1>5, <2>5 DEF SliceOver, AgeInv, OldEnough
  <2>6. CASE SayGoodbye
    BY <2>6 DEF SayGoodbye, AgeInv
  <2>. QED
    BY <2>1, <2>2, <2>3, <2>4, <2>5, <2>6 DEF OtherMainStep
<1>. QED
  BY <1>1, <1>4, <1>6, <1>7

\* An event can end the process or request the stop, and nothing else here.
LEMMA FramesEventInv ==
    ASSUME FInv, NEW e \in Events, EventRaised(e) \/ HandlerThread(e)
    PROVE  FInv'
<1>. USE DEF FInv
<1>1. IInv'
  BY EventInv DEF EventRaised, HandlerThread
<1>2. /\ UNCHANGED <<sampled, status, age, painted, config, spent, slept>>
      /\ pc' \in {pc, "killed"} /\ (requested => requested')
      /\ Unsampled' = Unsampled
  BY DEF EventRaised, HandlerThread, frameOwn, RaiseEvent, HandlerStep, HandlerRuns,
         HandlerReturns, history, Unsampled
<1>3. FramesTypeOK'
  BY <1>1, <1>2 DEF FramesTypeOK, IInv, Terminated
<1>4. PaintedInv' /\ AgeInv'
  BY <1>2 DEF PaintedInv, AgeInv, OldEnough
<1>. QED
  BY <1>1, <1>3, <1>4

\* Every step preserves the invariant.
LEMMA FramesStepInv == ASSUME FInv, [FramesNext]_frameVars PROVE FInv'
<1>1. ASSUME UNCHANGED frameVars PROVE FInv'
  <2>1. IInv'
    BY <1>1, StepInv DEF frameVars, FInv
  <2>. QED
    BY <1>1, <2>1 DEF FInv, FramesTypeOK, IInv, PaintedInv, AgeInv, OldEnough, Unsampled,
                      frameVars, vars
<1>2. CASE Done /\ UNCHANGED frameOwn
  BY <1>1, <1>2 DEF Done, frameOwn, frameVars
<1>. QED
  BY <1>1, <1>2, MakeEngineInv, SampleSectionInv, PollDoneInv, OtherMainStepInv, AdvanceInv,
     FramesEventInv DEF FramesNext, MainThread

\* The invariant holds throughout.
LEMMA FramesInductive == FramesSpec => []FInv
BY FramesInitInv, FramesStepInv, PTL DEF FramesSpec
-----------------------------------------------------------------------------
\* Every variable keeps its type, those of MainLoop included.
THEOREM FramesTypeCorrect == FramesSpec => []FramesTypeOK
<1>1. FInv => FramesTypeOK
  BY DEF FInv
<1>. QED
  BY FramesInductive, <1>1, PTL

\* No painted figure is measured over less than kBaselineWindow, nor, after
\* the first frame, over less than the user's interval (main.cpp L26-L30,
\* L107, L117-L123), whatever fails and whenever Ctrl+C is pressed.
THEOREM WindowsAreMeaningful == FramesSpec => []WindowsMeaningful
<1>1. FInv => WindowsMeaningful
  <2>. SUFFICES ASSUME FInv, NEW s \in SectionNames, Measured(s)
       PROVE  age[s] >= IF painted THEN config.interval ELSE BaselineWindow
    BY DEF WindowsMeaningful
  <2>1. /\ AgeCap \in Nat /\ config.interval \in Nat /\ BaselineWindow \in Nat
        /\ AgeCap >= config.interval /\ AgeCap >= BaselineWindow
    BY AgeCapBeyond DEF FInv, IInv
  <2>. QED
    BY <2>1 DEF FInv, AgeInv, PaintedInv, Measured, OldEnough
<1>. QED
  BY FramesInductive, <1>1, PTL
-----------------------------------------------------------------------------
(***************************************************************************)
(* The inductive invariant of WindowsRecent.  A section whose last reading *)
(* succeeded was read in the poll under way or in the one before it; since *)
(* that poll began, no more time has passed than it took, than the sleep   *)
(* after it, and than the poll under way has taken so far.                 *)
(***************************************************************************)
FirstWait == BaselineWindow + MaxOversleep

RecentInv == \A s \in SectionNames :
    /\ pc = "parse" => age[s] = 0
    /\ status[s] = "ok" =>
        /\ pc = "prime" => age[s] <= spent
        /\ pc = "baseline" => age[s] <= MaxPoll + spent
        /\ pc = "install" => age[s] <= MaxPoll + FirstWait
        /\ pc = "check" => age[s] <= MaxPoll + IF painted THEN NapMax(config.interval)
                                               ELSE FirstWait
        /\ pc \in {"once", "poll"} =>
              IF s \in Unsampled
              THEN age[s] <= MaxPoll + spent + IF painted THEN NapMax(config.interval)
                                               ELSE FirstWait
              ELSE age[s] <= spent
        /\ pc = "nap" => age[s] <= MaxPoll + slept
        /\ pc = "slice" => age[s] <= MaxPoll + slept + spent

\* The bounds are numbers, no nap lasts longer than NapMax, and a poll begins
\* with all its sections unsampled and ends with none.
LEMMA RecentBounds ==
    ASSUME FInv, DriftInv
    PROVE  /\ MaxPoll \in Nat /\ FirstWait \in Nat /\ NapMax(config.interval) \in Nat
           /\ spent \in Nat /\ slept \in Nat
           /\ \A s \in SectionNames : age[s] \in Nat
           /\ pc \in Polling => spent <= MaxPoll
           /\ pc = "baseline" => spent <= FirstWait
           /\ pc = "nap" => slept <= NapMax(config.interval)
           /\ sampled = 0 => Unsampled = SectionNames
           /\ sampled = Len(Sections) => Unsampled = {}
<1>. USE DEF FInv, IInv
<1>1. /\ config.interval \in Nat /\ Slice \in Nat \ {0} /\ MaxOversleep \in Nat
      /\ BaselineWindow \in Nat /\ MaxPoll \in Nat
      /\ spent \in Nat /\ slept \in Nat /\ remaining \in Nat
  BY IntervalAssumption, SliceAssumption, TimeAssumption DEF TypeOK
<1>2. \A s \in SectionNames : age[s] \in Nat
  BY AgeCapAssumption DEF FramesTypeOK
<1>3. /\ pc \in Polling => spent <= MaxPoll
      /\ pc = "baseline" => spent <= FirstWait
  BY <1>1 DEF TypeOK, Limit, Blocking, Polling, FirstWait
<1>4. MaxOversleep * NapSlices \in Nat
  <2>1. 0 * Slice <= config.interval + Slice - 1
    BY <1>1
  <2>. QED
    BY <2>1, SlicesFit
<1>5. NapMax(config.interval) = config.interval + MaxOversleep * NapSlices
  BY DEF NapMax, NapSlices
<1>6. pc = "nap" => slept <= NapMax(config.interval)
  <2>1. pc = "nap" => slept <= config.interval - remaining + MaxOversleep * NapSlices
    BY DriftBound
  <2>. QED
    BY <1>1, <1>4, <1>5, <2>1
<1>7. /\ sampled = 0 => Unsampled = SectionNames
      /\ sampled = Len(Sections) => Unsampled = {}
  BY SectionAssumption DEF Unsampled, SectionNames
<1>. QED
  BY <1>1, <1>2, <1>3, <1>4, <1>5, <1>6, <1>7 DEF FirstWait

\* The section just sampled is as old as nothing, or its reading failed.
LEMMA SampleSectionRecent ==
    ASSUME FInv, DriftInv, RecentInv, SampleSection PROVE RecentInv'
<1>. DEFINE s0 == Sections[sampled + 1]
<1>1. /\ UNCHANGED <<vars, painted>> /\ pc \in Polling /\ sampled \in Nat
      /\ sampled < Len(Sections) /\ sampled' = sampled + 1
  BY DEF SampleSection, FInv, FramesTypeOK
<1>2. s0 \in SectionNames /\ Unsampled' \subseteq Unsampled \ {s0}
  BY <1>1, NextSection DEF FInv
<1>3. Unsampled \subseteq Unsampled' \cup {s0}
  <2>1. Len(Sections) \in Nat
    BY SectionAssumption
  <2>2. ASSUME NEW i \in sampled + 1 .. Len(Sections), i # sampled + 1
        PROVE  i \in sampled + 2 .. Len(Sections)
    BY <1>1, <2>1, <2>2
  <2>3. Unsampled' = {Sections[i] : i \in sampled + 2 .. Len(Sections)}
    BY <1>1, <2>1 DEF Unsampled
  <2>. QED
    BY <2>2, <2>3 DEF Unsampled
<1>4. PICK ok \in BOOLEAN :
         /\ status' = [status EXCEPT ![s0] =
                          IF ok THEN "ok" ELSE IF @ = "none" THEN "none" ELSE "failed"]
         /\ age' = [age EXCEPT ![s0] = AgeAfter(s0, ok)]
  BY DEF SampleSection
<1>. HIDE DEF s0
<1>5. /\ spent \in Nat /\ spent' = spent /\ pc' = pc /\ config' = config
      /\ painted' = painted
  BY <1>1, RecentBounds DEF vars
<1>6. NapMax(config.interval)' = NapMax(config.interval)
  BY <1>5 DEF NapMax
<1>7. ASSUME NEW s \in SectionNames, status'[s] = "ok"
      PROVE  IF s = s0 THEN age'[s] = 0
             ELSE status[s] = "ok" /\ age'[s] = age[s] /\ (s \in Unsampled' <=> s \in Unsampled)
  BY <1>2, <1>3, <1>4, <1>7 DEF AgeAfter, FInv, FramesTypeOK
<1>. QED
  BY <1>1, <1>2, <1>5, <1>6, <1>7 DEF RecentInv, Polling

\* A poll that returns leaves every section no older than the poll was long.
LEMMA PollDoneRecent ==
    ASSUME FInv, DriftInv, RecentInv, PollDone PROVE RecentInv'
<1>1. /\ pc \in Polling /\ Unsampled = {} /\ UNCHANGED <<status, age>>
      /\ \/ pc' = "baseline" /\ spent' = 0
         \/ pc' = "nap" /\ slept' = 0
         \/ pc' = "exited"
  BY RecentBounds DEF PollDone, PrimeReturns, PrintOnce, PollReturns, Goto, Polling
<1>2. \A s \in SectionNames : status[s] = "ok" => age[s] <= MaxPoll
  BY <1>1, RecentBounds DEF RecentInv, Polling
<1>. QED
  BY <1>1, <1>2, RecentBounds DEF RecentInv

\* Time makes nothing older than it adds to the call under way.
LEMMA AdvanceRecent == ASSUME FInv, DriftInv, RecentInv, Advance PROVE RecentInv'
<1>1. /\ spent' = spent + 1 /\ pc \in Blocking
      /\ UNCHANGED <<pc, config, slept, sampled, status, painted>>
  BY DEF Advance, Tick
<1>2. Unsampled' = Unsampled /\ NapMax(config.interval)' = NapMax(config.interval)
  BY <1>1 DEF Unsampled, NapMax
<1>3. \A s \in SectionNames : status[s] = "ok" => age'[s] <= age[s] + 1
  BY RecentBounds, AgeCapAssumption DEF Advance, Min2
<1>4. \A s \in SectionNames : age'[s] \in Nat
  BY RecentBounds, AgeCapAssumption DEF Advance, Min2
<1>5. \A s \in SectionNames : status[s] = "ok" =>
         /\ spent \in Nat /\ slept \in Nat /\ age[s] \in Nat /\ age'[s] \in Nat
         /\ age'[s] <= age[s] + 1
         /\ MaxPoll \in Nat /\ FirstWait \in Nat /\ NapMax(config.interval) \in Nat
  BY <1>3, <1>4, RecentBounds
<1>6. pc \in {"prime", "baseline", "once", "poll", "slice"}
  BY <1>1 DEF Blocking, Polling
<1>7. CASE pc \in {"prime", "baseline", "slice"}
  BY <1>1, <1>5, <1>7 DEF RecentInv
<1>8. CASE pc \in {"once", "poll"}
  <2>. SUFFICES ASSUME NEW s \in SectionNames, status[s] = "ok"
       PROVE  IF s \in Unsampled
              THEN age'[s] <= MaxPoll + (spent + 1) + IF painted THEN NapMax(config.interval)
                                                      ELSE FirstWait
              ELSE age'[s] <= spent + 1
    BY <1>1, <1>2, <1>8 DEF RecentInv
  <2>. QED
    BY <1>5, <1>8 DEF RecentInv
<1>. QED
  BY <1>6, <1>7, <1>8

\* A sleep that is over has lasted no longer than it may.
LEMMA OtherMainStepRecent ==
    ASSUME FInv, DriftInv, RecentInv, OtherMainStep PROVE RecentInv'
<1>1. UNCHANGED <<sampled, status, age, painted, config>> /\ Unsampled' = Unsampled
  BY DEF OtherMainStep, frameOwn, BaselineOver, InstallHandler, CheckLoop, Nap, SliceOver,
         SayGoodbye, Unsampled
<1>2. NapMax(config.interval)' = NapMax(config.interval) /\ FirstWait' = FirstWait
  BY <1>1 DEF NapMax, FirstWait
<1>3. sampled = 0 /\ Unsampled = SectionNames
  BY RecentBounds DEF OtherMainStep, BaselineOver, InstallHandler, CheckLoop, Nap,
     SliceOver, SayGoodbye, Goto, FInv, FramesTypeOK, Polling, Terminated
<1>. USE RecentBounds DEF Goto, history
<1>4. CASE BaselineOver
  BY <1>1, <1>2, <1>3, <1>4 DEF BaselineOver, RecentInv, FInv, PaintedInv
<1>5. CASE InstallHandler
  BY <1>1, <1>2, <1>5 DEF InstallHandler, RecentInv, FInv, PaintedInv
<1>6. CASE CheckLoop
  <2>1. spent = 0 /\ spent' = 0
    BY <1>6 DEF CheckLoop, FInv, IInv, CallInv, Blocking, Polling, Terminated
  <2>. QED
    BY <1>1, <1>2, <1>3, <1>6, <2>1 DEF CheckLoop, RecentInv
<1>7. CASE Nap
  <2>1. spent = 0 /\ spent' = 0 /\ painted
    BY <1>7 DEF Nap, FInv, IInv, PaintedInv, CallInv, Blocking, Polling, Terminated
  <2>. QED
    BY <1>1, <1>2, <1>7, <2>1 DEF Nap, RecentInv
<1>8. CASE SliceOver
  BY <1>1, <1>8 DEF SliceOver, RecentInv
<1>9. CASE SayGoodbye
  BY <1>9 DEF SayGoodbye, RecentInv
<1>. QED
  BY <1>4, <1>5, <1>6, <1>7, <1>8, <1>9 DEF OtherMainStep

\* Every step preserves the invariant.
LEMMA RecentStep ==
    ASSUME FInv, DriftInv, RecentInv, [FramesNext]_frameVars PROVE RecentInv'
<1>1. CASE MakeEngine
  <2>1. /\ pc = "parse" /\ pc' \in {"exited", "prime"} /\ spent' = spent /\ age' = age
    BY <1>1 DEF MakeEngine, ParseArgs, Goto
  <2>. QED
    BY <2>1, RecentBounds DEF RecentInv
<1>2. CASE \E e \in Events : EventRaised(e) \/ HandlerThread(e)
  <2>1. /\ UNCHANGED <<sampled, status, age, painted, config, spent, slept>>
        /\ pc' \in {pc, "killed"}
    BY <1>2 DEF EventRaised, HandlerThread, frameOwn, RaiseEvent, HandlerStep, HandlerRuns,
       HandlerReturns, history
  <2>. QED
    BY <2>1 DEF RecentInv, Unsampled, NapMax
<1>3. CASE UNCHANGED frameVars \/ (Done /\ UNCHANGED frameOwn)
  <2>1. UNCHANGED <<sampled, status, age, painted, config, spent, slept, pc>>
    BY <1>3 DEF frameVars, frameOwn, vars, Done
  <2>. QED
    BY <2>1 DEF RecentInv, Unsampled, NapMax
<1>. QED
  BY <1>1, <1>2, <1>3, SampleSectionRecent, PollDoneRecent, OtherMainStepRecent, AdvanceRecent
     DEF FramesNext, MainThread

\* No section is measured over more than one sleep and the two polls around
\* it, unless its last reading failed (main.cpp L106-L107, L117-L123).
THEOREM WindowsAreRecent == FramesSpec => []WindowsRecent
<1>1. FramesInit => RecentInv
  BY DEF FramesInit, Init, RecentInv
<1>2. FramesSpec => []DriftInv
  BY FramesImplementMainLoop, DriftInductive, PTL
<1>3. FInv /\ DriftInv /\ RecentInv => WindowsRecent
  <2>. SUFFICES ASSUME FInv, DriftInv, RecentInv, NEW s \in SectionNames,
                       Measured(s), status[s] = "ok"
       PROVE  age[s] <= WindowMax
    BY DEF WindowsRecent
  <2>1. /\ pc \in Polling /\ pc \in {"once", "poll"} /\ s \in Unsampled
    BY DEF Measured, Polling
  <2>2. age[s] <= MaxPoll + spent + IF painted THEN NapMax(config.interval) ELSE FirstWait
    BY <2>1 DEF RecentInv
  <2>3. WindowMax = 2 * MaxPoll + Max2(NapMax(config.interval), FirstWait)
    BY DEF WindowMax, FirstWait
  <2>. QED
    BY <2>1, <2>2, <2>3, RecentBounds DEF Max2
<1>. QED
  BY <1>1, <1>2, <1>3, FramesInductive, RecentStep, PTL DEF FramesSpec
=============================================================================
