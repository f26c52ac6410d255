-------------------------- MODULE MainLoop_proofs --------------------------
(***************************************************************************)
(* The safety properties of MainLoop, for every choice of the intervals,   *)
(* the slice and the durations of polls and oversleeps.                    *)
(***************************************************************************)
EXTENDS MainLoop, TLAPS

(***************************************************************************)
(* The inductive invariant.  A handler thread exists only once the handler *)
(* is registered, and it is registered only from the loop on; so a request *)
(* finds the main thread in the loop.  A request pending while a poll or a *)
(* slice is under way arrived during that very call, so it has waited no   *)
(* longer than the call has lasted, and no frame was painted since.        *)
(***************************************************************************)
CallInv == pc \notin Blocking \cup Terminated => spent = 0

HandlerInv ==
    /\ installed => pc \in Loop \cup {"bye"} \cup Terminated
    /\ \A e \in Events : handler[e] # "idle" => installed
    /\ requested => installed

RequestInv ==
    /\ ~requested => late = 0 /\ latency = 0
    /\ requested /\ pc \in {"poll", "slice"} => late = 0 /\ latency <= spent
    /\ late <= 1
    /\ latency <= ResponseBound

NapInv == pc \in {"nap", "slice"} => slept + remaining >= config.interval

IInv == TypeOK /\ CallInv /\ HandlerInv /\ RequestInv /\ NapInv
-----------------------------------------------------------------------------
\* The bounds are numbers, and every blocking call that a request can
\* interrupt ends within ResponseBound (interruptible_sleep, main.cpp L48-L56).
LEMMA Bounds ==
    ASSUME remaining \in Nat
    PROVE  /\ ThisSlice \in Nat /\ remaining - ThisSlice \in Nat
           /\ Limit \in Nat
           /\ ResponseBound \in Nat
           /\ pc \in {"poll", "slice"} => Limit <= ResponseBound
BY SliceAssumption, TimeAssumption
   DEF ThisSlice, Limit, ResponseBound, Min2, Max2, Polling

\* The initial states satisfy the inductive invariant.
LEMMA InitInv == Init => IInv
<1>. SUFFICES ASSUME Init PROVE IInv
  OBVIOUS
<1>1. ResponseBound \in Nat
  BY Bounds DEF Init
<1>2. TypeOK
  <2>1. pc \in Locations /\ (pc \in Blocking => spent <= Limit)
    BY DEF Init, Locations, Blocking, Polling
  <2>2. config \in [mode : Modes, interval : Intervals]
    BY DEF Init
  <2>3. handler \in [Events -> {"idle", "entered", "stored"}]
    BY DEF Init
  <2>4. latency \in 0 .. ResponseBound + 1 /\ late \in 0 .. 2
    BY <1>1 DEF Init
  <2>. QED
    BY <2>1, <2>2, <2>3, <2>4 DEF Init, TypeOK
<1>3. CallInv /\ HandlerInv /\ RequestInv /\ NapInv
  BY <1>1 DEF Init, CallInv, HandlerInv, RequestInv, NapInv
<1>. QED
  BY <1>2, <1>3 DEF IInv

\* Every step of the main thread preserves the inductive invariant.
LEMMA MainStepInv == IInv /\ MainStep => IInv'
<1>. SUFFICES ASSUME IInv, MainStep PROVE IInv'
  OBVIOUS
<1>. USE DEF IInv, TypeOK, CallInv, HandlerInv, RequestInv, NapInv, Goto, history
<1>. USE DEF Locations, Blocking, Polling, Loop, Terminated
<1>0. /\ Slice \in Nat \ {0} /\ MaxPoll \in Nat
      /\ MaxOversleep \in Nat /\ BaselineWindow \in Nat
      /\ config.interval \in Nat \ {0}
      /\ ThisSlice \in Nat /\ remaining - ThisSlice \in Nat
  BY Bounds, SliceAssumption, TimeAssumption, IntervalAssumption
<1>. USE <1>0
\* Up to the loop there is no handler, hence no request.
<1>1. CASE ParseArgs
  BY <1>1 DEF ParseArgs, Limit, ResponseBound
<1>2. CASE PrimeReturns
  BY <1>2 DEF PrimeReturns, Limit, ResponseBound
<1>3. CASE BaselineOver
  BY <1>3 DEF BaselineOver, Limit, ResponseBound
<1>4. CASE PrintOnce
  BY <1>4 DEF PrintOnce, ResponseBound
<1>5. CASE InstallHandler
  BY <1>5 DEF InstallHandler, ResponseBound
\* A poll starts only when no request is pending ...
<1>6. CASE CheckLoop
  BY <1>6 DEF CheckLoop, Limit, ResponseBound
\* ... so the frame it paints is the first one since the request, if any.
<1>7. CASE PollReturns
  BY <1>7 DEF PollReturns, Min2, ResponseBound
<1>8. CASE Nap
  BY <1>8 DEF Nap, Limit, ThisSlice, Min2, ResponseBound
\* The slice lasted at least as long as what it takes off `remaining`.
<1>9. CASE SliceOver
  <2>1. slept + spent + (remaining - ThisSlice) >= config.interval
    BY <1>9 DEF SliceOver
  <2>. QED
    BY <1>9, <2>1 DEF SliceOver, ResponseBound
<1>10. CASE SayGoodbye
  BY <1>10 DEF SayGoodbye, ResponseBound
<1>. QED
  BY <1>1, <1>2, <1>3, <1>4, <1>5, <1>6, <1>7, <1>8, <1>9, <1>10 DEF MainStep

\* The passing of time preserves the inductive invariant: a waiting request
\* is as old as the blocking call at most, and the call ends at its limit.
LEMMA TickInv == IInv /\ Tick => IInv'
<1>. SUFFICES ASSUME IInv, Tick PROVE IInv'
  OBVIOUS
<1>1. /\ Limit \in Nat /\ ResponseBound \in Nat
      /\ pc \in {"poll", "slice"} => Limit <= ResponseBound
      /\ Limit' = Limit /\ ResponseBound' = ResponseBound
  BY Bounds DEF IInv, TypeOK, Tick, Limit, ThisSlice, ResponseBound
<1>2. requested => pc \in {"poll", "slice"}
  BY DEF IInv, HandlerInv, Tick, Blocking, Polling, Loop, Terminated
<1>3. latency' <= ResponseBound /\ (requested => latency' <= spent')
  BY <1>1, <1>2 DEF IInv, TypeOK, RequestInv, Tick, Min2
<1>4. TypeOK'
  BY <1>1, <1>3 DEF IInv, TypeOK, RequestInv, Tick, Min2
<1>5. CallInv' /\ HandlerInv' /\ NapInv'
  BY DEF IInv, CallInv, HandlerInv, NapInv, Tick
<1>6. RequestInv'
  BY <1>1, <1>2, <1>3 DEF IInv, RequestInv, Tick
<1>. QED
  BY <1>4, <1>5, <1>6 DEF IInv

\* Every step of the console and of the handler's threads preserves the
\* inductive invariant: a request starts its life with latency 0.
LEMMA EventInv ==
    ASSUME IInv, NEW e \in Events, RaiseEvent(e) \/ HandlerStep(e)
    PROVE  IInv'
<1>1. Limit' = Limit \/ pc' = "killed"
  BY DEF RaiseEvent, HandlerStep, HandlerRuns, HandlerReturns, Limit, ThisSlice
<1>2. TypeOK'
  BY <1>1 DEF IInv, TypeOK, RaiseEvent, HandlerStep, HandlerRuns, HandlerReturns,
              history, Locations, Blocking, Polling, Terminated, ResponseBound
<1>3. CallInv' /\ NapInv'
  BY DEF IInv, CallInv, NapInv, RaiseEvent, HandlerStep, HandlerRuns, HandlerReturns,
         history, Terminated
<1>4. HandlerInv'
  BY DEF IInv, TypeOK, HandlerInv, RaiseEvent, HandlerStep, HandlerRuns,
         HandlerReturns, Terminated
<1>5. RequestInv'
  BY DEF IInv, TypeOK, RequestInv, RaiseEvent, HandlerStep, HandlerRuns,
         HandlerReturns, history, ResponseBound
<1>. QED
  BY <1>2, <1>3, <1>4, <1>5 DEF IInv

\* Every step preserves the inductive invariant.
LEMMA StepInv == IInv /\ [Next]_vars => IInv'
<1>1. ASSUME IInv, UNCHANGED vars PROVE IInv'
  BY <1>1 DEF IInv, TypeOK, CallInv, HandlerInv, RequestInv, NapInv, vars,
              Limit, ThisSlice, ResponseBound
<1>. QED
  BY MainStepInv, TickInv, EventInv, <1>1 DEF Next, Done

LEMMA Inductive == Spec => []IInv
BY InitInv, StepInv, PTL DEF Spec
-----------------------------------------------------------------------------
\* Every variable keeps its type and no blocking call outlives its bound.
THEOREM TypeCorrect == Spec => []TypeOK
<1>1. IInv => TypeOK
  BY DEF IInv
<1>. QED
  BY Inductive, <1>1, PTL

\* At most one more frame is painted after the shutdown flag was stored,
\* wherever the store falls (main.cpp L117-L123).
THEOREM OneLateFrame == Spec => []AtMostOneLateFrame
<1>1. IInv => AtMostOneLateFrame
  BY DEF IInv, RequestInv, AtMostOneLateFrame
<1>. QED
  BY Inductive, <1>1, PTL

\* The request is noticed within the longer of a poll and a slice, however
\* long the refresh interval is (interruptible_sleep, main.cpp L46-L56).
THEOREM StopIsPrompt == Spec => []PromptStop
<1>1. IInv => PromptStop
  BY DEF IInv, RequestInv, PromptStop
<1>. QED
  BY Inductive, <1>1, PTL

\* An undisturbed interruptible_sleep lasts the whole interval, for every
\* interval and slice, multiples of one another or not.
THEOREM NapIsWhole == Spec => NapNotCutShort
<1>1. IInv /\ [Next]_vars
        => [pc = "nap" /\ pc' = "check" /\ ~requested => slept >= config.interval]_vars
  <2>. SUFFICES ASSUME IInv, [Next]_vars, pc = "nap", pc' = "check", ~requested
                PROVE  slept >= config.interval
    OBVIOUS
  <2>1. Nap
    BY DEF Next, MainStep, ParseArgs, PrimeReturns, BaselineOver, PrintOnce,
           InstallHandler, CheckLoop, PollReturns, SliceOver, SayGoodbye, Tick,
           RaiseEvent, HandlerStep, HandlerRuns, HandlerReturns, Done, Goto, vars
  <2>2. remaining = 0
    BY <2>1 DEF Nap, Goto, IInv, TypeOK
  <2>. QED
    BY <2>2, IntervalAssumption DEF IInv, TypeOK, NapInv
<1>. QED
  BY Inductive, <1>1, PTL DEF Spec, NapNotCutShort

\* Multiplication is monotone.
LEMMA ProductMonotone ==
    ASSUME NEW c \in Nat, NEW a \in Nat, NEW b \in Nat, a <= b
    PROVE  c * a \in Nat /\ c * b \in Nat /\ c * a <= c * b
<1>1. b = a + (b - a) /\ b - a \in Nat
  OBVIOUS
<1>2. c * (a + (b - a)) = c * a + c * (b - a)
  BY <1>1
<1>3. c * (b - a) \in Nat /\ c * a \in Nat
  BY <1>1
<1>. QED
  BY <1>1, <1>2, <1>3

\* What fits into a number is no more than the quotient.
LEMMA QuotientAtLeast ==
    ASSUME NEW a \in Nat, NEW d \in Nat \ {0}, NEW q \in Nat, q * d <= a
    PROVE  a \div d \in Nat /\ q <= a \div d
<1>1. a \div d \in Nat /\ a < d * ((a \div d) + 1)
  OBVIOUS
<1>. DEFINE p == a \div d
<1>2. SUFFICES ASSUME p + 1 <= q PROVE FALSE
  BY <1>1
<1>. HIDE DEF p
<1>3. d * (p + 1) <= d * q
  BY <1>1, <1>2, ProductMonotone DEF p
<1>. QED
  BY <1>1, <1>3 DEF p

(***************************************************************************)
(* The invariant of NapDrift: as long as something remains to be slept,    *)
(* whole slices have been, and each has overslept once.                    *)
(***************************************************************************)
NapSlices == (config.interval + Slice - 1) \div Slice
SleptSlices(k) ==
    /\ k * Slice = config.interval - remaining
    /\ slept <= config.interval - remaining + MaxOversleep * k
DriftInv ==
    pc \in {"nap", "slice"} =>
        /\ pc = "slice" => remaining > 0
        /\ remaining <= config.interval
        /\ \/ \E k \in Nat : SleptSlices(k)
           \/ remaining = 0 /\ slept <= config.interval + MaxOversleep * NapSlices

\* No more slices are slept than fit into the interval, rounded up.
LEMMA SlicesFit ==
    ASSUME TypeOK, NEW k \in Nat, k * Slice <= config.interval + Slice - 1
    PROVE  /\ NapSlices \in Nat /\ k <= NapSlices
           /\ MaxOversleep * k \in Nat /\ MaxOversleep * NapSlices \in Nat
           /\ MaxOversleep * k <= MaxOversleep * NapSlices
<1>0. config.interval \in Nat /\ Slice \in Nat \ {0} /\ MaxOversleep \in Nat
  BY IntervalAssumption, SliceAssumption, TimeAssumption DEF TypeOK
<1>1. config.interval + Slice - 1 \in Nat /\ Slice \in Nat \ {0} /\ MaxOversleep \in Nat
  BY <1>0
<1>2. NapSlices \in Nat /\ k <= NapSlices
  BY <1>1, QuotientAtLeast DEF NapSlices
<1>. QED
  BY <1>1, <1>2, ProductMonotone

\* At any time a nap has overshot by an oversleep per slice at most.
LEMMA DriftBound ==
    ASSUME TypeOK, DriftInv, pc \in {"nap", "slice"}
    PROVE  slept <= config.interval - remaining + MaxOversleep * NapSlices
<1>1. /\ Slice \in Nat \ {0} /\ config.interval \in Nat /\ remaining \in Nat
      /\ MaxOversleep \in Nat /\ slept \in Nat
  BY IntervalAssumption, SliceAssumption, TimeAssumption DEF TypeOK
<1>2. CASE \E k \in Nat : SleptSlices(k)
  <2>1. PICK k \in Nat : SleptSlices(k)
    BY <1>2
  <2>2. k * Slice <= config.interval + Slice - 1
    BY <1>1, <2>1 DEF SleptSlices
  <2>3. MaxOversleep * k \in Nat /\ MaxOversleep * NapSlices \in Nat
        /\ MaxOversleep * k <= MaxOversleep * NapSlices
    BY <2>2, SlicesFit
  <2>. QED
    BY <1>1, <2>1, <2>3 DEF SleptSlices
<1>3. CASE remaining = 0 /\ slept <= config.interval + MaxOversleep * NapSlices
  <2>1. 0 * Slice <= config.interval + Slice - 1
    BY <1>1
  <2>2. MaxOversleep * NapSlices \in Nat
    BY <2>1, SlicesFit
  <2>. QED
    BY <1>1, <1>3, <2>2
<1>. QED
  BY <1>2, <1>3 DEF DriftInv

\* The last slice is clipped to what remains; all others are whole.
LEMMA SliceDrift == ASSUME IInv, DriftInv, SliceOver PROVE DriftInv'
<1>1. /\ Slice \in Nat \ {0} /\ config.interval \in Nat /\ remaining \in Nat
      /\ MaxOversleep \in Nat /\ slept \in Nat /\ spent \in Nat
  BY IntervalAssumption, SliceAssumption, TimeAssumption DEF IInv, TypeOK
<1>2. /\ pc = "slice" /\ pc' = "nap" /\ config' = config
      /\ remaining' = remaining - ThisSlice /\ slept' = slept + spent
      /\ remaining > 0 /\ remaining <= config.interval
      /\ spent <= ThisSlice + MaxOversleep
  BY DEF SliceOver, Goto, DriftInv, IInv, TypeOK, Blocking, Limit, Polling
<1>3. PICK k \in Nat : SleptSlices(k)
  BY <1>1, <1>2 DEF DriftInv
<1>4. /\ (k + 1) * Slice = k * Slice + Slice /\ k * Slice \in Nat
      /\ MaxOversleep * (k + 1) = MaxOversleep * k + MaxOversleep
      /\ MaxOversleep * k \in Nat
  BY <1>1
<1>5. NapSlices' = NapSlices
  BY <1>2 DEF NapSlices
<1>6. CASE Slice <= remaining
  <2>1. ThisSlice = Slice
    BY <1>6 DEF ThisSlice, Min2
  <2>2. SleptSlices(k + 1)'
    BY <1>1, <1>2, <1>3, <1>4, <2>1 DEF SleptSlices
  <2>. QED
    BY <1>1, <1>2, <2>1, <2>2 DEF DriftInv
<1>7. CASE ~(Slice <= remaining)
  <2>1. ThisSlice = remaining
    BY <1>7 DEF ThisSlice, Min2
  <2>2. (k + 1) * Slice <= config.interval + Slice - 1
    BY <1>1, <1>2, <1>3, <1>4 DEF SleptSlices
  <2>3. MaxOversleep * (k + 1) <= MaxOversleep * NapSlices /\ MaxOversleep * NapSlices \in Nat
    BY <2>2, SlicesFit DEF IInv
  <2>4. slept' <= config.interval + MaxOversleep * NapSlices
    BY <1>1, <1>2, <1>3, <1>4, <2>1, <2>3 DEF SleptSlices
  <2>. QED
    BY <1>1, <1>2, <1>5, <2>1, <2>4 DEF DriftInv
<1>. QED
  BY <1>6, <1>7

LEMMA DriftInductive == Spec => []DriftInv
<1>1. Init => DriftInv
  BY DEF Init, DriftInv
<1>2. ASSUME IInv, DriftInv, [Next]_vars PROVE DriftInv'
  <2>1. CASE SliceOver
    BY <2>1, <1>2, SliceDrift
  <2>2. CASE PollReturns
    <3>1. /\ Slice \in Nat /\ MaxOversleep \in Nat /\ config.interval \in Nat
          /\ config' = config /\ pc' = "nap" /\ remaining' = config.interval /\ slept' = 0
      BY <1>2, <2>2, IntervalAssumption, SliceAssumption, TimeAssumption
         DEF PollReturns, Goto, IInv, TypeOK
    <3>2. SleptSlices(0)'
      BY <3>1 DEF SleptSlices
    <3>. QED
      BY <3>1, <3>2 DEF DriftInv
  <2>3. CASE ~SliceOver /\ ~PollReturns
    <3>1. pc' \in {"nap", "slice"} =>
            /\ pc \in {"nap", "slice"} /\ UNCHANGED <<config, remaining, slept>>
            /\ pc' = "slice" /\ pc = "nap" => remaining > 0
      BY <1>2, <2>3 DEF Next, MainStep, ParseArgs, PrimeReturns, BaselineOver, PrintOnce,
         InstallHandler, CheckLoop, Nap, SayGoodbye, Tick, RaiseEvent, HandlerStep,
         HandlerRuns, HandlerReturns, Done, Goto, vars, history
    <3>. QED
      BY <1>2, <3>1 DEF DriftInv, SleptSlices, NapSlices
  <2>. QED
    BY <2>1, <2>2, <2>3
<1>. QED
  BY Inductive, <1>1, <1>2, PTL DEF Spec

\* The refresh period drifts by at most one oversleep for each slice of the
\* interval, a partial last one included, for every interval and slice
\* (interruptible_sleep, main.cpp L48-L56).
THEOREM DriftIsBounded == Spec => NapDrift
<1>1. IInv /\ DriftInv /\ [Next]_vars
        => [pc = "nap" /\ pc' = "check" =>
              slept <= config.interval
                       + MaxOversleep * ((config.interval + Slice - 1) \div Slice)]_vars
  <2>. SUFFICES ASSUME IInv, DriftInv, pc = "nap"
                PROVE  slept <= config.interval
                       + MaxOversleep * ((config.interval + Slice - 1) \div Slice)
    OBVIOUS
  <2>1. slept <= config.interval - remaining + MaxOversleep * NapSlices
    BY DriftBound DEF IInv
  <2>2. /\ config.interval \in Nat /\ remaining \in Nat /\ slept \in Nat
        /\ Slice \in Nat \ {0}
    BY IntervalAssumption, SliceAssumption DEF IInv, TypeOK
  <2>3. MaxOversleep * NapSlices \in Nat
    <3>1. 0 * Slice <= config.interval + Slice - 1
      BY <2>2
    <3>. QED
      BY <3>1, SlicesFit DEF IInv
  <2>4. slept <= config.interval + MaxOversleep * NapSlices
    BY <2>1, <2>2, <2>3
  <2>. QED
    BY <2>4 DEF NapSlices
<1>. QED
  BY Inductive, DriftInductive, <1>1, PTL DEF Spec, NapDrift

\* Once the handler is registered only an event it does not handle, or
\* CTRL_CLOSE_EVENT, can end the process abruptly (main.cpp L34-L44).
THEOREM CtrlCIsSafe == Spec => CtrlCNeverKills
<1>1. TypeOK /\ [Next]_vars
        => [installed /\ Running /\ pc' = "killed" =>
              \E e \in Events \ {"CTRL_C", "CTRL_BREAK"} : handler[e] # "idle"]_vars
  <2>. SUFFICES ASSUME TypeOK, [Next]_vars, installed, Running, pc' = "killed"
                PROVE  \E e \in Events \ {"CTRL_C", "CTRL_BREAK"} : handler[e] # "idle"
    OBVIOUS
  <2>1. PICK e \in Events : HandlerStep(e)
    BY DEF Next, MainStep, ParseArgs, PrimeReturns, BaselineOver, PrintOnce,
           InstallHandler, CheckLoop, PollReturns, Nap, SliceOver, SayGoodbye, Tick,
           RaiseEvent, Done, Goto, vars, Running, Terminated
  <2>. QED
    BY <2>1 DEF HandlerStep, HandlerRuns, HandlerReturns, Handled, Running, Terminated
<1>. QED
  BY TypeCorrect, <1>1, PTL DEF Spec, CtrlCNeverKills

\* Every step of the loop, the console and the handler threads is a step of
\* StopPromise or leaves it unchanged.
THEOREM ImplementsPromise == Spec => Promise!Safe
<1>. USE DEF Promise!vars
<1>1. Init => Promise!Init
  BY DEF Init, Promise!Init, Terminated
<1>2. IInv /\ IInv' /\ [Next]_vars => [Promise!Next]_(Promise!vars)
  <2>. SUFFICES ASSUME IInv, IInv', [Next]_vars PROVE [Promise!Next]_(Promise!vars)
    OBVIOUS
  <2>. USE DEF Terminated, Goto, history
  <2>1. CASE PollReturns
    BY <2>1 DEF PollReturns, IInv, TypeOK, RequestInv, Min2,
                Promise!Next, Promise!FinishFrame
  <2>2. CASE MainStep /\ ~PollReturns
    BY <2>2 DEF MainStep, ParseArgs, PrimeReturns, BaselineOver, PrintOnce,
                InstallHandler, CheckLoop, Nap, SliceOver, SayGoodbye,
                Promise!Next, Promise!End
  <2>3. CASE Tick
    <3>1. ResponseBound \in Nat /\ ResponseBound' = ResponseBound
      BY Bounds DEF IInv, TypeOK, ResponseBound
    <3>2. requested => latency' = latency + 1 /\ latency < ResponseBound
      BY <2>3, <3>1 DEF Tick, IInv, TypeOK, RequestInv, Min2
    <3>. QED
      BY <2>3, <3>2 DEF Tick, Blocking, Polling, Promise!Next, Promise!Wait
  <2>4. ASSUME NEW e \in Events, RaiseEvent(e) \/ HandlerReturns(e)
        PROVE  [Promise!Next]_(Promise!vars)
    BY <2>4 DEF RaiseEvent, HandlerReturns, Running, Promise!Next, Promise!End
  <2>5. ASSUME NEW e \in Events, HandlerRuns(e) PROVE [Promise!Next]_(Promise!vars)
    BY <2>5 DEF HandlerRuns, Running, Promise!Next, Promise!End, Promise!Ask
  <2>6. CASE UNCHANGED vars
    BY <2>6 DEF vars
  <2>. QED
    BY <2>1, <2>2, <2>3, <2>4, <2>5, <2>6 DEF Next, HandlerStep, Done
<1>. QED
  BY Inductive, <1>1, <1>2, PTL DEF Spec, Promise!Safe
=============================================================================
