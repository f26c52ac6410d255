---------------------------- MODULE StopPromise ----------------------------
(***************************************************************************)
(* What the live display promises its user, with no sleep slices, signal   *)
(* handler or poll in sight: after the program has been asked to stop it   *)
(* paints at most one more frame, it keeps the user waiting for at most    *)
(* Bound units of time, and it does end.  MainLoop implements it.          *)
(***************************************************************************)
EXTENDS Naturals

CONSTANT Bound   \* the longest wait between the request and the end, in Nat

VARIABLES
    phase,    \* "running", "stopping" (a stop was requested) or "ended"
    waited,   \* time since the request
    painted   \* frames painted since the request

vars == <<phase, waited, painted>>

Init == phase = "running" /\ waited = 0 /\ painted = 0

\* The user, or the system, requests a stop.
Ask == phase = "running" /\ phase' = "stopping" /\ UNCHANGED <<waited, painted>>

\* The frame that was being produced when the request came may still appear.
FinishFrame ==
    /\ phase = "stopping" /\ painted = 0
    /\ painted' = 1
    /\ UNCHANGED <<phase, waited>>

Wait ==
    /\ phase = "stopping" /\ waited < Bound
    /\ waited' = waited + 1
    /\ UNCHANGED <<phase, painted>>

\* The program ends, with or without a request (--once, --help, a bad
\* argument, or the system killing it).
End == phase # "ended" /\ phase' = "ended" /\ UNCHANGED <<waited, painted>>

Next == Ask \/ FinishFrame \/ Wait \/ End

Safe == Init /\ [][Next]_vars
Spec == Safe /\ WF_vars(phase = "stopping" /\ End)
=============================================================================
