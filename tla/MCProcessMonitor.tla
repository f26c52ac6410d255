-------------------------- MODULE MCProcessMonitor --------------------------
(***************************************************************************)
(* ProcessMonitor on a small instance, and what the comments say of it.    *)
(***************************************************************************)
EXTENDS ProcessMonitor

-----------------------------------------------------------------------------
(* Claims of the comments, each refuted by a run. *)

\* interfaces.hpp L52-L54: "a process absent from the previous sample (new
\* since then, or this is the very first call) simply reports 0% CPU".
NewProcessReportsZero ==
    [][Returning =>
         \A p \in (Measured \cap DOMAIN prevTicks) \ Tracked :
            result'.rows[p].cpuPercent.num = 0]_vars

\* math.hpp L30-L33, L38-L41: the percentage is taken over the wall-clock
\* seconds elapsed between the two readings; it exceeds 100 only by running on
\* several cores, hence never exceeds 100 per core.
NoMoreThanItsCores ==
    [][Returning =>
         \A p \in Tracked : AtMost(result'.rows[p].cpuPercent, 100 * Cores)]_vars
=============================================================================
