--------------------------- MODULE MonitorEngine ---------------------------
(***************************************************************************)
(* src/src/monitor/engine.cpp: poll() samples the six monitors one after   *)
(* the other on the caller's thread and hands out all six results.  The    *)
(* disk monitor is the real one, for it may block and changes the error    *)
(* mode of that thread; memory and system are one system call each; of the *)
(* three monitors that keep a baseline (modules of their own) only the     *)
(* outcome matters here.                                                   *)
(***************************************************************************)
EXTENDS DiskMonitor

VARIABLES
    section,    \* the monitor being sampled, or "idle" between two polls
    snapshot    \* per section sampled so far, the status of its Result

engineVars == <<diskVars, section, snapshot>>

\* The designated initializers are evaluated in this order (engine.cpp L22-L27).
After == [cpu |-> "memory", memory |-> "disks", disks |-> "processes",
          processes |-> "network", network |-> "system", system |-> "idle"]

\* Mutated: a poll gives up at the first section that failed.
Following_Stops(name, status) ==
    IF status = "failed" THEN "idle" ELSE After[name]
\* A failure is handed out like any other result.
Following(name, status) == After[name]
-----------------------------------------------------------------------------
EngineInit ==
    /\ DiskInit
    /\ section = "idle"
    /\ snapshot = <<>>

Poll ==
    /\ section = "idle"
    /\ section' = "cpu"
    /\ snapshot' = <<>>
    /\ UNCHANGED diskVars

\* The sample of `name` returns a Result with this status.
Sampled(name, status) ==
    /\ section = name
    /\ section' = Following(name, status)
    /\ snapshot' = [s \in DOMAIN snapshot \cup {name} |->
                        IF s = name THEN status ELSE snapshot[s]]

SampleBaseline(name) ==
    /\ \E status \in {"ok", "failed"} : Sampled(name, status)
    /\ UNCHANGED diskVars

\* GlobalMemoryStatusEx, and translate() of its outcome.
SampleMemory ==
    /\ \E succeeded \in BOOLEAN : Sampled("memory", IF succeeded THEN "ok" ELSE "failed")
    /\ UNCHANGED diskVars

\* One step of DiskMonitor::sample(); the one that ends it returns.
SampleDisks ==
    /\ section = "disks"
    /\ ListDrives \/ DiskStep \/ UserStep
    /\ IF step' = "idle"
       THEN Sampled("disks", volumes'.status)
       ELSE UNCHANGED <<section, snapshot>>

\* GetTickCount64 never fails; a host name that cannot be had is left empty.
SampleSystem ==
    /\ Sampled("system", "ok")
    /\ UNCHANGED diskVars

EngineStep ==
    \/ \E name \in {"cpu", "processes", "network"} : SampleBaseline(name)
    \/ SampleMemory \/ SampleSystem
    \/ SampleDisks /\ ~dialog

AnswerDialog == SampleDisks /\ dialog

Environment ==
    /\ \E d \in Letters : Change(d)
    /\ UNCHANGED <<section, snapshot>>

EngineNext == Poll \/ EngineStep \/ AnswerDialog \/ Environment

\* A system call returns, unless a dialog is up: nobody need be there to
\* answer it, and nobody need ask for another poll.
EngineSpec     == EngineInit /\ [][EngineNext]_engineVars
FairEngineSpec == EngineSpec /\ WF_engineVars(EngineStep)
-----------------------------------------------------------------------------
(* Properties. *)

\* A poll that returned has sampled all six monitors, whichever of them
\* failed: no failure hides the sections after it or keeps their baselines
\* from moving on.
EverySectionSampled ==
    section = "idle" /\ snapshot # <<>> => DOMAIN snapshot = DOMAIN After

\* On an unattended machine every poll returns: all that may hold it up is a
\* dialog that could not be switched off, whatever becomes of the drives in
\* the meantime.
UnattendedPollReturns ==
    section = "cpu" ~> (section = "idle" \/ (dialog /\ ~modeSet))
=============================================================================
