----------------------------- MODULE MCMainLoop -----------------------------
(***************************************************************************)
(* MainLoop on a small instance, and what the documents say of it.         *)
(*                                                                         *)
(* One unit of time is half a slice.  The intervals are one slice exactly  *)
(* (kMinInterval) and two slices and a half, so that the last slice is a   *)
(* partial one; a poll may outlast a slice and its oversleep.              *)
(***************************************************************************)
EXTENDS MainLoop

MCIntervals == {2, 5}
MCEvents    == {"CTRL_C", "CTRL_BREAK", "CTRL_CLOSE", "CTRL_SHUTDOWN"}
MCCtrlC     == {"CTRL_C"}
MCClose     == {"CTRL_CLOSE"}
-----------------------------------------------------------------------------
(* Claims of the documents, each refuted by a run. *)

\* README.md L78: continuous mode "exits cleanly on Ctrl+C".  With Ctrl+C the
\* only event, a live program that is up and polling is never killed.
CtrlCExitsCleanly ==
    [][config.mode = "live" /\ pc \in Blocking => pc' # "killed"]_vars

\* main.cpp L40: for every event the handler handles, returning TRUE
\* "suppresses the default (immediate-kill) action".
HandledMeansNotKilled ==
    [][\A e \in Events : handler[e] = "stored" => pc' # "killed"]_vars

\* ARCHITECTURE.md L207: "Ctrl+C shutdown latency is bounded by the 100ms
\* sleep-slice size" (granting the oversleep of that slice).
LatencyWithinSlice == latency <= Slice + MaxOversleep
=============================================================================
