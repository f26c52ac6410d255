------------------------------ MODULE MCFrames ------------------------------
(***************************************************************************)
(* Frames, and with it the whole main loop, on the instance of MCMainLoop. *)
(* One section is enough: the sections do not look at one another, and the *)
(* one of the CPU monitor begins with a baseline or without, as the others *)
(* do, depending on its constructor's reading.                             *)
(***************************************************************************)
EXTENDS Frames, MCMainLoop

MCSections == <<"cpu">>
=============================================================================
