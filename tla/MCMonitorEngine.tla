-------------------------- MODULE MCMonitorEngine --------------------------
(***************************************************************************)
(* MonitorEngine on a small instance: a fixed disk that may refuse a       *)
(* query, and a card reader with two cards that may be empty or unplugged. *)
(***************************************************************************)
EXTENDS MonitorEngine

CONSTANTS C, E1, E2     \* the fixed disk, and the two cards

MCLetters == {2, 4}
MCMedia   == {C, E1, E2}
MCFits    == [d \in MCLetters |-> IF d = 2 THEN {C} ELSE {E1, E2, Vacant, NoDrive}]
=============================================================================
