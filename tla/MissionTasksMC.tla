--------------------------- MODULE MissionTasksMC ---------------------------
(***************************************************************************)
(* Instances of MissionTasks for TLC.  The answers of the planning model   *)
(* include some the checks refuse.                                         *)
(***************************************************************************)
EXTENDS MissionTasks, TLC

Chain == <<{}, {1}, {2}>>
Fork == <<{}, {1}, {1}>>
Join == <<{}, {}, {1, 2}>>
Loop == <<{3}, {1}, {2}>>
Dangling == <<{}, {4}>>

Single == {<<Chain>>, <<Fork>>, <<Join>>, <<Loop>>, <<Dangling>>}

(* An outline with two phases.                                             *)
Chunked == {<< <<{}>>, <<{}>> >>}
=============================================================================
