-------------------------- MODULE MissionControlMC --------------------------
(***************************************************************************)
(* Instances of MissionControl for TLC: the processes are the numbers of a *)
(* .cfg, and the model values stand for what is absent.                    *)
(***************************************************************************)
EXTENDS MissionControl, TLC
=============================================================================
