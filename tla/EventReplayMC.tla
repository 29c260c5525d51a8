---------------------------- MODULE EventReplayMC ---------------------------
(***************************************************************************)
(* Instances of EventReplay for TLC.                                       *)
(***************************************************************************)
EXTENDS EventReplay, TLC

CONSTANTS m1, progress, t1, t2

(* Concurrent tasks, faults and no archiving; or archiving, for one task   *)
(* and without faults.                                                     *)
Concurrent ==
    [archive |-> FALSE, tasks |-> {t1, t2}, events |-> 4, replays |-> 4, faults |-> 2]
Archiving ==
    [archive |-> TRUE, tasks |-> {t1}, events |-> 6, replays |-> 5, faults |-> 0]
Both == {Concurrent, Archiving}
=============================================================================
