--------------------------- MODULE MissionControl ---------------------------
(***************************************************************************)
(* One mission run with worktree isolation, and the runs of the program    *)
(* that act on it: `mission`, `resume`, `pause`, `cancel` and `retry -f`.  *)
(* They share the mission file, the worktree and the execution lock, and   *)
(* each works on a copy of the mission it loaded (src/orchestrator/engine, *)
(* src/mission/store.rs, src/state/machine.rs).                            *)
(*                                                                         *)
(* The tasks themselves are left to chance: an iteration of the execution  *)
(* loop may go on, finish, fail or escalate.                               *)
(***************************************************************************)
EXTENDS ProcessLock

CONSTANTS
    Commands,   \* what the runs of the program are asked to do
    MaxAlive,   \* bound: runs at the same time
    NoMission   \* the mission file does not exist

ASSUME ControlAssumption ==
    /\ Commands \subseteq {"mission", "resume", "pause", "cancel", "retry"}
    /\ MaxAlive \in Nat

VARIABLES
    disk,    \* missions/<id>.yaml: [status, path, planned] or NoMission
    tree,    \* the worktree directory exists
    copy,    \* [Procs -> the copy of the mission a process holds]
    where,   \* [Procs -> where the process is]
    cmd,     \* [Procs -> its command]
    signal   \* [Procs -> SignalHandler, "deaf" without one]

shared == <<disk, tree>>
controlVars == <<alive, lockFile, holds, beat, lapses, disk, tree, copy, where, cmd, signal>>

Statuses == {"Pending", "Planning", "Running", "Paused", "Verifying",
             "Escalated", "Completed", "Failed", "Cancelled"}
Terminal == {"Completed", "Failed", "Cancelled"}
Active == {"Planning", "Running", "Verifying"}
Suspended == {"Paused", "Escalated"}

(* MissionState::allowed_transitions.                                      *)
Allowed ==
    [Pending   |-> {"Planning", "Running", "Failed", "Cancelled"},
     Planning  |-> {"Running", "Failed", "Cancelled", "Escalated"},
     Running   |-> {"Verifying", "Failed", "Paused", "Cancelled", "Escalated"},
     Verifying |-> {"Completed", "Running", "Failed", "Escalated"},
     Paused    |-> {"Running", "Failed", "Cancelled"},
     Escalated |-> {"Running", "Paused", "Failed", "Cancelled"},
     Completed |-> {}, Failed |-> {}, Cancelled |-> {}]

(* status, worktree_path is set, and there are tasks.                      *)
Missions == [status : Statuses, path : BOOLEAN, planned : BOOLEAN]
Fresh == [status |-> "Pending", path |-> FALSE, planned |-> FALSE]

-----------------------------------------------------------------------------
ProcGoes(p, from, to) == where[p] = from /\ where' = [where EXCEPT ![p] = to]

(* transition_state: the FSM is asked about the process's own copy, which  *)
(* then replaces the file.                                                 *)
MayBecome(p, s) == s \in Allowed[copy[p].status]
Becomes(p, s) ==
    /\ copy' = [copy EXCEPT ![p].status = s]
    /\ disk' = copy'[p]
BecomesIfAllowed(p, s) ==
    IF MayBecome(p, s) THEN Becomes(p, s) ELSE UNCHANGED <<copy, disk>>

Loads(p) == disk # NoMission /\ copy' = [copy EXCEPT ![p] = disk]

Executing(p) ==
    where[p] \in {"load", "restore", "setup", "saveSetup", "route", "direct",
                  "planning", "start", "loop", "work", "verify", "complete",
                  "completing", "failing", "failed", "unlock"}

ControlInit ==
    /\ LockInit
    /\ disk = NoMission /\ tree = FALSE
    /\ copy = [p \in Procs |-> NoMission]
    /\ where = [p \in Procs |-> "off"]
    /\ cmd \in [Procs -> {"none"}]
    /\ signal = [p \in Procs |-> "deaf"]

(* The program is started.  Only `mission` makes sense before there is one *)
Start(p, c) ==
    /\ ProcGoes(p, "off", "scan")
    /\ Cardinality(alive) < MaxAlive
    /\ \A q \in Procs : q < p => where[q] # "off"
    /\ (c = "mission") <=> \A q \in Procs : where[q] = "off"
    /\ alive' = alive \cup {p}
    /\ cmd' = [cmd EXCEPT ![p] = c]
    /\ UNCHANGED <<lockFile, holds, beat, lapses, shared, copy, signal>>

(* Orchestrator::init: the missions whose worktree is kept are read, then  *)
(* every other worktree is removed, by force.                              *)
Scan(p) ==
    /\ LET kept == disk # NoMission /\ disk.status \in Active /\ disk.path
       IN  ProcGoes(p, "scan", IF kept THEN cmd[p] ELSE "sweep")
    /\ UNCHANGED <<lockVars, shared, copy, cmd, signal>>

Sweep(p) ==
    /\ ProcGoes(p, "sweep", cmd[p])
    /\ tree' = FALSE
    /\ UNCHANGED <<lockVars, disk, copy, cmd, signal>>

(* create_mission: the new mission is saved and gets a signal handler, the *)
(* only kind of run that has one.                                          *)
Create(p) ==
    /\ ProcGoes(p, "mission", "look")
    /\ disk' = Fresh
    /\ signal' = [signal EXCEPT ![p] = "none"]
    /\ UNCHANGED <<lockVars, tree, copy, cmd>>

(* Ctrl-C, or Orchestrator::pause and cancel called in the process that    *)
(* created the mission.                                                    *)
Send(p, s) ==
    /\ p \in alive /\ signal[p] \notin {"deaf", s}
    /\ signal' = [signal EXCEPT ![p] = s]
    /\ UNCHANGED <<lockVars, shared, copy, where, cmd>>
-----------------------------------------------------------------------------
(* MissionStore::load finds no file: the first run died before saving it.  *)
NotFound(p) ==
    /\ disk = NoMission
    /\ \E from \in {"resume", "pause", "cancel", "retry"} : ProcGoes(p, from, "end")
    /\ UNCHANGED <<lockVars, shared, copy, cmd, signal>>

(* resume: the mission becomes Running before the lock is asked for.       *)
ResumeLoad(p) ==
    /\ Loads(p)
    /\ ProcGoes(p, "resume", IF disk.status \in Suspended THEN "resuming" ELSE "end")
    /\ UNCHANGED <<lockVars, shared, cmd, signal>>
ResumeSave(p) ==
    /\ ProcGoes(p, "resuming", "look")
    /\ Becomes(p, "Running")
    /\ UNCHANGED <<lockVars, tree, cmd, signal>>

(* pause and cancel, in a process that has no handler for the mission.     *)
PauseLoad(p) ==
    /\ Loads(p)
    /\ ProcGoes(p, "pause", IF disk.status \in Active THEN "pausing" ELSE "end")
    /\ UNCHANGED <<lockVars, shared, cmd, signal>>
PauseSave(p) ==
    /\ ProcGoes(p, "pausing", "end")
    /\ BecomesIfAllowed(p, "Paused")
    /\ UNCHANGED <<lockVars, tree, cmd, signal>>

CancelLoad(p) ==
    /\ Loads(p)
    /\ ProcGoes(p, "cancel", IF disk.status \in Terminal THEN "end" ELSE "cancelTree")
    /\ UNCHANGED <<lockVars, shared, cmd, signal>>
(* git refuses to remove a worktree that is no longer there.               *)
CancelTree(p) ==
    /\ ProcGoes(p, "cancelTree", IF copy[p].path /\ ~tree THEN "end" ELSE "cancelling")
    /\ tree' = (tree /\ ~copy[p].path)
    /\ UNCHANGED <<lockVars, disk, copy, cmd, signal>>
CancelSave(p) ==
    /\ ProcGoes(p, "cancelling", "end")
    /\ BecomesIfAllowed(p, "Cancelled")
    /\ UNCHANGED <<lockVars, tree, cmd, signal>>

(* Orchestrator::is_orphan_state: only Running missions are looked at.     *)
OrphanState == disk # NoMission /\ disk.status = "Running" /\ LockOrphaned

(* retry -f: first recover_orphan_state, which marks a Running mission     *)
(* that no valid lock names as failed ...                                  *)
OrphanCheck(p) ==
    /\ disk # NoMission
    /\ ProcGoes(p, "retry", IF OrphanState THEN "recover" ELSE "retrying")
    /\ UNCHANGED <<lockVars, shared, copy, cmd, signal>>
RecoverLoad(p) ==
    /\ Loads(p)
    /\ ProcGoes(p, "recover", "recovering")
    /\ UNCHANGED <<lockVars, shared, cmd, signal>>
RecoverSave(p) ==
    /\ ProcGoes(p, "recovering",
            IF MayBecome(p, "Failed") THEN "recoverUnlock" ELSE "retrying")
    /\ BecomesIfAllowed(p, "Failed")
    /\ UNCHANGED <<lockVars, tree, cmd, signal>>
RecoverUnlock(p) ==
    /\ ProcGoes(p, "recoverUnlock", "retrying")
    /\ ReleaseLock
    /\ UNCHANGED <<shared, copy, cmd, signal>>

(* ... then retry, which looks again, and asks the FSM to leave a terminal *)
(* state or to go from Running to Running.                                 *)
Retry(p) ==
    /\ Loads(p)
    /\ ProcGoes(p, "retrying",
            IF disk.status \in {"Failed", "Cancelled"} \/ OrphanState
            THEN "restart" ELSE "end")
    /\ IF OrphanState THEN ReleaseLock ELSE UNCHANGED lockVars
    /\ UNCHANGED <<shared, cmd, signal>>
Restart(p) ==
    \E s \in {"Planning", "Running"} :
        /\ ProcGoes(p, "restart", IF MayBecome(p, s) THEN "look" ELSE "end")
        /\ BecomesIfAllowed(p, s)
        /\ UNCHANGED <<lockVars, tree, cmd, signal>>
-----------------------------------------------------------------------------
(* execute: acquire the lock (look at the file, then rename one's own over *)
(* it), load the mission.                                                  *)
Look(p) ==
    /\ ProcGoes(p, "look", IF LockValid THEN "end" ELSE "take")
    /\ UNCHANGED <<lockVars, shared, copy, cmd, signal>>
Take(p) ==
    /\ ProcGoes(p, "take", "load")
    /\ TakeLock(p)
    /\ UNCHANGED <<shared, copy, cmd, signal>>
Load(p) ==
    /\ Loads(p)
    /\ ProcGoes(p, "load", IF disk.status \in Terminal THEN "unlock" ELSE "restore")
    /\ UNCHANGED <<lockVars, shared, cmd, signal>>

(* A checkpoint, which only a mission with tasks may have, is merged into  *)
(* them and saved; escalated missions are then refused.                    *)
Restore(p) ==
    /\ ProcGoes(p, "restore", IF copy[p].status = "Escalated" THEN "unlock" ELSE "setup")
    /\ disk' = disk \/ (copy[p].planned /\ disk' = copy[p])
    /\ UNCHANGED <<lockVars, tree, copy, cmd, signal>>

(* setup_isolation: the worktree is made, or found, then the path saved.   *)
FaultKeepsPath(p) == tree' = (tree \/ ~copy[p].path)
MakesTree(p) == tree' = TRUE
Setup(p) ==
    /\ ProcGoes(p, "setup", "saveSetup")
    /\ MakesTree(p)
    /\ copy' = [copy EXCEPT ![p].path = TRUE]
    /\ UNCHANGED <<lockVars, disk, cmd, signal>>
SaveSetup(p) ==
    /\ ProcGoes(p, "saveSetup", "route")
    /\ disk' = copy[p]
    /\ UNCHANGED <<lockVars, tree, copy, cmd, signal>>

(* An error before the routing is decided (git, the context budget, the    *)
(* evidence) ends execute and leaves the status as it is.                  *)
GiveUp(p) ==
    /\ \E from \in {"restore", "setup", "route"} : ProcGoes(p, from, "unlock")
    /\ UNCHANGED <<lockVars, shared, copy, cmd, signal>>

(* Routing: a mission that has tasks goes on to the loop; one that has     *)
(* none is executed directly (or by the coordinator), or planned.          *)
RouteTasks(p) ==
    /\ ProcGoes(p, "route", "start")
    /\ copy[p].planned
    /\ UNCHANGED <<lockVars, shared, copy, cmd, signal>>
RouteDirect(p) ==
    /\ ProcGoes(p, "route", IF MayBecome(p, "Running") THEN "direct" ELSE "unlock")
    /\ ~copy[p].planned
    /\ BecomesIfAllowed(p, "Running")
    /\ UNCHANGED <<lockVars, tree, cmd, signal>>
RoutePlanning(p) ==
    /\ ProcGoes(p, "route", IF MayBecome(p, "Planning") THEN "planning" ELSE "unlock")
    /\ ~copy[p].planned
    /\ BecomesIfAllowed(p, "Planning")
    /\ UNCHANGED <<lockVars, tree, cmd, signal>>

(* plan_mission_with_evidence: the plan is put into the copy, then saved;  *)
(* an error before either ends in the clean-up.                            *)
Planned(p) == copy' = [copy EXCEPT ![p].planned = TRUE]
Plan(p) ==
    /\ ProcGoes(p, "planning", "start")
    /\ Planned(p)
    /\ disk' = copy'[p]
    /\ UNCHANGED <<lockVars, tree, cmd, signal>>
PlanFails(p) ==
    /\ ProcGoes(p, "planning", "failing")
    /\ Planned(p) \/ UNCHANGED copy
    /\ UNCHANGED <<lockVars, shared, cmd, signal>>

(* execute_direct: the agent works without looking at signals.  An error   *)
(* of the agent ends execute and leaves the mission Running.               *)
DirectDone(p) ==
    /\ ProcGoes(p, "direct", "complete")
    /\ Becomes(p, "Verifying")
    /\ UNCHANGED <<lockVars, tree, cmd, signal>>
DirectFails(p) ==
    /\ \E to \in {"failing", "unlock"} : ProcGoes(p, "direct", to)
    /\ UNCHANGED <<lockVars, shared, copy, cmd, signal>>

StartLoop(p) ==
    /\ ProcGoes(p, "start", "loop")
    /\ IF copy[p].status = "Running" THEN UNCHANGED copy /\ disk' = copy[p]
       ELSE Becomes(p, "Running")
    /\ UNCHANGED <<lockVars, tree, cmd, signal>>
-----------------------------------------------------------------------------
FaultLeavesWhenTold(p) ==
    /\ signal[p] \in {"pause", "cancel"}
    /\ ProcGoes(p, "loop", "verify") /\ Becomes(p, "Verifying")
    /\ UNCHANGED <<lockVars, tree, cmd, signal>>

(* The head of the loop: are the tasks done or the iterations used up? ... *)
LeaveLoop(p) ==
    /\ \/ ProcGoes(p, "loop", "verify") /\ Becomes(p, "Verifying")
       \/ ProcGoes(p, "loop", "failing") /\ Becomes(p, "Failed")
    /\ UNCHANGED <<lockVars, tree, cmd, signal>>

(* ... if not, check_signal ...                                            *)
PauseSignal(p) ==
    /\ signal[p] = "pause"
    /\ ProcGoes(p, "loop", "unlock")
    /\ Becomes(p, "Paused")
    /\ UNCHANGED <<lockVars, tree, cmd, signal>>
(* (the worktree, which goes twice, goes in the clean-up that follows)      *)
CancelSignal(p) ==
    /\ signal[p] = "cancel"
    /\ ProcGoes(p, "loop", "failing")
    /\ Becomes(p, "Cancelled")
    /\ UNCHANGED <<lockVars, tree, cmd, signal>>
FaultIgnoresCancel(p) == signal[p] = "pause"
Signalled(p) == signal[p] \in {"pause", "cancel"}
Work(p) ==
    /\ ~Signalled(p)
    /\ ProcGoes(p, "loop", "work")
    /\ UNCHANGED <<lockVars, shared, copy, cmd, signal>>

(* ... then one round of tasks, saved; or a timeout or a task that         *)
(* escalates; or an error.                                                 *)
Iterate(p) ==
    /\ ProcGoes(p, "work", "loop")
    /\ disk' = copy[p]
    /\ UNCHANGED <<lockVars, tree, copy, cmd, signal>>
Escalate(p) ==
    /\ ProcGoes(p, "work", "unlock")
    /\ Becomes(p, "Escalated")
    /\ UNCHANGED <<lockVars, tree, cmd, signal>>
ErrorInLoop(p) ==
    /\ ProcGoes(p, "work", "failing")
    /\ UNCHANGED <<lockVars, shared, copy, cmd, signal>>

(* finalize: coherence, QA and convergent verification.                    *)
Verify(p) ==
    /\ \/ ProcGoes(p, "verify", "complete") /\ UNCHANGED <<copy, disk>>
       \/ ProcGoes(p, "verify", "failing") /\ UNCHANGED <<copy, disk>>
       \/ ProcGoes(p, "verify", "failing") /\ Becomes(p, "Failed")
    /\ UNCHANGED <<lockVars, tree, cmd, signal>>

(* complete_mission: merge or pull request, then remove the worktree, then *)
(* Completed.  The direct route does not clean up after an error.          *)
CompleteTree(p) ==
    /\ tree
    /\ ProcGoes(p, "complete", "completing")
    /\ tree' = FALSE
    /\ UNCHANGED <<lockVars, disk, copy, cmd, signal>>
CompleteFails(p) ==
    /\ ProcGoes(p, "complete", IF copy[p].planned THEN "failing" ELSE "unlock")
    /\ UNCHANGED <<lockVars, shared, copy, cmd, signal>>
CompleteSave(p) ==
    /\ ProcGoes(p, "completing", "unlock")
    /\ Becomes(p, "Completed")
    /\ UNCHANGED <<lockVars, tree, cmd, signal>>

(* cleanup_on_failure: the worktree goes, the mission fails unless over.   *)
FailTree(p) ==
    /\ ProcGoes(p, "failing", "failed")
    /\ tree' = FALSE
    /\ UNCHANGED <<lockVars, disk, copy, cmd, signal>>
FaultAlwaysFails(p) == TRUE
StillOpen(p) == copy[p].status \notin Terminal
FailSave(p) ==
    /\ ProcGoes(p, "failed", "unlock")
    /\ IF StillOpen(p) THEN Becomes(p, "Failed") ELSE UNCHANGED <<copy, disk>>
    /\ UNCHANGED <<lockVars, tree, cmd, signal>>

Unlock(p) ==
    /\ ProcGoes(p, "unlock", "end")
    /\ DropGuard(p)
    /\ UNCHANGED <<shared, copy, cmd, signal>>

(* The second Ctrl-C drops execute where it stands, guard included.        *)
ForceQuit(p) ==
    /\ signal[p] = "pause" /\ Executing(p)
    /\ where' = [where EXCEPT ![p] = "end"]
    /\ DropGuard(p)
    /\ UNCHANGED <<shared, copy, cmd, signal>>

Exit(p) ==
    /\ ProcGoes(p, "end", "gone")
    /\ Die(p)
    /\ UNCHANGED <<shared, copy, cmd, signal>>
ProcCrash(p) ==
    /\ p \in alive
    /\ where' = [where EXCEPT ![p] = "gone"]
    /\ Die(p)
    /\ UNCHANGED <<shared, copy, cmd, signal>>

Heartbeat(p) ==
    /\ BeatRead(p) \/ BeatWrite(p)
    /\ UNCHANGED <<shared, copy, where, cmd, signal>>
Age ==
    /\ Lapse
    /\ UNCHANGED <<shared, copy, where, cmd, signal>>
-----------------------------------------------------------------------------
CommandStep(p) ==
    \/ Scan(p) \/ Sweep(p) \/ Create(p) \/ NotFound(p)
    \/ ResumeLoad(p) \/ ResumeSave(p) \/ PauseLoad(p) \/ PauseSave(p)
    \/ CancelLoad(p) \/ CancelTree(p) \/ CancelSave(p)
    \/ OrphanCheck(p) \/ RecoverLoad(p) \/ RecoverSave(p) \/ RecoverUnlock(p)
    \/ Retry(p) \/ Restart(p) \/ Exit(p)
PrepareStep(p) ==
    \/ Look(p) \/ Take(p) \/ Load(p) \/ Restore(p) \/ Setup(p) \/ SaveSetup(p)
    \/ GiveUp(p) \/ RouteTasks(p) \/ RouteDirect(p) \/ RoutePlanning(p)
    \/ Plan(p) \/ PlanFails(p) \/ DirectDone(p) \/ DirectFails(p) \/ StartLoop(p)
LoopStep(p) ==
    \/ LeaveLoop(p) \/ PauseSignal(p) \/ CancelSignal(p) \/ Work(p)
    \/ Iterate(p) \/ Escalate(p) \/ ErrorInLoop(p)
EndStep(p) ==
    \/ Verify(p) \/ CompleteTree(p) \/ CompleteFails(p) \/ CompleteSave(p)
    \/ FailTree(p) \/ FailSave(p) \/ Unlock(p)

ProcStep(p) == CommandStep(p) \/ PrepareStep(p) \/ LoopStep(p) \/ EndStep(p)

ControlNext ==
    \/ \E p \in Procs :
        \/ \E c \in Commands : Start(p, c)
        \/ ProcStep(p) \/ Heartbeat(p) \/ ForceQuit(p) \/ ProcCrash(p)
        \/ \E s \in {"pause", "cancel"} : Send(p, s)
    \/ Age

ControlSpec == ControlInit /\ [][ControlNext]_controlVars

(* A process runs on while it is alive.                                    *)
Fairness == \A p \in Procs : WF_controlVars(ProcStep(p))
FairControl == ControlSpec /\ Fairness

(* max_iterations ends the loop: coming back to its head for ever, a       *)
(* process finds it over.                                                  *)
LoopsEnd == \A p \in Procs : SF_controlVars(LeaveLoop(p))
-----------------------------------------------------------------------------
(* Every variable keeps its type, and only live processes hold a guard.    *)
ControlTypeOK ==
    /\ alive \subseteq Procs /\ holds \subseteq alive
    /\ lockFile \in [pid : Procs, stale : BOOLEAN] \cup {NoLock}
    /\ beat \in [Procs -> Procs \cup {NoLock}] /\ lapses \in 0..MaxLapses
    /\ disk \in Missions \cup {NoMission} /\ tree \in BOOLEAN
    /\ copy \in [Procs -> Missions \cup {NoMission}]
    /\ cmd \in [Procs -> Commands \cup {"none"}]
    /\ signal \in [Procs -> {"deaf", "none", "pause", "cancel"}]
    /\ \A p \in Procs : p \in holds <=> Executing(p)

(* No two runs of the program execute the mission at once (execution.rs,   *)
(* "prevents concurrent execution").                                       *)
MutualExclusion == \A p, q \in Procs : Executing(p) /\ Executing(q) => p = q

(* The agents of a mission work in a worktree that is there: from the      *)
(* saved set-up to the end of the verification.                            *)
WorkHasTree ==
    \A p \in Procs :
        where[p] \in {"route", "direct", "planning", "start", "loop", "work",
                      "verify", "complete"} => tree

(* A run is turned away only on account of another run that is alive.      *)
RefusedOnlyByLiving ==
    [][\A p \in Procs :
           where[p] = "look" /\ where'[p] = "end" => alive # {p}]_controlVars

(* A mission that is over stays as it is ("Permanent cancel").             *)
TerminalIsFinal ==
    [][disk # NoMission /\ disk.status \in Terminal
        => disk'.status = disk.status]_controlVars

(* A signal received in the loop is answered: the run leaves the loop,     *)
(* whatever the tasks do.                                                  *)
SignalHonoured ==
    \A p \in Procs :
        where[p] = "loop" /\ signal[p] \in {"pause", "cancel"}
            ~> where[p] \notin {"loop", "work"}

(* Every command comes to an end, given that loops do.                     *)
CommandsEnd == LoopsEnd => \A p \in Procs : where[p] = "scan" ~> where[p] = "gone"
=============================================================================
