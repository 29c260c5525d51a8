---------------------------- MODULE MissionTasks ----------------------------
(***************************************************************************)
(* The tasks of one mission under the execution loop                       *)
(* (src/orchestrator/engine/execution.rs, verification.rs, recovery.rs and *)
(* src/recovery): rounds of ready tasks, retries, skipped tasks, recovery  *)
(* checkpoints, and executions that are paused, time out or crash and are  *)
(* resumed from the last checkpoint.                                       *)
(*                                                                         *)
(* MissionControl has the commands and the lock; here one process at a     *)
(* time executes the mission.  Outcomes of a task no error can lead to     *)
(* (rollback, skip and escalation by the recovery executor) are left out,  *)
(* and so are the two branches of the loop that only sleep: with a plan    *)
(* that passed validation an idle loop always has a task to skip.          *)
(***************************************************************************)
EXTENDS TaskPlan

CONSTANTS
    Outlines,       \* answers of the planning model: sequences of decompositions
    MaxRetries,     \* Task::max_retries
    MaxIterations,  \* Mission::max_iterations
    Interval,       \* CheckpointConfig::interval_tasks
    TimedOut,       \* mission_timeout_secs may run out
    MaxRestarts,    \* bound: executions after the first
    NoCheckpoint

ASSUME TasksAssumption ==
    /\ MaxRetries \in Nat /\ MaxIterations \in Nat /\ MaxRestarts \in Nat
    /\ Interval \in Nat \ {0} /\ TimedOut \in BOOLEAN
ASSUME OutlinesAssumption == Outlines \subseteq Seq(Seq(SUBSET Nat))

VARIABLES
    plan,      \* mission.tasks as planned: ids and dependencies
    file,      \* the mission file: [st, retries, iter, status]
    mem,       \* the copy the executing process works on
    cp,        \* the latest recovery checkpoint: [st, retries, iter]
    at,        \* where the execution is
    todo,      \* tasks of the round whose results are not applied yet
    rounds,    \* checkpoint_counter
    restarts

vars == <<plan, file, mem, cp, at, todo, rounds, restarts>>

Tasks == DOMAIN plan

(* Mission::task_mut finds the first task with the id.                     *)
TaskMut(i) == CHOOSE t \in Tasks : plan[t].id = i /\ \A u \in 1..t-1 : plan[u].id # i
Home(t) == TaskMut(plan[t].id)

In(m, statuses) == {t \in Tasks : m.st[t] \in statuses}
IdsOf(ts) == {plan[t].id : t \in ts}
CanRetry(m, t) == m.retries[t] <= MaxRetries
PermanentlyFailed(m) == {t \in In(m, {"Failed"}) : ~CanRetry(m, t)}
Settled(m) == In(m, {"Completed", "Skipped"}) \cup PermanentlyFailed(m)
AllDone(m) == Settled(m) = Tasks

(* next_tasks, and tasks_blocked_by_failed_deps.                           *)
FaultNextTasks(m) == In(m, {"Pending"})
NextTasks(m) ==
    {t \in In(m, {"Pending"}) :
        plan[t].deps \subseteq IdsOf(In(m, {"Completed", "Skipped"}))}
Blocked(m) ==
    {t \in In(m, {"Pending"}) : plan[t].deps \cap IdsOf(PermanentlyFailed(m)) # {}}

(* task_mut of each of ts, and a new status for it.                        *)
Marked(m, ts, s) ==
    [m EXCEPT !.st = [t \in Tasks |-> IF t \in {Home(u) : u \in ts} THEN s ELSE @[t]]]
Retried(m, t, n) == [m EXCEPT !.retries[t] = n]

(* Task::fail.                                                             *)
FailedOnce(m, t) ==
    Marked(Retried(m, t, m.retries[t] + 1), {t},
           IF m.retries[t] < MaxRetries THEN "Pending" ELSE "Failed")

-----------------------------------------------------------------------------
Saved == file' = mem
Goes(from, to) == at = from /\ at' = to
Enter == ~AllDone(mem) /\ mem.iter < MaxIterations

FreshTasks ==
    [st |-> [t \in Tasks |-> "Pending"], retries |-> [t \in Tasks |-> 0],
     iter |-> 0, status |-> "Running"]

(* Planning is over and the loop is entered for the first time.            *)
Init ==
    /\ plan \in PlansOf(Outlines)
    /\ file = FreshTasks /\ mem = file
    /\ cp = NoCheckpoint
    /\ at = "head" /\ todo = {} /\ rounds = 0 /\ restarts = 0

(* try_restore_on_startup: the states in the checkpoint are assigned by    *)
(* task id, in order, and so is the iteration.                             *)
Restored(m, c) ==
    LET state(t) == CHOOSE u \in Tasks :
                        /\ plan[u].id = plan[t].id
                        /\ \A v \in Tasks : plan[v].id = plan[u].id => v <= u
        assigned(f, g) == [t \in Tasks |-> IF t = Home(t) THEN g[state(t)] ELSE f[t]]
    IN  [m EXCEPT !.st = assigned(@, c.st), !.retries = assigned(@, c.retries),
                  !.iter = c.iter]

(* The mission is executed again: resumed after a pause or a timeout, or   *)
(* paused from outside and resumed after a crash.  A checkpoint that       *)
(* cannot be read counts for none.                                         *)
Resume(readable) ==
    /\ file.status \in {"Running", "Paused", "Escalated"}
    /\ restarts < MaxRestarts /\ restarts' = restarts + 1
    /\ Goes("off", "recover")
    /\ mem' = [IF readable /\ cp # NoCheckpoint THEN Restored(file, cp) ELSE file
               EXCEPT !.status = "Running"]
    /\ file' = mem'
    /\ rounds' = 0
    /\ UNCHANGED <<plan, cp, todo>>

(* recover_in_progress_tasks.                                              *)
FaultRecover ==
    /\ Goes("recover", "head")
    /\ mem' = Marked(mem, In(mem, {"InProgress", "Failed"}), "Pending")
    /\ file' = mem'
    /\ UNCHANGED <<plan, cp, todo, rounds, restarts>>
Recover ==
    /\ Goes("recover", "head")
    /\ mem' = Marked(mem, In(mem, {"InProgress"}), "Pending")
    /\ file' = mem'
    /\ UNCHANGED <<plan, cp, todo, rounds, restarts>>

-----------------------------------------------------------------------------
(* The loop's head: a signal or the time limit suspends the mission.       *)
Suspend(status) ==
    /\ Enter /\ Goes("head", "off")
    /\ mem' = [mem EXCEPT !.status = status] /\ file' = mem'
    /\ UNCHANGED <<plan, cp, todo, rounds, restarts>>
Pause == Suspend("Paused")
Timeout == TimedOut /\ Suspend("Escalated")

(* All tasks that can start do, else those that never can are skipped.     *)
StartTasks ==
    /\ Enter /\ Goes("head", "save")
    /\ NextTasks(mem) # {}
    /\ todo' = NextTasks(mem)
    /\ mem' = [Marked(mem, todo', "InProgress") EXCEPT !.iter = @ + 1]
    /\ UNCHANGED <<plan, file, cp, rounds, restarts>>
(* Blocked tasks are waited for, without counting iterations.              *)
FaultSkipBlocked ==
    /\ Enter /\ Goes("head", "head")
    /\ NextTasks(mem) = {} /\ Blocked(mem) # {}
    /\ UNCHANGED <<plan, file, mem, cp, todo, rounds, restarts>>
SkipBlocked ==
    /\ Enter /\ Goes("head", "save")
    /\ NextTasks(mem) = {} /\ Blocked(mem) # {}
    /\ mem' = [Marked(mem, Blocked(mem), "Skipped") EXCEPT !.iter = @ + 1]
    /\ UNCHANGED <<plan, file, cp, todo, rounds, restarts>>
Save ==
    /\ Goes("save", IF todo = {} THEN "head" ELSE "round")
    /\ Saved
    /\ UNCHANGED <<plan, mem, cp, todo, rounds, restarts>>

(* The results of the round, in the order of the tasks.                    *)
Applied(t) ==
    /\ at = "round" /\ t \in todo /\ \A u \in todo : t <= u
    /\ todo' = todo \ {t}
    /\ at' = IF todo' = {} THEN "endRound" ELSE "round"
    /\ UNCHANGED <<plan, file, cp, rounds, restarts>>

(* apply_task_result_with_convergence: the task converged; or it did not,  *)
(* and counts as failed once; or the retry analysis gives it up.           *)
Verified(t) == Applied(t) /\ mem' = Marked(mem, {t}, "Completed")
Rejected(t) == Applied(t) /\ mem' = FailedOnce(mem, Home(t))
GivenUp(t) ==
    /\ Applied(t) /\ CanRetry(mem, Home(t))
    /\ mem' = FailedOnce(Retried(mem, Home(t), MaxRetries + 1), Home(t))

(* handle_task_failure: after Task::fail the task stays as it is, or it is *)
(* reset to be retried whatever its retry count, or a convergent fix       *)
(* completes it.                                                           *)
Errored(t, outcome) ==
    /\ Applied(t)
    /\ LET failed == FailedOnce(mem, Home(t))
       IN  mem' = CASE outcome = "stays" -> failed
                    [] outcome = "retry" -> Marked(failed, {t}, "Pending")
                    [] outcome = "fixed" -> Marked(failed, {t}, "Completed")

(* After interval_tasks rounds, or some minutes, a checkpoint is due.      *)
FaultEndRound(due) ==
    /\ Goes("endRound", IF due THEN "checkpoint" ELSE "head")
    /\ rounds' = rounds + 1
    /\ rounds' >= Interval => due
    /\ UNCHANGED <<plan, file, mem, cp, todo, restarts>>
EndRound(due) ==
    /\ Goes("endRound", IF due THEN "checkpoint" ELSE "head")
    /\ Saved
    /\ rounds' = rounds + 1
    /\ rounds' >= Interval => due
    /\ UNCHANGED <<plan, mem, cp, todo, restarts>>
Checkpoint ==
    /\ Goes("checkpoint", "head")
    /\ cp' = [st |-> mem.st, retries |-> mem.retries, iter |-> mem.iter]
    /\ rounds' = 0
    /\ UNCHANGED <<plan, file, mem, todo, restarts>>

-----------------------------------------------------------------------------
(* The loop is left.                                                       *)
Ends(from, to, status) ==
    /\ Goes(from, to)
    /\ mem' = [mem EXCEPT !.status = status] /\ file' = mem'
    /\ todo' = {}
    /\ UNCHANGED <<plan, cp, rounds, restarts>>

OutOfIterations ==
    /\ ~Enter /\ mem.iter >= MaxIterations
    /\ Ends("head", "off", "Failed")
TasksFailed ==
    /\ ~Enter /\ mem.iter < MaxIterations /\ PermanentlyFailed(mem) # {}
    /\ Ends("head", "off", "Failed")
FaultFinalize ==
    /\ ~Enter /\ mem.iter < MaxIterations
    /\ Ends("head", "final", "Verifying")
Finalize ==
    /\ ~Enter /\ mem.iter < MaxIterations /\ PermanentlyFailed(mem) = {}
    /\ Ends("head", "final", "Verifying")
FinalPasses == Ends("final", "off", "Completed")

(* The final verification fails, or an error escapes the loop: a save, a   *)
(* commit or a checkpoint that did not work.  cleanup_on_failure saves.    *)
FinalFails == Ends("final", "off", "Failed")
LoopError ==
    \E from \in {"head", "save", "endRound", "checkpoint"} :
        (from = "head" => Enter) /\ Ends(from, "off", "Failed")

(* recover_orphan_state, on a mission left Running by a crash.             *)
Orphaned ==
    /\ at = "off" /\ file.status = "Running"
    /\ file' = [Marked(file, In(file, {"InProgress"}), "Failed") EXCEPT !.status = "Failed"]
    /\ mem' = file'
    /\ UNCHANGED <<plan, cp, at, todo, rounds, restarts>>

Crash ==
    /\ at # "off" /\ at' = "off"
    /\ mem' = file /\ todo' = {}
    /\ UNCHANGED <<plan, file, cp, rounds, restarts>>

-----------------------------------------------------------------------------
Result ==
    \E t \in Tasks :
        \/ Verified(t) \/ Rejected(t) \/ GivenUp(t)
        \/ \E o \in {"stays", "retry", "fixed"} : Errored(t, o)
Round ==
    \/ StartTasks \/ SkipBlocked \/ Save \/ Result
    \/ \E due \in BOOLEAN : EndRound(due)
    \/ Checkpoint
Leave ==
    OutOfIterations \/ TasksFailed \/ Finalize \/ FinalPasses \/ FinalFails
Execution == Recover \/ Round \/ Leave

Next ==
    \/ Execution \/ Pause \/ Timeout \/ LoopError \/ Orphaned \/ Crash
    \/ \E readable \in BOOLEAN : Resume(readable)

Spec == Init /\ [][Next]_vars

(* A process that executes the mission goes on while nothing stops it; it  *)
(* need not be paused, fail or crash.                                      *)
FairSpec == Spec /\ WF_vars(Execution)

-----------------------------------------------------------------------------
TaskStatuses == {"Pending", "InProgress", "Completed", "Failed", "Skipped"}
States ==
    [st : [Tasks -> TaskStatuses], retries : [Tasks -> Nat], iter : 0..MaxIterations]

(* Every variable keeps its type, and results are only awaited in a round. *)
TypeOK ==
    /\ \A m \in {file, mem} :
        /\ [st |-> m.st, retries |-> m.retries, iter |-> m.iter] \in States
        /\ m.status \in {"Running", "Paused", "Escalated", "Verifying", "Completed", "Failed"}
    /\ cp \in States \cup {NoCheckpoint}
    /\ at \in {"off", "recover", "head", "save", "round", "endRound", "checkpoint", "final"}
    /\ todo \subseteq Tasks /\ (todo # {} => at \in {"save", "round"})
    /\ rounds \in 0..Interval /\ restarts \in 0..MaxRestarts

(* A task is only touched after everything it depends on was completed or  *)
(* skipped, and only skipped because a task it depends on failed for good  *)
(* (Task::can_start, tasks_blocked_by_failed_deps).                        *)
Ordered(m) ==
    \A t \in Tasks :
        /\ m.st[t] \in {"InProgress", "Completed", "Failed"} \/ m.retries[t] > 0
            => plan[t].deps \subseteq IdsOf(In(m, {"Completed", "Skipped"}))
        /\ m.st[t] = "Skipped" => plan[t].deps \cap IdsOf(PermanentlyFailed(m)) # {}

(* That order holds of the working copy, and of what a resumed execution   *)
(* starts from: the file and the checkpoint.                               *)
OrderKept == Ordered(mem) /\ Ordered(file) /\ (cp # NoCheckpoint => Ordered(cp))

(* A checkpoint is never ahead of the mission file: restoring one cannot   *)
(* invent progress, forget a failure the file does not know or skip rounds *)
(* (try_restore_on_startup).                                               *)
CheckpointBehindFile ==
    cp # NoCheckpoint =>
        /\ cp.iter <= file.iter
        /\ In(cp, {"Completed"}) \subseteq In(file, {"Completed"})
        /\ \A t \in Tasks : cp.retries[t] <= file.retries[t]

(* A mission that reaches its final verification has every planned task    *)
(* completed: none was skipped or given up on the way (execute_loop,       *)
(* permanently_failed_tasks).                                              *)
NothingLeftOut ==
    file.status \in {"Verifying", "Completed"} => In(file, {"Completed"}) = Tasks

(* Within an execution a settled task stays as it is (all_tasks_done, "all *)
(* tasks are in a terminal state (Completed, Skipped, or permanently       *)
(* Failed)").                                                              *)
TerminalStays ==
    [][at # "off" => \A t \in Settled(file) : file'.st[t] = file.st[t]]_vars

(* Every execution comes to an end, whatever the tasks answer.             *)
LoopEnds == at = "head" ~> at = "off"
=============================================================================
