-------------------------- MODULE Implementation --------------------------
(***************************************************************************)
(* The implementation phase of a coordinator's mission                     *)
(* (src/agent/multi/coordinator/implementation.rs): the tasks without      *)
(* dependencies run in a batch under file leases, those that got no lease  *)
(* after it one by one, and then the dependent ones one by one in          *)
(* topological order.  A task an agent defers is tried again, up to a      *)
(* number of rounds.                                                       *)
(*                                                                         *)
(* A task is its position in the mission's list: the ids the planning      *)
(* model gave are taken to be distinct.                                    *)
(***************************************************************************)
EXTENDS FileOwnership, Selection, FiniteSets, SequencesExt

CONSTANTS
    Resolved,     \* path -> the file it names
    NewFiles,     \* files that may not exist when the phase begins
    Permits,      \* max_concurrent_agents
    MaxDeferred   \* max_deferred_retries

ASSUME ImplementationAssumption == Permits \in Nat \ {0} /\ MaxDeferred \in Nat

VARIABLES
    tasks,      \* sequence of [deps, files, module]
    missing,    \* files that did not exist when the tasks were partitioned
    parallel,   \* config.parallel_execution
    stage,      \* "idle", "partition", "independent", "dependent" or "over"
    step,       \* of a round: "acquire", "batch", "sequence"
    order,      \* pending_tasks: what the round takes
    queue,      \* tasks the step has still to take
    held,       \* tasks that run in the batch
    running,    \* tasks an agent works on
    out,        \* round_results: task -> outcome
    retry,      \* retry_round
    settled     \* final_results: task -> its outcomes

work == <<tasks, missing, parallel, leases, stage, step, order, queue, held, running,
          out, retry, settled>>

TaskLists ==
    Seq([deps : SUBSET Nat, files : Seq(Paths), module : Modules \cup {NoModule}])
Tasks == DOMAIN tasks
Results == {"none", "completed", "failed", "deferred"}
Listed == [t \in Tasks |-> t]

(* partition_tasks: a task that shares a file with an independent one      *)
(* before it is put among the dependent ones.  The path of a file that     *)
(* does not exist is compared as it is spelled, as fs::canonicalize finds  *)
(* none.                                                                   *)
FilesOf(t) ==
    {IF Resolved[p] \in missing THEN p ELSE Resolved[p] : p \in Range(tasks[t].files)}
FaultIndependent == {t \in Tasks : tasks[t].deps = {}}
Independent ==
    LET among[n \in 0..Len(tasks)] ==
            IF n = 0 THEN {}
            ELSE LET before == among[n - 1] IN
                 IF tasks[n].deps = {} /\ \A t \in before : FilesOf(t) \cap FilesOf(n) = {}
                 THEN before \cup {n} ELSE before
    IN among[Len(tasks)]

(* topological_sort_tasks: the tasks without dependencies among ts in any  *)
(* order (in_degree is a hash map), each task taken appends those it was   *)
(* the last dependency of; the tasks of a cycle follow as listed.          *)
DepsWithin(t, ts) == tasks[t].deps \cap ts
CyclicTasks == \E S \in (SUBSET Tasks) \ {{}} : \A t \in S : tasks[t].deps \cap S # {}
Unblocked(ts, q, n) ==
    Taken(Listed, {t \in ts : /\ q[n] \in DepsWithin(t, ts)
                              /\ DepsWithin(t, ts) \subseteq Range(SubSeq(q, 1, n))})
Sorted(ts, first) ==
    LET take[n \in 0..Cardinality(ts)] ==
            IF n = 0 THEN first
            ELSE LET q == take[n - 1] IN
                 IF n > Len(q) THEN q ELSE q \o Unblocked(ts, q, n)
    IN take[Cardinality(ts)]
WithCycles(ts, q) == q \o Taken(Listed, ts \ Range(q))
FaultTopologicalOrders(ts) == SetToSeqs(ts)
TopologicalOrders(ts) ==
    {WithCycles(ts, Sorted(ts, first)) :
        first \in SetToSeqs({t \in ts : DepsWithin(t, ts) = {}})}

-----------------------------------------------------------------------------
InitWork ==
    /\ tasks = <<>> /\ missing = {} /\ parallel \in BOOLEAN
    /\ leases = Free
    /\ stage = "idle" /\ step = "sequence"
    /\ order = <<>> /\ queue = <<>>
    /\ held = {} /\ running = {} /\ out = <<>>
    /\ retry = 0 /\ settled = <<>>

BeginWork(list) ==
    /\ stage = "idle"
    /\ tasks' = list /\ missing' \in SUBSET NewFiles /\ stage' = "partition"
    /\ settled' = [t \in DOMAIN list |-> <<>>]
    /\ UNCHANGED <<parallel, leases, step, order, queue, held, running, out, retry>>

(* One pass of a stage over its pending tasks.                             *)
Round(s, pending, r) ==
    /\ stage' = s /\ order' = pending /\ queue' = pending /\ retry' = r
    /\ step' = IF s = "independent" /\ parallel THEN "acquire" ELSE "sequence"
    /\ held' = {} /\ out' = [t \in Tasks |-> "none"]

Partition ==
    /\ stage = "partition"
    /\ Round("independent", Taken(Listed, Independent), 0)
    /\ UNCHANGED <<tasks, missing, parallel, leases, running, settled>>

(* acquire_ownership_for_tasks: a task that is refused a lease, for the    *)
(* boundary of another module too, is put off until after the batch.       *)
Acquire ==
    /\ step = "acquire" /\ queue # <<>>
    /\ LET t == Head(queue) IN
        \/ Grantable(tasks[t]) /\ held' = held \cup {t} /\ Grant(t, tasks[t])
        \/ ~Grantable(tasks[t]) /\ UNCHANGED <<held, leases>>
    /\ queue' = Tail(queue)
    /\ UNCHANGED <<tasks, missing, parallel, stage, step, order, running, out, retry, settled>>

StartBatch ==
    /\ step = "acquire" /\ queue = <<>>
    /\ step' = "batch" /\ queue' = Taken(order, held)
    /\ UNCHANGED <<tasks, missing, parallel, leases, stage, order, held, running, out, retry,
                   settled>>

(* execute_many takes a permit per task; one by one, an agent is awaited.  *)
Start ==
    /\ step \in {"batch", "sequence"} /\ queue # <<>>
    /\ Cardinality(running) < IF step = "batch" THEN Permits ELSE 1
    /\ running' = running \cup {Head(queue)} /\ queue' = Tail(queue)
    /\ UNCHANGED <<tasks, missing, parallel, leases, stage, step, order, held, out, retry,
                   settled>>

(* The result of an agent, or its error made a failure; only agents that   *)
(* listen to the message bus, one by one, defer.                           *)
Finish(t) ==
    /\ t \in running
    /\ \E o \in {"completed", "failed"} \cup (IF step = "batch" THEN {} ELSE {"deferred"}) :
        out' = [out EXCEPT ![t] = o]
    /\ running' = running \ {t}
    /\ UNCHANGED <<tasks, missing, parallel, leases, stage, step, order, queue, held, retry,
                   settled>>

(* The guards are released when the whole batch has answered.              *)
EndBatch ==
    /\ step = "batch" /\ queue = <<>> /\ running = {}
    /\ Release(held)
    /\ step' = "sequence" /\ queue' = Taken(order, Tasks \ held)
    /\ UNCHANGED <<tasks, missing, parallel, stage, order, held, running, out, retry, settled>>

(* The round's results that are not deferred are final; in the last round  *)
(* the deferred tasks fail.                                                *)
Deferred == {t \in Range(order) : out[t] = "deferred"}
RoundOver ==
    stage \in {"independent", "dependent"} /\ step = "sequence" /\ queue = <<>>
        /\ running = {}
Settle(exhausted) ==
    settled' = [t \in Tasks |->
        IF t \in exhausted THEN Append(settled[t], "failed")
        ELSE IF t \in Range(order) \ Deferred THEN Append(settled[t], out[t])
        ELSE settled[t]]

FaultRetryRound ==
    /\ RoundOver /\ Deferred # {} /\ retry < MaxDeferred
    /\ Settle({})
    /\ Round(stage, order, retry + 1)
    /\ UNCHANGED <<tasks, missing, parallel, leases, running>>
FaultUncounted ==
    /\ RoundOver /\ Deferred # {} /\ retry < MaxDeferred
    /\ Settle({})
    /\ Round(stage, Taken(order, Deferred), retry)
    /\ UNCHANGED <<tasks, missing, parallel, leases, running>>
RetryRound ==
    /\ RoundOver /\ Deferred # {} /\ retry < MaxDeferred
    /\ Settle({})
    /\ Round(stage, Taken(order, Deferred), retry + 1)
    /\ UNCHANGED <<tasks, missing, parallel, leases, running>>

EndStage ==
    /\ RoundOver /\ (Deferred = {} \/ retry = MaxDeferred)
    /\ Settle(Deferred)
    /\ \/ /\ stage = "independent"
          /\ \E o \in TopologicalOrders(Tasks \ Independent) : Round("dependent", o, 0)
       \/ /\ stage = "dependent"
          /\ stage' = "over"
          /\ UNCHANGED <<step, order, queue, held, out, retry>>
    /\ UNCHANGED <<tasks, missing, parallel, leases, running>>

NextWork ==
    \/ Partition \/ Acquire \/ StartBatch \/ Start \/ EndBatch
    \/ RetryRound \/ EndStage
    \/ \E t \in Tasks : Finish(t)

(* The phase has returned: its tasks and their results are of no use to    *)
(* what follows.                                                           *)
ForgetWork ==
    /\ stage = "over"
    /\ tasks' = <<>> /\ missing' = {} /\ settled' = <<>> /\ out' = <<>>
    /\ order' = <<>> /\ held' = {} /\ retry' = 0
    /\ UNCHANGED <<parallel, leases, stage, step, queue, running>>

(* The mission's future is dropped at an await: the guards with it.        *)
DropWork ==
    /\ Release(held)
    /\ running' = {} /\ stage' = "over"
    /\ tasks' = <<>> /\ missing' = {} /\ settled' = <<>> /\ out' = <<>>
    /\ order' = <<>> /\ queue' = <<>> /\ held' = {} /\ retry' = 0
    /\ UNCHANGED <<parallel, step>>
=============================================================================
