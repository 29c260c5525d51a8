------------------------ MODULE OrchestrationSession ------------------------
(***************************************************************************)
(* The session of a multi-agent mission (src/agent/multi/session):         *)
(* its tasks, its participants, the log of notifications and the           *)
(* checkpoints, as the session's operations change them together.  The     *)
(* session is behind a lock, so an operation is a step.  The client is the *)
(* one its tests have: it registers an agent and adds a task once, orders  *)
(* tasks before they run, and hears the outcome of a task from the agent   *)
(* it was assigned to.                                                     *)
(***************************************************************************)
EXTENDS TaskDAG, Selection

CONSTANTS
    Tasks, Agents,
    MaxTaskRetries,   \* OrchestrationConfig::max_task_retries
    MaxEntries,       \* OrchestrationConfig::max_notifications
    MaxCheckpoints,   \* SessionCheckpointManager::max_checkpoints
    MaxNotices        \* bound: notifications ever added

ASSUME SessionAssumption ==
    /\ IsFiniteSet(Tasks) /\ NoAgent \notin Agents
    /\ MaxTaskRetries \in Nat /\ MaxNotices \in Nat
    /\ MaxEntries \in Nat \ {0} /\ MaxCheckpoints \in Nat \ {0}

VARIABLES
    status, phase,   \* of the session
    graph,           \* TaskDAG
    participants,    \* [registered agents -> their assigned tasks and status]
    log, nextId,     \* NotificationLog: entries, oldest first
    checkpoints      \* SessionCheckpointManager, oldest first

vars == <<status, phase, graph, participants, log, nextId, checkpoints>>

Phases == {"setup", "planning", "implementation", "verification", "finalization"}

Init ==
    /\ status = "Initializing" /\ phase = "setup"
    /\ graph = NoTasks /\ participants = <<>>
    /\ log = <<>> /\ nextId = 1 /\ checkpoints = <<>>

(* NotificationLog::add, with its clean-up: the oldest entries go when     *)
(* there are too many, and those that are too old.                         *)
Latest(entries, n) ==
    IF Len(entries) <= n THEN entries
    ELSE SubSeq(entries, Len(entries) - n + 1, Len(entries))
Add(about, task) ==
    /\ nextId <= MaxNotices
    /\ nextId' = nextId + 1
    /\ \E young \in 1..MaxEntries :
        log' = Latest(Append(log, [id |-> nextId, about |-> about, task |-> task]), young)

(* SessionCheckpointManager::create: of too many checkpoints the first     *)
(* that no phase transition made goes, or the first.                       *)
Passing(cps) == {i \in DOMAIN cps : cps[i].reason # "phase"}
Dropped(cps) ==
    IF Passing(cps) = {} THEN 1 ELSE CHOOSE i \in Passing(cps) : \A j \in Passing(cps) : i <= j
Capped(cps) ==
    IF Len(cps) <= MaxCheckpoints THEN cps
    ELSE SubSeq(cps, 1, Dropped(cps) - 1) \o SubSeq(cps, Dropped(cps) + 1, Len(cps))
FaultCreate(reason, completed, running) ==
    checkpoints' = Capped(Append(checkpoints,
        [reason |-> reason, at |-> nextId, completed |-> completed, running |-> running]))
Create(reason, completed, running) ==
    checkpoints' = Capped(Append(checkpoints,
        [reason |-> reason, at |-> nextId - 1, completed |-> completed, running |-> running]))
Checkpointed(reason) == Create(reason, With(graph, "Completed"), With(graph, "InProgress"))

-----------------------------------------------------------------------------
(* start announces the planning phase and stays in setup.                  *)
Start ==
    /\ status = "Initializing"
    /\ status' = "Active"
    /\ Add("phase", "planning")
    /\ UNCHANGED <<phase, graph, participants, checkpoints>>

Pause == status = "Active" /\ status' = "Paused"
Resume == status = "Paused" /\ status' = "Active"
Fail == status # "Failed" /\ status' = "Failed"
Label ==
    /\ Pause \/ Resume \/ Fail
    /\ UNCHANGED <<phase, graph, participants, log, nextId, checkpoints>>

(* set_phase and advance_phase: a checkpoint, the phase, a notification.   *)
Enter(to) ==
    /\ phase # to
    /\ Checkpointed("phase")
    /\ phase' = to
    /\ Add("phase", to)
    /\ UNCHANGED <<graph, participants>>
SetPhase(to) == Enter(to) /\ UNCHANGED status

(* complete ends the session from whatever status it has.                  *)
Complete ==
    /\ status' = "Completed"
    /\ \/ Enter("finalization")
       \/ /\ phase = "finalization" /\ status # "Completed"
          /\ UNCHANGED <<phase, graph, participants, log, nextId, checkpoints>>

Register(agent) ==
    /\ agent \notin DOMAIN participants
    /\ participants' = [p \in DOMAIN participants \cup {agent} |->
            IF p = agent THEN [status |-> "Registered", tasks |-> <<>>] ELSE participants[p]]
    /\ Add("text", agent)
    /\ UNCHANGED <<status, phase, graph, checkpoints>>

AddTask(task) ==
    /\ task \notin Ids(graph)
    /\ graph' = Refreshed(Added(graph, task))
    /\ UNCHANGED <<status, phase, participants, log, nextId, checkpoints>>

(* The dependent has not run yet.                                          *)
AddDependency(from, to) ==
    /\ {from, to} \subseteq Ids(graph)
    /\ graph.nodes[to].status \in {"Pending", "Ready"}
    /\ ~WouldCreateCycle(graph, from, to)
    /\ graph' = Depends(graph, from, to)
    /\ UNCHANGED <<status, phase, participants, log, nextId, checkpoints>>

(* Participant::assign_task and complete_task                              *)
Loaded(agent, task) ==
    [participants EXCEPT ![agent].tasks = Append(@, task), ![agent].status = "Busy"]
FaultReleased(agent, task) == [participants EXCEPT ![agent].status = "Ready"]
Released(agent, task) ==
    LET left == Taken(participants[agent].tasks, Tasks \ {task})
    IN  [participants EXCEPT ![agent] =
            [tasks |-> left, status |-> IF left = <<>> THEN "Ready" ELSE @.status]]

AssignTask(task, agent) ==
    /\ Startable(graph, task)
    /\ graph' = Started(graph, task, agent)
    /\ participants' = Loaded(agent, task)
    /\ Add("assigned", task)
    /\ UNCHANGED <<status, phase, checkpoints>>

Runs(agent, task) ==
    graph.nodes[task].status = "InProgress" /\ graph.nodes[task].agent = agent
CompleteTask(task, agent) ==
    /\ Runs(agent, task)
    /\ graph' = Completed(graph, task)
    /\ participants' = Released(agent, task)
    /\ Add("completed", task)
    /\ UNCHANGED <<status, phase, checkpoints>>
FailTask(task, agent) ==
    /\ Runs(agent, task)
    /\ graph' = FailedIn(graph, task)
    /\ participants' = Released(agent, task)
    /\ Add("failed", task)
    /\ UNCHANGED <<status, phase, checkpoints>>
RetryTask(task) ==
    /\ graph.nodes[task].status = "Failed"
    /\ graph.nodes[task].retries < MaxTaskRetries
    /\ graph' = Retried(graph, task)
    /\ UNCHANGED <<status, phase, participants, log, nextId, checkpoints>>

(* Checkpoints asked for or made when the interval is over, and those made *)
(* when the context budget is nearly used up, which list no tasks.         *)
TakeCheckpoint ==
    /\ \/ Checkpointed("taken")
       \/ Create("budget", {}, {})
    /\ UNCHANGED <<status, phase, graph, participants, log, nextId>>

Next ==
    \/ Start \/ Label \/ Complete \/ TakeCheckpoint
    \/ \E to \in Phases : SetPhase(to)
    \/ \E agent \in Agents : Register(agent)
    \/ \E task \in Tasks : AddTask(task)
    \/ \E from, to \in Tasks : AddDependency(from, to)
    \/ \E task \in Ids(graph) :
        \/ RetryTask(task)
        \/ \E agent \in DOMAIN participants :
            AssignTask(task, agent) \/ CompleteTask(task, agent) \/ FailTask(task, agent)

Spec == Init /\ [][Next]_vars
-----------------------------------------------------------------------------
(* As long as nothing failed, the order of the tasks always lets one of    *)
(* them run: dependencies form no circle and none is waited for in vain.   *)
SomeTaskCanRun ==
    /\ With(graph, "Failed") \cup With(graph, "Blocked") \cup With(graph, "InProgress") = {}
    /\ With(graph, "Completed") # Ids(graph)
    => \E task \in Ids(graph) : Startable(graph, task)

(* A participant is busy with exactly the tasks that are in progress under *)
(* its name, each once, whatever was failed, retried and assigned anew.    *)
LoadsMatchTasks ==
    \A agent \in DOMAIN participants :
        LET mine == participants[agent].tasks IN
        /\ {mine[i] : i \in DOMAIN mine} = {task \in Ids(graph) : Runs(agent, task)}
        /\ Cardinality({mine[i] : i \in DOMAIN mine}) = Len(mine)
        /\ participants[agent].status = "Busy" <=> mine # <<>>

(* Recovery from a checkpoint skips the tasks it lists and replays the     *)
(* notifications after it: while the log still has them, together they     *)
(* name exactly the tasks that are completed.  (A checkpoint made for the  *)
(* context budget lists none.)                                             *)
Replayed(cp) == {log[i].task : i \in {j \in DOMAIN log :
                    log[j].id > cp.at /\ log[j].about = "completed"}}
Kept(cp) == Cardinality({j \in DOMAIN log : log[j].id > cp.at}) = nextId - 1 - cp.at
RecoveryExact ==
    \A i \in DOMAIN checkpoints : LET cp == checkpoints[i] IN
        cp.reason # "budget" /\ Kept(cp) =>
            cp.completed \cup Replayed(cp) = With(graph, "Completed")
=============================================================================
