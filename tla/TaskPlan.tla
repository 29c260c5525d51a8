------------------------------ MODULE TaskPlan ------------------------------
(***************************************************************************)
(* The task list planning leaves in a mission (src/planning): a model      *)
(* answers with a decomposition, its task ids are normalised, and what     *)
(* the checks let through becomes mission.tasks.                           *)
(*                                                                         *)
(* A decomposition is the sequence of its tasks, each the set of the tasks *)
(* it depends on.  normalize_task_ids numbers the tasks by their place, so *)
(* a task's id is its place in its own decomposition.                      *)
(***************************************************************************)
EXTENDS Naturals, Sequences

(* Some node is on a cycle iff some nodes all have an edge among           *)
(* themselves (detect_cycle).                                              *)
Cyclic(graph) ==
    \E S \in (SUBSET DOMAIN graph) \ {{}} : \A n \in S : graph[n] \cap S # {}

(* TaskDecomposer::decompose returns what refers to its own tasks only and *)
(* has no cycle; anything else is asked for again.                         *)
Decomposes(d) == (\A k \in DOMAIN d : d[k] \subseteq DOMAIN d) /\ ~Cyclic(d)

Normalized(d) == [k \in DOMAIN d |-> [id |-> k, deps |-> d[k]]]

(* One decomposition for PlanningOrchestrator, one per phase of the        *)
(* outline for ChunkedPlanner, which lines up the normalised tasks.        *)
TasksOf(outline) ==
    LET upTo[n \in 0..Len(outline)] ==
            IF n = 0 THEN <<>> ELSE upTo[n - 1] \o Normalized(outline[n])
    IN  upTo[Len(outline)]

Ids(tasks) == {tasks[t].id : t \in DOMAIN tasks}

(* to_dependency_map: a later task with the same id replaces an earlier.   *)
DependencyMap(tasks) ==
    [i \in Ids(tasks) |->
        LET last == CHOOSE t \in DOMAIN tasks :
                        /\ tasks[t].id = i
                        /\ \A u \in DOMAIN tasks : tasks[u].id = i => u <= t
        IN  tasks[last].deps]

(* check_execution_feasibility.                                            *)
Feasible(tasks) ==
    /\ ~Cyclic(DependencyMap(tasks))
    /\ \A t \in DOMAIN tasks : tasks[t].deps \subseteq Ids(tasks)

(* What may become mission.tasks of the answers in outlines.               *)
PlansOf(outlines) ==
    {TasksOf(o) : o \in {p \in outlines :
        (\A k \in DOMAIN p : Decomposes(p[k])) /\ Feasible(TasksOf(p))}}
=============================================================================
