------------------------------- MODULE TaskDAG ------------------------------
(***************************************************************************)
(* The graph of a session's tasks (src/agent/multi/session/task_graph.rs)  *)
(* as operators: a graph is its nodes, a function from the ids of the      *)
(* tasks added so far, and the ids of the completed ones.                  *)
(***************************************************************************)
EXTENDS Naturals, FiniteSets

CONSTANT NoAgent

NodeStatuses ==
    {"Pending", "Ready", "InProgress", "Completed", "Failed", "Blocked"}
NewNode == [status |-> "Pending", agent |-> NoAgent, dependencies |-> {},
            dependents |-> {}, retries |-> 0]
NoTasks == [nodes |-> <<>>, completed |-> {}]

Ids(g) == DOMAIN g.nodes
With(g, status) == {id \in Ids(g) : g.nodes[id].status = status}
Unmet(g, id) == g.nodes[id].dependencies \ g.completed

(* refresh_ready_status                                                    *)
Refreshed(g) ==
    [g EXCEPT !.nodes = [id \in Ids(g) |->
        IF g.nodes[id].status = "Pending" /\ Unmet(g, id) = {}
        THEN [g.nodes[id] EXCEPT !.status = "Ready"] ELSE g.nodes[id]]]

Added(g, id) ==
    [g EXCEPT !.nodes =
        [n \in Ids(g) \cup {id} |-> IF n = id THEN NewNode ELSE g.nodes[n]]]

(* The search along dependents that keeps the graph acyclic: from is       *)
(* reached when every set closed under dependents that has to has from.    *)
FaultWouldCreateCycle(g, from, to) == from = to \/ from \in g.nodes[to].dependents
WouldCreateCycle(g, from, to) ==
    \A S \in SUBSET Ids(g) :
        (to \in S /\ \A id \in S : g.nodes[id].dependents \subseteq S) => from \in S
Depends(g, from, to) ==
    [g EXCEPT !.nodes[from].dependents = @ \cup {to},
              !.nodes[to].dependencies = @ \cup {from}]

(* start_task takes Pending tasks too, but none with an unmet dependency.  *)
Startable(g, id) == g.nodes[id].status \in {"Pending", "Ready"} /\ Unmet(g, id) = {}
Started(g, id, agent) ==
    [g EXCEPT !.nodes[id].status = "InProgress", !.nodes[id].agent = agent]

Completed(g, id) ==
    Refreshed([g EXCEPT !.nodes[id].status = "Completed", !.completed = @ \cup {id}])

(* fail_task blocks the direct dependents that have not started.           *)
FailedIn(g, id) ==
    [g EXCEPT !.nodes = [n \in Ids(g) |->
        IF n = id THEN [g.nodes[n] EXCEPT !.status = "Failed"]
        ELSE IF n \in g.nodes[id].dependents /\ g.nodes[n].status \in {"Pending", "Ready"}
        THEN [g.nodes[n] EXCEPT !.status = "Blocked"] ELSE g.nodes[n]]]

(* retry_task gives the task back, and leaves what it blocked blocked.     *)
Retried(g, id) ==
    Refreshed([g EXCEPT !.nodes[id].status = "Pending", !.nodes[id].agent = NoAgent,
                        !.nodes[id].retries = @ + 1])
=============================================================================
