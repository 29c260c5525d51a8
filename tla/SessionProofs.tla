--------------------------- MODULE SessionProofs ---------------------------
(***************************************************************************)
(* Theorems about OrchestrationSession for any tasks, agents, retries and  *)
(* bounds: its types; that dependencies form no circle, so that some task  *)
(* can always run; that a participant's load is what runs under its name;  *)
(* and that recovery from a checkpoint finds what is completed.            *)
(***************************************************************************)
EXTENDS OrchestrationSession, ProofLemmas, WellFoundedInduction

Nodes ==
    [status : NodeStatuses, agent : Agents \cup {NoAgent}, dependencies : SUBSET Tasks,
     dependents : SUBSET Tasks, retries : Nat]
Entries == [id : Nat, about : {"phase", "text", "assigned", "completed", "failed"},
            task : Tasks \cup Agents \cup Phases]
Checkpoints == [reason : {"phase", "taken", "budget"}, at : Nat, completed : SUBSET Tasks,
                running : SUBSET Tasks]

(* The edges of a graph are on both of its ends, its completed ids are     *)
(* those of the completed nodes, and no tasks depend on each other in a    *)
(* circle: in every set of them one depends on none of the others.         *)
GraphOK(g) ==
    /\ g \in [nodes : [Ids(g) -> Nodes], completed : SUBSET Tasks] /\ Ids(g) \subseteq Tasks
    /\ \A n \in Ids(g) : g.nodes[n].dependencies \cup g.nodes[n].dependents \subseteq Ids(g)
    /\ \A m, n \in Ids(g) :
           m \in g.nodes[n].dependencies <=> n \in g.nodes[m].dependents
    /\ g.completed = With(g, "Completed")
Acyclic(g) ==
    \A S \in (SUBSET Ids(g)) \ {{}} : \E n \in S : g.nodes[n].dependencies \cap S = {}

(* A participant is busy with what runs under its name, each task once.    *)
Running(g, agent) ==
    {n \in Ids(g) : g.nodes[n].status = "InProgress" /\ g.nodes[n].agent = agent}
Workers(g) == {g.nodes[n].agent : n \in With(g, "InProgress")}
LoadOK(g, ps) ==
    /\ DOMAIN ps \subseteq Agents /\ Workers(g) \subseteq DOMAIN ps
    /\ ps \in [DOMAIN ps -> [status : {"Registered", "Busy", "Ready"}, tasks : Seq(Tasks)]]
    /\ \A agent \in DOMAIN ps :
           /\ Range(ps[agent].tasks) = Running(g, agent) /\ IsInjective(ps[agent].tasks)
           /\ ps[agent].status = "Busy" <=> ps[agent].tasks # <<>>

(* The log holds the latest notifications, one after the other.            *)
Oldest == nextId - Len(log)
LogInv ==
    /\ nextId \in 1..MaxNotices + 1 /\ log \in Seq(Entries)
    /\ Len(log) < nextId
    /\ \A i \in DOMAIN log : log[i].id = Oldest - 1 + i
(* A checkpoint after which the log has everything, and what was completed *)
(* since, make up what is completed.                                       *)
Exact(cp) ==
    cp.reason # "budget" /\ cp.at >= Oldest - 1 =>
        cp.completed \cup Replayed(cp) = With(graph, "Completed")
CheckpointInv ==
    /\ checkpoints \in Seq(Checkpoints)
    /\ \A cp \in Range(checkpoints) : cp.at < nextId /\ Exact(cp)

LabelInv ==
    /\ status \in {"Initializing", "Active", "Paused", "Failed", "Completed"}
    /\ phase \in Phases

IInv ==
    /\ GraphOK(graph) /\ Acyclic(graph)
    /\ LoadOK(graph, participants) /\ LogInv /\ CheckpointInv /\ LabelInv
-----------------------------------------------------------------------------
(* refresh_ready_status makes pending tasks ready and does nothing else.   *)
Alike(g, h) ==
    /\ Ids(h) = Ids(g) /\ h.completed = g.completed
    /\ \A n \in Ids(g) :
          /\ h.nodes[n].dependencies = g.nodes[n].dependencies
          /\ h.nodes[n].dependents = g.nodes[n].dependents
          /\ h.nodes[n].agent = g.nodes[n].agent
          /\ \/ h.nodes[n].status = g.nodes[n].status
             \/ g.nodes[n].status = "Pending" /\ h.nodes[n].status = "Ready"
(* refresh_ready_status makes some Pending tasks Ready and changes nothing *)
(* else.                                                                   *)
LEMMA RefreshedIs ==
    ASSUME NEW g, GraphOK(g)
    PROVE  GraphOK(Refreshed(g)) /\ Alike(g, Refreshed(g))
PROOF
<1> DEFINE h == Refreshed(g)
<1>1. h.completed = g.completed /\ Ids(h) = Ids(g) /\ h.nodes \in [Ids(g) -> Nodes]
      /\ h = [nodes |-> h.nodes, completed |-> h.completed]
  BY DEF Refreshed, GraphOK, Ids, Nodes, NodeStatuses
<1>2. ASSUME NEW n \in Ids(g)
      PROVE  /\ h.nodes[n].dependencies = g.nodes[n].dependencies
             /\ h.nodes[n].dependents = g.nodes[n].dependents
             /\ h.nodes[n].agent = g.nodes[n].agent
             /\ \/ h.nodes[n].status = g.nodes[n].status
                \/ g.nodes[n].status = "Pending" /\ h.nodes[n].status = "Ready"
  BY DEF Refreshed, GraphOK, Ids, Nodes
<1> HIDE DEF h
<1>3. Alike(g, h)
  BY <1>1, <1>2 DEF Alike
<1>4. With(h, "Completed") = With(g, "Completed")
  BY <1>1, <1>2 DEF With
<1>5. GraphOK(h)
  BY <1>1, <1>2, <1>4 DEF GraphOK
<1> QED
  BY <1>3, <1>5 DEF h

(* Graphs with the same dependencies are acyclic together.                 *)
LEMMA AlikeAcyclic ==
    ASSUME NEW g, NEW h, Alike(g, h), Acyclic(g)
    PROVE  Acyclic(h)
PROOF
  BY DEF Alike, Acyclic

(* A new task depends on nothing and nothing on it.                        *)
LEMMA AddedIs ==
    ASSUME NEW g, GraphOK(g), Acyclic(g), NEW id \in Tasks \ Ids(g)
    PROVE  /\ GraphOK(Added(g, id)) /\ Acyclic(Added(g, id))
           /\ Ids(Added(g, id)) = Ids(g) \cup {id} /\ Added(g, id).nodes[id] = NewNode
           /\ \A n \in Ids(g) : Added(g, id).nodes[n] = g.nodes[n]
PROOF
<1> DEFINE h == Added(g, id)
<1>1. NewNode \in Nodes
  BY DEF NewNode, Nodes, NodeStatuses
<1>2. /\ h.completed = g.completed /\ Ids(h) = Ids(g) \cup {id}
      /\ h.nodes[id] = NewNode /\ \A n \in Ids(g) : h.nodes[n] = g.nodes[n]
      /\ h = [nodes |-> h.nodes, completed |-> h.completed]
  BY DEF Added, GraphOK, Ids
<1>3. h.nodes = [n \in Ids(g) \cup {id} |-> IF n = id THEN NewNode ELSE g.nodes[n]]
  BY DEF Added, GraphOK, Ids
<1> HIDE DEF h
<1>4. h.nodes \in [Ids(h) -> Nodes]
  <2>1. g.nodes \in [Ids(g) -> Nodes]
    BY DEF GraphOK
  <2>2. \A n \in Ids(g) \cup {id} : (IF n = id THEN NewNode ELSE g.nodes[n]) \in Nodes
    BY <1>1, <2>1
  <2>3. h.nodes \in [Ids(g) \cup {id} -> Nodes]
    BY <1>3, <2>2
  <2> QED
    BY <1>2, <2>3
<1>5. With(h, "Completed") = With(g, "Completed")
  <2>1. h.nodes[id].status # "Completed"
    BY <1>2 DEF NewNode
  <2> QED
    BY <1>2, <2>1 DEF With
<1>6. GraphOK(h)
  <2>1. h \in [nodes : [Ids(h) -> Nodes], completed : SUBSET Tasks] /\ Ids(h) \subseteq Tasks
    <3>1. g.completed \in SUBSET Tasks /\ Ids(g) \subseteq Tasks
      BY DEF GraphOK
    <3> QED
      BY <1>2, <1>4, <3>1
  <2>2. NewNode.dependencies = {} /\ NewNode.dependents = {}
    BY DEF NewNode
  <2>3. \A n \in Ids(h) : h.nodes[n].dependencies \cup h.nodes[n].dependents \subseteq Ids(h)
    BY <1>2, <2>2 DEF GraphOK
  <2>4. \A m, n \in Ids(h) :
           m \in h.nodes[n].dependencies <=> n \in h.nodes[m].dependents
    BY <1>2, <2>2 DEF GraphOK
  <2> QED
    BY <1>2, <1>5, <2>1, <2>3, <2>4 DEF GraphOK
<1>7. Acyclic(h)
  <2> SUFFICES ASSUME NEW S \in (SUBSET Ids(h)) \ {{}}
               PROVE  \E n \in S : h.nodes[n].dependencies \cap S = {}
    BY DEF Acyclic
  <2>1. CASE id \in S
    BY <1>2, <2>1 DEF NewNode
  <2>2. CASE id \notin S
    BY <1>2, <2>2 DEF Acyclic
  <2> QED
    BY <2>1, <2>2
<1> QED
  BY <1>2, <1>6, <1>7 DEF h

(* would_create_cycle finds every cycle a new dependency would close: what *)
(* is reached from the dependent is closed under dependents, so that no    *)
(* task outside of it depends on one inside.                               *)
LEMMA DependsIs ==
    ASSUME NEW g, GraphOK(g), Acyclic(g), NEW from \in Ids(g), NEW to \in Ids(g),
           ~WouldCreateCycle(g, from, to)
    PROVE  /\ GraphOK(Depends(g, from, to)) /\ Acyclic(Depends(g, from, to))
           /\ Ids(Depends(g, from, to)) = Ids(g)
           /\ \A n \in Ids(g) :
                 /\ Depends(g, from, to).nodes[n].status = g.nodes[n].status
                 /\ Depends(g, from, to).nodes[n].agent = g.nodes[n].agent
PROOF
<1> DEFINE h == Depends(g, from, to)
<1>1. PICK C \in SUBSET Ids(g) :
          /\ to \in C /\ from \notin C
          /\ \A n \in C : g.nodes[n].dependents \subseteq C
  BY DEF WouldCreateCycle
<1> DEFINE a == [g.nodes[from] EXCEPT !.dependents = @ \cup {to}]
           b == [g.nodes[to] EXCEPT !.dependencies = @ \cup {from}]
<1>2. g.nodes \in [Ids(g) -> Nodes] /\ Ids(g) \subseteq Tasks /\ from # to
  BY <1>1 DEF GraphOK
<1>3. /\ a \in Nodes /\ a.dependents = g.nodes[from].dependents \cup {to}
      /\ a.dependencies = g.nodes[from].dependencies /\ a.agent = g.nodes[from].agent
      /\ a.status = g.nodes[from].status
      /\ b \in Nodes /\ b.dependencies = g.nodes[to].dependencies \cup {from}
      /\ b.dependents = g.nodes[to].dependents /\ b.agent = g.nodes[to].agent
      /\ b.status = g.nodes[to].status
  BY <1>2 DEF Nodes
<1>4. h = [g EXCEPT !.nodes = [g.nodes EXCEPT ![from] = a, ![to] = b]]
  BY <1>2 DEF Depends, GraphOK
<1> HIDE DEF a, b, h
<1>5. /\ h.nodes = [g.nodes EXCEPT ![from] = a, ![to] = b]
      /\ h.completed = g.completed /\ h = [nodes |-> h.nodes, completed |-> h.completed]
  BY <1>4 DEF GraphOK
<1>6. /\ h.completed = g.completed /\ Ids(h) = Ids(g) /\ h.nodes \in [Ids(g) -> Nodes]
      /\ h = [nodes |-> h.nodes, completed |-> h.completed]
  BY <1>2, <1>3, <1>5 DEF Ids
<1>7. ASSUME NEW n \in Ids(g)
      PROVE  /\ h.nodes[n].dependencies =
                  IF n = to THEN g.nodes[n].dependencies \cup {from} ELSE g.nodes[n].dependencies
             /\ h.nodes[n].dependents =
                  IF n = from THEN g.nodes[n].dependents \cup {to} ELSE g.nodes[n].dependents
             /\ h.nodes[n].agent = g.nodes[n].agent /\ h.nodes[n].status = g.nodes[n].status
  BY <1>2, <1>3, <1>5
<1>8. With(h, "Completed") = With(g, "Completed")
  BY <1>6, <1>7 DEF With
<1>9. GraphOK(h)
  <2>1. h \in [nodes : [Ids(h) -> Nodes], completed : SUBSET Tasks] /\ Ids(h) \subseteq Tasks
    <3>1. g.completed \in SUBSET Tasks
      BY DEF GraphOK
    <3> QED
      BY <1>2, <1>6, <3>1
  <2>2. \A n \in Ids(h) : h.nodes[n].dependencies \cup h.nodes[n].dependents \subseteq Ids(h)
    <3> SUFFICES ASSUME NEW n \in Ids(g)
                 PROVE  h.nodes[n].dependencies \cup h.nodes[n].dependents \subseteq Ids(g)
      BY <1>6
    <3>1. g.nodes[n].dependencies \cup g.nodes[n].dependents \subseteq Ids(g)
      BY DEF GraphOK
    <3>2. /\ h.nodes[n].dependencies \subseteq g.nodes[n].dependencies \cup {from}
          /\ h.nodes[n].dependents \subseteq g.nodes[n].dependents \cup {to}
          /\ from \in Ids(g) /\ to \in Ids(g)
      BY <1>7, Zenon
    <3> QED
      BY <3>1, <3>2, Zenon
  <2>3. \A m, n \in Ids(h) :
           m \in h.nodes[n].dependencies <=> n \in h.nodes[m].dependents
    <3> SUFFICES ASSUME NEW m \in Ids(g), NEW n \in Ids(g)
                 PROVE  m \in h.nodes[n].dependencies <=> n \in h.nodes[m].dependents
      BY <1>6
    <3>1. m \in g.nodes[n].dependencies <=> n \in g.nodes[m].dependents
      BY DEF GraphOK
    <3> QED
      BY <1>7, <3>1
  <2> QED
    BY <1>6, <1>8, <2>1, <2>2, <2>3 DEF GraphOK
<1>10. Acyclic(h)
  <2> SUFFICES ASSUME NEW S \in (SUBSET Ids(g)) \ {{}}
               PROVE  \E n \in S : h.nodes[n].dependencies \cap S = {}
    BY <1>6 DEF Acyclic
  <2>1. CASE S \subseteq C
    <3>1. PICK n \in S : g.nodes[n].dependencies \cap S = {}
      BY DEF Acyclic
    <3>2. from \notin S
      BY <1>1, <2>1
    <3> QED
      BY <1>7, <3>1, <3>2
  <2>2. CASE S \ C # {}
    <3>1. PICK n \in S \ C : g.nodes[n].dependencies \cap (S \ C) = {}
      BY <2>2 DEF Acyclic
    <3>2. g.nodes[n].dependencies \cap C = {}
      BY <1>1, <3>1 DEF GraphOK
    <3>3. h.nodes[n].dependencies = g.nodes[n].dependencies
      BY <1>1, <1>7, <3>1
    <3> QED
      BY <3>1, <3>2, <3>3
  <2> QED
    BY <2>1, <2>2
<1> QED
  BY <1>6, <1>7, <1>9, <1>10 DEF h
-----------------------------------------------------------------------------
(* An operation that leaves the edges leaves the graph well formed when it *)
(* keeps the completed ids with the statuses.                              *)
LEMMA SameEdges ==
    ASSUME NEW g, GraphOK(g), Acyclic(g), NEW h,
           h = [nodes |-> h.nodes, completed |-> h.completed],
           h.nodes \in [Ids(g) -> Nodes], h.completed = With(h, "Completed"),
           \A n \in Ids(g) : /\ h.nodes[n].dependencies = g.nodes[n].dependencies
                             /\ h.nodes[n].dependents = g.nodes[n].dependents
    PROVE  GraphOK(h) /\ Acyclic(h) /\ Ids(h) = Ids(g)
PROOF
<1>1. Ids(h) = Ids(g) /\ Ids(g) \subseteq Tasks
  BY DEF Ids, GraphOK
<1>2. With(h, "Completed") \subseteq Tasks
  BY <1>1 DEF With
<1>3. h \in [nodes : [Ids(h) -> Nodes], completed : SUBSET Tasks]
  <2>1. h.nodes \in [Ids(h) -> Nodes] /\ h.completed \in SUBSET Tasks
    BY <1>1, <1>2
  <2> QED
    BY <2>1
<1>4. \A n \in Ids(h) : h.nodes[n].dependencies \cup h.nodes[n].dependents \subseteq Ids(h)
  BY <1>1 DEF GraphOK
<1>5. \A m, n \in Ids(h) : m \in h.nodes[n].dependencies <=> n \in h.nodes[m].dependents
  BY <1>1 DEF GraphOK
<1>6. Acyclic(h)
  BY <1>1 DEF Acyclic
<1> QED
  BY <1>1, <1>3, <1>4, <1>5, <1>6 DEF GraphOK

(* What a graph says of the progress of its tasks.                         *)
Progress(g, h, done, off) ==
    /\ With(h, "Completed") = With(g, "Completed") \cup done
    /\ \A agent \in Agents : Running(h, agent) = Running(g, agent) \ off
    /\ Workers(h) \subseteq Workers(g)
(* Refreshing completes no task and takes none from an agent.              *)
LEMMA AlikeProgress ==
    ASSUME NEW g, NEW h, GraphOK(g), Alike(g, h)
    PROVE  Progress(g, h, {}, {})
PROOF
<1>1. Ids(h) = Ids(g)
  BY DEF Alike
<1>2. \A n \in Ids(g) :
          /\ h.nodes[n].status = "Completed" <=> g.nodes[n].status = "Completed"
          /\ h.nodes[n].status = "InProgress" <=> g.nodes[n].status = "InProgress"
          /\ h.nodes[n].agent = g.nodes[n].agent
  BY DEF Alike
<1> QED
  BY <1>1, <1>2 DEF Progress, With, Running, Workers

(* A change followed by a refresh makes the progress of the change.        *)
LEMMA ProgressRefreshed ==
    ASSUME NEW g, NEW h, NEW done, NEW off, Progress(g, h, done, off), GraphOK(h)
    PROVE  Progress(g, Refreshed(h), done, off)
PROOF
<1>1. Progress(h, Refreshed(h), {}, {})
  BY RefreshedIs, AlikeProgress
<1> HIDE DEF Progress
<1> QED
  BY <1>1 DEF Progress

(* start_task gives the agent one more task to run.                        *)
LEMMA StartedIs ==
    ASSUME NEW g, GraphOK(g), Acyclic(g), NEW task \in Ids(g), NEW agent \in Agents,
           Startable(g, task)
    PROVE  LET h == Started(g, task, agent) IN
           /\ GraphOK(h) /\ Acyclic(h) /\ Ids(h) = Ids(g)
           /\ With(h, "Completed") = With(g, "Completed")
           /\ \A p \in Agents : /\ task \notin Running(g, p)
                                /\ Running(h, p) = IF p = agent THEN Running(g, p) \cup {task}
                                                                ELSE Running(g, p)
           /\ Workers(h) \subseteq Workers(g) \cup {agent}
PROOF
<1> DEFINE h == Started(g, task, agent)
           a == [g.nodes[task] EXCEPT !.status = "InProgress", !.agent = agent]
<1>1. /\ g.nodes \in [Ids(g) -> Nodes] /\ g.completed = With(g, "Completed")
      /\ g = [nodes |-> g.nodes, completed |-> g.completed]
      /\ g.nodes[task].status \in {"Pending", "Ready"}
  BY DEF GraphOK, Startable
<1>2. /\ a \in Nodes /\ a.dependencies = g.nodes[task].dependencies
      /\ a.dependents = g.nodes[task].dependents
      /\ a.status = "InProgress" /\ a.agent = agent
  BY <1>1 DEF Nodes, NodeStatuses
<1>3. h = [g EXCEPT !.nodes = [g.nodes EXCEPT ![task] = a]]
  BY <1>1 DEF Started
<1> HIDE DEF a, h
<1>4. /\ h.nodes = [g.nodes EXCEPT ![task] = a] /\ h.completed = g.completed
      /\ h = [nodes |-> h.nodes, completed |-> h.completed]
  BY <1>1, <1>3
<1>5. h.nodes \in [Ids(g) -> Nodes] /\ Ids(h) = Ids(g)
  BY <1>1, <1>2, <1>4 DEF Ids
<1>6. \A n \in Ids(g) : h.nodes[n] = IF n = task THEN a ELSE g.nodes[n]
  BY <1>1, <1>4 DEF Ids
<1>7. With(h, "Completed") = With(g, "Completed")
  BY <1>1, <1>2, <1>5, <1>6 DEF With
<1>8. \A n \in Ids(g) : /\ h.nodes[n].dependencies = g.nodes[n].dependencies
                        /\ h.nodes[n].dependents = g.nodes[n].dependents
  BY <1>2, <1>6
<1>9. GraphOK(h) /\ Acyclic(h)
  BY <1>1, <1>4, <1>5, <1>7, <1>8, SameEdges
<1>10. ASSUME NEW p \in Agents
       PROVE  /\ task \notin Running(g, p)
              /\ Running(h, p) = IF p = agent THEN Running(g, p) \cup {task} ELSE Running(g, p)
  <2>1. CASE p = agent
    BY <1>1, <1>2, <1>5, <1>6, <2>1 DEF Running
  <2>2. CASE p # agent
    BY <1>1, <1>2, <1>5, <1>6, <2>2 DEF Running
  <2> QED
    BY <2>1, <2>2
<1>11. Workers(h) \subseteq Workers(g) \cup {agent}
  BY <1>2, <1>5, <1>6 DEF Workers, With
<1> QED
  BY <1>5, <1>7, <1>9, <1>10, <1>11 DEF h


(* One node of a graph replaced, and an id added to the completed ones.    *)
LEMMA ReplacedIs ==
    ASSUME NEW g, GraphOK(g), Acyclic(g), NEW task \in Ids(g), NEW a \in Nodes,
           a.dependencies = g.nodes[task].dependencies,
           a.dependents = g.nodes[task].dependents,
           g.nodes[task].status # "Completed", a.status # "InProgress",
           NEW h, h.nodes = [g.nodes EXCEPT ![task] = a],
           h.completed = g.completed \cup (IF a.status = "Completed" THEN {task} ELSE {}),
           h = [nodes |-> h.nodes, completed |-> h.completed]
    PROVE  /\ GraphOK(h) /\ Acyclic(h)
           /\ Progress(g, h, IF a.status = "Completed" THEN {task} ELSE {}, {task})
PROOF
<1>1. /\ g.nodes \in [Ids(g) -> Nodes] /\ g.completed = With(g, "Completed")
      /\ h.nodes \in [Ids(g) -> Nodes] /\ Ids(h) = Ids(g)
  BY DEF GraphOK, Ids
<1>2. \A n \in Ids(g) : h.nodes[n] = IF n = task THEN a ELSE g.nodes[n]
  BY <1>1
<1>3. With(h, "Completed") =
          With(g, "Completed") \cup (IF a.status = "Completed" THEN {task} ELSE {})
  BY <1>1, <1>2 DEF With
<1>4. \A n \in Ids(g) : /\ h.nodes[n].dependencies = g.nodes[n].dependencies
                        /\ h.nodes[n].dependents = g.nodes[n].dependents
  BY <1>2
<1>5. GraphOK(h) /\ Acyclic(h)
  BY <1>1, <1>3, <1>4, SameEdges
<1>6. \A agent \in Agents : Running(h, agent) = Running(g, agent) \ {task}
  BY <1>1, <1>2 DEF Running
<1>7. Workers(h) \subseteq Workers(g)
  BY <1>1, <1>2 DEF Workers, With
<1> QED
  BY <1>3, <1>5, <1>6, <1>7 DEF Progress

(* complete_task takes the task off its agent and counts it as completed.  *)
LEMMA CompletedIs ==
    ASSUME NEW g, GraphOK(g), Acyclic(g), NEW task \in Ids(g),
           g.nodes[task].status = "InProgress"
    PROVE  LET h == Completed(g, task) IN
           GraphOK(h) /\ Acyclic(h) /\ Progress(g, h, {task}, {task})
PROOF
<1> DEFINE a == [g.nodes[task] EXCEPT !.status = "Completed"]
           h == [g EXCEPT !.nodes[task].status = "Completed", !.completed = @ \cup {task}]
<1>1. g.nodes[task] \in Nodes /\ g = [nodes |-> g.nodes, completed |-> g.completed]
      /\ g.nodes \in [Ids(g) -> Nodes]
  BY DEF GraphOK
<1>2. /\ a \in Nodes /\ a.dependencies = g.nodes[task].dependencies
      /\ a.dependents = g.nodes[task].dependents /\ a.status = "Completed"
  BY <1>1 DEF Nodes, NodeStatuses
<1>3. h = [g EXCEPT !.nodes = [g.nodes EXCEPT ![task] = a], !.completed = @ \cup {task}]
  BY <1>1
<1>4. Completed(g, task) = Refreshed(h)
  BY DEF Completed
<1> HIDE DEF a, h
<1>6. /\ h.nodes = [g.nodes EXCEPT ![task] = a]
      /\ h.completed = g.completed \cup {task}
      /\ h = [nodes |-> h.nodes, completed |-> h.completed]
  BY <1>1, <1>3
<1>5. GraphOK(h) /\ Acyclic(h) /\ Progress(g, h, {task}, {task})
  <2>1. a.status # "InProgress" /\ g.nodes[task].status # "Completed"
    BY <1>2
  <2>2. (IF a.status = "Completed" THEN {task} ELSE {}) = {task}
    BY <1>2
  <2> QED
    BY <1>2, <1>6, <2>1, <2>2, ReplacedIs
<1> QED
  BY <1>4, <1>5, RefreshedIs, AlikeAcyclic, ProgressRefreshed

(* fail_task takes the task off its agent and blocks what has not started. *)
LEMMA FailedIs ==
    ASSUME NEW g, GraphOK(g), Acyclic(g), NEW task \in Ids(g),
           g.nodes[task].status = "InProgress"
    PROVE  LET h == FailedIn(g, task) IN
           GraphOK(h) /\ Acyclic(h) /\ Progress(g, h, {}, {task})
PROOF
<1> DEFINE h == FailedIn(g, task)
<1>1. /\ g.nodes \in [Ids(g) -> Nodes] /\ g.completed = With(g, "Completed")
      /\ g = [nodes |-> g.nodes, completed |-> g.completed]
  BY DEF GraphOK
<1>2. /\ h.nodes \in [Ids(g) -> Nodes] /\ Ids(h) = Ids(g) /\ h.completed = g.completed
      /\ h = [nodes |-> h.nodes, completed |-> h.completed]
  <2> DEFINE node(n) ==
          IF n = task THEN [g.nodes[n] EXCEPT !.status = "Failed"]
          ELSE IF n \in g.nodes[task].dependents /\ g.nodes[n].status \in {"Pending", "Ready"}
          THEN [g.nodes[n] EXCEPT !.status = "Blocked"] ELSE g.nodes[n]
  <2>1. \A n \in Ids(g) : node(n) \in Nodes
    BY <1>1 DEF Nodes, NodeStatuses
  <2>2. h = [g EXCEPT !.nodes = [n \in Ids(g) |-> node(n)]]
    BY DEF FailedIn
  <2> HIDE DEF node, h
  <2>3. h.nodes = [n \in Ids(g) |-> node(n)]
    BY <1>1, <2>2
  <2> QED
    BY <1>1, <2>1, <2>2, <2>3 DEF Ids
<1>3. ASSUME NEW n \in Ids(g)
      PROVE  /\ h.nodes[n].dependencies = g.nodes[n].dependencies
             /\ h.nodes[n].dependents = g.nodes[n].dependents
             /\ h.nodes[n].agent = g.nodes[n].agent
             /\ \/ h.nodes[n].status = g.nodes[n].status /\ n # task
                \/ g.nodes[n].status \in {"Pending", "Ready"} /\ h.nodes[n].status = "Blocked"
                \/ n = task /\ h.nodes[n].status = "Failed"
  BY <1>1 DEF FailedIn, Nodes
<1> HIDE DEF h
<1>4. With(h, "Completed") = With(g, "Completed")
  BY <1>2, <1>3 DEF With
<1>5. GraphOK(h) /\ Acyclic(h)
  BY <1>1, <1>2, <1>3, <1>4, SameEdges
<1>6. ASSUME NEW agent \in Agents PROVE Running(h, agent) = Running(g, agent) \ {task}
  <2>1. \A n \in Ids(g) : h.nodes[n].status = "InProgress"
                            <=> g.nodes[n].status = "InProgress" /\ n # task
    BY <1>3
  <2> QED
    BY <1>2, <1>3, <2>1 DEF Running
<1>7. Workers(h) \subseteq Workers(g)
  BY <1>2, <1>3 DEF Workers, With
<1> QED
  BY <1>4, <1>5, <1>6, <1>7 DEF Progress, h

(* retry_task changes the status of a failed task, which none was running. *)
LEMMA RetriedIs ==
    ASSUME NEW g, GraphOK(g), Acyclic(g), NEW task \in Ids(g),
           g.nodes[task].status = "Failed"
    PROVE  LET h == Retried(g, task) IN
           GraphOK(h) /\ Acyclic(h) /\ Progress(g, h, {}, {})
PROOF
<1> DEFINE a == [g.nodes[task] EXCEPT !.status = "Pending", !.agent = NoAgent,
                                     !.retries = @ + 1]
           h == [g EXCEPT !.nodes[task].status = "Pending", !.nodes[task].agent = NoAgent,
                          !.nodes[task].retries = @ + 1]
<1>1. g.nodes[task] \in Nodes /\ g = [nodes |-> g.nodes, completed |-> g.completed]
      /\ g.nodes \in [Ids(g) -> Nodes]
  BY DEF GraphOK
<1>2. /\ a \in Nodes
      /\ a.dependencies = g.nodes[task].dependencies
      /\ a.dependents = g.nodes[task].dependents /\ a.status = "Pending"
  <2>1. g.nodes[task].retries + 1 \in Nat
    BY <1>1 DEF Nodes
  <2> QED
    BY <1>1, <2>1 DEF Nodes, NodeStatuses
<1>3. h = [g EXCEPT !.nodes = [g.nodes EXCEPT ![task] = a]]
  BY <1>1
<1>4. Retried(g, task) = Refreshed(h)
  BY DEF Retried
<1> HIDE DEF a, h
<1>8. /\ h.nodes = [g.nodes EXCEPT ![task] = a]
      /\ h.completed = g.completed \cup {}
      /\ h = [nodes |-> h.nodes, completed |-> h.completed]
  BY <1>1, <1>3
<1>5. GraphOK(h) /\ Acyclic(h) /\ Progress(g, h, {}, {task})
  <2>1. a.status # "InProgress" /\ g.nodes[task].status # "Completed"
    BY <1>2
  <2>2. (IF a.status = "Completed" THEN {task} ELSE {}) = {}
    BY <1>2
  <2> QED
    BY <1>2, <1>8, <2>1, <2>2, ReplacedIs
<1>6. \A agent \in Agents : Running(g, agent) \ {task} = Running(g, agent)
  BY DEF Running
<1>7. Progress(g, h, {}, {})
  BY <1>5, <1>6 DEF Progress
<1> QED
  BY <1>4, <1>5, <1>7, RefreshedIs, AlikeAcyclic, ProgressRefreshed
-----------------------------------------------------------------------------
(* Loads that fit a graph fit every graph in which the agents run the same *)
(* tasks.                                                                  *)
LEMMA LoadSame ==
    ASSUME NEW g, NEW h, NEW ps, LoadOK(g, ps), NEW done, Progress(g, h, done, {})
    PROVE  LoadOK(h, ps)
PROOF
  BY DEF LoadOK, Progress

(* A participant that registers has nothing to run yet.                    *)
LEMMA RegisteredIs ==
    ASSUME NEW g, NEW ps, LoadOK(g, ps), NEW agent \in Agents \ DOMAIN ps
    PROVE  LoadOK(g, [p \in DOMAIN ps \cup {agent} |->
                 IF p = agent THEN [status |-> "Registered", tasks |-> <<>>] ELSE ps[p]])
PROOF
<1> DEFINE new == [status |-> "Registered", tasks |-> <<>>]
           qs == [p \in DOMAIN ps \cup {agent} |-> IF p = agent THEN new ELSE ps[p]]
           Participants == [status : {"Registered", "Busy", "Ready"}, tasks : Seq(Tasks)]
<1>1. /\ new \in Participants /\ new.tasks = <<>> /\ new.status # "Busy"
      /\ Range(new.tasks) = {} /\ IsInjective(new.tasks)
  BY DEF Range, IsInjective
<1>2. Running(g, agent) = {}
  BY DEF LoadOK, Running, Workers, With
<1>3. ps \in [DOMAIN ps -> Participants]
  BY DEF LoadOK
<1> HIDE DEF new, Participants
<1>4. /\ DOMAIN qs = DOMAIN ps \cup {agent} /\ qs[agent] = new
      /\ \A p \in DOMAIN ps : qs[p] = ps[p]
      /\ qs \in [DOMAIN qs -> Participants]
  BY <1>1, <1>3
<1> HIDE DEF qs
<1>5. LoadOK(g, qs)
  <2>1. DOMAIN qs \subseteq Agents /\ Workers(g) \subseteq DOMAIN qs
    BY <1>4 DEF LoadOK
  <2>2. ASSUME NEW p \in DOMAIN qs
        PROVE  /\ Range(qs[p].tasks) = Running(g, p) /\ IsInjective(qs[p].tasks)
               /\ qs[p].status = "Busy" <=> qs[p].tasks # <<>>
    <3>1. CASE p = agent
      BY <1>1, <1>2, <1>4, <3>1
    <3>2. CASE p # agent
      <4>1. p \in DOMAIN ps /\ qs[p] = ps[p]
        BY <1>4, <2>2, <3>2
      <4> QED
        BY <4>1 DEF LoadOK
    <3> QED
      BY <3>1, <3>2
  <2> QED
    BY <1>4, <2>1, <2>2 DEF LoadOK, Participants
<1> QED
  BY <1>5 DEF qs, new

(* An agent that is assigned a task has it in its load, like the graph.    *)
LEMMA LoadedIs ==
    ASSUME GraphOK(graph), LoadOK(graph, participants), NEW task \in Ids(graph),
           NEW agent \in DOMAIN participants, NEW h,
           Workers(h) \subseteq Workers(graph) \cup {agent},
           \A p \in Agents :
               /\ task \notin Running(graph, p)
               /\ Running(h, p) = IF p = agent THEN Running(graph, p) \cup {task}
                                               ELSE Running(graph, p)
    PROVE  LoadOK(h, Loaded(agent, task))
PROOF
<1> DEFINE Participants == [status : {"Registered", "Busy", "Ready"}, tasks : Seq(Tasks)]
           mine == participants[agent].tasks
           more == Append(mine, task)
           new == [participants[agent] EXCEPT !.tasks = more, !.status = "Busy"]
           qs == Loaded(agent, task)
<1>1. /\ participants \in [DOMAIN participants -> Participants]
      /\ participants[agent] \in Participants /\ mine \in Seq(Tasks)
      /\ Range(mine) = Running(graph, agent) /\ IsInjective(mine)
      /\ DOMAIN participants \subseteq Agents /\ task \in Tasks
  BY DEF LoadOK, GraphOK
<1>2. /\ more \in Seq(Tasks) /\ Range(more) = Range(mine) \cup {task}
      /\ IsInjective(more) /\ more # <<>>
  <2>1. task \notin Range(mine)
    BY <1>1
  <2>2. more # <<>>
    BY <1>1
  <2> HIDE DEF mine
  <2> QED
    BY <1>1, <2>1, <2>2, AppendRange
<1>3. new \in Participants /\ new.tasks = more /\ new.status = "Busy"
  BY <1>1, <1>2
<1>4. qs = [participants EXCEPT ![agent] = new]
  BY <1>1 DEF Loaded
<1> HIDE DEF new, more, mine, qs, Participants
<1>5. /\ DOMAIN qs = DOMAIN participants /\ qs \in [DOMAIN qs -> Participants]
      /\ qs[agent] = new
      /\ \A p \in DOMAIN participants : p # agent => qs[p] = participants[p]
  BY <1>1, <1>3, <1>4
<1>6. ASSUME NEW p \in DOMAIN qs
      PROVE  /\ Range(qs[p].tasks) = Running(h, p) /\ IsInjective(qs[p].tasks)
             /\ qs[p].status = "Busy" <=> qs[p].tasks # <<>>
  <2>1. CASE p = agent
    BY <1>1, <1>2, <1>3, <1>5, <2>1
  <2>2. CASE p # agent
    <3>1. p \in DOMAIN participants /\ qs[p] = participants[p] /\ Running(h, p) = Running(graph, p)
      BY <1>1, <1>5, <2>2
    <3> QED
      BY <3>1 DEF LoadOK
  <2> QED
    BY <2>1, <2>2
<1>7. DOMAIN qs \subseteq Agents /\ Workers(h) \subseteq DOMAIN qs
  BY <1>1, <1>5 DEF LoadOK
<1> QED
  BY <1>5, <1>6, <1>7 DEF LoadOK, qs, Participants

(* The task goes from the list of its agent, who is busy with what is left;*)
(* it was on no other list.                                                *)
LEMMA ReleasedIs ==
    ASSUME GraphOK(graph), LoadOK(graph, participants), NEW task \in Ids(graph),
           NEW agent \in DOMAIN participants, Runs(agent, task),
           NEW h, NEW done, Progress(graph, h, done, {task})
    PROVE  LoadOK(h, Released(agent, task))
PROOF
<1> DEFINE Participants == [status : {"Registered", "Busy", "Ready"}, tasks : Seq(Tasks)]
           mine == participants[agent].tasks
           left == Taken(mine, Tasks \ {task})
           new == [tasks |-> left,
                   status |-> IF left = <<>> THEN "Ready" ELSE participants[agent].status]
           qs == Released(agent, task)
<1>1. /\ participants \in [DOMAIN participants -> Participants]
      /\ participants[agent] \in Participants /\ mine \in Seq(Tasks)
      /\ Range(mine) = Running(graph, agent) /\ IsInjective(mine)
      /\ participants[agent].status = "Busy" <=> mine # <<>>
      /\ DOMAIN participants \subseteq Agents /\ Running(graph, agent) \subseteq Tasks
  BY DEF LoadOK, GraphOK, Running
<1>2. task \in Running(graph, agent)
  BY DEF Runs, Running
<1>3. participants[agent].status = "Busy"
  <2>1. mine # <<>>
    BY <1>1, <1>2 DEF Range
  <2> QED
    BY <1>1, <2>1
<1>4. /\ left \in Seq(Tasks) /\ Range(left) = Running(graph, agent) \ {task}
      /\ IsInjective(left)
  <2>1. Running(graph, agent) \cap (Tasks \ {task}) = Running(graph, agent) \ {task}
    BY <1>1
  <2> HIDE DEF mine
  <2> QED
    BY <1>1, <2>1, TakenKeeps
<1> HIDE DEF left
<1>5. new \in Participants /\ new.tasks = left /\ (new.status = "Busy" <=> left # <<>>)
  BY <1>1, <1>3, <1>4
<1>6. qs = [participants EXCEPT ![agent] = new]
  BY <1>1 DEF Released, left
<1> HIDE DEF new, mine, qs, Participants
<1>7. /\ DOMAIN qs = DOMAIN participants /\ qs \in [DOMAIN qs -> Participants]
      /\ qs[agent] = new
      /\ \A p \in DOMAIN participants : p # agent => qs[p] = participants[p]
  BY <1>1, <1>5, <1>6
<1>8. ASSUME NEW p \in DOMAIN qs
      PROVE  /\ Range(qs[p].tasks) = Running(h, p) /\ IsInjective(qs[p].tasks)
             /\ qs[p].status = "Busy" <=> qs[p].tasks # <<>>
  <2>1. Running(h, p) = Running(graph, p) \ {task}
    BY <1>1, <1>7 DEF Progress
  <2>2. CASE p = agent
    BY <1>4, <1>5, <1>7, <2>1, <2>2
  <2>3. CASE p # agent
    <3>1. task \notin Running(graph, p)
      BY <2>3 DEF Running, Runs
    <3>2. p \in DOMAIN participants /\ qs[p] = participants[p] /\ Running(h, p) = Running(graph, p)
      BY <1>7, <2>1, <2>3, <3>1
    <3> QED
      BY <3>2 DEF LoadOK
  <2> QED
    BY <2>2, <2>3
<1>9. DOMAIN qs \subseteq Agents /\ Workers(h) \subseteq DOMAIN qs
  BY <1>1, <1>7 DEF LoadOK, Progress
<1> QED
  BY <1>7, <1>8, <1>9 DEF LoadOK, qs, Participants
-----------------------------------------------------------------------------
(* NotificationLog::add drops entries only from the front: what is replayed*)
(* after a checkpoint that is not behind the log grows by the new entry.   *)
LEMMA AddIs ==
    ASSUME SessionAssumption, LogInv,
           NEW about \in {"phase", "text", "assigned", "completed", "failed"},
           NEW task \in Tasks \cup Agents \cup Phases, Add(about, task)
    PROVE  /\ LogInv' /\ Oldest' >= Oldest /\ nextId' = nextId + 1
           /\ \A cp \in Checkpoints : cp.at < nextId /\ cp.at >= Oldest' - 1 =>
                 Replayed(cp)' = Replayed(cp) \cup (IF about = "completed" THEN {task} ELSE {})
PROOF
<1> DEFINE e == [id |-> nextId, about |-> about, task |-> task]
           A == Append(log, e)
           L == Len(log)
<1>1. /\ nextId \in Nat /\ nextId \in 1..MaxNotices /\ MaxNotices \in Nat
      /\ nextId' = nextId + 1 /\ log \in Seq(Entries)
      /\ L \in Nat /\ L < nextId /\ DOMAIN log = 1..L
  BY DEF LogInv, Add, SessionAssumption
<1>2. e \in Entries
  BY <1>1 DEF Entries
<1>3. /\ A \in Seq(Entries) /\ Len(A) = L + 1 /\ A[L + 1] = e
      /\ \A i \in 1..L : A[i] = log[i]
  BY <1>1, <1>2
<1>4. PICK y \in 1..MaxEntries : log' = Latest(A, y)
  BY DEF Add
<1> HIDE DEF e, A, L
<1>5. \E k \in 0..L : log' = SubSeq(A, k + 1, L + 1)
  <2>1. y \in Nat /\ y >= 1
    BY <1>4 DEF SessionAssumption
  <2>2. CASE L + 1 <= y
    <3>1. log' = A
      BY <1>3, <1>4, <2>2 DEF Latest
    <3>2. SubSeq(A, 1, L + 1) = A
      BY <1>1, <1>3
    <3>3. 0 \in 0..L /\ 0 + 1 = 1
      BY <1>1
    <3> QED
      BY <3>1, <3>2, <3>3
  <2>3. CASE ~(L + 1 <= y)
    <3>1. log' = SubSeq(A, (L + 1) - y + 1, L + 1)
      BY <1>3, <1>4, <2>3 DEF Latest
    <3>2. (L + 1) - y \in 0..L
      BY <1>1, <2>1, <2>3
    <3> QED
      BY <3>1, <3>2
  <2> QED
    BY <2>2, <2>3
<1>6. PICK k \in 0..L : log' = SubSeq(A, k + 1, L + 1)
  BY <1>5
<1>7. PICK M : M = (L + 1) - k /\ M \in Nat /\ k \in Nat
  BY <1>1, <1>6
<1>8. /\ log' \in Seq(Entries) /\ Len(log') = M /\ DOMAIN (log') = 1..M
      /\ \A i \in 1..M : log'[i] = A[k + i]
  <2>1. k + 1 \in 1..Len(A) /\ L + 1 = Len(A) /\ (L + 1) - (k + 1) + 1 = M
    BY <1>1, <1>3, <1>6, <1>7
  <2>2. \A i \in 1..M : log'[i] = A[(k + 1) + i - 1]
    BY <1>1, <1>3, <1>6, <1>7, <2>1
  <2>3. \A i \in 1..M : (k + 1) + i - 1 = k + i
    BY <1>7
  <2>4. log' \in Seq(Entries) /\ Len(log') = M
    BY <1>1, <1>3, <1>6, <1>7, <2>1
  <2> QED
    BY <1>7, <2>2, <2>3, <2>4
<1>9. Oldest \in Nat /\ Oldest = nextId - L /\ Oldest' = Oldest + k
  <2>1. Oldest = nextId - L /\ Oldest' = nextId' - M
    BY <1>8 DEF Oldest, L
  <2> QED
    BY <1>1, <1>7, <2>1
<1>10. \A j \in 1..L + 1 : A[j].id = Oldest - 1 + j
  <2>1. \A j \in 1..L : A[j].id = Oldest - 1 + j
    BY <1>1, <1>3 DEF LogInv
  <2>2. A[L + 1].id = Oldest - 1 + (L + 1)
    <3>1. A[L + 1].id = nextId
      BY <1>3 DEF e
    <3> QED
      BY <1>1, <1>9, <3>1
  <2> QED
    BY <1>1, <2>1, <2>2
<1>11. \A i \in 1..M : k + i \in 1..L + 1 /\ log'[i].id = Oldest - 1 + (k + i)
  BY <1>1, <1>7, <1>8, <1>10
<1>12. LogInv'
  <2>1. nextId' \in 1..MaxNotices + 1 /\ M < nextId'
    BY <1>1, <1>7
  <2>2. \A i \in 1..M : Oldest' - 1 + i = Oldest - 1 + (k + i)
    BY <1>7, <1>9
  <2> QED
    BY <1>8, <1>11, <2>1, <2>2 DEF LogInv
<1>13. ASSUME NEW cp \in Checkpoints, cp.at < nextId, cp.at >= Oldest' - 1
       PROVE  Replayed(cp)' = Replayed(cp) \cup (IF about = "completed" THEN {task} ELSE {})
  <2> DEFINE Hit(x) == x.id > cp.at /\ x.about = "completed"
             Old == {log[i].task : i \in {j \in 1..L : Hit(log[j])}}
             All == {A[i].task : i \in {j \in 1..L + 1 : Hit(A[j])}}
             New == {log'[i].task : i \in {j \in 1..M : Hit(log'[j])}}
  <2>1. cp.at \in Nat
    BY DEF Checkpoints
  <2>2. Replayed(cp) = Old /\ Replayed(cp)' = New
    BY <1>1, <1>8 DEF Replayed
  <2>3. \A i \in 1..M : k + i \in 1..L + 1 /\ log'[i] = A[k + i]
    BY <1>8, <1>11
  <2>4. New \subseteq All
    BY <2>3
  <2>5. All \subseteq New
    <3> SUFFICES ASSUME NEW j \in 1..L + 1, Hit(A[j]) PROVE A[j].task \in New
      OBVIOUS
    <3>1. Oldest - 1 + j > Oldest + k - 1
      BY <1>9, <1>10, <1>13, <2>1, <1>7, <1>1
    <3>2. j - k \in 1..M /\ k + (j - k) = j
      BY <1>1, <1>7, <1>9, <3>1
    <3>3. log'[j - k] = A[j]
      BY <2>3, <3>2
    <3> QED
      BY <3>2, <3>3
  <2>6. All = Old \cup (IF Hit(A[L + 1]) THEN {A[L + 1].task} ELSE {})
    <3>1. 1..L + 1 = 1..L \cup {L + 1}
      BY <1>1
    <3> HIDE DEF Hit
    <3> QED
      BY <1>3, <3>1
  <2>7. Hit(A[L + 1]) <=> about = "completed"
    BY <1>1, <1>3, <1>13, <2>1 DEF e
  <2>8. A[L + 1].task = task
    BY <1>3 DEF e
  <2> QED
    BY <2>2, <2>4, <2>5, <2>6, <2>7, <2>8
<1>14. Oldest' >= Oldest
  BY <1>7, <1>9
<1> QED
  BY <1>1, <1>12, <1>13, <1>14
-----------------------------------------------------------------------------
(* SessionCheckpointManager::create keeps only what was there.             *)
LEMMA CappedIs ==
    ASSUME SessionAssumption, NEW cps \in Seq(Checkpoints)
    PROVE  Capped(cps) \in Seq(Checkpoints) /\ Range(Capped(cps)) \subseteq Range(cps)
PROOF
<1>1. PICK n : n \in Nat /\ n = Len(cps) /\ DOMAIN cps = 1..n
  OBVIOUS
<1>2. CASE n <= MaxCheckpoints
  BY <1>1, <1>2 DEF Capped
<1>3. CASE ~(n <= MaxCheckpoints)
  <2>1. n >= 1
    BY <1>1, <1>3 DEF SessionAssumption
  <2>2. Dropped(cps) \in 1..n
    <3>1. CASE Passing(cps) = {}
      BY <1>1, <2>1, <3>1 DEF Dropped
    <3>2. CASE Passing(cps) # {}
      <4> DEFINE R == {0 - i : i \in Passing(cps)}
      <4>1. Passing(cps) \subseteq 1..n
        BY <1>1 DEF Passing
      <4>2. R \in SUBSET ((0 - n)..0) /\ R # {} /\ R \in SUBSET Int
        BY <1>1, <3>2, <4>1
      <4>3. IsFiniteSet(R)
        <5>1. IsFiniteSet((0 - n)..0)
          BY <1>1, FS_Interval
        <5> HIDE DEF R
        <5> QED
          BY <4>2, <5>1, FS_Subset
      <4>4. PICK x \in R : \A y \in R : x >= y
        <5> HIDE DEF R
        <5> QED
          BY <4>2, <4>3, MaxExists
      <4>5. PICK i \in Passing(cps) : x = 0 - i
        BY <4>4
      <4>6. ASSUME NEW j \in Passing(cps) PROVE i <= j
        <5>1. 0 - j \in R /\ i \in Int /\ j \in Int
          BY <1>1, <4>1
        <5>2. x >= 0 - j
          BY <4>4, <5>1
        <5> QED
          BY <4>5, <5>1, <5>2
      <4>7. Dropped(cps) \in Passing(cps)
        BY <3>2, <4>5, <4>6 DEF Dropped
      <4> QED
        BY <4>1, <4>7
    <3> QED
      BY <3>1, <3>2
  <2> DEFINE d == Dropped(cps)
             front == SubSeq(cps, 1, d - 1)
             rear == SubSeq(cps, d + 1, n)
  <2>3. Capped(cps) = front \o rear
    BY <1>1, <1>3 DEF Capped
  <2> HIDE DEF d
  <2>4. d \in 1..n
    BY <2>2 DEF d
  <2>5. front \in Seq(Checkpoints) /\ Range(front) \subseteq Range(cps)
    <3>1. /\ front \in Seq(Checkpoints) /\ Len(front) = d - 1
          /\ \A i \in 1..Len(front) : front[i] = cps[i] /\ i \in 1..n
      BY <1>1, <2>4
    <3>2. DOMAIN front = 1..Len(front)
      BY <3>1
    <3> HIDE DEF front
    <3> QED
      BY <1>1, <3>1, <3>2 DEF Range
  <2>6. rear \in Seq(Checkpoints) /\ Range(rear) \subseteq Range(cps)
    <3>1. /\ rear \in Seq(Checkpoints)
          /\ \A i \in 1..Len(rear) : rear[i] = cps[d + i] /\ d + i \in 1..n
      <4>1. rear \in Seq(Checkpoints) /\ Len(rear) = n - d
        BY <1>1, <2>4
      <4>2. \A i \in 1..n - d : rear[i] = cps[(d + 1) + i - 1]
        BY <1>1, <2>4, <4>1
      <4>3. \A i \in 1..n - d : (d + 1) + i - 1 = d + i /\ d + i \in 1..n
        BY <1>1, <2>4
      <4> HIDE DEF rear
      <4> QED
        BY <4>1, <4>2, <4>3
    <3>2. DOMAIN rear = 1..Len(rear)
      BY <3>1
    <3> HIDE DEF rear
    <3> QED
      BY <1>1, <3>1, <3>2 DEF Range
  <2> HIDE DEF front, rear
  <2> QED
    BY <2>3, <2>5, <2>6, ConcatRange
<1> QED
  BY <1>2, <1>3

(* The checkpoints stay exact when the log and the graph go on together.   *)
LEMMA CheckpointsKept ==
    ASSUME CheckpointInv, UNCHANGED checkpoints, nextId' >= nextId, nextId \in Nat,
           nextId' \in Nat,
           \A cp \in Checkpoints : cp.at < nextId /\ Exact(cp) => Exact(cp)'
    PROVE  CheckpointInv'
PROOF
<1>1. \A cp \in Range(checkpoints) : cp \in Checkpoints /\ cp.at \in Nat
  <2>1. \A cp \in Range(checkpoints) : cp \in Checkpoints
    BY DEF CheckpointInv, Range
  <2> QED
    BY <2>1 DEF Checkpoints
<1>2. \A cp \in Range(checkpoints) : cp.at < nextId' /\ Exact(cp)'
  BY <1>1 DEF CheckpointInv
<1> QED
  BY <1>2 DEF CheckpointInv, Range

(* A checkpoint made now is at the end of the log, from where nothing is   *)
(* replayed.                                                               *)
LEMMA CreateKeeps ==
    ASSUME SessionAssumption, LogInv, CheckpointInv, GraphOK(graph), UNCHANGED graph,
           NEW reason \in {"phase", "taken", "budget"}, NEW completed \in SUBSET Tasks,
           NEW running \in SUBSET Tasks,
           reason # "budget" => completed = With(graph, "Completed"),
           Create(reason, completed, running), nextId' >= nextId, nextId' \in Nat,
           \A cp \in Checkpoints :
               cp.at < nextId /\ cp.at >= Oldest' - 1 => Replayed(cp)' = Replayed(cp),
           Oldest' >= Oldest, Oldest' \in Int
    PROVE  CheckpointInv'
PROOF
<1> DEFINE new == [reason |-> reason, at |-> nextId - 1, completed |-> completed,
                   running |-> running]
           more == Append(checkpoints, new)
<1>1. nextId \in Nat /\ nextId >= 1 /\ nextId - 1 \in Nat /\ nextId - 1 < nextId
      /\ checkpoints \in Seq(Checkpoints) /\ Oldest \in Int
  BY DEF LogInv, CheckpointInv, SessionAssumption, Oldest
<1>2. new \in Checkpoints
  BY <1>1 DEF Checkpoints
<1>3. checkpoints' = Capped(more)
  BY DEF Create
<1>4. /\ new.at = nextId - 1 /\ new.reason = reason /\ new.completed = completed
  OBVIOUS
<1> HIDE DEF new
<1>5. more \in Seq(Checkpoints) /\ Range(more) = Range(checkpoints) \cup {new}
  BY <1>1, <1>2, AppendRange
<1> HIDE DEF more
<1>6. checkpoints' \in Seq(Checkpoints) /\ Range(checkpoints') \subseteq Range(checkpoints) \cup {new}
  BY <1>3, <1>5, CappedIs
<1>7. Replayed(new) = {}
  <2>1. \A i \in DOMAIN log : ~(log[i].id > new.at)
    <3>1. Len(log) \in Nat /\ DOMAIN log = 1..Len(log)
      BY DEF LogInv
    <3>2. \A i \in DOMAIN log : log[i].id = (nextId - Len(log)) - 1 + i
      BY DEF LogInv, Oldest
    <3> QED
      BY <1>1, <1>4, <3>1, <3>2
  <2> QED
    BY <2>1 DEF Replayed
<1>8. Exact(new)
  BY <1>4, <1>7 DEF Exact
<1>9. \A cp \in Range(checkpoints') : cp \in Checkpoints /\ cp.at < nextId /\ Exact(cp)
  <2>1. \A cp \in Range(checkpoints) : cp \in Checkpoints /\ cp.at < nextId /\ Exact(cp)
    BY <1>1 DEF CheckpointInv, Range
  <2>2. new.at < nextId
    BY <1>1, <1>4
  <2> QED
    BY <1>2, <1>6, <1>8, <2>1, <2>2, Zenon
<1>10. ASSUME NEW cp \in Range(checkpoints') PROVE cp.at < nextId' /\ Exact(cp)'
  <2>1. cp \in Checkpoints /\ cp.at < nextId /\ Exact(cp) /\ cp.at \in Nat
    BY <1>9 DEF Checkpoints
  <2>2. cp.at >= Oldest' - 1 => cp.at >= Oldest - 1
    BY <1>1, <2>1
  <2> QED
    BY <1>1, <2>1, <2>2 DEF Exact, With, Ids
<1> QED
  BY <1>6, <1>10 DEF CheckpointInv
-----------------------------------------------------------------------------
(* A notification and what it notifies of happen together.                 *)
LEMMA NoticeKeeps ==
    ASSUME SessionAssumption, IInv,
           NEW about \in {"phase", "text", "assigned", "completed", "failed"},
           NEW task \in Tasks \cup Agents \cup Phases, Add(about, task), UNCHANGED checkpoints,
           With(graph', "Completed") =
               With(graph, "Completed") \cup (IF about = "completed" THEN {task} ELSE {})
    PROVE  LogInv' /\ CheckpointInv'
PROOF
<1>1. /\ LogInv' /\ Oldest' >= Oldest /\ nextId' = nextId + 1
      /\ \A cp \in Checkpoints : cp.at < nextId /\ cp.at >= Oldest' - 1 =>
            Replayed(cp)' = Replayed(cp) \cup (IF about = "completed" THEN {task} ELSE {})
  BY AddIs DEF IInv
<1>2. nextId \in Nat /\ nextId' \in Nat /\ nextId' >= nextId /\ Oldest \in Int /\ Oldest' \in Int
  BY <1>1 DEF IInv, LogInv, Oldest, SessionAssumption
<1>3. ASSUME NEW cp \in Checkpoints, cp.at < nextId, Exact(cp) PROVE Exact(cp)'
  <2>1. cp.at \in Nat
    BY DEF Checkpoints
  <2>2. SUFFICES ASSUME cp.reason # "budget", cp.at >= Oldest' - 1
                 PROVE  cp.completed \cup Replayed(cp)' = With(graph', "Completed")
    BY DEF Exact
  <2>3. cp.at >= Oldest - 1
    BY <1>1, <1>2, <2>1, <2>2
  <2>4. cp.completed \cup Replayed(cp) = With(graph, "Completed")
    BY <1>3, <2>2, <2>3 DEF Exact
  <2>5. Replayed(cp)' = Replayed(cp) \cup (IF about = "completed" THEN {task} ELSE {})
    BY <1>1, <1>3, <2>2
  <2> QED
    BY <2>4, <2>5
<1>4. CheckpointInv'
  BY <1>2, <1>3, CheckpointsKept DEF IInv
<1> QED
  BY <1>1, <1>4

(* A step that completes no task and is not logged leaves log and          *)
(* checkpoints right.                                                      *)
LEMMA SilentKeeps ==
    ASSUME SessionAssumption, IInv, UNCHANGED <<log, nextId, checkpoints>>,
           With(graph', "Completed") = With(graph, "Completed")
    PROVE  LogInv' /\ CheckpointInv'
PROOF
<1>1. LogInv'
  BY DEF IInv, LogInv, Oldest
<1>2. \A cp : Exact(cp) => Exact(cp)'
  BY DEF Exact, Replayed, Oldest
<1>3. CheckpointInv'
  BY <1>2 DEF IInv, CheckpointInv
<1> QED
  BY <1>1, <1>3

(* A checkpoint, with the event that announces it if there is one, records *)
(* what is completed and where in the log it stands.                       *)
LEMMA CheckpointedKeeps ==
    ASSUME SessionAssumption, IInv, UNCHANGED graph,
           NEW to \in Phases,
           \/ Checkpointed("phase") /\ Add("phase", to)
           \/ /\ Checkpointed("taken") \/ Create("budget", {}, {})
              /\ UNCHANGED <<log, nextId>>
    PROVE  LogInv' /\ CheckpointInv'
PROOF
<1>1. With(graph, "Completed") \in SUBSET Tasks /\ With(graph, "InProgress") \in SUBSET Tasks
  BY DEF IInv, GraphOK, With
<1>2. LogInv /\ CheckpointInv /\ GraphOK(graph)
  BY DEF IInv
<1>3. nextId \in Nat /\ Oldest \in Int
  BY <1>2 DEF LogInv, Oldest, SessionAssumption
<1>4. CASE Checkpointed("phase") /\ Add("phase", to)
  <2>1. /\ LogInv' /\ Oldest' >= Oldest /\ nextId' = nextId + 1
        /\ \A cp \in Checkpoints : cp.at < nextId /\ cp.at >= Oldest' - 1 =>
              Replayed(cp)' = Replayed(cp) \cup {}
    BY <1>2, <1>4, AddIs
  <2>2. nextId' >= nextId /\ nextId' \in Nat /\ Oldest' \in Int
    BY <1>3, <2>1 DEF LogInv, Oldest
  <2>3. CheckpointInv'
    BY <1>1, <1>2, <1>4, <2>1, <2>2, CreateKeeps DEF Checkpointed
  <2> QED
    BY <2>1, <2>3
<1>5. CASE /\ Checkpointed("taken") \/ Create("budget", {}, {})
           /\ UNCHANGED <<log, nextId>>
  <2>1. LogInv' /\ Oldest' = Oldest /\ \A cp : Replayed(cp)' = Replayed(cp)
    BY <1>2, <1>5 DEF LogInv, Oldest, Replayed
  <2>2. nextId' >= nextId /\ nextId' \in Nat /\ Oldest' >= Oldest /\ Oldest' \in Int
    BY <1>3, <1>5, <2>1
  <2>3. CASE Checkpointed("taken")
    BY <1>1, <1>2, <2>1, <2>2, <2>3, CreateKeeps DEF Checkpointed
  <2>4. CASE Create("budget", {}, {})
    BY <1>2, <2>1, <2>2, <2>4, CreateKeeps
  <2> QED
    BY <1>5, <2>1, <2>3, <2>4
<1> QED
  BY <1>4, <1>5

(* A session starts without tasks, participants, events and checkpoints.   *)
LEMMA InitInv == SessionAssumption /\ Init => IInv
PROOF
<1> SUFFICES ASSUME SessionAssumption, Init PROVE IInv
  OBVIOUS
<1>1. graph = [nodes |-> <<>>, completed |-> {}] /\ Ids(graph) = {}
  BY DEF Init, NoTasks, Ids
<1>2. GraphOK(graph)
  <2>1. graph \in [nodes : [Ids(graph) -> Nodes], completed : SUBSET Tasks]
    BY <1>1
  <2>2. With(graph, "Completed") = {}
    BY <1>1 DEF With
  <2> QED
    BY <1>1, <2>1, <2>2 DEF GraphOK
<1>3. Acyclic(graph)
  <2>1. (SUBSET Ids(graph)) \ {{}} = {}
    BY <1>1
  <2> QED
    BY <2>1 DEF Acyclic
<1>4. LoadOK(graph, participants)
  <2>1. participants = <<>> /\ DOMAIN participants = {} /\ Workers(graph) = {}
    BY <1>1 DEF Init, Workers, With
  <2> QED
    BY <2>1 DEF LoadOK
<1>5. LogInv
  BY DEF Init, LogInv, Oldest, SessionAssumption
<1>6. CheckpointInv
  BY DEF Init, CheckpointInv, Range
<1>7. LabelInv
  BY DEF Init, LabelInv, Phases
<1> QED
  BY <1>2, <1>3, <1>4, <1>5, <1>6, <1>7 DEF IInv

(* The steps that leave the tasks alone.                                   *)
LEMMA LabelStep ==
    ASSUME SessionAssumption, IInv, Start \/ Label \/ Complete \/ TakeCheckpoint
                                    \/ \E to \in Phases : SetPhase(to)
    PROVE  IInv'
PROOF
<1> USE DEF IInv
<1>1. UNCHANGED graph /\ UNCHANGED participants
  BY DEF Start, Label, Complete, TakeCheckpoint, SetPhase, Enter
<1>2. LabelInv'
  BY DEF Start, Label, Pause, Resume, Fail, Complete, TakeCheckpoint, SetPhase, Enter,
         LabelInv, Phases
<1>3. "planning" \in Phases /\ "finalization" \in Phases
  BY DEF Phases
<1>4. LogInv' /\ CheckpointInv'
  <2> HIDE DEF IInv
  <2>1. CASE Start
    BY <1>1, <1>3, <2>1, NoticeKeeps DEF Start
  <2>2. CASE UNCHANGED <<log, nextId, checkpoints>>
    BY <1>1, <2>2, SilentKeeps
  <2>3. ASSUME NEW to \in Phases, Enter(to) PROVE LogInv' /\ CheckpointInv'
    BY <1>1, <2>3, CheckpointedKeeps DEF Enter
  <2>4. CASE TakeCheckpoint
    BY <1>1, <1>3, <2>4, CheckpointedKeeps DEF TakeCheckpoint
  <2> QED
    BY <1>3, <2>1, <2>2, <2>3, <2>4 DEF Label, Complete, SetPhase
<1> QED
  BY <1>1, <1>2, <1>4

(* register_participant keeps the invariant.                               *)
LEMMA RegisterKeeps ==
    ASSUME SessionAssumption, IInv, NEW agent \in Agents, Register(agent)
    PROVE  IInv'
PROOF
<1>1. LoadOK(graph, participants)'
  BY RegisteredIs DEF Register, IInv
<1>2. LogInv' /\ CheckpointInv'
  BY NoticeKeeps DEF Register
<1> QED
  BY <1>1, <1>2 DEF Register, IInv, LabelInv


(* add_task keeps the invariant.                                           *)
LEMMA AddTaskKeeps ==
    ASSUME SessionAssumption, IInv, NEW task \in Tasks, AddTask(task)
    PROVE  IInv'
PROOF
<1> DEFINE h == Added(graph, task)
<1>1. GraphOK(graph) /\ Acyclic(graph) /\ task \in Tasks \ Ids(graph)
  BY DEF IInv, AddTask
<1>2. /\ GraphOK(h) /\ Acyclic(h)
      /\ Ids(h) = Ids(graph) \cup {task} /\ h.nodes[task] = NewNode
      /\ \A n \in Ids(graph) : h.nodes[n] = graph.nodes[n]
  BY <1>1, AddedIs
<1> HIDE DEF h
<1>3. NewNode.status = "Pending"
  BY DEF NewNode
<1>4. Progress(graph, h, {}, {})
  BY <1>2, <1>3 DEF Progress, With, Running, Workers
<1>5. graph' = Refreshed(h)
  BY DEF AddTask, h
<1>6. GraphOK(graph') /\ Acyclic(graph') /\ Progress(graph, graph', {}, {})
  BY <1>2, <1>4, <1>5, RefreshedIs, AlikeAcyclic, ProgressRefreshed
<1>7. LoadOK(graph', participants)
  BY <1>6, LoadSame DEF IInv
<1>8. LogInv' /\ CheckpointInv'
  <2>1. With(graph', "Completed") = With(graph, "Completed")
    BY <1>6 DEF Progress
  <2> QED
    BY <2>1, SilentKeeps DEF AddTask
<1> QED
  BY <1>6, <1>7, <1>8 DEF AddTask, IInv, LabelInv

(* add_dependency keeps the invariant: the graph stays free of cycles.     *)
LEMMA AddDependencyKeeps ==
    ASSUME SessionAssumption, IInv, NEW from \in Tasks, NEW to \in Tasks,
           AddDependency(from, to)
    PROVE  IInv'
PROOF
<1>1. /\ GraphOK(graph) /\ Acyclic(graph) /\ from \in Ids(graph) /\ to \in Ids(graph)
      /\ ~WouldCreateCycle(graph, from, to) /\ graph' = Depends(graph, from, to)
  BY DEF IInv, AddDependency
<1>2. /\ GraphOK(graph') /\ Acyclic(graph') /\ Ids(graph') = Ids(graph)
      /\ \A n \in Ids(graph) : /\ graph'.nodes[n].status = graph.nodes[n].status
                               /\ graph'.nodes[n].agent = graph.nodes[n].agent
  BY <1>1, DependsIs
<1>3. Progress(graph, graph', {}, {})
  BY <1>2 DEF Progress, With, Running, Workers
<1>4. LoadOK(graph', participants)
  BY <1>3, LoadSame DEF IInv
<1>5. LogInv' /\ CheckpointInv'
  <2>1. With(graph', "Completed") = With(graph, "Completed")
    BY <1>3 DEF Progress
  <2> QED
    BY <2>1, SilentKeeps DEF AddDependency
<1> QED
  BY <1>2, <1>4, <1>5 DEF AddDependency, IInv, LabelInv

(* assign_task keeps the invariant.                                        *)
LEMMA AssignKeeps ==
    ASSUME SessionAssumption, IInv, NEW task \in Ids(graph), NEW agent \in DOMAIN participants,
           AssignTask(task, agent)
    PROVE  IInv'
PROOF
<1>1. /\ GraphOK(graph) /\ Acyclic(graph) /\ LoadOK(graph, participants)
      /\ agent \in Agents /\ task \in Tasks
      /\ Startable(graph, task) /\ graph' = Started(graph, task, agent)
  BY DEF IInv, AssignTask, LoadOK, GraphOK
<1>2. /\ GraphOK(graph') /\ Acyclic(graph') /\ Ids(graph') = Ids(graph)
      /\ With(graph', "Completed") = With(graph, "Completed")
      /\ \A p \in Agents : /\ task \notin Running(graph, p)
                           /\ Running(graph', p) = IF p = agent THEN Running(graph, p) \cup {task}
                                                                ELSE Running(graph, p)
      /\ Workers(graph') \subseteq Workers(graph) \cup {agent}
  BY <1>1, StartedIs
<1>3. LoadOK(graph', participants')
  BY <1>1, <1>2, LoadedIs DEF AssignTask
<1>4. LogInv' /\ CheckpointInv'
  BY <1>1, <1>2, NoticeKeeps DEF AssignTask
<1> QED
  BY <1>2, <1>3, <1>4 DEF AssignTask, IInv, LabelInv

(* complete_task keeps the invariant.                                      *)
LEMMA CompleteTaskKeeps ==
    ASSUME SessionAssumption, IInv, NEW task \in Ids(graph), NEW agent \in DOMAIN participants,
           CompleteTask(task, agent)
    PROVE  IInv'
PROOF
<1>1. /\ GraphOK(graph) /\ Acyclic(graph) /\ LoadOK(graph, participants) /\ task \in Tasks
      /\ Runs(agent, task) /\ graph.nodes[task].status = "InProgress"
      /\ graph' = Completed(graph, task)
  BY DEF IInv, CompleteTask, Runs, GraphOK
<1>2. GraphOK(graph') /\ Acyclic(graph') /\ Progress(graph, graph', {task}, {task})
  BY <1>1, CompletedIs
<1>3. LoadOK(graph', participants')
  BY <1>1, <1>2, ReleasedIs DEF CompleteTask
<1>4. LogInv' /\ CheckpointInv'
  <2>1. With(graph', "Completed") = With(graph, "Completed") \cup {task}
    BY <1>2 DEF Progress
  <2> QED
    BY <1>1, <2>1, NoticeKeeps DEF CompleteTask
<1> QED
  BY <1>2, <1>3, <1>4 DEF CompleteTask, IInv, LabelInv

(* fail_task keeps the invariant.                                          *)
LEMMA FailTaskKeeps ==
    ASSUME SessionAssumption, IInv, NEW task \in Ids(graph), NEW agent \in DOMAIN participants,
           FailTask(task, agent)
    PROVE  IInv'
PROOF
<1>1. /\ GraphOK(graph) /\ Acyclic(graph) /\ LoadOK(graph, participants) /\ task \in Tasks
      /\ Runs(agent, task) /\ graph.nodes[task].status = "InProgress"
      /\ graph' = FailedIn(graph, task)
  BY DEF IInv, FailTask, Runs, GraphOK
<1>2. GraphOK(graph') /\ Acyclic(graph') /\ Progress(graph, graph', {}, {task})
  BY <1>1, FailedIs
<1>3. LoadOK(graph', participants')
  BY <1>1, <1>2, ReleasedIs DEF FailTask
<1>4. LogInv' /\ CheckpointInv'
  <2>1. With(graph', "Completed") = With(graph, "Completed")
    BY <1>2 DEF Progress
  <2> QED
    BY <1>1, <2>1, NoticeKeeps DEF FailTask
<1> QED
  BY <1>2, <1>3, <1>4 DEF FailTask, IInv, LabelInv

(* retry_task keeps the invariant.                                         *)
LEMMA RetryTaskKeeps ==
    ASSUME SessionAssumption, IInv, NEW task \in Ids(graph), RetryTask(task)
    PROVE  IInv'
PROOF
<1>1. /\ GraphOK(graph) /\ Acyclic(graph) /\ LoadOK(graph, participants)
      /\ graph.nodes[task].status = "Failed" /\ graph' = Retried(graph, task)
  BY DEF IInv, RetryTask
<1>2. GraphOK(graph') /\ Acyclic(graph') /\ Progress(graph, graph', {}, {})
  BY <1>1, RetriedIs
<1>3. LoadOK(graph', participants)
  BY <1>1, <1>2, LoadSame
<1>4. LogInv' /\ CheckpointInv'
  <2>1. With(graph', "Completed") = With(graph, "Completed")
    BY <1>2 DEF Progress
  <2> QED
    BY <2>1, SilentKeeps DEF RetryTask
<1> QED
  BY <1>2, <1>3, <1>4 DEF RetryTask, IInv, LabelInv

(* Every operation of a session keeps the invariant.                       *)
LEMMA NextInv == SessionAssumption /\ IInv /\ [Next]_vars => IInv'
PROOF
<1> SUFFICES ASSUME SessionAssumption, IInv, [Next]_vars PROVE IInv'
  OBVIOUS
<1>1. ASSUME NEW task \in Ids(graph), RetryTask(task) PROVE IInv'
  BY <1>1, RetryTaskKeeps
<1>2. ASSUME NEW task \in Ids(graph), NEW agent \in DOMAIN participants,
             AssignTask(task, agent) \/ CompleteTask(task, agent) \/ FailTask(task, agent)
      PROVE  IInv'
  BY <1>2, AssignKeeps, CompleteTaskKeeps, FailTaskKeeps
<1>3. CASE UNCHANGED vars
  BY <1>3 DEF vars, IInv, LogInv, Oldest, CheckpointInv, Exact, Replayed, LabelInv
<1>4. ASSUME NEW agent \in Agents, Register(agent) PROVE IInv'
  BY <1>4, RegisterKeeps
<1>5. ASSUME NEW task \in Tasks, AddTask(task) PROVE IInv'
  BY <1>5, AddTaskKeeps
<1>6. ASSUME NEW from \in Tasks, NEW to \in Tasks, AddDependency(from, to) PROVE IInv'
  BY <1>6, AddDependencyKeeps
<1>7. CASE Start \/ Label \/ Complete \/ TakeCheckpoint \/ \E to \in Phases : SetPhase(to)
  BY <1>7, LabelStep
<1> QED
  BY <1>1, <1>2, <1>3, <1>4, <1>5, <1>6, <1>7 DEF Next
-----------------------------------------------------------------------------
(* The inductive invariant holds of every session.                         *)
THEOREM Invariance == Spec => []IInv
PROOF
<1>1. Init => IInv
  BY SessionAssumption, InitInv
<1>2. IInv /\ [Next]_vars => IInv'
  BY SessionAssumption, NextInv
<1> QED
  BY <1>1, <1>2, PTL DEF Spec

(* A session whose tasks have not failed never waits for itself: unless all*)
(* is completed or something runs, some task can be started                *)
(* (TaskGraph::add_dependency, start_task).                                *)
THEOREM SomeTaskRuns == Spec => []SomeTaskCanRun
PROOF
<1>1. IInv => SomeTaskCanRun
  <2> SUFFICES ASSUME IInv,
                      With(graph, "Failed") \cup With(graph, "Blocked")
                          \cup With(graph, "InProgress") = {},
                      With(graph, "Completed") # Ids(graph)
               PROVE  \E task \in Ids(graph) : Startable(graph, task)
    BY DEF SomeTaskCanRun
  <2>1. GraphOK(graph) /\ Acyclic(graph)
    BY DEF IInv
  <2> DEFINE S == Ids(graph) \ With(graph, "Completed")
  <2>2. S \in (SUBSET Ids(graph)) \ {{}}
    BY DEF With
  <2>3. PICK task \in S : graph.nodes[task].dependencies \cap S = {}
    BY <2>1, <2>2 DEF Acyclic
  <2>4. task \in Ids(graph) /\ graph.nodes[task].status # "Completed"
    BY <2>3 DEF With
  <2>5. graph.nodes[task].status \in {"Pending", "Ready"}
    <3>1. graph.nodes[task].status \in NodeStatuses
      BY <2>1, <2>4 DEF GraphOK, Nodes
    <3> QED
      BY <2>4, <3>1 DEF With, NodeStatuses
  <2>6. Unmet(graph, task) = {}
    BY <2>1, <2>3, <2>4 DEF GraphOK, Unmet
  <2> QED
    BY <2>4, <2>5, <2>6 DEF Startable
<1> QED
  BY <1>1, Invariance, PTL

(* What repeats nothing has as many elements as it is long.                *)
LEMMA RangeCount ==
    ASSUME NEW S, NEW s \in Seq(S), IsInjective(s)
    PROVE  Cardinality(Range(s)) = Len(s)
PROOF
<1>1. PICK n : n \in Nat /\ n = Len(s) /\ DOMAIN s = 1..n
  OBVIOUS
<1>2. s \in [1..n -> Range(s)]
  BY <1>1 DEF Range
<1>3. s \in Surjection(1..n, Range(s)) /\ s \in Injection(1..n, Range(s))
  BY <1>1, <1>2 DEF Surjection, Injection, IsInjective, Range
<1>4. IsFiniteSet(1..n) /\ Cardinality(1..n) = n
  <2>1. 1 \in Int /\ n \in Int /\ (IF 1 > n THEN 0 ELSE n - 1 + 1) = n
    BY <1>1
  <2> QED
    BY <2>1, FS_Interval
<1> QED
  BY <1>1, <1>3, <1>4, FS_Surjection

(* A participant is busy with exactly the tasks in progress under its name *)
(* (Participant::assign_task, complete_task, OrchestrationSession's).      *)
THEOREM LoadsAreTasks == Spec => []LoadsMatchTasks
PROOF
<1>1. IInv => LoadsMatchTasks
  <2> SUFFICES ASSUME IInv, NEW agent \in DOMAIN participants
               PROVE  LET mine == participants[agent].tasks IN
                      /\ {mine[i] : i \in DOMAIN mine} = {task \in Ids(graph) : Runs(agent, task)}
                      /\ Cardinality({mine[i] : i \in DOMAIN mine}) = Len(mine)
                      /\ participants[agent].status = "Busy" <=> mine # <<>>
    BY DEF LoadsMatchTasks
  <2> DEFINE mine == participants[agent].tasks
  <2>1. /\ mine \in Seq(Tasks) /\ Range(mine) = Running(graph, agent) /\ IsInjective(mine)
        /\ participants[agent].status = "Busy" <=> mine # <<>>
    BY DEF IInv, LoadOK
  <2>2. {mine[i] : i \in DOMAIN mine} = Range(mine)
    BY DEF Range
  <2>3. Running(graph, agent) = {task \in Ids(graph) : Runs(agent, task)}
    BY DEF Running, Runs
  <2> HIDE DEF mine
  <2>4. Cardinality(Range(mine)) = Len(mine)
    BY <2>1, RangeCount
  <2> QED
    BY <2>1, <2>2, <2>3, <2>4 DEF mine
<1> QED
  BY <1>1, Invariance, PTL

(* While the log still has all that came after a checkpoint, the tasks it  *)
(* lists and the replayed notifications are the completed tasks            *)
(* (SessionCheckpointManager::create, NotificationFilter::after_id).       *)
THEOREM RecoveryIsExact == Spec => []RecoveryExact
PROOF
<1>1. IInv => RecoveryExact
  <2> SUFFICES ASSUME IInv, NEW i \in DOMAIN checkpoints,
                      checkpoints[i].reason # "budget", Kept(checkpoints[i])
               PROVE  checkpoints[i].completed \cup Replayed(checkpoints[i])
                        = With(graph, "Completed")
    BY DEF RecoveryExact
  <2> DEFINE cp == checkpoints[i]
             After == {j \in DOMAIN log : log[j].id > cp.at}
  <2>1. cp \in Range(checkpoints)
    BY DEF Range
  <2>2. cp \in Checkpoints /\ Exact(cp) /\ cp.at < nextId
    BY <2>1 DEF IInv, CheckpointInv, Range
  <2>3. PICK L : L \in Nat /\ L = Len(log) /\ DOMAIN log = 1..L
    BY DEF IInv, LogInv
  <2>4. nextId \in Nat /\ Oldest = nextId - L /\ cp.at \in Nat
    BY <2>2, <2>3, SessionAssumption DEF IInv, LogInv, Oldest, Checkpoints
  <2>5. Cardinality(After) <= L
    <3>1. IsFiniteSet(1..L) /\ Cardinality(1..L) = L
      <4>1. 1 \in Int /\ L \in Int /\ (IF 1 > L THEN 0 ELSE L - 1 + 1) = L
        BY <2>3
      <4> QED
        BY <4>1, FS_Interval
    <3>2. After \in SUBSET (1..L)
      BY <2>3
    <3> HIDE DEF After
    <3> QED
      BY <3>1, <3>2, FS_Subset
  <2>6. Cardinality(After) = nextId - 1 - cp.at
    BY DEF Kept
  <2> HIDE DEF cp, After
  <2>7. cp.at >= Oldest - 1
    BY <2>3, <2>4, <2>5, <2>6
  <2> QED
    BY <2>2, <2>7 DEF Exact, cp
<1> QED
  BY <1>1, Invariance, PTL
=============================================================================
