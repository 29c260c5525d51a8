---------------------------- MODULE MissionProofs ---------------------------
(***************************************************************************)
(* Theorems about a mission.  First about its tasks (MissionTasks), for    *)
(* any plan whose tasks have different ids, as one decomposition gives     *)
(* them, and for any retries, iterations, intervals and restarts.          *)
(* (TasksChunked.cfg shows what happens otherwise.)  That ids differ makes *)
(* task_mut find the task that is meant; the rest follows from what an     *)
(* execution does to the statuses of the working copy, whatever action     *)
(* does it.  Then about the runs of the program that act on the mission    *)
(* (MissionControl), however many there are, and if one ends before the    *)
(* next starts.  (MissionExclusion.cfg shows what happens otherwise.)      *)
(***************************************************************************)
EXTENDS MissionTasks, MissionControl, ProofLemmas

UniqueIds == \A t, u \in Tasks : plan[t].id = plan[u].id => t = u
PlanOK == (\E n \in Nat : Tasks = 1..n) /\ UniqueIds

MissionStatuses == {"Running", "Paused", "Escalated", "Verifying", "Completed", "Failed"}
TaskMissions ==
    [st : [Tasks -> TaskStatuses], retries : [Tasks -> Nat], iter : 0..MaxIterations,
     status : MissionStatuses]

(* What an execution may make of a mission: it starts tasks that can start,*)
(* skips those that never can, and decides about those that are running.   *)
Follows(m, n) ==
    /\ n.iter >= m.iter
    /\ \A t \in Tasks :
        \/ n.st[t] = m.st[t] /\ n.retries[t] = m.retries[t]
        \/ /\ m.st[t] = "InProgress" /\ n.st[t] \in {"Pending", "Completed", "Failed"}
           /\ n.retries[t] >= m.retries[t]
        \/ t \in NextTasks(m) /\ n.st[t] = "InProgress" /\ n.retries[t] = m.retries[t]
        \/ t \in Blocked(m) /\ n.st[t] = "Skipped" /\ n.retries[t] = m.retries[t]

(* The checkpoint c is not ahead of the mission m.                         *)
Behind(c, m) ==
    /\ c.iter <= m.iter
    /\ In(c, {"Completed"}) \subseteq In(m, {"Completed"})
    /\ \A t \in Tasks : c.retries[t] <= m.retries[t]
Agrees(f, m) == \A t \in Settled(f) : m.st[t] = f.st[t]

TypeAt(f, m, c, a, ts) ==
    /\ f \in TaskMissions /\ m \in TaskMissions /\ (c # NoCheckpoint => c \in States)
    /\ a \in {"off", "recover", "head", "save", "round", "endRound", "checkpoint", "final"}
    /\ ts \subseteq In(m, {"InProgress"}) /\ (ts # {} => a \in {"save", "round"})
CountInv ==
    /\ rounds \in 0..Interval /\ (at \notin {"off", "checkpoint"} => rounds < Interval)
    /\ restarts \in 0..MaxRestarts
(* What the place in the loop says of the two copies.                      *)
PlaceAt(f, m, a) ==
    /\ a \notin {"off", "final"} => m.status = "Running"
    /\ a = "final" => m.status = "Verifying"
    /\ a \in {"checkpoint", "final"} => f = m
    /\ a # "off" => Agrees(f, m)
CopiesAt(f, m, c) ==
    /\ Ordered(m) /\ Ordered(f)
    /\ c # NoCheckpoint => Ordered(c) /\ Behind(c, m) /\ Behind(c, f)
CompleteAt(f) == f.status \in {"Verifying", "Completed"} => In(f, {"Completed"}) = Tasks
IInv ==
    /\ PlanOK /\ TypeAt(file, mem, cp, at, todo) /\ CountInv
    /\ PlaceAt(file, mem, at) /\ CopiesAt(file, mem, cp) /\ CompleteAt(file)
-----------------------------------------------------------------------------
(* Mission::task_mut finds the task itself.                                *)
LEMMA HomeIs ==
    ASSUME PlanOK, NEW t \in Tasks
    PROVE  Home(t) = t
PROOF
<1>1. PICK n \in Nat : Tasks = 1..n
  BY DEF PlanOK
<1>2. /\ plan[t].id = plan[t].id
      /\ \A u \in 1..t - 1 : plan[u].id # plan[t].id
  BY <1>1 DEF PlanOK, UniqueIds
<1> DEFINE First(u) == plan[u].id = plan[t].id /\ \A v \in 1..u-1 : plan[v].id # plan[t].id
<1>3. First(t) /\ \A u \in Tasks : First(u) => u = t
  BY <1>2 DEF PlanOK, UniqueIds
<1>4. Home(t) = CHOOSE u \in Tasks : First(u)
  BY DEF Home, TaskMut
<1> HIDE DEF First
<1> QED
  BY <1>3, <1>4

(* What marking ts in m with s makes of it.                                *)
IsMarked(n, m, ts, s) ==
    /\ n \in TaskMissions /\ n.retries = m.retries /\ n.iter = m.iter /\ n.status = m.status
    /\ \A t \in Tasks : n.st[t] = IF t \in ts THEN s ELSE m.st[t]
(* Marked changes the status of the tasks it is given and nothing else.    *)
LEMMA MarkedIs ==
    ASSUME PlanOK, NEW m \in TaskMissions, NEW ts \in SUBSET Tasks, NEW s \in TaskStatuses
    PROVE  IsMarked(Marked(m, ts, s), m, ts, s)
PROOF
<1>1. {Home(u) : u \in ts} = ts
  BY HomeIs
<1>2. Marked(m, ts, s) = [m EXCEPT !.st = [t \in Tasks |-> IF t \in ts THEN s ELSE m.st[t]]]
  BY <1>1 DEF Marked, TaskMissions
<1>3. [t \in Tasks |-> IF t \in ts THEN s ELSE m.st[t]] \in [Tasks -> TaskStatuses]
  BY DEF TaskMissions
<1> QED
  BY <1>2, <1>3 DEF TaskMissions, IsMarked

(* Retried changes the retry count of one task and nothing else.           *)
LEMMA RetriedIs ==
    ASSUME NEW m \in TaskMissions, NEW t \in Tasks, NEW n \in Nat
    PROVE  /\ Retried(m, t, n) \in TaskMissions
           /\ Retried(m, t, n).st = m.st /\ Retried(m, t, n).iter = m.iter
           /\ Retried(m, t, n).status = m.status
           /\ Retried(m, t, n).retries[t] = n
           /\ \A u \in Tasks \ {t} : Retried(m, t, n).retries[u] = m.retries[u]
PROOF
<1>1. Retried(m, t, n) = [m EXCEPT !.retries = [m.retries EXCEPT ![t] = n]]
  BY DEF Retried, TaskMissions
<1>2. /\ [m.retries EXCEPT ![t] = n] \in [Tasks -> Nat]
      /\ \A u \in Tasks : [m.retries EXCEPT ![t] = n][u] = IF u = t THEN n ELSE m.retries[u]
  BY DEF TaskMissions
<1> QED
  BY <1>1, <1>2 DEF TaskMissions

(* Task::fail counts one more failure of the task it is called on.         *)
LEMMA FailedOnceIs ==
    ASSUME TasksAssumption, PlanOK, NEW m \in TaskMissions, NEW t \in Tasks
    PROVE  LET n == FailedOnce(m, t) IN
           /\ n \in TaskMissions /\ n.iter = m.iter /\ n.status = m.status
           /\ n.st[t] \in {"Pending", "Failed"} /\ n.retries[t] = m.retries[t] + 1
           /\ \A u \in Tasks \ {t} : n.st[u] = m.st[u] /\ n.retries[u] = m.retries[u]
PROOF
<1> DEFINE k == m.retries[t] + 1
           r == Retried(m, t, k)
           s == IF m.retries[t] < MaxRetries THEN "Pending" ELSE "Failed"
<1>1. k \in Nat /\ s \in TaskStatuses /\ s \in {"Pending", "Failed"} /\ {t} \subseteq Tasks
  BY DEF TaskMissions, TaskStatuses
<1>2. FailedOnce(m, t) = Marked(r, {t}, s)
  BY DEF FailedOnce
<1> HIDE DEF k, s
<1>3. /\ r \in TaskMissions /\ r.st = m.st /\ r.iter = m.iter /\ r.status = m.status
      /\ r.retries[t] = k /\ \A u \in Tasks \ {t} : r.retries[u] = m.retries[u]
  BY <1>1, RetriedIs
<1> HIDE DEF r
<1>4. IsMarked(FailedOnce(m, t), r, {t}, s)
  BY <1>1, <1>2, <1>3, MarkedIs
<1> QED
  BY <1>1, <1>3, <1>4 DEF k, IsMarked

(* With different ids restoring a checkpoint gives what was saved in it.   *)
LEMMA RestoredIs ==
    ASSUME PlanOK, NEW m \in TaskMissions, NEW c \in States
    PROVE  /\ Restored(m, c) \in TaskMissions /\ Restored(m, c).st = c.st
           /\ Restored(m, c).retries = c.retries /\ Restored(m, c).iter = c.iter
PROOF
<1> DEFINE state(t) == CHOOSE u \in Tasks :
                           /\ plan[u].id = plan[t].id
                           /\ \A v \in Tasks : plan[v].id = plan[u].id => v <= u
           assigned(f, g) == [t \in Tasks |-> IF t = Home(t) THEN g[state(t)] ELSE f[t]]
<1>1. ASSUME NEW t \in Tasks PROVE state(t) = t
  <2>1. PICK n \in Nat : Tasks = 1..n
    BY DEF PlanOK
  <2> DEFINE Last(u) == /\ plan[u].id = plan[t].id
                        /\ \A v \in Tasks : plan[v].id = plan[u].id => v <= u
  <2>2. Last(t) /\ \A u \in Tasks : Last(u) => u = t
    BY <2>1 DEF PlanOK, UniqueIds
  <2>3. state(t) = CHOOSE u \in Tasks : Last(u)
    OBVIOUS
  <2> HIDE DEF Last, state
  <2> QED
    BY <2>2, <2>3
<1> HIDE DEF state
<1>2. ASSUME NEW f, NEW T, NEW g \in [Tasks -> T] PROVE assigned(f, g) = g
  <2>1. assigned(f, g) = [t \in Tasks |-> g[t]]
    BY <1>1, HomeIs
  <2> QED
    BY <2>1
<1>3. Restored(m, c) = [m EXCEPT !.st = assigned(@, c.st), !.retries = assigned(@, c.retries),
                                 !.iter = c.iter]
  BY DEF Restored, state
<1> HIDE DEF assigned
<1>4. c.st \in [Tasks -> TaskStatuses] /\ c.retries \in [Tasks -> Nat] /\ c.iter \in 0..MaxIterations
  BY DEF States
<1>5. Restored(m, c) = [m EXCEPT !.st = c.st, !.retries = c.retries, !.iter = c.iter]
  BY <1>2, <1>3, <1>4 DEF TaskMissions
<1> QED
  BY <1>4, <1>5 DEF TaskMissions
-----------------------------------------------------------------------------
(* What follows keeps the order of the tasks, stays ahead of what was      *)
(* behind, and leaves what was settled.                                    *)
LEMMA FollowsOrdered ==
    ASSUME TasksAssumption, PlanOK, NEW m \in TaskMissions, NEW n \in TaskMissions, Follows(m, n),
           Ordered(m)
    PROVE  Ordered(n)
PROOF
<1>1. IdsOf(In(m, {"Completed", "Skipped"})) \subseteq IdsOf(In(n, {"Completed", "Skipped"}))
  BY DEF Follows, IdsOf, In, NextTasks, Blocked
<1>2. IdsOf(PermanentlyFailed(m)) \subseteq IdsOf(PermanentlyFailed(n))
  BY DEF Follows, IdsOf, In, NextTasks, Blocked, PermanentlyFailed, CanRetry
<1> DEFINE Touched(x, t) == x.st[t] \in {"InProgress", "Completed", "Failed"} \/ x.retries[t] > 0
<1>3. ASSUME NEW t \in Tasks, Touched(n, t)
      PROVE  plan[t].deps \subseteq IdsOf(In(m, {"Completed", "Skipped"}))
  <2>1. Touched(m, t) \/ t \in NextTasks(m)
    BY <1>3 DEF Follows
  <2>2. CASE Touched(m, t)
    BY <2>2 DEF Ordered
  <2>3. CASE t \in NextTasks(m)
    BY <2>3 DEF NextTasks
  <2> QED
    BY <2>1, <2>2, <2>3
<1>4. ASSUME NEW t \in Tasks, n.st[t] = "Skipped"
      PROVE  plan[t].deps \cap IdsOf(PermanentlyFailed(m)) # {}
  <2>1. m.st[t] = "Skipped" \/ t \in Blocked(m)
    BY <1>4 DEF Follows
  <2> QED
    BY <2>1 DEF Ordered, Blocked
<1> QED
  BY <1>1, <1>2, <1>3, <1>4 DEF Ordered

(* A checkpoint stays behind a mission that moves on.                      *)
LEMMA FollowsBehind ==
    ASSUME TasksAssumption, PlanOK, NEW m \in TaskMissions, NEW n \in TaskMissions, Follows(m, n),
           NEW c \in States, Behind(c, m)
    PROVE  Behind(c, n)
PROOF
<1>1. c.iter \in Nat /\ m.iter \in Nat /\ n.iter \in Nat
  BY DEF States, TaskMissions, TasksAssumption
<1>2. \A t \in Tasks : c.retries[t] \in Nat /\ m.retries[t] \in Nat /\ n.retries[t] \in Nat
  BY DEF States, TaskMissions
<1>3. \A t \in Tasks : n.retries[t] >= m.retries[t]
  BY <1>2 DEF Follows
<1>4. In(m, {"Completed"}) \subseteq In(n, {"Completed"})
  BY DEF In, Follows, NextTasks, Blocked
<1> QED
  BY <1>1, <1>2, <1>3, <1>4 DEF Behind, Follows

(* A file agrees with a mission that moves on, for what it has settled     *)
(* stays settled.                                                          *)
LEMMA FollowsAgrees ==
    ASSUME NEW f, NEW m, NEW n, Follows(m, n), Agrees(f, m)
    PROVE  Agrees(f, n)
PROOF
<1>1. \A t \in Settled(f) : t \in Tasks /\ f.st[t] \in {"Completed", "Skipped", "Failed"}
  BY DEF Settled, In, PermanentlyFailed
<1> QED
  BY <1>1 DEF Agrees, Follows, NextTasks, Blocked, In
-----------------------------------------------------------------------------
(* The plan stays, so what is said of the next state can be said with it.  *)
LEMMA Lift ==
    ASSUME PlanOK, UNCHANGED plan, TypeAt(file', mem', cp', at', todo'), CountInv',
           PlaceAt(file', mem', at'), CopiesAt(file', mem', cp'), CompleteAt(file')
    PROVE  IInv'
PROOF
<1>1. PlanOK'
  BY DEF PlanOK, UniqueIds, Tasks
<1>2. TypeAt(file, mem, cp, at, todo)'
  BY DEF TypeAt, TaskMissions, States, In, Tasks
<1>3. PlaceAt(file, mem, at)'
  BY DEF PlaceAt, Agrees, Settled, PermanentlyFailed, CanRetry, In, Tasks
<1>4. CopiesAt(file, mem, cp)'
  BY DEF CopiesAt, Ordered, Behind, PermanentlyFailed, CanRetry, IdsOf, In, Tasks
<1>5. CompleteAt(file)'
  BY DEF CompleteAt, In, Tasks
<1> QED
  BY <1>1, <1>2, <1>3, <1>4, <1>5 DEF IInv

(* A step of an execution that works on its copy and may save it.          *)
Moves(f, m) == m \in TaskMissions /\ Follows(mem, m) /\ f \in {file, m}
(* A step that moves the copy in memory on and may write it to the file    *)
(* keeps both ordered, the file in agreement and the checkpoint behind.    *)
LEMMA MovesKeep ==
    ASSUME TasksAssumption, IInv, at # "off", NEW f, NEW m, Moves(f, m)
    PROVE  CopiesAt(f, m, cp) /\ Agrees(f, m) /\ f \in TaskMissions
           /\ \A t \in Settled(file) : f.st[t] = file.st[t]
PROOF
<1>1. /\ PlanOK /\ mem \in TaskMissions /\ file \in TaskMissions /\ m \in TaskMissions /\ Follows(mem, m)
      /\ Agrees(file, mem) /\ CopiesAt(file, mem, cp) /\ f \in {file, m}
      /\ cp # NoCheckpoint => cp \in States
  BY DEF IInv, TypeAt, PlaceAt, Moves
<1>2. Ordered(m)
  BY <1>1, FollowsOrdered DEF CopiesAt
<1>3. cp # NoCheckpoint => Behind(cp, m)
  BY <1>1, FollowsBehind DEF CopiesAt
<1>4. Agrees(file, m)
  BY <1>1, FollowsAgrees
<1>5. Agrees(m, m)
  BY DEF Agrees
<1> QED
  BY <1>1, <1>2, <1>3, <1>4, <1>5 DEF CopiesAt, Agrees

(* A change of the mission's status leaves its tasks alone.                *)
LEMMA StatusIs ==
    ASSUME NEW m \in TaskMissions, NEW s \in MissionStatuses
    PROVE  LET n == [m EXCEPT !.status = s] IN
           /\ n \in TaskMissions /\ n.status = s /\ n.st = m.st /\ n.retries = m.retries
           /\ n.iter = m.iter /\ (TasksAssumption => Follows(m, n))
PROOF
<1> DEFINE n == [m EXCEPT !.status = s]
<1>1. n \in TaskMissions /\ n.status = s /\ n.st = m.st /\ n.retries = m.retries /\ n.iter = m.iter
  BY DEF TaskMissions
<1>2. TasksAssumption => n.iter >= m.iter
  BY <1>1 DEF TaskMissions, TasksAssumption
<1> HIDE DEF n
<1>3. TasksAssumption => Follows(m, n)
  BY <1>1, <1>2 DEF Follows
<1> QED
  BY <1>1, <1>3 DEF n

(* The rounds: tasks are started or skipped, results are applied.          *)
LEMMA StartTasksKeeps ==
    ASSUME TasksAssumption, IInv, StartTasks \/ SkipBlocked
    PROVE  IInv' /\ Moves(file', mem')
PROOF
<1>1. /\ PlanOK /\ mem \in TaskMissions /\ todo = {} /\ mem.iter < MaxIterations /\ mem.status = "Running"
      /\ at = "head" /\ at' = "save" /\ UNCHANGED <<plan, file, cp, rounds, restarts>>
  BY DEF IInv, TypeAt, PlaceAt, StartTasks, SkipBlocked, Enter, Goes
<1>2. ASSUME NEW ts, NEW s,
             \/ ts = NextTasks(mem) /\ s = "InProgress"
             \/ ts = Blocked(mem) /\ s = "Skipped",
             mem' = [Marked(mem, ts, s) EXCEPT !.iter = @ + 1]
      PROVE  /\ Moves(file', mem') /\ mem'.status = "Running"
             /\ \A t \in Tasks : mem'.st[t] = IF t \in ts THEN s ELSE mem.st[t]
  <2>1. ts \subseteq Tasks /\ s \in TaskStatuses
    BY <1>2 DEF NextTasks, Blocked, In, TaskStatuses
  <2> DEFINE k == Marked(mem, ts, s)
  <2>4. IsMarked(k, mem, ts, s)
    BY <1>1, <2>1, MarkedIs
  <2>5. /\ mem.iter \in Nat /\ mem.iter + 1 \in 0..MaxIterations /\ mem.iter + 1 >= mem.iter
    BY <1>1 DEF TaskMissions, TasksAssumption
  <2>6. mem' = [k EXCEPT !.iter = @ + 1]
    BY <1>2
  <2> HIDE DEF k
  <2>2. /\ mem' \in TaskMissions /\ mem'.retries = mem.retries /\ mem'.iter >= mem.iter
        /\ mem'.status = mem.status
        /\ \A t \in Tasks : mem'.st[t] = IF t \in ts THEN s ELSE mem.st[t]
    BY <2>4, <2>5, <2>6 DEF TaskMissions, IsMarked
  <2>3. Follows(mem, mem')
    BY <1>2, <2>2 DEF Follows
  <2> QED
    BY <1>1, <2>2, <2>3 DEF Moves
<1>3. /\ Moves(file', mem') /\ mem'.status = "Running"
      /\ todo' \subseteq In(mem', {"InProgress"})
  <2>1. CASE StartTasks
    <3>1. todo' = NextTasks(mem) /\ mem' = [Marked(mem, todo', "InProgress") EXCEPT !.iter = @ + 1]
      BY <2>1 DEF StartTasks
    <3>2. /\ Moves(file', mem') /\ mem'.status = "Running"
          /\ \A t \in Tasks : mem'.st[t] = IF t \in todo' THEN "InProgress" ELSE mem.st[t]
      BY <1>2, <3>1
    <3>3. todo' \subseteq Tasks
      BY <3>1 DEF NextTasks, In
    <3> QED
      BY <3>2, <3>3 DEF In
  <2>2. CASE SkipBlocked
    <3>1. todo' = {} /\ mem' = [Marked(mem, Blocked(mem), "Skipped") EXCEPT !.iter = @ + 1]
      BY <1>1, <2>2 DEF SkipBlocked
    <3>2. Moves(file', mem') /\ mem'.status = "Running"
      BY <1>2, <3>1
    <3> QED
      BY <3>1, <3>2
  <2> QED
    BY <2>1, <2>2
<1>4. CopiesAt(file', mem', cp) /\ Agrees(file', mem') /\ file' \in TaskMissions
  BY <1>1, <1>3, MovesKeep
<1>5. TypeAt(file', mem', cp', at', todo') /\ PlaceAt(file', mem', at')
  BY <1>1, <1>3, <1>4 DEF TypeAt, PlaceAt, Moves, IInv
<1>6. CountInv' /\ CompleteAt(file')
  BY <1>1 DEF IInv, CountInv, CompleteAt
<1> QED
  BY <1>1, <1>3, <1>4, <1>5, <1>6, Lift

(* The result of a task's execution, verified or not, moves the mission    *)
(* on.                                                                     *)
LEMMA ResultKeeps ==
    ASSUME TasksAssumption, IInv, Result
    PROVE  IInv' /\ Moves(file', mem')
PROOF
<1>1. PICK t \in Tasks : \/ Verified(t) \/ Rejected(t) \/ GivenUp(t)
                         \/ \E o \in {"stays", "retry", "fixed"} : Errored(t, o)
  BY DEF Result
<1>2. Applied(t)
  BY <1>1 DEF Verified, Rejected, GivenUp, Errored
<1>3. /\ PlanOK /\ mem \in TaskMissions /\ mem.status = "Running" /\ todo \subseteq In(mem, {"InProgress"})
      /\ at = "round" /\ t \in todo /\ todo' = todo \ {t} /\ rounds < Interval
      /\ at' = (IF todo' = {} THEN "endRound" ELSE "round") /\ mem.st[t] = "InProgress"
      /\ UNCHANGED <<plan, file, cp, rounds, restarts>>
  BY <1>2 DEF IInv, TypeAt, PlaceAt, CountInv, Applied, In
<1> DEFINE Answered(n) ==
               /\ n \in TaskMissions /\ n.iter = mem.iter /\ n.status = "Running"
               /\ n.st[t] \in {"Pending", "Completed", "Failed"} /\ n.retries[t] >= mem.retries[t]
               /\ \A u \in Tasks \ {t} : n.st[u] = mem.st[u] /\ n.retries[u] = mem.retries[u]
<1>4. mem.retries[t] \in Nat /\ mem.iter \in Nat /\ Home(t) = t /\ {t} \subseteq Tasks
      /\ MaxRetries + 1 \in Nat
  BY <1>3, HomeIs DEF TaskMissions, TasksAssumption
<1>5. Answered(mem')
  <2> USE DEF TaskStatuses
  <2>1. CASE Verified(t)
    <3>1. mem' = Marked(mem, {t}, "Completed")
      BY <2>1 DEF Verified
    <3>2. IsMarked(mem', mem, {t}, "Completed")
      BY <1>3, <1>4, <3>1, MarkedIs
    <3> QED
      BY <1>3, <1>4, <3>2 DEF IsMarked
  <2> DEFINE failed == FailedOnce(mem, t)
  <2>2. /\ failed \in TaskMissions /\ failed.iter = mem.iter /\ failed.status = mem.status
        /\ failed.st[t] \in {"Pending", "Failed"} /\ failed.retries[t] = mem.retries[t] + 1
        /\ \A u \in Tasks \ {t} : failed.st[u] = mem.st[u] /\ failed.retries[u] = mem.retries[u]
    BY <1>3, FailedOnceIs
  <2> HIDE DEF failed
  <2>3. CASE Rejected(t)
    <3>1. mem' = failed
      BY <1>4, <2>3 DEF Rejected, failed
    <3> QED
      BY <1>3, <1>4, <2>2, <3>1
  <2>4. CASE GivenUp(t)
    <3> DEFINE r == Retried(mem, t, MaxRetries + 1)
    <3>1. mem' = FailedOnce(r, t) /\ mem.retries[t] <= MaxRetries
      BY <1>4, <2>4 DEF GivenUp, CanRetry
    <3>2. /\ r \in TaskMissions /\ r.st = mem.st /\ r.iter = mem.iter /\ r.status = mem.status
          /\ r.retries[t] = MaxRetries + 1
          /\ \A u \in Tasks \ {t} : r.retries[u] = mem.retries[u]
      <4>1. PICK n \in Nat : n = MaxRetries + 1
        BY <1>4
      <4>2. /\ Retried(mem, t, n) \in TaskMissions /\ Retried(mem, t, n).st = mem.st
            /\ Retried(mem, t, n).iter = mem.iter /\ Retried(mem, t, n).status = mem.status
            /\ Retried(mem, t, n).retries[t] = n
            /\ \A u \in Tasks \ {t} : Retried(mem, t, n).retries[u] = mem.retries[u]
        BY <1>3, <4>1, RetriedIs
      <4>3. r = Retried(mem, t, n)
        BY <4>1, Zenon
      <4> QED
        BY <4>1, <4>2, <4>3, Zenon
    <3> HIDE DEF r
    <3>3. /\ mem' \in TaskMissions /\ mem'.iter = r.iter /\ mem'.status = r.status
          /\ mem'.st[t] \in {"Pending", "Failed"} /\ mem'.retries[t] = r.retries[t] + 1
          /\ \A u \in Tasks \ {t} : mem'.st[u] = r.st[u] /\ mem'.retries[u] = r.retries[u]
      BY <1>3, <3>1, <3>2, FailedOnceIs
    <3>4. mem'.retries[t] >= mem.retries[t]
      BY <1>4, <3>1, <3>2, <3>3 DEF TasksAssumption
    <3> QED
      BY <1>3, <3>2, <3>3, <3>4
  <2>5. ASSUME NEW s \in {"Pending", "Completed"}, mem' = Marked(failed, {t}, s)
        PROVE  Answered(mem')
    <3>1. IsMarked(mem', failed, {t}, s)
      BY <1>3, <1>4, <2>2, <2>5, MarkedIs
    <3> QED
      BY <1>3, <1>4, <2>2, <3>1 DEF IsMarked
  <2>6. ASSUME NEW o \in {"stays", "retry", "fixed"}, Errored(t, o) PROVE Answered(mem')
    <3>1. mem' = CASE o = "stays" -> failed
                   [] o = "retry" -> Marked(failed, {t}, "Pending")
                   [] o = "fixed" -> Marked(failed, {t}, "Completed")
      BY <1>4, <2>6 DEF Errored, failed
    <3>2. \/ mem' = failed \/ mem' = Marked(failed, {t}, "Pending")
          \/ mem' = Marked(failed, {t}, "Completed")
      BY <3>1
    <3>3. CASE mem' = failed
      BY <1>3, <1>4, <2>2, <3>3
    <3> QED
      BY <2>5, <3>2, <3>3
  <2> QED
    BY <1>1, <2>1, <2>3, <2>4, <2>6
<1>6. Moves(file', mem')
  <2>1. Follows(mem, mem')
    BY <1>3, <1>4, <1>5 DEF Follows
  <2> QED
    BY <1>3, <1>5, <2>1 DEF Moves
<1>7. CopiesAt(file', mem', cp) /\ Agrees(file', mem') /\ file' \in TaskMissions
  BY <1>3, <1>6, MovesKeep
<1>8. todo' \subseteq In(mem', {"InProgress"})
  BY <1>3, <1>5 DEF In
<1>9. TypeAt(file', mem', cp', at', todo') /\ PlaceAt(file', mem', at')
  BY <1>3, <1>5, <1>7, <1>8 DEF TypeAt, PlaceAt, IInv
<1>10. CountInv' /\ CompleteAt(file')
  BY <1>3 DEF IInv, CountInv, CompleteAt
<1> QED
  BY <1>3, <1>6, <1>7, <1>9, <1>10, Lift

(* A round is written to the mission file before and after its tasks run.  *)
LEMMA SaveKeeps ==
    ASSUME TasksAssumption, IInv, Save \/ \E due \in BOOLEAN : EndRound(due)
    PROVE  IInv' /\ Moves(file', mem')
PROOF
<1>1. /\ PlanOK /\ mem \in TaskMissions /\ mem.status = "Running" /\ todo \subseteq In(mem, {"InProgress"})
      /\ (todo # {} => at \in {"save", "round"}) /\ at \in {"save", "endRound"}
      /\ file' = mem /\ UNCHANGED <<plan, mem, cp, todo, restarts>>
      /\ rounds \in 0..Interval /\ rounds < Interval
  BY DEF IInv, TypeAt, PlaceAt, CountInv, Save, EndRound, Goes, Saved
<1>2. Moves(file', mem')
  <2>1. mem.iter >= mem.iter
    BY <1>1 DEF TaskMissions, TasksAssumption
  <2>2. Follows(mem, mem)
    BY <2>1 DEF Follows
  <2> QED
    BY <1>1, <2>2 DEF Moves
<1>3. CopiesAt(file', mem', cp) /\ Agrees(file', mem') /\ file' \in TaskMissions
  BY <1>1, <1>2, MovesKeep
<1>4. CompleteAt(file')
  BY <1>1 DEF CompleteAt
<1>5. CASE Save
  <2>1. at' = (IF todo = {} THEN "head" ELSE "round") /\ UNCHANGED rounds /\ at = "save"
    BY <1>5 DEF Save, Goes
  <2>2. TypeAt(file', mem', cp', at', todo') /\ PlaceAt(file', mem', at')
    BY <1>1, <1>3, <2>1 DEF TypeAt, PlaceAt, IInv
  <2>3. CountInv'
    BY <1>1, <2>1 DEF CountInv, IInv
  <2> QED
    BY <1>1, <1>2, <1>3, <1>4, <2>2, <2>3, Lift
<1>6. ASSUME NEW due \in BOOLEAN, EndRound(due) PROVE IInv'
  <2>1. /\ at' = (IF due THEN "checkpoint" ELSE "head") /\ rounds' = rounds + 1
        /\ (rounds' >= Interval => due) /\ at = "endRound"
    BY <1>6 DEF EndRound, Goes
  <2>2. TypeAt(file', mem', cp', at', todo') /\ PlaceAt(file', mem', at')
    BY <1>1, <1>3, <2>1 DEF TypeAt, PlaceAt, IInv
  <2>3. CountInv'
    BY <1>1, <2>1 DEF CountInv, IInv, TasksAssumption
  <2> QED
    BY <1>1, <1>2, <1>3, <1>4, <2>2, <2>3, Lift
<1> QED
  BY <1>2, <1>5, <1>6

(* Recover, Suspend and Ends write the file and leave the round.           *)
LEMMA WriteKeeps ==
    ASSUME TasksAssumption, IInv, at \in {"recover", "head", "save", "endRound", "checkpoint", "final"},
           Moves(mem', mem'), file' = mem', todo' = {},
           UNCHANGED <<plan, cp, rounds, restarts>>,
           \/ /\ at' = "head" /\ at = "recover" /\ mem'.status = "Running"
           \/ at' = "off" /\ mem'.status \in MissionStatuses \ {"Verifying", "Completed"}
           \/ /\ \/ at' = "final" /\ mem'.status = "Verifying" /\ at # "checkpoint"
                 \/ at' = "off" /\ mem'.status = "Completed"
              /\ In(mem', {"Completed"}) = Tasks
    PROVE  IInv' /\ Moves(file', mem')
PROOF
<1>1. PlanOK /\ mem' \in TaskMissions /\ at # "off"
  BY DEF IInv, Moves
<1>2. CopiesAt(file', mem', cp) /\ Agrees(file', mem') /\ file' \in TaskMissions
  BY <1>1, MovesKeep
<1>3. TypeAt(file', mem', cp', at', todo')
  BY <1>1 DEF TypeAt, IInv
<1>4. PlaceAt(file', mem', at')
  BY <1>2 DEF PlaceAt
<1>5. CountInv'
  BY DEF CountInv, IInv
<1>6. CompleteAt(file')
  BY DEF CompleteAt
<1>7. Moves(file', mem')
  BY DEF Moves
<1> QED
  BY <1>1, <1>2, <1>3, <1>4, <1>5, <1>6, <1>7, Lift

(* Recovery makes the interrupted tasks Pending again: no settled task is  *)
(* touched.                                                                *)
LEMMA RecoverKeeps ==
    ASSUME TasksAssumption, IInv, Recover
    PROVE  IInv' /\ Moves(file', mem')
PROOF
<1>1. /\ PlanOK /\ mem \in TaskMissions /\ mem.status = "Running" /\ todo = {}
      /\ at = "recover" /\ at' = "head"
      /\ mem' = Marked(mem, In(mem, {"InProgress"}), "Pending") /\ file' = mem'
      /\ UNCHANGED <<plan, cp, todo, rounds, restarts>>
  BY DEF IInv, TypeAt, PlaceAt, Recover, Goes
<1>2. In(mem, {"InProgress"}) \subseteq Tasks /\ "Pending" \in TaskStatuses
  BY DEF In, TaskStatuses
<1>3. /\ mem' \in TaskMissions /\ mem'.retries = mem.retries /\ mem'.iter = mem.iter
      /\ mem'.status = "Running"
      /\ \A t \in Tasks : mem'.st[t] = IF t \in In(mem, {"InProgress"}) THEN "Pending" ELSE mem.st[t]
  <2> DEFINE ts == In(mem, {"InProgress"})
             m == Marked(mem, ts, "Pending")
  <2>3. ts \subseteq Tasks
    BY DEF In
  <2> HIDE DEF ts
  <2>1. IsMarked(m, mem, ts, "Pending")
    BY <1>1, <1>2, <2>3, MarkedIs
  <2>2. mem' = m
    BY <1>1 DEF ts
  <2> HIDE DEF m
  <2> QED
    BY <1>1, <2>1, <2>2 DEF ts, IsMarked
<1>4. mem.iter \in Nat /\ \A t \in Tasks : mem.retries[t] \in Nat
  BY <1>1 DEF TaskMissions, TasksAssumption
<1>5. Follows(mem, mem')
  BY <1>3, <1>4 DEF Follows, In
<1>6. Moves(mem', mem')
  BY <1>3, <1>5 DEF Moves
<1> QED
  BY <1>1, <1>3, <1>6, WriteKeeps

(* A pause, a timeout and every way out of the loop only change the status.*)
LEMMA LeaveKeeps ==
    ASSUME TasksAssumption, IInv, Pause \/ Timeout \/ Leave \/ LoopError
    PROVE  IInv' /\ Moves(file', mem')
PROOF
<1>1. PlanOK /\ mem \in TaskMissions /\ TypeAt(file, mem, cp, at, todo) /\ PlaceAt(file, mem, at)
      /\ Ordered(mem)
  BY DEF IInv, TypeAt, CopiesAt
<1> DEFINE Leaves(from, to, s) ==
               /\ at = from /\ at' = to /\ mem' = [mem EXCEPT !.status = s] /\ file' = mem'
               /\ todo' = {} /\ UNCHANGED <<plan, cp, rounds, restarts>>
<1>2. ASSUME NEW s \in MissionStatuses, mem' = [mem EXCEPT !.status = s]
      PROVE  Moves(mem', mem') /\ mem'.status = s /\ mem'.st = mem.st
  <2>1. /\ mem' \in TaskMissions /\ mem'.status = s /\ mem'.st = mem.st /\ Follows(mem, mem')
    BY <1>1, <1>2, StatusIs
  <2> QED
    BY <2>1 DEF Moves
<1>3. ASSUME NEW from \in {"head", "save", "endRound", "checkpoint", "final"},
             NEW s \in MissionStatuses \ {"Verifying", "Completed"}, Leaves(from, "off", s)
      PROVE  IInv' /\ Moves(file', mem')
  <2>1. Moves(mem', mem') /\ mem'.status = s
    BY <1>2, <1>3
  <2> QED
    BY <1>3, <2>1, WriteKeeps
<1>4. ASSUME Leaves("head", "final", "Verifying"), ~Enter, mem.iter < MaxIterations,
             PermanentlyFailed(mem) = {}
      PROVE  IInv' /\ Moves(file', mem')
  <2>1. "Verifying" \in MissionStatuses
    BY DEF MissionStatuses
  <2>2. Moves(mem', mem') /\ mem'.status = "Verifying" /\ mem'.st = mem.st
    BY <1>2, <1>4, <2>1
  <2>3. \A t \in Tasks : mem.st[t] \in {"Completed", "Skipped"}
    BY <1>4 DEF Enter, AllDone, Settled, In
  <2>4. \A t \in Tasks : mem.st[t] # "Skipped"
    <3>1. IdsOf(PermanentlyFailed(mem)) = {}
      BY <1>4 DEF IdsOf
    <3> QED
      BY <1>1, <3>1 DEF Ordered
  <2>5. In(mem', {"Completed"}) = Tasks
    BY <2>2, <2>3, <2>4 DEF In
  <2> QED
    BY <1>4, <2>2, <2>5, WriteKeeps
<1>5. ASSUME Leaves("final", "off", "Completed")
      PROVE  IInv' /\ Moves(file', mem')
  <2>1. "Completed" \in MissionStatuses
    BY DEF MissionStatuses
  <2>2. Moves(mem', mem') /\ mem'.status = "Completed" /\ mem'.st = mem.st
    BY <1>2, <1>5, <2>1
  <2>3. In(mem, {"Completed"}) = Tasks
    BY <1>1, <1>5 DEF PlaceAt, IInv, CompleteAt
  <2>4. In(mem', {"Completed"}) = Tasks
    BY <2>2, <2>3 DEF In
  <2> QED
    BY <1>5, <2>2, <2>4, WriteKeeps
<1>6. {"Paused", "Escalated", "Failed"} \subseteq MissionStatuses \ {"Verifying", "Completed"}
  BY DEF MissionStatuses
<1>7. CASE Pause \/ Timeout
  <2>1. Leaves("head", "off", "Paused") \/ Leaves("head", "off", "Escalated")
    BY <1>1, <1>7 DEF Pause, Timeout, Suspend, Goes, TypeAt
  <2> HIDE DEF Leaves
  <2> QED
    BY <1>3, <1>6, <2>1
<1>8. CASE OutOfIterations \/ TasksFailed \/ FinalFails \/ LoopError
  <2>1. \E from \in {"head", "save", "endRound", "checkpoint", "final"} : Leaves(from, "off", "Failed")
    BY <1>8 DEF OutOfIterations, TasksFailed, FinalFails, LoopError, Ends, Goes
  <2> HIDE DEF Leaves
  <2> QED
    BY <1>3, <1>6, <2>1
<1>9. CASE Finalize
  BY <1>4, <1>9 DEF Finalize, Ends, Goes
<1>10. CASE FinalPasses
  BY <1>5, <1>10 DEF FinalPasses, Ends, Goes
<1> QED
  BY <1>7, <1>8, <1>9, <1>10 DEF Leave

(* A checkpoint is made of what the file has.                              *)
LEMMA CheckpointKeeps ==
    ASSUME TasksAssumption, IInv, Checkpoint
    PROVE  IInv'
PROOF
<1>1. /\ PlanOK /\ mem \in TaskMissions /\ file = mem /\ at = "checkpoint" /\ at' = "head"
      /\ cp' = [st |-> mem.st, retries |-> mem.retries, iter |-> mem.iter]
      /\ rounds' = 0 /\ UNCHANGED <<plan, file, mem, todo, restarts>> /\ Ordered(mem)
  BY DEF IInv, TypeAt, PlaceAt, CopiesAt, Checkpoint, Goes
<1>2. /\ cp' \in States /\ cp'.st = mem.st /\ cp'.retries = mem.retries /\ cp'.iter = mem.iter
  BY <1>1 DEF States, TaskMissions
<1>3. mem.iter <= mem.iter /\ \A t \in Tasks : mem.retries[t] <= mem.retries[t]
  BY <1>1 DEF TaskMissions, TasksAssumption
<1>4. Behind(cp', mem)
  BY <1>2, <1>3 DEF Behind, In
<1>5. Ordered(cp')
  BY <1>1, <1>2 DEF Ordered, In, PermanentlyFailed, CanRetry
<1>6. CopiesAt(file', mem', cp')
  BY <1>1, <1>4, <1>5 DEF CopiesAt
<1>7. TypeAt(file', mem', cp', at', todo')
  BY <1>1, <1>2 DEF TypeAt, IInv
<1>8. PlaceAt(file', mem', at') /\ CompleteAt(file')
  BY <1>1 DEF PlaceAt, IInv
<1>9. CountInv'
  BY <1>1 DEF CountInv, IInv, TasksAssumption
<1> QED
  BY <1>1, <1>6, <1>7, <1>8, <1>9, Lift

(* After a crash there is only the file, and orphans are failed in it.     *)
LEMMA CrashKeeps ==
    ASSUME TasksAssumption, IInv, Crash \/ Orphaned
    PROVE  IInv'
PROOF
<1>1. /\ PlanOK /\ file \in TaskMissions /\ CopiesAt(file, mem, cp) /\ CompleteAt(file)
      /\ (cp # NoCheckpoint => cp \in States) /\ (todo # {} => at \in {"save", "round"})
      /\ UNCHANGED <<plan, cp, rounds, restarts>>
  BY DEF IInv, TypeAt, Crash, Orphaned
<1>2. CASE Crash
  <2>1. mem' = file /\ at' = "off" /\ todo' = {} /\ UNCHANGED file
    BY <1>2 DEF Crash
  <2>2. TypeAt(file', mem', cp', at', todo') /\ PlaceAt(file', mem', at')
    BY <1>1, <2>1 DEF TypeAt, PlaceAt
  <2>3. CopiesAt(file', mem', cp') /\ CompleteAt(file')
    BY <1>1, <2>1 DEF CopiesAt
  <2>4. CountInv'
    BY <1>1, <2>1 DEF CountInv, IInv
  <2> QED
    BY <1>1, <2>2, <2>3, <2>4, Lift
<1>3. CASE Orphaned
  <2> DEFINE ts == In(file, {"InProgress"})
             m == Marked(file, ts, "Failed")
  <2>1. /\ mem' = file' /\ file' = [m EXCEPT !.status = "Failed"] /\ at = "off" /\ UNCHANGED <<at, todo>>
        /\ todo = {}
    BY <1>1, <1>3 DEF Orphaned
  <2>2. ts \subseteq Tasks /\ "Failed" \in TaskStatuses /\ "Failed" \in MissionStatuses
    BY DEF In, TaskStatuses, MissionStatuses
  <2>12. IsMarked(m, file, ts, "Failed")
    BY <1>1, <2>2, MarkedIs
  <2>3. /\ m \in TaskMissions /\ m.retries = file.retries /\ m.iter = file.iter
        /\ \A t \in Tasks : m.st[t] = IF t \in ts THEN "Failed" ELSE file.st[t]
    BY <2>12 DEF IsMarked
  <2> HIDE DEF m
  <2>4. /\ file' \in TaskMissions /\ file'.status = "Failed" /\ file'.st = m.st
        /\ file'.retries = m.retries /\ file'.iter = m.iter
    BY <2>1, <2>2, <2>3, StatusIs
  <2>5. file.iter \in Nat /\ \A t \in Tasks : file.retries[t] \in Nat
    BY <1>1 DEF TaskMissions, TasksAssumption
  <2>6. Follows(file, file')
    BY <2>3, <2>4, <2>5 DEF Follows, In
  <2>7. Ordered(file')
    BY <1>1, <2>4, <2>6, FollowsOrdered DEF CopiesAt
  <2>8. cp # NoCheckpoint => Behind(cp, file')
    BY <1>1, <2>4, <2>6, FollowsBehind DEF CopiesAt
  <2>9. CopiesAt(file', mem', cp') /\ CompleteAt(file')
    BY <1>1, <2>1, <2>4, <2>7, <2>8 DEF CopiesAt, CompleteAt
  <2>10. TypeAt(file', mem', cp', at', todo') /\ PlaceAt(file', mem', at')
    BY <1>1, <2>1, <2>4 DEF TypeAt, PlaceAt
  <2>11. CountInv'
    BY <1>1, <2>1 DEF CountInv, IInv
  <2> QED
    BY <1>1, <2>9, <2>10, <2>11, Lift
<1> QED
  BY <1>2, <1>3

(* The mission is resumed from the checkpoint, or from the file.           *)
LEMMA ResumeKeeps ==
    ASSUME TasksAssumption, IInv, NEW readable \in BOOLEAN, Resume(readable)
    PROVE  IInv'
PROOF
<1>1. /\ PlanOK /\ file \in TaskMissions /\ CopiesAt(file, mem, cp)
      /\ (cp # NoCheckpoint => cp \in States) /\ todo = {}
      /\ at = "off" /\ at' = "recover" /\ restarts < MaxRestarts /\ restarts' = restarts + 1
      /\ rounds' = 0 /\ file' = mem' /\ UNCHANGED <<plan, cp, todo>>
  BY DEF IInv, TypeAt, Resume, Goes
<1> DEFINE m == IF readable /\ cp # NoCheckpoint THEN Restored(file, cp) ELSE file
<1>2. m \in TaskMissions /\ Ordered(m) /\ (cp # NoCheckpoint => Behind(cp, m))
  <2>1. CASE readable /\ cp # NoCheckpoint
    <3>1. cp \in States /\ Ordered(cp) /\ m = Restored(file, cp)
      BY <1>1, <2>1 DEF CopiesAt
    <3>2. m \in TaskMissions /\ m.st = cp.st /\ m.retries = cp.retries /\ m.iter = cp.iter
      BY <1>1, <3>1, RestoredIs
    <3> HIDE DEF m
    <3>3. Ordered(m)
      BY <3>1, <3>2 DEF Ordered, In, PermanentlyFailed, CanRetry
    <3>4. cp.iter <= cp.iter /\ \A t \in Tasks : cp.retries[t] <= cp.retries[t]
      BY <3>1 DEF States, TasksAssumption
    <3>5. Behind(cp, m)
      BY <3>2, <3>4 DEF Behind, In
    <3> QED
      BY <3>2, <3>3, <3>5
  <2>2. CASE ~(readable /\ cp # NoCheckpoint)
    BY <1>1, <2>2 DEF CopiesAt
  <2> QED
    BY <2>1, <2>2
<1>3. mem' = [m EXCEPT !.status = "Running"] /\ "Running" \in MissionStatuses
  BY DEF Resume, MissionStatuses
<1> HIDE DEF m
<1>4. /\ mem' \in TaskMissions /\ mem'.status = "Running" /\ mem'.st = m.st
      /\ mem'.retries = m.retries /\ mem'.iter = m.iter /\ Follows(m, mem')
  BY <1>2, <1>3, StatusIs
<1>5. Ordered(mem') /\ (cp # NoCheckpoint => Behind(cp, mem'))
  BY <1>1, <1>2, <1>4, FollowsOrdered, FollowsBehind
<1>6. CopiesAt(file', mem', cp')
  BY <1>1, <1>5 DEF CopiesAt
<1>7. TypeAt(file', mem', cp', at', todo') /\ PlaceAt(file', mem', at') /\ CompleteAt(file')
  BY <1>1, <1>4 DEF TypeAt, PlaceAt, CompleteAt, Agrees
<1>8. CountInv'
  <2>1. restarts' \in 0..MaxRestarts
    BY <1>1 DEF CountInv, IInv, TasksAssumption
  <2> QED
    BY <1>1, <2>1 DEF CountInv, TasksAssumption
<1> QED
  BY <1>1, <1>6, <1>7, <1>8, Lift

(* A mission that has not been executed satisfies the invariant.           *)
LEMMA InitInv == TasksAssumption /\ Init /\ PlanOK => IInv
PROOF
<1> SUFFICES ASSUME TasksAssumption, Init, PlanOK PROVE IInv
  OBVIOUS
<1>1. /\ mem = FreshTasks /\ file = FreshTasks /\ cp = NoCheckpoint /\ at = "head"
      /\ todo = {} /\ rounds = 0 /\ restarts = 0
  BY DEF Init
<1>2. /\ FreshTasks.st = [t \in Tasks |-> "Pending"] /\ FreshTasks.status = "Running"
      /\ FreshTasks.retries = [t \in Tasks |-> 0] /\ FreshTasks \in TaskMissions
  BY DEF FreshTasks, TaskMissions, TaskStatuses, MissionStatuses, TasksAssumption
<1>3. Ordered(FreshTasks)
  BY <1>2 DEF Ordered
<1>4. Agrees(FreshTasks, FreshTasks)
  BY DEF Agrees
<1>5. TypeAt(file, mem, cp, at, todo) /\ CopiesAt(file, mem, cp) /\ CompleteAt(file)
  BY <1>1, <1>2, <1>3 DEF TypeAt, CopiesAt, CompleteAt
<1>6. PlaceAt(file, mem, at)
  BY <1>1, <1>2, <1>4 DEF PlaceAt
<1>7. CountInv
  BY <1>1 DEF CountInv, TasksAssumption
<1> QED
  BY <1>5, <1>6, <1>7 DEF IInv

(* An execution's own steps.                                               *)
LEMMA ExecutionKeeps ==
    ASSUME TasksAssumption, IInv, Execution \/ Pause \/ Timeout \/ LoopError
    PROVE  IInv' /\ (Moves(file', mem') \/ UNCHANGED file)
PROOF
<1>1. CASE Checkpoint
  BY <1>1, CheckpointKeeps DEF Checkpoint
<1>2. CASE Recover
  BY <1>2, RecoverKeeps
<1>3. CASE StartTasks \/ SkipBlocked
  BY <1>3, StartTasksKeeps
<1>4. CASE Save \/ \E due \in BOOLEAN : EndRound(due)
  BY <1>4, SaveKeeps
<1>5. CASE Result
  BY <1>5, ResultKeeps
<1>6. CASE Pause \/ Timeout \/ Leave \/ LoopError
  BY <1>6, LeaveKeeps
<1> QED
  BY <1>1, <1>2, <1>3, <1>4, <1>5, <1>6 DEF Execution, Round

(* Every step of an execution, a command or a crash keeps the invariant.   *)
LEMMA NextInv ==
    TasksAssumption /\ IInv /\ [Next]_vars =>
        IInv' /\ (at # "off" => \A t \in Settled(file) : file'.st[t] = file.st[t])
PROOF
<1> SUFFICES ASSUME TasksAssumption, IInv, [Next]_vars
             PROVE  IInv' /\ (at # "off" => \A t \in Settled(file) : file'.st[t] = file.st[t])
  OBVIOUS
<1>1. CASE Execution \/ Pause \/ Timeout \/ LoopError
  <2>1. IInv' /\ (Moves(file', mem') \/ UNCHANGED file)
    BY <1>1, ExecutionKeeps
  <2> QED
    BY <2>1, MovesKeep
<1>2. CASE Crash \/ Orphaned
  BY <1>2, CrashKeeps DEF Crash, Orphaned
<1>3. ASSUME NEW readable \in BOOLEAN, Resume(readable)
      PROVE  IInv' /\ at = "off"
  BY <1>3, ResumeKeeps DEF Resume, Goes
<1>4. CASE UNCHANGED vars
  <2>1. TypeAt(file', mem', cp', at', todo') /\ PlaceAt(file', mem', at')
        /\ CopiesAt(file', mem', cp') /\ CompleteAt(file') /\ PlanOK
    BY <1>4 DEF vars, IInv
  <2>2. CountInv'
    BY <1>4 DEF vars, IInv, CountInv
  <2> QED
    BY <1>4, <2>1, <2>2, Lift DEF vars
<1> QED
  BY <1>1, <1>2, <1>3, <1>4 DEF Next
-----------------------------------------------------------------------------
(* A plan is a sequence of tasks, whatever the outline.                    *)
PlanTasks == [id : Nat, deps : SUBSET Nat]
(* normalize_task_ids numbers the tasks of one decomposition by their      *)
(* position.                                                               *)
LEMMA NormalizedIs ==
    ASSUME NEW d \in Seq(SUBSET Nat)
    PROVE  /\ Normalized(d) \in Seq(PlanTasks) /\ DOMAIN Normalized(d) = DOMAIN d
           /\ \A k \in DOMAIN d : Normalized(d)[k].id = k
PROOF
<1>1. PICK n \in Nat : DOMAIN d = 1..n /\ \A k \in 1..n : d[k] \in SUBSET Nat
  <2>1. Len(d) \in Nat /\ DOMAIN d = 1..Len(d) /\ \A k \in 1..Len(d) : d[k] \in SUBSET Nat
    OBVIOUS
  <2> QED
    BY <2>1
<1>2. \A k \in 1..n : [id |-> k, deps |-> d[k]] \in PlanTasks
  BY <1>1 DEF PlanTasks
<1>3. Normalized(d) = [k \in 1..n |-> [id |-> k, deps |-> d[k]]]
  BY <1>1 DEF Normalized
<1>4. Normalized(d) \in Seq(PlanTasks)
  <2> HIDE DEF PlanTasks
  <2> QED
    BY <1>2, <1>3
<1> QED
  BY <1>1, <1>3, <1>4

(* The tasks of an outline are a sequence of tasks, whatever the outline:  *)
(* by induction over its decompositions.                                   *)
LEMMA TasksOfIs ==
    ASSUME NEW o \in Seq(Seq(SUBSET Nat))
    PROVE  TasksOf(o) \in Seq(PlanTasks)
PROOF
<1> DEFINE S == Seq(PlanTasks)
<1>1. PICK N : N \in Nat /\ N = Len(o) /\ \A n \in 1..N : o[n] \in Seq(SUBSET Nat)
  OBVIOUS
<1> DEFINE none == <<>>
           Longer(x, n) == x \o Normalized(o[n])
           Step(k) == [n \in 0..N |-> IF n = 0 THEN none ELSE Longer(k[n - 1], n)]
           upTo == CHOOSE k : k = Step(k)
<1>2. TasksOf(o) = upTo[N]
  BY <1>1 DEF TasksOf
<1>3. N \in Nat /\ none \in S /\ \A x \in S, n \in 1..N : Longer(x, n) \in S
  <2>1. \A n \in 1..N : Normalized(o[n]) \in S
    BY <1>1, NormalizedIs
  <2> QED
    BY <1>1, <2>1
<1> HIDE DEF Longer, none, S
<1>4. \E k : k = Step(k) /\ k \in [0..N -> S]
  <2> DEFINE h == [x \in S \X (1..N) |-> Longer(x[1], x[2])]
  <2>1. h \in Steps(N, S)
    BY <1>3 DEF Steps
  <2>2. \A x \in S, n \in 1..N : h[<<x, n>>] = Longer(x, n)
    OBVIOUS
  <2> HIDE DEF h
  <2>3. PICK f : Unfolds(f, N, S, none, h)
    BY <1>3, <2>1, RecursionExists
  <2>4. /\ f \in [0..N -> S] /\ f[0] = none
        /\ \A n \in 1..N : f[n] = h[<<f[n - 1], n>>]
    BY <2>3 DEF Unfolds
  <2>5. \A n \in 1..N : f[n - 1] \in S
    BY <1>3, <2>4
  <2>6. \A n \in 1..N : f[n] = Longer(f[n - 1], n)
    BY <2>2, <2>4, <2>5
  <2>7. f = Step(f)
    BY <1>3, <2>4, <2>6
  <2> QED
    BY <2>4, <2>7
<1>5. upTo = Step(upTo)
  <2> HIDE DEF Step
  <2> QED
    BY <1>4
<1> HIDE DEF upTo
<1>6. upTo[0] = none /\ \A n \in 1..N : upTo[n] = Longer(upTo[n - 1], n)
  BY <1>3, <1>5
<1> DEFINE P == {n \in 0..N : upTo[n] \in S}
<1>7. 0 \in P /\ \A n \in 1..N : n - 1 \in P => n \in P
  BY <1>3, <1>6
<1>8. \A n \in 0..N : n \in P
  <2> HIDE DEF P
  <2> QED
    BY <1>3, <1>7, InductionUpTo
<1> QED
  BY <1>2, <1>3, <1>8 DEF S

(* A plan with different ids is one the invariant speaks of: its tasks     *)
(* depend on tasks of the plan.                                            *)
LEMMA PlanIs == Init /\ UniqueIds => PlanOK
PROOF
<1> SUFFICES ASSUME Init, UniqueIds PROVE PlanOK
  OBVIOUS
<1>1. PICK o \in Outlines : plan = TasksOf(o)
  BY DEF Init, PlansOf
<1>2. plan \in Seq(PlanTasks)
  BY <1>1, TasksOfIs, OutlinesAssumption
<1>3. Len(plan) \in Nat /\ Tasks = 1..Len(plan)
  BY <1>2 DEF Tasks
<1> QED
  BY <1>3 DEF PlanOK

(* The inductive invariant, of a plan whose tasks have different ids.      *)
THEOREM Invariance == Spec /\ UniqueIds => []IInv
PROOF
<1>1. Init /\ UniqueIds => IInv
  BY TasksAssumption, PlanIs, InitInv
<1>2. IInv /\ [Next]_vars => IInv'
  BY TasksAssumption, NextInv
<1> QED
  BY <1>1, <1>2, PTL DEF Spec

(* PlanningOrchestrator asks for one decomposition, and so its plans have  *)
(* different ids (normalize_task_ids).                                     *)
OneDecomposition == \A o \in Outlines : Len(o) = 1
(* The plan of a single decomposition is that decomposition.               *)
LEMMA TasksOfOne ==
    ASSUME NEW o \in Seq(Seq(SUBSET Nat)), Len(o) = 1
    PROVE  TasksOf(o) = Normalized(o[1])
PROOF
<1> DEFINE none == <<>>
           Step(k) == [n \in 0..1 |-> IF n = 0 THEN none ELSE k[n - 1] \o Normalized(o[n])]
           upTo == CHOOSE k : k = Step(k)
<1>1. TasksOf(o) = upTo[1]
  BY DEF TasksOf
<1>2. Normalized(o[1]) \in Seq(PlanTasks) /\ none \o Normalized(o[1]) = Normalized(o[1])
  BY NormalizedIs
<1> HIDE DEF none
<1>3. \E k : k = Step(k)
  <2> DEFINE f == [n \in 0..1 |-> IF n = 0 THEN none ELSE none \o Normalized(o[1])]
  <2>1. f[0] = none /\ \A n \in 0..1 : n # 0 => n = 1 /\ n - 1 = 0
    OBVIOUS
  <2>2. f = Step(f)
    BY <2>1
  <2> QED
    BY <2>2
<1>4. upTo = Step(upTo)
  <2> HIDE DEF Step
  <2> QED
    BY <1>3
<1> HIDE DEF upTo
<1>5. upTo[0] = none /\ upTo[1] = upTo[0] \o Normalized(o[1])
  BY <1>4
<1> QED
  BY <1>1, <1>2, <1>5

(* Where planning asks for one decomposition only, as PlanningOrchestrator *)
(* does without chunks, no two tasks of the plan have the same id: the     *)
(* hypothesis of the theorems above.                                       *)
THEOREM OneDecompositionHasUniqueIds == OneDecomposition /\ Init => UniqueIds
PROOF
<1> SUFFICES ASSUME OneDecomposition, Init PROVE UniqueIds
  OBVIOUS
<1>1. PICK o \in Outlines : plan = TasksOf(o)
  BY DEF Init, PlansOf
<1>2. o \in Seq(Seq(SUBSET Nat)) /\ Len(o) = 1 /\ o[1] \in Seq(SUBSET Nat)
  BY <1>1, OutlinesAssumption DEF OneDecomposition
<1>3. plan = Normalized(o[1])
  BY <1>1, <1>2, TasksOfOne
<1> QED
  BY <1>2, <1>3, NormalizedIs DEF UniqueIds, Tasks

(* Every variable keeps its type.                                          *)
THEOREM Types == Spec /\ UniqueIds => []TypeOK
PROOF
<1>1. IInv => TypeOK
  <2> SUFFICES ASSUME IInv PROVE TypeOK
    OBVIOUS
  <2>1. ASSUME NEW m \in TaskMissions
        PROVE  /\ [st |-> m.st, retries |-> m.retries, iter |-> m.iter] \in States
               /\ m.status \in MissionStatuses
    BY DEF TaskMissions, States
  <2>2. file \in TaskMissions /\ mem \in TaskMissions /\ cp \in States \cup {NoCheckpoint}
    BY DEF IInv, TypeAt
  <2> QED
    BY <2>1, <2>2 DEF IInv, TypeAt, CountInv, TypeOK, MissionStatuses, In
<1> QED
  BY <1>1, Invariance, PTL

(* No task runs, ends or fails before all it depends on is completed or    *)
(* skipped, in the working copy, the file and the checkpoint, through      *)
(* pauses, crashes and resumptions (Task::can_start).                      *)
THEOREM OrderIsKept == Spec /\ UniqueIds => []OrderKept
PROOF
<1>1. IInv => OrderKept
  BY DEF IInv, CopiesAt, OrderKept
<1> QED
  BY <1>1, Invariance, PTL

(* A checkpoint is never ahead of the mission file.                        *)
THEOREM CheckpointsStayBehind == Spec /\ UniqueIds => []CheckpointBehindFile
PROOF
<1>1. IInv => CheckpointBehindFile
  BY DEF IInv, CopiesAt, Behind, CheckpointBehindFile
<1> QED
  BY <1>1, Invariance, PTL

(* A mission under final verification, or completed, has done every task.  *)
THEOREM NothingIsLeftOut == Spec /\ UniqueIds => []NothingLeftOut
PROOF
<1>1. IInv => NothingLeftOut
  BY DEF IInv, CompleteAt, NothingLeftOut
<1> QED
  BY <1>1, Invariance, PTL

(* Within an execution no settled task of the file changes.                *)
THEOREM SettledStay == Spec /\ UniqueIds => TerminalStays
PROOF
<1>1. IInv /\ [Next]_vars =>
          [at # "off" => \A t \in Settled(file) : file'.st[t] = file.st[t]]_vars
  BY TasksAssumption, NextInv
<1> QED
  BY <1>1, Invariance, PTL DEF TerminalStays, Spec
-----------------------------------------------------------------------------
(* The other view of a mission: the runs of the program that act on it and *)
(* the lock between them.                                                  *)

(* The places of a process: before it takes the lock; while it executes    *)
(* the mission; where it has loaded the mission; where that is not over;   *)
(* and where the worktree is in use.                                       *)
Starts == {"scan", "sweep", "mission"}
Asks == Starts \cup
    {"resume", "resuming", "pause", "pausing", "cancel", "cancelTree", "cancelling", "retry",
     "recover", "recovering", "recoverUnlock", "retrying", "restart", "look", "take"}
Shelters == {"saveSetup", "route", "direct", "planning", "start", "loop", "work", "verify",
             "complete"}
Works == Shelters \cup {"restore", "setup", "completing"}
Executes == Works \cup {"load", "failing", "failed", "unlock"}
Places == {"off", "end", "gone"} \cup Asks \cup Executes
Open == Works \cup {"resuming"}
Knows == Open \cup {"pausing", "cancelTree", "cancelling", "recovering", "restart",
                    "failing", "failed"}
Signals == {"deaf", "none", "pause", "cancel"}

Locks ==
    /\ lockFile \in [pid : Procs, stale : BOOLEAN] \cup {NoLock}
    /\ beat \in [Procs -> Procs \cup {NoLock}] /\ lapses \in 0..MaxLapses
Lives ==
    /\ where \in [Procs -> Places] /\ cmd \in [Procs -> Commands \cup {"none"}]
    /\ signal \in [Procs -> Signals]
    /\ alive = {p \in Procs : where[p] \notin {"off", "gone"}} /\ IsFiniteSet(alive)
    /\ holds = {p \in Procs : where[p] \in Executes}
    /\ \A p \in alive : cmd[p] \in Commands
    /\ \A p \in Procs : where[p] = "mission" => cmd[p] = "mission"
Copies ==
    /\ disk \in Missions \cup {NoMission} /\ tree \in BOOLEAN
    /\ copy \in [Procs -> Missions \cup {NoMission}]
    /\ \A p \in Procs : where[p] \in Knows => copy[p] \in Missions

(* Neither the lock file nor a heartbeat names a process that has not      *)
(* taken the lock yet.                                                     *)
Unnamed ==
    \A p \in Procs : where[p] \in Asks \cup {"off"} =>
        (lockFile # NoLock => lockFile.pid # p) /\ \A q \in Procs : beat[q] # p

ControlInv == Locks /\ Lives /\ Copies /\ Unnamed

(* Of a single process at a time more can be said.  Its copy has the       *)
(* status of the file, its worktree is there, and `mission` finds nothing. *)
Single == \A p, q \in alive : p = q
Current ==
    \A p \in Procs : where[p] \in Knows =>
        /\ disk \in Missions /\ copy[p].status = disk.status
        /\ where[p] \in Open => disk.status \notin Terminal
Sheltered == \A p \in Procs : where[p] \in Shelters => tree
Founding ==
    /\ (\A p \in Procs : where[p] = "off") => disk = NoMission
    /\ \A p \in Procs : where[p] \in Starts /\ cmd[p] = "mission" => disk = NoMission

AloneControl == Single /\ Current /\ Sheltered /\ Founding

(* Nothing makes a look at the lock file and the act on what was seen one: *)
(* a run that found no valid lock takes it later, or removes it as an      *)
(* orphan's; a heartbeat writes back what it has read.                     *)
ActsOnLook(p) ==
    \/ where[p] \in {"take", "recover", "recovering", "recoverUnlock"}
    \/ beat[p] # NoLock

(* What exclusion takes for granted: that no other run takes the lock      *)
(* between such a look and its act, and that the lock of a run that        *)
(* executes is renewed before it counts as stale.                          *)
Undisturbed == \A p \in Procs : ActsOnLook(p) => holds' \subseteq holds \cup {p}
Timely == lockFile # NoLock /\ lockFile.stale => ~Executing(lockFile.pid)

(* Of any number of processes, under these assumptions: whoever executes   *)
(* is named, a heartbeat renews its sender's lock, and while somebody is   *)
(* about to act on a look no other process executes.                       *)
Named == \A p \in Procs : where[p] \in Executes => lockFile # NoLock /\ lockFile.pid = p
Beats == \A p \in Procs : beat[p] # NoLock => beat[p] = p
NobodyBetween ==
    \A p, q \in Procs : ActsOnLook(p) /\ where[q] \in Executes => q = p
Exclusive == Named /\ Beats /\ NobodyBetween
-----------------------------------------------------------------------------
(* What a step of a process, but for its exit, does to its place and to    *)
(* the lock: it leaves the lock alone, or removes the file, which it has   *)
(* found or finds to name nobody valid; it takes the lock, which it has    *)
(* found so; or it lets go of it.                                          *)
Judges == {"take", "recover", "recovering", "recoverUnlock"}
Moved(p) ==
    /\ where' = [where EXCEPT ![p] = where'[p]]
    /\ where[p] \notin {"off", "gone"} /\ where'[p] \in Places \ {"off", "gone"}
    /\ where'[p] \in Asks => where[p] \in Asks
    /\ where'[p] \in Starts => where[p] \in Starts
    /\ where'[p] = "mission" => cmd[p] = "mission"
    /\ where[p] = "look" /\ where'[p] = "end" => LockValid
    /\ where'[p] \in Judges => where[p] \in Judges \/ LockOrphaned
    /\ signal' \in [Procs -> Signals]
    /\ UNCHANGED <<alive, cmd, beat, lapses>>
    /\ \/ /\ holds' = holds /\ (where[p] \in Executes <=> where'[p] \in Executes)
          /\ \/ lockFile' = lockFile
             \/ lockFile' = NoLock /\ (where[p] \in Judges \/ LockOrphaned)
       \/ /\ where[p] = "take" /\ where'[p] = "load"
          /\ holds' = holds \cup {p} /\ lockFile' = LockOf(p)
       \/ /\ where[p] \in Executes /\ where'[p] = "end"
          /\ holds' = holds \ {p} /\ lockFile' = NoLock

(* What it does to the mission it has loaded and to the file: it loads, it *)
(* leaves or saves its copy, it changes or saves all but the status, or it gives *)
(* a mission that is not over a new status and saves it.                   *)
Reads(p) ==
    /\ Loads(p) /\ disk' = disk
    /\ where'[p] \in Open => disk.status \notin Terminal
Keeps(p) ==
    /\ copy' = copy /\ (disk' = disk \/ (where[p] \in Knows /\ disk' = copy[p]))
    /\ where'[p] \in Knows => where[p] \in Knows
    /\ where'[p] \in Open => where[p] \in Open
Changes(p) ==
    /\ where[p] \in Open /\ (disk' = disk \/ disk' = copy'[p])
    /\ \E m \in Missions : m.status = copy[p].status /\ copy' = [copy EXCEPT ![p] = m]
Saves(p) ==
    /\ where[p] \in Knows /\ (where[p] \in Open \/ copy[p].status \notin Terminal)
    /\ \E s \in Statuses : Becomes(p, s) /\ (where'[p] \in Open => s \notin Terminal)
Files(p) == Reads(p) \/ Keeps(p) \/ Changes(p) \/ Saves(p)

(* Who uses the worktree has just made it or used it before.               *)
Housed(p) ==
    /\ tree' \in BOOLEAN
    /\ where'[p] \in Shelters => tree' = TRUE \/ (where[p] \in Shelters /\ tree' = tree)

Step(p) == Moved(p) /\ Files(p) /\ Housed(p)

(* What is known of a process that takes a step.                           *)
Before(p) ==
    /\ p \in Procs /\ DOMAIN where = Procs /\ where[p] \in Places
    /\ signal \in [Procs -> Signals] /\ cmd[p] \in Commands /\ tree \in BOOLEAN
    /\ copy \in [Procs -> Missions \cup {NoMission}]
    /\ where[p] \in Knows => copy[p] \in Missions

(* A status the state machine allows is one, and not that of a mission     *)
(* that is over.                                                           *)
LEMMA AllowedIs ==
    ASSUME NEW p \in Procs, copy[p] \in Missions, NEW s, MayBecome(p, s)
    PROVE  s \in Statuses /\ copy[p].status \notin Terminal
PROOF
<1>1. copy[p].status \in Statuses
  BY DEF Missions
<1>2. \A u \in Statuses :
          Allowed[u] \subseteq Statuses /\ (u \in Terminal => Allowed[u] = {})
  BY DEF Allowed, Statuses, Terminal
<1> QED
  BY <1>1, <1>2 DEF MayBecome

(* A step of a command, up to the lock.                                    *)
LEMMA CommandStepIs ==
    ASSUME NEW p, Before(p), CommandStep(p), ~Create(p), ~Exit(p)
    PROVE  Step(p)
PROOF
<1> USE DEF Before, ProcGoes, Step, Moved, Housed, Knows, Open, Works, Shelters, Asks, Starts,
            Executes, Judges, Places, shared, lockVars
<1>1. CASE Scan(p)
  BY <1>1, ControlAssumption DEF Scan, Keeps, Files
<1>2. CASE Sweep(p)
  BY <1>2, ControlAssumption DEF Sweep, Keeps, Files
<1>3. CASE NotFound(p)
  BY <1>3 DEF NotFound, Keeps, Files
<1>4. CASE ResumeLoad(p)
  BY <1>4 DEF ResumeLoad, Reads, Files, Suspended, Terminal
<1>5. CASE ResumeSave(p)
  BY <1>5 DEF ResumeSave, Saves, Files, Statuses, Terminal
<1>6. CASE PauseLoad(p)
  BY <1>6 DEF PauseLoad, Reads, Files, Active
<1>7. CASE PauseSave(p)
  BY <1>7, AllowedIs DEF PauseSave, BecomesIfAllowed, Saves, Keeps, Files, Terminal
<1>8. CASE CancelLoad(p)
  BY <1>8 DEF CancelLoad, Reads, Files, Terminal
<1>9. CASE CancelTree(p)
  BY <1>9 DEF CancelTree, Keeps, Files
<1>10. CASE CancelSave(p)
  BY <1>10, AllowedIs DEF CancelSave, BecomesIfAllowed, Saves, Keeps, Files, Terminal
<1>11. CASE OrphanCheck(p)
  BY <1>11 DEF OrphanCheck, OrphanState, Keeps, Files
<1>12. CASE RecoverLoad(p)
  BY <1>12 DEF RecoverLoad, Reads, Files
<1>13. CASE RecoverSave(p)
  BY <1>13, AllowedIs DEF RecoverSave, BecomesIfAllowed, Saves, Keeps, Files, Terminal
<1>14. CASE RecoverUnlock(p)
  BY <1>14 DEF RecoverUnlock, Keeps, Files, ReleaseLock
<1>15. CASE Retry(p)
  BY <1>15 DEF Retry, OrphanState, Reads, Files, ReleaseLock
<1>16. CASE Restart(p)
  BY <1>16, AllowedIs DEF Restart, BecomesIfAllowed, Saves, Keeps, Files, Terminal
<1> QED
  BY <1>1, <1>2, <1>3, <1>4, <1>5, <1>6, <1>7, <1>8, <1>9, <1>10, <1>11, <1>12, <1>13, <1>14,
     <1>15, <1>16 DEF CommandStep

(* A step of an execution, up to the loop.                                 *)
LEMMA PrepareStepIs ==
    ASSUME NEW p, Before(p), PrepareStep(p)
    PROVE  Step(p)
PROOF
<1> USE DEF Before, ProcGoes, Step, Moved, Housed, Knows, Open, Works, Shelters, Asks, Starts,
            Executes, Judges, Places, shared, lockVars
<1>1. CASE Look(p)
  BY <1>1 DEF Look, LockOrphaned, Keeps, Files
<1>2. CASE Take(p)
  BY <1>2 DEF Take, Keeps, Files, TakeLock
<1>3. CASE Load(p)
  BY <1>3 DEF Load, Reads, Files, Terminal
<1>4. CASE Restore(p)
  BY <1>4 DEF Restore, Keeps, Files
<1>5. CASE Setup(p)
  BY <1>5 DEF Setup, Changes, Files, MakesTree, Missions
<1>6. CASE SaveSetup(p)
  BY <1>6 DEF SaveSetup, Keeps, Files
<1>7. CASE GiveUp(p)
  BY <1>7 DEF GiveUp, Keeps, Files
<1>8. CASE RouteTasks(p)
  BY <1>8 DEF RouteTasks, Keeps, Files
<1>9. CASE RouteDirect(p)
  BY <1>9, AllowedIs DEF RouteDirect, BecomesIfAllowed, Saves, Keeps, Files, Terminal
<1>10. CASE RoutePlanning(p)
  BY <1>10, AllowedIs DEF RoutePlanning, BecomesIfAllowed, Saves, Keeps, Files, Terminal
<1>11. CASE Plan(p) \/ PlanFails(p)
  <2>1. CASE Plan(p)
    BY <2>1 DEF Plan, Planned, Changes, Files, Missions
  <2>2. CASE PlanFails(p)
    BY <2>2 DEF PlanFails, Planned, Keeps, Changes, Files, Missions
  <2> QED
    BY <1>11, <2>1, <2>2
<1>12. CASE DirectDone(p)
  BY <1>12 DEF DirectDone, Saves, Files, Statuses, Terminal
<1>13. CASE DirectFails(p)
  BY <1>13 DEF DirectFails, Keeps, Files
<1>14. CASE StartLoop(p)
  BY <1>14 DEF StartLoop, Reads, Keeps, Changes, Saves, Files, Statuses, Terminal, Missions
<1> QED
  BY <1>1, <1>2, <1>3, <1>4, <1>5, <1>6, <1>7, <1>8, <1>9, <1>10, <1>11, <1>12, <1>13, <1>14
     DEF PrepareStep

(* A step of the loop.                                                     *)
LEMMA LoopStepIs ==
    ASSUME NEW p, Before(p), LoopStep(p)
    PROVE  Step(p)
PROOF
<1> USE DEF Before, ProcGoes, Step, Moved, Housed, Knows, Open, Works, Shelters, Asks, Starts,
            Executes, Judges, Places, shared, lockVars
<1>1. CASE LeaveLoop(p)
  BY <1>1 DEF LeaveLoop, Saves, Files, Statuses, Terminal
<1>2. CASE PauseSignal(p)
  BY <1>2 DEF PauseSignal, Saves, Files, Statuses, Terminal
<1>3. CASE CancelSignal(p)
  BY <1>3 DEF CancelSignal, Saves, Files, Statuses, Terminal
<1>4. CASE Work(p)
  BY <1>4 DEF Work, Keeps, Files
<1>5. CASE Iterate(p)
  BY <1>5 DEF Iterate, Keeps, Files
<1>6. CASE Escalate(p)
  BY <1>6 DEF Escalate, Saves, Files, Statuses, Terminal
<1>7. CASE ErrorInLoop(p)
  BY <1>7 DEF ErrorInLoop, Keeps, Files
<1> QED
  BY <1>1, <1>2, <1>3, <1>4, <1>5, <1>6, <1>7 DEF LoopStep

(* A step of the end of an execution.                                      *)
LEMMA EndStepIs ==
    ASSUME NEW p, Before(p), EndStep(p)
    PROVE  Step(p)
PROOF
<1> USE DEF Before, ProcGoes, Step, Moved, Housed, Knows, Open, Works, Shelters, Asks, Starts,
            Executes, Judges, Places, shared, lockVars
<1>1. CASE Verify(p)
  BY <1>1 DEF Verify, Reads, Keeps, Changes, Saves, Files, Statuses, Terminal, Missions
<1>2. CASE CompleteTree(p)
  BY <1>2 DEF CompleteTree, Keeps, Files
<1>3. CASE CompleteFails(p)
  BY <1>3 DEF CompleteFails, Keeps, Files
<1>4. CASE CompleteSave(p)
  BY <1>4 DEF CompleteSave, Saves, Files, Statuses, Terminal
<1>5. CASE FailTree(p)
  BY <1>5 DEF FailTree, Keeps, Files
<1>6. CASE FailSave(p)
  BY <1>6 DEF FailSave, Reads, Keeps, Changes, Saves, Files, Statuses, Terminal,
              Missions, StillOpen
<1>7. CASE Unlock(p)
  BY <1>7 DEF Unlock, Keeps, Files, DropGuard
<1> QED
  BY <1>1, <1>2, <1>3, <1>4, <1>5, <1>6, <1>7 DEF EndStep

(* The step that creates the mission.                                      *)
LEMMA CreateIs ==
    ASSUME NEW p, Before(p), Create(p)
    PROVE  Moved(p) /\ where[p] = "mission" /\ where'[p] = "look" /\ disk' = Fresh
           /\ copy' = copy /\ tree' = tree
PROOF
  BY DEF Before, Create, ProcGoes, Moved, Places, Judges, Asks, Starts, Executes, Works,
         Shelters, Signals, lockVars

(* The step that drops an execution where it stands.                       *)
LEMMA ForceQuitIs ==
    ASSUME NEW p, Before(p), ForceQuit(p)
    PROVE  Step(p)
PROOF
  BY DEF Before, ForceQuit, Executing, DropGuard, Step, Moved, Files, Keeps, Housed,
         Places, Judges, Asks, Starts, Executes, Works, Shelters, Knows, Open, shared

(* The places and the lock after a step of a process.                      *)
LEMMA MovedKeeps ==
    ASSUME Locks, Lives, Unnamed, NEW p \in Procs, Moved(p)
    PROVE  Locks' /\ Lives' /\ Unnamed'
PROOF
<1>1. where[p] \in Places /\ where'[p] \in Places /\ \A q \in Procs \ {p} : where'[q] = where[q]
  BY DEF Lives, Moved
<1>2. LockOf(p) \in [pid : Procs, stale : BOOLEAN] /\ LockOf(p).pid = p
  BY DEF LockOf
<1>3. Locks'
  BY <1>2 DEF Locks, Moved
<1>4. holds' = {q \in Procs : where'[q] \in Executes}
  <2>1. "load" \in Executes /\ "end" \notin Executes
    BY DEF Executes, Works, Shelters
  <2>2. \/ holds' = holds /\ (where[p] \in Executes <=> where'[p] \in Executes)
        \/ where'[p] = "load" /\ holds' = holds \cup {p}
        \/ where'[p] = "end" /\ holds' = holds \ {p}
    BY DEF Moved
  <2>3. holds = {q \in Procs : where[q] \in Executes}
    BY DEF Lives
  <2> QED
    BY <1>1, <2>1, <2>2, <2>3
<1>5. where' \in [Procs -> Places] /\ alive' = {q \in Procs : where'[q] \notin {"off", "gone"}}
  BY <1>1 DEF Lives, Moved
<1>6. Lives'
  BY <1>4, <1>5 DEF Lives, Moved
<1>7. "load" \notin Asks \cup {"off"}
  BY DEF Asks, Starts
<1>8. ASSUME NEW q \in Procs, where'[q] \in Asks \cup {"off"}
      PROVE  (lockFile' # NoLock => lockFile'.pid # q) /\ \A r \in Procs : beat'[r] # q
  <2>1. where[q] \in Asks \cup {"off"}
    BY <1>1, <1>8 DEF Moved
  <2>2. lockFile' = lockFile \/ lockFile' = NoLock \/ (lockFile' = LockOf(p) /\ q # p)
    BY <1>7, <1>8 DEF Moved
  <2> QED
    BY <1>2, <2>1, <2>2 DEF Unnamed, Moved
<1> QED
  BY <1>3, <1>6, <1>8 DEF Unnamed

(* A copy that is read, kept, changed or saved stays a mission.            *)
LEMMA FilesKeep ==
    ASSUME Copies, NEW p \in Procs, where' = [where EXCEPT ![p] = where'[p]],
           DOMAIN where = Procs, Files(p), tree' \in BOOLEAN
    PROVE  Copies'
PROOF
<1>1. \A q \in Procs \ {p} : where'[q] = where[q]
  OBVIOUS
<1>2. CASE Reads(p)
  BY <1>1, <1>2 DEF Reads, Loads, Copies
<1>3. CASE Keeps(p)
  BY <1>1, <1>3 DEF Keeps, Copies
<1>4. CASE Changes(p)
  BY <1>1, <1>4 DEF Changes, Copies
<1>5. CASE Saves(p)
  <2>1. PICK s \in Statuses : Becomes(p, s)
    BY <1>5 DEF Saves
  <2>2. copy[p] \in Missions
    BY <1>5 DEF Saves, Copies
  <2>3. PICK m : m = [copy[p] EXCEPT !.status = s]
    OBVIOUS
  <2>4. m \in Missions
    BY <2>2, <2>3 DEF Missions
  <2>5. copy' = [copy EXCEPT ![p] = m] /\ disk' = m
    BY <2>1, <2>3 DEF Becomes, Copies
  <2> QED
    BY <1>1, <2>4, <2>5 DEF Copies
<1> QED
  BY <1>2, <1>3, <1>4, <1>5 DEF Files

(* A process that is gone leaves everything but itself behind.             *)
LEMMA DieKeeps ==
    ASSUME ControlInv, NEW p \in Procs, p \in alive,
           where' = [where EXCEPT ![p] = "gone"], Die(p),
           UNCHANGED <<shared, copy, cmd, signal>>
    PROVE  ControlInv'
PROOF
<1>1. "gone" \in Places /\ "gone" \notin Executes \cup Knows \cup Asks
  BY DEF Places, Executes, Works, Shelters, Knows, Open, Asks, Starts
<1>2. \A q \in Procs \ {p} : where'[q] = where[q]
  BY DEF ControlInv, Lives
<1>3. where'[p] = "gone" /\ where' \in [Procs -> Places]
  BY <1>1 DEF ControlInv, Lives
<1>4. IsFiniteSet(alive')
  BY FS_RemoveElement DEF ControlInv, Lives, Die
<1>5. /\ alive' = {q \in Procs : where'[q] \notin {"off", "gone"}}
      /\ holds' = {q \in Procs : where'[q] \in Executes}
  BY <1>1, <1>2, <1>3 DEF ControlInv, Lives, Die
<1>6. Lives'
  BY <1>3, <1>4, <1>5 DEF ControlInv, Lives, Die
<1>7. Locks'
  BY DEF ControlInv, Locks, Die
<1>8. Copies'
  BY <1>1, <1>2, <1>3 DEF ControlInv, Copies, shared
<1>9. Unnamed'
  BY <1>1, <1>2, <1>3, LockAssumption DEF ControlInv, Unnamed, Die, Locks
<1> QED
  BY <1>6, <1>7, <1>8, <1>9 DEF ControlInv

(* A process that starts knows nothing.                                    *)
LEMMA StartKeeps ==
    ASSUME ControlInv, NEW p \in Procs, NEW c \in Commands, Start(p, c)
    PROVE  ControlInv'
PROOF
<1>1. "scan" \in Places /\ "scan" \in Asks /\ "scan" \notin Executes \cup Knows
  BY DEF Places, Executes, Works, Shelters, Knows, Open, Asks, Starts
<1>2. /\ where[p] = "off" /\ where'[p] = "scan" /\ \A q \in Procs \ {p} : where'[q] = where[q]
      /\ where' \in [Procs -> Places] /\ "off" \notin Executes
  BY <1>1 DEF ControlInv, Lives, Start, ProcGoes, Executes, Works, Shelters
<1>3. IsFiniteSet(alive')
  BY FS_AddElement DEF ControlInv, Lives, Start
<1>4. /\ alive' = {q \in Procs : where'[q] \notin {"off", "gone"}}
      /\ holds' = {q \in Procs : where'[q] \in Executes}
  BY <1>1, <1>2 DEF ControlInv, Lives, Start
<1>5. cmd' \in [Procs -> Commands \cup {"none"}] /\ \A q \in alive' : cmd'[q] \in Commands
  BY DEF ControlInv, Lives, Start
<1>6. Lives'
  BY <1>2, <1>3, <1>4, <1>5 DEF ControlInv, Lives, Start
<1>7. Locks'
  BY DEF ControlInv, Locks, Start
<1>8. Copies'
  BY <1>1, <1>2 DEF ControlInv, Copies, Start, shared
<1>9. Unnamed'
  BY <1>1, <1>2 DEF ControlInv, Unnamed, Start
<1> QED
  BY <1>6, <1>7, <1>8, <1>9 DEF ControlInv

(* The heartbeat and the passing of time change the lock, but no name in   *)
(* it except to one a heartbeat has read.                                  *)
LEMMA TimeKeeps ==
    ASSUME ControlInv,
           Age \/ \E p \in Procs :
               Heartbeat(p) \/ \E s \in {"pause", "cancel"} : Send(p, s)
    PROVE  ControlInv'
PROOF
<1>1. /\ UNCHANGED <<alive, holds, disk, tree, copy, where, cmd>>
      /\ signal' \in [Procs -> Signals]
  BY DEF Age, Lapse, Heartbeat, BeatRead, BeatWrite, Send, shared,
         lockVars, ControlInv, Lives,
         Signals
<1>2. Lives' /\ Copies'
  BY <1>1 DEF ControlInv, Lives, Copies
<1>3. CASE Age
  <2>1. lockFile \in [pid : Procs, stale : BOOLEAN]
    BY <1>3 DEF ControlInv, Locks, Age, Lapse
  <2>2. lockFile' \in [pid : Procs, stale : BOOLEAN] /\ lockFile'.pid = lockFile.pid
    BY <1>3, <2>1 DEF Age, Lapse
  <2>3. lapses' \in 0..MaxLapses /\ beat' = beat
    BY <1>3, LockAssumption DEF ControlInv, Locks, Age, Lapse
  <2>4. lockFile # NoLock
    BY <1>3 DEF Age, Lapse
  <2> QED
    BY <1>1, <1>2, <2>2, <2>3, <2>4 DEF ControlInv, Locks, Unnamed
<1>4. ASSUME NEW p \in Procs, Heartbeat(p) PROVE ControlInv'
  <2>1. CASE BeatRead(p)
    <3>1. /\ lockFile' = lockFile /\ lapses' = lapses
          /\ lockFile \in [pid : Procs, stale : BOOLEAN] /\ lockFile # NoLock
          /\ beat' = [beat EXCEPT ![p] = lockFile.pid]
      BY <2>1 DEF BeatRead, ControlInv, Locks
    <3>2. beat' \in [Procs -> Procs \cup {NoLock}]
          /\ \A q \in Procs : beat'[q] \in {beat[q], lockFile.pid}
      BY <3>1 DEF ControlInv, Locks
    <3> QED
      BY <1>1, <1>2, <3>1, <3>2 DEF ControlInv, Locks, Unnamed
  <2>2. CASE BeatWrite(p)
    <3>1. /\ beat[p] \in Procs /\ lapses' = lapses
          /\ lockFile' = [pid |-> beat[p], stale |-> FALSE]
          /\ beat' = [beat EXCEPT ![p] = NoLock]
      BY <2>2 DEF BeatWrite, LockOf, ControlInv, Locks
    <3>2. beat' \in [Procs -> Procs \cup {NoLock}]
          /\ \A q \in Procs : beat'[q] \in {beat[q], NoLock}
      BY <3>1 DEF ControlInv, Locks
    <3>3. lockFile' \in [pid : Procs, stale : BOOLEAN] /\ lockFile'.pid = beat[p]
      BY <3>1
    <3> QED
      BY <1>1, <1>2, <3>1, <3>2, <3>3, LockAssumption DEF ControlInv, Locks, Unnamed
  <2> QED
    BY <1>4, <2>1, <2>2 DEF Heartbeat
<1>5. ASSUME NEW p \in Procs, NEW s \in {"pause", "cancel"}, Send(p, s) PROVE ControlInv'
  BY <1>1, <1>2, <1>5 DEF Send, lockVars, ControlInv, Locks, Unnamed
<1> QED
  BY <1>3, <1>4, <1>5

(* Every step of a process keeps the invariant.                            *)
LEMMA StepKeeps ==
    ASSUME ControlInv, NEW p \in Procs,
           Step(p) \/ (Moved(p) /\ disk' = Fresh /\ where'[p] = "look"
                       /\ copy' = copy /\ tree' = tree)
    PROVE  ControlInv'
PROOF
<1>1. Moved(p) /\ DOMAIN where = Procs
  BY DEF Step, ControlInv, Lives
<1>2. Locks' /\ Lives' /\ Unnamed'
  BY <1>1, MovedKeeps DEF ControlInv
<1>3. CASE Step(p)
  <2>1. Copies'
    BY <1>1, <1>3, FilesKeep DEF ControlInv, Step, Moved, Housed
  <2> QED
    BY <1>2, <2>1 DEF ControlInv
<1>4. CASE disk' = Fresh /\ where'[p] = "look" /\ copy' = copy /\ tree' = tree
  <2>1. Fresh \in Missions /\ "look" \notin Knows
    BY DEF Fresh, Missions, Statuses, Knows, Open, Works, Shelters
  <2>2. \A q \in Procs \ {p} : where'[q] = where[q]
    BY <1>1 DEF Moved
  <2>3. Copies'
    BY <1>4, <2>1, <2>2 DEF ControlInv, Copies
  <2> QED
    BY <1>2, <2>3 DEF ControlInv
<1> QED
  BY <1>3, <1>4

(* What a step of Next is: of a process, or of what happens to it.         *)
LEMMA NextIs ==
    ASSUME ControlInv, ControlNext
    PROVE  \/ \E p \in Procs, c \in Commands : Start(p, c)
           \/ \E p \in Procs : Before(p) /\ Step(p)
           \/ \E p \in Procs : Before(p) /\ Create(p)
           \/ \E p \in Procs :
                /\ p \in alive /\ where' = [where EXCEPT ![p] = "gone"] /\ Die(p)
                /\ UNCHANGED <<shared, copy, cmd, signal>>
           \/ Age
           \/ \E p \in Procs : Heartbeat(p) \/ \E s \in {"pause", "cancel"} : Send(p, s)
PROOF
<1>1. ASSUME NEW p \in Procs, where[p] \notin {"off", "gone"} PROVE Before(p)
  BY <1>1 DEF Before, ControlInv, Lives, Copies
<1>2. ASSUME NEW p \in Procs, ProcStep(p)
      PROVE  \/ Before(p) /\ (Step(p) \/ Create(p))
             \/ /\ p \in alive /\ where' = [where EXCEPT ![p] = "gone"] /\ Die(p)
                /\ UNCHANGED <<shared, copy, cmd, signal>>
  <2>1. where[p] \notin {"off", "gone"}
    <3>1. CASE CommandStep(p)
      <4>1. CASE Scan(p) \/ Sweep(p) \/ Create(p) \/ ResumeLoad(p)
                 \/ ResumeSave(p)
        BY <4>1 DEF ProcGoes, Scan, Sweep, Create, ResumeLoad, ResumeSave
      <4>2. CASE NotFound(p)
        BY <4>2 DEF ProcGoes, NotFound
      <4>3. CASE PauseLoad(p) \/ PauseSave(p) \/ CancelLoad(p) \/ CancelTree(p)
                 \/ CancelSave(p)
        BY <4>3 DEF ProcGoes, PauseLoad, PauseSave, CancelLoad, CancelTree, CancelSave
      <4>4. CASE OrphanCheck(p) \/ RecoverLoad(p) \/ RecoverSave(p)
                 \/ RecoverUnlock(p) \/ Retry(p)
        BY <4>4 DEF ProcGoes, OrphanCheck, RecoverLoad, RecoverSave, RecoverUnlock, Retry
      <4>5. CASE Restart(p)
        BY <4>5 DEF ProcGoes, Restart
      <4>6. CASE Exit(p)
        BY <4>6 DEF ProcGoes, Exit
      <4> QED
        BY <3>1, <4>1, <4>2, <4>3, <4>4, <4>5, <4>6 DEF CommandStep
    <3>2. CASE PrepareStep(p)
      BY <3>2 DEF PrepareStep, ProcGoes, 
             Look, Take, Load, Restore, Setup, SaveSetup, GiveUp,
             RouteTasks, RouteDirect, RoutePlanning, Plan, PlanFails, DirectDone,
             DirectFails, StartLoop
    <3>3. CASE LoopStep(p)
      BY <3>3 DEF LoopStep, ProcGoes, 
             LeaveLoop, PauseSignal, CancelSignal, Work, Iterate,
             Escalate, ErrorInLoop
    <3>4. CASE EndStep(p)
      BY <3>4 DEF EndStep, ProcGoes, 
             Verify, CompleteTree, CompleteFails, CompleteSave, FailTree,
             FailSave, Unlock
    <3> QED
      BY <1>2, <3>1, <3>2, <3>3, <3>4 DEF ProcStep
  <2>2. Before(p)
    BY <1>1, <2>1
  <2>3. CASE Exit(p)
    BY <2>1, <2>3 DEF Exit, ProcGoes, ControlInv, Lives
  <2>4. CASE ~Exit(p)
    BY <1>2, <2>2, <2>4, CommandStepIs, PrepareStepIs, LoopStepIs, EndStepIs DEF ProcStep
  <2> QED
    BY <2>2, <2>3, <2>4
<1>3. ASSUME NEW p \in Procs, ForceQuit(p) PROVE Before(p) /\ Step(p)
  <2>1. where[p] \notin {"off", "gone"}
    BY <1>3 DEF ForceQuit, Executing
  <2> QED
    BY <1>1, <1>3, <2>1, ForceQuitIs
<1> QED
  BY <1>2, <1>3 DEF ControlNext, ProcCrash

(* Every step keeps the invariant.                                         *)
LEMMA NextControl ==
    ASSUME ControlInv, [ControlNext]_controlVars
    PROVE  ControlInv'
PROOF
<1>1. CASE UNCHANGED controlVars
  BY <1>1 DEF controlVars, ControlInv, Locks, Lives, Copies, Unnamed
<1>2. CASE ControlNext
  <2>1. ASSUME NEW p \in Procs, Before(p), Create(p) PROVE ControlInv'
    BY <2>1, CreateIs, StepKeeps
  <2> QED
    BY <1>2, <2>1, NextIs, StartKeeps, StepKeeps, DieKeeps, TimeKeeps
<1> QED
  BY <1>1, <1>2
-----------------------------------------------------------------------------
(* A step of the only process keeps what is known of it.                   *)
LEMMA AloneStep ==
    ASSUME ControlInv, AloneControl, NEW p, Before(p), Step(p)
    PROVE  /\ AloneControl'
           /\ disk # NoMission /\ disk.status \in Terminal => disk'.status = disk.status
PROOF
<1> USE DEF ControlInv, AloneControl
<1>1. /\ p \in Procs /\ p \in alive /\ alive' = alive /\ cmd' = cmd /\ beat' = beat
      /\ \A q \in Procs \ {p} : where'[q] = where[q] /\ where[q] \in {"off", "gone"}
  BY DEF Step, Moved, Before, Lives, Single
<1>3. /\ {"off", "gone"} \cap (Executes \cup Knows \cup Shelters \cup Starts) = {}
      /\ "end" \notin Executes /\ Starts \cap Knows = {}
  BY DEF Executes, Works, Shelters, Knows, Open, Starts
<1>4. Single'
  BY <1>1 DEF Single
<1>7. Sheltered'
  <2>1. where'[p] \in Shelters => tree'
    BY <1>1 DEF Step, Housed, Sheltered
  <2> QED
    BY <1>1, <1>3, <2>1 DEF Sheltered
<1>8. where[p] \in Knows =>
          /\ disk \in Missions /\ copy[p] \in Missions /\ copy[p].status = disk.status
          /\ where[p] \in Open => disk.status \notin Terminal
  BY <1>1 DEF Current, Copies
<1>9. /\ where'[p] \in Knows =>
            /\ disk' \in Missions /\ copy'[p].status = disk'.status
            /\ where'[p] \in Open => disk'.status \notin Terminal
      /\ disk # NoMission /\ disk.status \in Terminal => disk'.status = disk.status
      /\ where[p] \notin Knows => disk' = disk
  <2>0. Open \subseteq Knows /\ copy \in [Procs -> Missions \cup {NoMission}]
        /\ disk \in Missions \cup {NoMission}
    BY DEF Knows, Copies
  <2>1. CASE Reads(p)
    BY <1>1, <2>0, <2>1 DEF Reads, Loads
  <2>2. CASE Keeps(p)
    BY <1>1, <1>8, <2>0, <2>2 DEF Keeps
  <2>3. CASE Changes(p)
    BY <1>1, <1>8, <2>0, <2>3 DEF Changes
  <2>4. CASE Saves(p)
    <3>1. PICK s \in Statuses :
              Becomes(p, s) /\ (where'[p] \in Open => s \notin Terminal)
      BY <2>4 DEF Saves
    <3>2. PICK m : m = [copy[p] EXCEPT !.status = s]
      OBVIOUS
    <3>3. where[p] \in Knows /\ copy[p] \in Missions /\ disk.status \notin Terminal
      BY <1>8, <2>4 DEF Saves
    <3>4. m \in Missions /\ m.status = s
      BY <3>2, <3>3 DEF Missions
    <3>5. copy'[p] = m /\ disk' = m
      BY <1>1, <2>0, <3>1, <3>2 DEF Becomes
    <3> QED
      BY <3>1, <3>3, <3>4, <3>5
  <2> QED
    BY <2>1, <2>2, <2>3, <2>4 DEF Step, Files
<1>10. Current'
  BY <1>1, <1>3, <1>9 DEF Current
<1>11. Founding'
  <2>1. where'[p] # "off" /\ (where'[p] \in Starts => where[p] \in Starts)
    BY DEF Step, Moved
  <2>2. where[p] \in Starts => disk' = disk
    BY <1>3, <1>9
  <2> QED
    BY <1>1, <1>3, <2>1, <2>2 DEF Founding
<1> QED
  BY <1>4, <1>7, <1>9, <1>10, <1>11

(* `mission` creates the file: there was none.                             *)
LEMMA AloneCreate ==
    ASSUME ControlInv, AloneControl, NEW p, Before(p), Create(p)
    PROVE  AloneControl' /\ disk = NoMission
PROOF
<1> USE DEF ControlInv, AloneControl
<1>1. /\ Moved(p) /\ where[p] = "mission" /\ where'[p] = "look" /\ disk' = Fresh
      /\ copy' = copy /\ tree' = tree
  BY CreateIs
<1>2. /\ p \in Procs /\ p \in alive /\ alive' = alive /\ cmd' = cmd /\ beat' = beat
      /\ \A q \in Procs \ {p} : where'[q] = where[q] /\ where[q] \in {"off", "gone"}
      /\ cmd[p] = "mission"
  BY <1>1 DEF Moved, Before, Lives, Single, Create, ProcGoes
<1>3. {"off", "gone", "look"} \cap (Executes \cup Knows \cup Shelters \cup Starts) = {}
  BY DEF Executes, Works, Shelters, Knows, Open, Starts
<1>4. disk = NoMission
  BY <1>1, <1>2 DEF Founding, Starts
<1> QED
  BY <1>1, <1>2, <1>3, <1>4 DEF Single, Current, Sheltered, Founding

(* A process that is gone is not missed.                                   *)
LEMMA AloneDie ==
    ASSUME ControlInv, AloneControl, NEW p \in Procs, p \in alive,
           where' = [where EXCEPT ![p] = "gone"], Die(p),
           UNCHANGED <<shared, copy, cmd, signal>>
    PROVE  AloneControl' /\ disk' = disk
PROOF
<1> USE DEF ControlInv, AloneControl
<1>1. \A q \in Procs : where'[q] \in {"off", "gone"} /\ (q # p => where'[q] = where[q])
  BY DEF Lives, Single
<1>2. {"off", "gone"} \cap (Executes \cup Knows \cup Shelters \cup Starts) = {}
  BY DEF Executes, Works, Shelters, Knows, Open, Starts
<1>3. alive' \subseteq alive /\ disk' = disk /\ where'[p] = "gone"
  BY DEF Die, shared, Lives
<1> QED
  BY <1>1, <1>2, <1>3 DEF Single, Current, Sheltered, Founding

(* A process starts when no other is alive.                                *)
LEMMA AloneStart ==
    ASSUME MaxAlive = 1, ControlInv, AloneControl, NEW p \in Procs, NEW c \in Commands,
           Start(p, c)
    PROVE  AloneControl' /\ disk' = disk
PROOF
<1> USE DEF ControlInv, AloneControl
<1>1. alive = {}
  <2>1. Cardinality(alive) < 1 /\ Cardinality(alive) \in Nat /\ IsFiniteSet(alive)
    <3>1. Cardinality(alive) = Cardinality(alive)
      BY DEF Cardinality, Cardinality
    <3> QED
      BY <3>1, FS_CardinalityType DEF Start, Lives
  <2>2. Cardinality(alive) = 0
    BY <2>1
  <2> QED
    BY <2>1, <2>2, FS_EmptySet
<1>2. /\ where[p] = "off" /\ where'[p] = "scan" /\ alive' = {p} /\ disk' = disk /\ cmd'[p] = c
      /\ \A q \in Procs \ {p} : where'[q] = where[q] /\ where[q] \in {"off", "gone"}
      /\ c = "mission" => \A q \in Procs : where[q] = "off"
      /\ disk' = disk /\ tree' = tree
  BY <1>1 DEF Start, ProcGoes, Lives, shared
<1>3. {"off", "gone", "scan"} \cap (Executes \cup Knows \cup Shelters) = {}
      /\ {"off", "gone"} \cap Starts = {}
  BY DEF Executes, Works, Shelters, Knows, Open, Starts
<1> QED
  BY <1>2, <1>3 DEF Single, Current, Sheltered, Founding

(* Time, heartbeats and signals leave the mission alone.                   *)
LEMMA AloneTime ==
    ASSUME ControlInv, AloneControl,
           Age \/ \E p \in Procs :
               Heartbeat(p) \/ \E s \in {"pause", "cancel"} : Send(p, s)
    PROVE  AloneControl' /\ disk' = disk
PROOF
<1>1. UNCHANGED <<alive, disk, tree, copy, where, cmd>>
  BY DEF Age, Lapse, Heartbeat, BeatRead, BeatWrite, Send, shared, lockVars
<1> QED
  BY <1>1 DEF AloneControl, Single, Current, Sheltered, Founding

(* Every step keeps what is known of a process alone, and a mission that   *)
(* is over.                                                                *)
LEMMA NextAlone ==
    ASSUME MaxAlive = 1, ControlInv, AloneControl, [ControlNext]_controlVars
    PROVE  /\ AloneControl'
           /\ disk # NoMission /\ disk.status \in Terminal => disk'.status = disk.status
PROOF
<1>1. CASE UNCHANGED controlVars
  BY <1>1 DEF controlVars, AloneControl, Single, Current, Sheltered, Founding
<1>2. CASE ControlNext
  BY <1>2, NextIs, AloneStart, AloneStep, AloneCreate, AloneDie, AloneTime
<1> QED
  BY <1>1, <1>2

(* At first nothing runs and nothing is there.                             *)
LEMMA InitControl ==
    ASSUME ControlInit
    PROVE  ControlInv /\ AloneControl
PROOF
<1> USE DEF ControlInit, LockInit
<1>1. /\ "off" \in Places
      /\ {"off", "gone"} \cap (Executes \cup Knows \cup Shelters \cup Starts) = {}
  BY DEF Places, Executes, Works, Shelters, Knows, Open, Starts
<1>2. Locks
  BY LockAssumption DEF Locks
<1>3. Lives
  BY <1>1, FS_EmptySet DEF Lives, Signals
<1>4. Copies
  BY <1>1 DEF Copies
<1>5. Unnamed
  BY LockAssumption DEF Unnamed
<1> QED
  BY <1>1, <1>2, <1>3, <1>4, <1>5
     DEF ControlInv, AloneControl, Single, Current, Sheltered, Founding
-----------------------------------------------------------------------------
(* The inductive invariant holds, however many processes run.              *)
THEOREM ControlInvariance == ControlSpec => []ControlInv
PROOF
<1>1. ControlInit => ControlInv
  BY InitControl
<1>2. ControlInv /\ [ControlNext]_controlVars => ControlInv'
  BY NextControl
<1> QED
  BY <1>1, <1>2, PTL DEF ControlSpec

(* Every variable keeps its type, and the holders of a guard are those     *)
(* that execute.                                                           *)
THEOREM ControlTypes == ControlSpec => []ControlTypeOK
PROOF
<1>1. ControlInv => ControlTypeOK
  <2> SUFFICES ASSUME ControlInv PROVE ControlTypeOK
    OBVIOUS
  <2>1. \A p \in Procs : p \in holds <=> Executing(p)
    BY DEF ControlInv, Lives, Executing, Executes, Works, Shelters
  <2>2. holds \subseteq alive
    BY DEF ControlInv, Lives, Executes, Works, Shelters
  <2> QED
    BY <2>1, <2>2 DEF ControlInv, ControlTypeOK, Locks, Lives, Copies, Signals
<1> QED
  BY <1>1, ControlInvariance, PTL

(* Any number of processes: a run is turned away from the lock only on     *)
(* account of another run that is alive, never by a lock of its own.       *)
THEOREM RefusalsAreByOthers == ControlSpec => RefusedOnlyByLiving
PROOF
<1> DEFINE Refused == \A p \in Procs : where[p] = "look" /\ where'[p] = "end" => alive # {p}
<1>1. ASSUME ControlInv, [ControlNext]_controlVars PROVE [Refused]_controlVars
  <2>1. SUFFICES ASSUME NEW p \in Procs, where[p] = "look", where'[p] = "end", ControlNext,
                        alive = {p}
                 PROVE  FALSE
    BY <1>1
  <2>2. lockFile # NoLock => lockFile.pid # p
    BY <1>1, <2>1 DEF ControlInv, Unnamed, Asks
  <2>3. ~LockValid
    BY <2>1, <2>2 DEF LockValid
  <2>4. ASSUME NEW q \in Procs, Before(q), Moved(q) PROVE FALSE
    <3>1. q = p
      BY <2>1, <2>4 DEF Moved, Before
    <3> QED
      BY <2>1, <2>3, <2>4, <3>1 DEF Moved
  <2>5. where[p] # where'[p]
    BY <2>1
  <2>6. ASSUME NEW q \in Procs, NEW to \in {"scan", "gone"}, where' = [where EXCEPT ![q] = to]
        PROVE  FALSE
    BY <1>1, <2>1, <2>6 DEF ControlInv, Lives
  <2> QED
    BY <1>1, <2>1, <2>4, <2>5, <2>6, NextIs, CreateIs
       DEF Start, ProcGoes, Step, Age, Heartbeat, Send
<1> HIDE DEF Refused
<1>2. ControlSpec => [][Refused]_controlVars
  BY <1>1, ControlInvariance, PTL DEF ControlSpec
<1> QED
  BY <1>2, PTL DEF Refused, RefusedOnlyByLiving

(* A look that finds no valid lock is taken while nobody executes.         *)
LEMMA OrphanedIsIdle ==
    ASSUME ControlInv, Exclusive, Timely, LockOrphaned, NEW q \in Procs
    PROVE  where[q] \notin Executes
PROOF
<1>1. SUFFICES ASSUME where[q] \in Executes PROVE FALSE
  OBVIOUS
<1>2. lockFile # NoLock /\ lockFile.pid = q /\ q \in alive
  <2>1. "off" \notin Executes /\ "gone" \notin Executes
    BY DEF Executes, Works, Shelters
  <2> QED
    BY <1>1, <2>1 DEF Exclusive, Named, ControlInv, Lives
<1>3. Executing(q)
  BY <1>1 DEF Executing, Executes, Works, Shelters
<1>4. lockFile.stale \in BOOLEAN
  BY <1>2 DEF ControlInv, Locks
<1> QED
  BY <1>2, <1>3, <1>4 DEF LockOrphaned, LockValid, Timely

(* A step of a process takes or removes the lock only while nobody else    *)
(* executes, and nobody is about to act on a look when it is taken.        *)
LEMMA ExclusiveStep ==
    ASSUME ControlInv, Exclusive, Timely, Undisturbed, NEW p \in Procs, Moved(p)
    PROVE  Exclusive'
PROOF
<1>1. /\ where[p] \in Places /\ where'[p] \in Places
      /\ \A q \in Procs \ {p} : where'[q] = where[q]
      /\ beat' = beat
  BY DEF ControlInv, Lives, Moved
<1>2. /\ LockOf(p) # NoLock /\ LockOf(p).pid = p
  <2>1. LockOf(p) \in [pid : Procs, stale : BOOLEAN]
    BY DEF LockOf
  <2> QED
    BY <2>1, LockAssumption DEF LockOf
<1>3. Judges \cap Executes = {} /\ "load" \in Executes /\ "end" \notin Executes \cup Judges
      /\ "load" \notin Judges
  BY DEF Judges, Executes, Works, Shelters
<1>4. \A q \in Procs : ActsOnLook(q) <=> where[q] \in Judges \/ beat[q] # NoLock
  BY DEF ActsOnLook, Judges
<1>5. \A q \in Procs : ActsOnLook(q)' <=> where'[q] \in Judges \/ beat[q] # NoLock
  BY <1>1 DEF ActsOnLook, Judges
<1>6. Beats'
  BY <1>1 DEF Exclusive, Beats
<1>7. \A q \in Procs : where[q] \in Executes => lockFile # NoLock /\ lockFile.pid = q
  BY DEF Exclusive, Named
<1>8. \A r, q \in Procs : ActsOnLook(r) /\ where[q] \in Executes => q = r
  BY DEF Exclusive, NobodyBetween
<1>9. LockOrphaned => \A q \in Procs : where[q] \notin Executes
  BY OrphanedIsIdle
<1>10. where[p] \in Judges => \A q \in Procs : where[q] \notin Executes
  BY <1>3, <1>4, <1>8
(* A new look finds nobody executing; an old one stays.                    *)
<1>11. ASSUME NEW r \in Procs, ActsOnLook(r)', ~ActsOnLook(r)
       PROVE  \A q \in Procs : where[q] \notin Executes
  <2>1. r = p /\ where'[p] \in Judges /\ where[p] \notin Judges
    BY <1>1, <1>4, <1>5, <1>11
  <2> QED
    BY <1>9, <2>1 DEF Moved
<1>12. CASE /\ holds' = holds /\ (where[p] \in Executes <=> where'[p] \in Executes)
            /\ \/ lockFile' = lockFile
               \/ lockFile' = NoLock /\ (where[p] \in Judges \/ LockOrphaned)
  <2>1. \A q \in Procs : where'[q] \in Executes <=> where[q] \in Executes
    BY <1>1, <1>12
  <2>2. Named'
    BY <1>7, <1>9, <1>10, <1>12, <2>1 DEF Named
  <2>3. NobodyBetween'
    BY <1>8, <1>11, <2>1 DEF NobodyBetween
  <2> QED
    BY <1>6, <2>2, <2>3 DEF Exclusive
<1>13. CASE /\ where[p] = "take" /\ where'[p] = "load"
            /\ holds' = holds \cup {p} /\ lockFile' = LockOf(p)
  <2>1. where[p] \in Judges
    BY <1>13 DEF Judges
  <2>2. \A q \in Procs : where'[q] \in Executes => q = p
    BY <1>1, <1>10, <2>1
  <2>3. Named'
    BY <1>2, <1>13, <2>2 DEF Named
  <2>4. p \notin holds
    BY <1>3, <2>1 DEF ControlInv, Lives
  <2>5. \A r \in Procs : ActsOnLook(r) => r = p
    BY <1>13, <2>4 DEF Undisturbed
  <2>6. \A r \in Procs : ActsOnLook(r)' => r = p
    BY <1>1, <1>4, <1>5, <2>5
  <2>7. NobodyBetween'
    BY <2>2, <2>6 DEF NobodyBetween
  <2> QED
    BY <1>6, <2>3, <2>7 DEF Exclusive
<1>14. CASE /\ where[p] \in Executes /\ where'[p] = "end"
            /\ holds' = holds \ {p} /\ lockFile' = NoLock
  <2>1. \A q \in Procs : where'[q] \notin Executes
    BY <1>1, <1>3, <1>7, <1>14
  <2> QED
    BY <1>6, <2>1 DEF Exclusive, Named, NobodyBetween
<1> QED
  BY <1>12, <1>13, <1>14 DEF Moved

(* A heartbeat reads its sender's own lock, for it holds one, and writes   *)
(* it back while nobody else executes.                                     *)
LEMMA ExclusiveBeat ==
    ASSUME ControlInv, Exclusive, NEW p \in Procs, Heartbeat(p)
    PROVE  Exclusive'
PROOF
<1>1. where' = where /\ beat \in [Procs -> Procs \cup {NoLock}]
  BY DEF Heartbeat, ControlInv, Locks
<1>2. \A q \in Procs : where[q] \in Executes => lockFile # NoLock /\ lockFile.pid = q
  BY DEF Exclusive, Named
<1>3. \A r, q \in Procs : ActsOnLook(r) /\ where[q] \in Executes => q = r
  BY DEF Exclusive, NobodyBetween
<1>4. CASE BeatRead(p)
  <2>1. where[p] \in Executes
    BY <1>4 DEF BeatRead, ControlInv, Lives
  <2>2. lockFile' = lockFile /\ beat' = [beat EXCEPT ![p] = p]
    BY <1>2, <1>4, <2>1 DEF BeatRead
  <2>3. Named' /\ Beats'
    BY <1>1, <1>2, <2>2 DEF Exclusive, Named, Beats
  <2>4. \A q \in Procs : where[q] \in Executes => q = p
    BY <1>2, <2>1
  <2>5. \A r \in Procs \ {p} : ActsOnLook(r)' => ActsOnLook(r)
    BY <1>1, <2>2 DEF ActsOnLook
  <2>6. NobodyBetween'
    BY <1>1, <1>3, <2>4, <2>5 DEF NobodyBetween
  <2> QED
    BY <2>3, <2>6 DEF Exclusive
<1>5. CASE BeatWrite(p)
  <2>1. beat[p] # NoLock /\ beat[p] = p
    BY <1>5 DEF BeatWrite, Exclusive, Beats
  <2>2. lockFile' = LockOf(p) /\ beat' = [beat EXCEPT ![p] = NoLock]
    BY <1>5, <2>1 DEF BeatWrite
  <2>3. LockOf(p) # NoLock /\ LockOf(p).pid = p
    <3>1. LockOf(p) \in [pid : Procs, stale : BOOLEAN]
      BY DEF LockOf
    <3> QED
      BY <3>1, LockAssumption DEF LockOf
  <2>4. \A q \in Procs : where[q] \in Executes => q = p
    BY <1>3, <2>1 DEF ActsOnLook
  <2>5. Named' /\ Beats'
    BY <1>1, <2>2, <2>3, <2>4 DEF Exclusive, Named, Beats
  <2>6. \A r \in Procs : ActsOnLook(r)' => ActsOnLook(r)
    BY <1>1, <2>2 DEF ActsOnLook
  <2>7. NobodyBetween'
    BY <1>1, <1>3, <2>6 DEF NobodyBetween
  <2> QED
    BY <2>5, <2>7 DEF Exclusive
<1> QED
  BY <1>4, <1>5 DEF Heartbeat

(* Processes that start or go, the age of the file and signals change      *)
(* neither who executes nor whom the file names.                           *)
LEMMA ExclusiveRest ==
    ASSUME ControlInv, Exclusive,
           \/ \E p \in Procs, c \in Commands : Start(p, c)
           \/ \E p \in Procs : where' = [where EXCEPT ![p] = "gone"] /\ Die(p)
           \/ Age
           \/ \E p \in Procs, s \in {"pause", "cancel"} : Send(p, s)
    PROVE  Exclusive'
PROOF
<1>1. ASSUME \A q \in Procs : where'[q] \in Executes => where[q] \in Executes,
             \A q \in Procs : where'[q] \in Judges => where[q] \in Judges,
             \A q \in Procs : beat'[q] # NoLock => beat'[q] = beat[q],
             \/ lockFile' = lockFile
             \/ lockFile' # NoLock /\ lockFile'.pid = lockFile.pid
      PROVE  Exclusive'
  BY <1>1 DEF Exclusive, Named, Beats, NobodyBetween, ActsOnLook, Judges
<1>2. {"scan", "gone"} \cap (Executes \cup Judges) = {}
  BY DEF Executes, Works, Shelters, Judges
<1>3. ASSUME NEW p \in Procs, NEW c \in Commands, Start(p, c) PROVE Exclusive'
  BY <1>1, <1>2, <1>3 DEF Start, ProcGoes, ControlInv, Lives
<1>4. ASSUME NEW p \in Procs, where' = [where EXCEPT ![p] = "gone"], Die(p) PROVE Exclusive'
  BY <1>1, <1>2, <1>4 DEF Die, ControlInv, Lives, Locks
<1>5. CASE Age
  <2>1. lockFile \in [pid : Procs, stale : BOOLEAN]
        /\ lockFile' = [lockFile EXCEPT !.stale = TRUE] /\ where' = where /\ beat' = beat
    BY <1>5 DEF Age, Lapse, ControlInv, Locks
  <2>2. lockFile' \in [pid : Procs, stale : BOOLEAN] /\ lockFile'.pid = lockFile.pid
    BY <2>1
  <2>3. lockFile' # NoLock
    BY <2>2, LockAssumption
  <2> QED
    BY <1>1, <2>1, <2>2, <2>3
<1>6. ASSUME NEW p \in Procs, NEW s \in {"pause", "cancel"}, Send(p, s) PROVE Exclusive'
  BY <1>1, <1>6 DEF Send, lockVars
<1> QED
  BY <1>3, <1>4, <1>5, <1>6

(* Any number of processes, if no other run takes the lock between a look  *)
(* at it and the act that follows, and if whoever executes has its lock    *)
(* renewed in time: one executes the mission at most, and the lock file    *)
(* names it.  No start, recovery, retry, late heartbeat or death opens     *)
(* another gap.                                                            *)
THEOREM OneExecutes ==
    ControlSpec /\ [][Undisturbed]_controlVars /\ []Timely
        => [](MutualExclusion /\ Named)
PROOF
<1>1. ControlInit => Exclusive
  BY LockAssumption DEF ControlInit, LockInit, Exclusive, Named, Beats, NobodyBetween,
                        Executes, Works, Shelters
<1>2. ASSUME ControlInv, Exclusive, Timely, [ControlNext]_controlVars,
             [Undisturbed]_controlVars
      PROVE  Exclusive'
  <2>1. CASE UNCHANGED controlVars
    BY <1>2, <2>1 DEF controlVars, Exclusive, Named, Beats, NobodyBetween, ActsOnLook
  <2>2. CASE ControlNext /\ Undisturbed
    <3>1. ASSUME NEW p \in Procs, Before(p), Step(p) \/ Create(p) PROVE Exclusive'
      BY <1>2, <2>2, <3>1, CreateIs, ExclusiveStep DEF Step
    <3> QED
      BY <1>2, <2>2, <3>1, NextIs, ExclusiveBeat, ExclusiveRest
  <2> QED
    BY <1>2, <2>1, <2>2
<1>3. Exclusive => MutualExclusion /\ Named
  BY DEF Exclusive, Named, MutualExclusion, Executing, Executes, Works, Shelters
<1> QED
  BY <1>1, <1>2, <1>3, ControlInvariance, PTL DEF ControlSpec

(* Of one process at a time the rest of the invariant is known too.        *)
THEOREM AloneInvariance ==
    ASSUME MaxAlive = 1 PROVE ControlSpec => []AloneControl
PROOF
<1>1. ControlInit => AloneControl
  BY InitControl
<1>2. ControlInv /\ AloneControl /\ [ControlNext]_controlVars => AloneControl'
  BY NextAlone
<1> QED
  BY <1>1, <1>2, ControlInvariance, PTL DEF ControlSpec

(* One process at a time: agents work in a worktree that is there.         *)
THEOREM WorkIsSheltered ==
    ASSUME MaxAlive = 1 PROVE ControlSpec => []WorkHasTree
PROOF
<1>1. AloneControl => WorkHasTree
  BY DEF AloneControl, Sheltered, WorkHasTree, Shelters
<1> QED
  BY <1>1, AloneInvariance, PTL

(* One process at a time: a mission that is over stays as it is.           *)
THEOREM OverIsOver ==
    ASSUME MaxAlive = 1 PROVE ControlSpec => TerminalIsFinal
PROOF
<1> DEFINE Final == disk # NoMission /\ disk.status \in Terminal => disk'.status = disk.status
<1>1. ControlInv /\ AloneControl /\ [ControlNext]_controlVars => [Final]_controlVars
  BY NextAlone
<1> HIDE DEF Final
<1>2. ControlSpec => [][Final]_controlVars
  BY <1>1, ControlInvariance, AloneInvariance, PTL DEF ControlSpec
<1> QED
  BY <1>2, PTL DEF Final, TerminalIsFinal
=============================================================================
