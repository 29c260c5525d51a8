------------------------- MODULE CoordinatorProofs -------------------------
(***************************************************************************)
(* Theorems about Coordinator for any lists of tasks, paths, permits,      *)
(* rounds and reviewers: its types; that agents which work at the same     *)
(* time share no path and no file that existed, that leases are returned,  *)
(* that every task gets one final result and waits for what it depends on; *)
(* and that a successful mission ends with enough reviews of its final     *)
(* code.                                                                   *)
(***************************************************************************)
EXTENDS Coordinator, ProofLemmas
-----------------------------------------------------------------------------
(* What partition_tasks and topological_sort_tasks return, for any list of *)
(* tasks: independent tasks that share no file, and an order of all the    *)
(* other tasks in which, unless there is a cycle, every task follows what  *)
(* it depends on.                                                          *)

(* The list of all tasks.                                                  *)
LEMMA ListedAll ==
    ASSUME tasks \in TaskLists
    PROVE  /\ Listed \in Seq(Tasks) /\ Range(Listed) = Tasks /\ IsInjective(Listed)
           /\ Tasks = 1..Len(tasks) /\ Len(tasks) \in Nat /\ IsFiniteSet(Tasks)
PROOF
<1>1. Tasks = 1..Len(tasks) /\ Len(tasks) \in Nat
  BY DEF TaskLists, Tasks
<1>2. Listed \in [1..Len(tasks) -> Tasks] /\ Range(Listed) = Tasks /\ IsInjective(Listed)
  BY <1>1 DEF Listed, Range, IsInjective
<1>3. Listed \in Seq(Tasks)
  BY <1>1, <1>2
<1>4. IsFiniteSet(Tasks)
  BY <1>1, FS_Interval
<1> QED
  BY <1>1, <1>2, <1>3, <1>4

(* No two independent tasks share a file.                                  *)
LEMMA IndependentApart ==
    ASSUME tasks \in TaskLists
    PROVE  /\ Independent \subseteq Tasks
           /\ \A t, u \in Independent : t # u => FilesOf(t) \cap FilesOf(u) = {}
PROOF
<1>1. PICK N : N \in Nat /\ N = Len(tasks) /\ Tasks = 1..N
  BY ListedAll
<1>2. N \in Nat
  BY <1>1
<1> DEFINE Fits(s, n) == tasks[n].deps = {} /\ \A t \in s : FilesOf(t) \cap FilesOf(n) = {}
           Wider(s, n) == IF Fits(s, n) THEN s \cup {n} ELSE s
           Apart(s) == \A t, u \in s : t # u => FilesOf(t) \cap FilesOf(u) = {}
           Step(f) == [n \in 0..N |-> IF n = 0 THEN {} ELSE Wider(f[n - 1], n)]
           among == CHOOSE f : f = Step(f)
           S == {s \in SUBSET Tasks : Apart(s)}
           P == {n \in 0..N : among[n] \in S}
<1>3. Independent = among[N]
  BY <1>1 DEF Independent
<1>4. {} \in S /\ \A s \in S, n \in 1..N : Wider(s, n) \in S
  BY <1>1
<1> HIDE DEF Wider, S
<1>5. \E f : f = Step(f)
  <2> DEFINE h == [x \in S \X (1..N) |-> Wider(x[1], x[2])]
  <2>1. h \in Steps(N, S)
    BY <1>4 DEF Steps
  <2>2. \A x \in S, n \in 1..N : h[<<x, n>>] = Wider(x, n)
    OBVIOUS
  <2> HIDE DEF h
  <2>3. PICK f : Unfolds(f, N, S, {}, h)
    BY <1>2, <1>4, <2>1, RecursionExists
  <2>4. f \in [0..N -> S] /\ f[0] = {} /\ \A n \in 1..N : f[n] = h[<<f[n - 1], n>>]
    BY <2>3 DEF Unfolds
  <2>5. \A n \in 1..N : f[n - 1] \in S
    BY <1>2, <2>4
  <2>6. \A n \in 1..N : f[n] = Wider(f[n - 1], n)
    BY <2>2, <2>4, <2>5
  <2>7. f = Step(f)
    BY <1>2, <2>4, <2>6
  <2> QED
    BY <2>7
<1>6. among = Step(among)
  <2> HIDE DEF Step
  <2> QED
    BY <1>5
<1> HIDE DEF among
<1>7. among[0] = {} /\ \A n \in 1..N : among[n] = Wider(among[n - 1], n)
  BY <1>2, <1>6
<1>8. 0 \in P
  BY <1>2, <1>4, <1>7
<1>9. ASSUME NEW n \in 1..N, n - 1 \in P PROVE n \in P
  BY <1>2, <1>4, <1>7, <1>9
<1>10. \A n \in 0..N : n \in P
  <2> HIDE DEF P
  <2> QED
    BY <1>2, <1>8, <1>9, InductionUpTo
<1>11. among[N] \in S
  BY <1>2, <1>10
<1> QED
  BY <1>3, <1>11 DEF S

-----------------------------------------------------------------------------
(* Every task of an order follows what it depends on.                      *)
Topological(o, ts) ==
    \A i \in 1..Len(o) : DepsWithin(o[i], ts) \subseteq {o[j] : j \in 1..i - 1}

(* The tasks the n-th of an order unblocks, each once.                     *)
LEMMA UnblockedAre ==
    ASSUME tasks \in TaskLists, NEW ts \in SUBSET Tasks, NEW q \in Seq(ts),
           NEW n \in 1..Len(q)
    PROVE  /\ Unblocked(ts, q, n) \in Seq(ts) /\ IsInjective(Unblocked(ts, q, n))
           /\ Range(Unblocked(ts, q, n)) =
                {t \in ts : /\ q[n] \in DepsWithin(t, ts)
                            /\ DepsWithin(t, ts) \subseteq {q[j] : j \in 1..n}}
PROOF
<1> DEFINE U == {t \in ts : /\ q[n] \in DepsWithin(t, ts)
                            /\ DepsWithin(t, ts) \subseteq Range(SubSeq(q, 1, n))}
<1>1. Range(SubSeq(q, 1, n)) = {q[j] : j \in 1..n}
  <2>1. /\ Len(q) \in Nat /\ DOMAIN SubSeq(q, 1, n) = 1..n
        /\ \A j \in 1..n : SubSeq(q, 1, n)[j] = q[j]
    OBVIOUS
  <2> QED
    BY <2>1 DEF Range
<1>2. /\ Taken(Listed, U) \in Seq(Tasks) /\ IsInjective(Taken(Listed, U))
      /\ Range(Taken(Listed, U)) = Tasks \cap U
  <2> HIDE DEF U
  <2> QED
    BY ListedAll, TakenKeeps
<1>3. Tasks \cap U = U /\ U \subseteq ts
  OBVIOUS
<1>4. Taken(Listed, U) \in Seq(ts)
  <2> HIDE DEF U
  <2> QED
    BY <1>2, <1>3, SeqOver
<1> QED
  BY <1>1, <1>2, <1>3, <1>4 DEF Unblocked

(* The orders of a finite set.                                             *)
LEMMA OrdersOf ==
    ASSUME NEW F, IsFiniteSet(F), NEW f \in SetToSeqs(F)
    PROVE  f \in Seq(F) /\ IsInjective(f) /\ Range(f) = F
PROOF
<1>1. PICK c : c \in Nat /\ c = Cardinality(F)
  BY FS_CardinalityType
<1>2. f \in [1..c -> F] /\ \A i, j \in 1..c : i # j => f[i] # f[j]
  BY <1>1 DEF SetToSeqs
<1>3. f \in Injection(1..c, F)
  BY <1>2 DEF Injection, IsInjective
<1>4. Cardinality(1..c) = c
  BY <1>1, FS_Interval
<1>5. f \in Surjection(1..c, F)
  BY <1>1, <1>3, <1>4, FS_Injection
<1>6. Range(f) = F
  BY <1>2, <1>5 DEF Surjection, Range
<1>7. f \in Seq(F)
  BY <1>1, <1>2
<1> QED
  BY <1>3, <1>6, <1>7 DEF Injection

(* topological_sort_tasks, after n tasks were taken: q has every task      *)
(* once whose dependencies are among them, after its dependencies.         *)
Done(q, n) == {q[j] : j \in {k \in 1..Len(q) : k <= n}}
SortedUpTo(ts, q, n) ==
    /\ q \in Seq(ts) /\ IsInjective(q) /\ Topological(q, ts)
    /\ Range(q) = {t \in ts : DepsWithin(t, ts) \subseteq Done(q, n)}

(* One step of the loop: the next task of the order is taken, and those it *)
(* was the last dependency of are appended.                                *)
LEMMA TakeNext ==
    ASSUME tasks \in TaskLists, NEW ts \in SUBSET Tasks, NEW q, NEW n \in Nat \ {0},
           SortedUpTo(ts, q, n - 1)
    PROVE  SortedUpTo(ts, IF n > Len(q) THEN q ELSE q \o Unblocked(ts, q, n), n)
PROOF
<1>1. q \in Seq(ts) /\ IsInjective(q) /\ Topological(q, ts)
      /\ Range(q) = {t \in ts : DepsWithin(t, ts) \subseteq Done(q, n - 1)}
  BY DEF SortedUpTo
<1>2. Len(q) \in Nat /\ DOMAIN q = 1..Len(q) /\ \A i \in 1..Len(q) : q[i] \in ts
  BY <1>1
<1>3. CASE n > Len(q)
  <2>1. Done(q, n) = Done(q, n - 1)
    BY <1>2, <1>3 DEF Done
  <2> QED
    BY <1>1, <1>3, <2>1 DEF SortedUpTo
<1>4. CASE n <= Len(q)
  <2> DEFINE u == Unblocked(ts, q, n)
             r == q \o u
             First == {q[j] : j \in 1..n}
  <2>1. n \in 1..Len(q)
    BY <1>2, <1>4
  <2>2. u \in Seq(ts) /\ IsInjective(u)
        /\ Range(u) = {t \in ts : q[n] \in DepsWithin(t, ts) /\ DepsWithin(t, ts) \subseteq First}
    BY <1>1, <2>1, UnblockedAre
  <2> HIDE DEF u
  <2>3. Done(q, n - 1) = First \ {q[n]} /\ q[n] \in First
    BY <1>1, <1>2, <2>1 DEF Done, IsInjective
  <2>4. Range(q) \cap Range(u) = {}
    BY <1>1, <2>2, <2>3
  <2>5. /\ r \in Seq(ts) /\ IsInjective(r) /\ Range(r) = Range(q) \cup Range(u)
        /\ \A i \in 1..Len(q) : r[i] = q[i]
        /\ \A i \in 1..Len(r) : i > Len(q) => r[i] \in Range(u)
        /\ Len(r) = Len(q) + Len(u) /\ Len(u) \in Nat
    <3>1. u \in Seq(ts) /\ IsInjective(u)
      BY <2>2
    <3>2. Len(u) \in Nat
      BY <3>1
    <3>3. IsInjective(r)
      BY <1>1, <2>4, <3>1, ConcatRange
    <3>4. /\ r \in Seq(ts) /\ Range(r) = Range(q) \cup Range(u)
          /\ \A i \in 1..Len(q) : r[i] = q[i]
          /\ Len(r) = Len(q) + Len(u)
      BY <1>1, <3>1, ConcatRange
    <3>5. \A i \in 1..Len(r) : i > Len(q) => r[i] \in Range(u)
      BY <1>1, <3>1, ConcatRange
    <3> QED
      BY <3>2, <3>3, <3>4, <3>5
  <2> HIDE DEF r
  <2>6. Done(r, n) = First
    BY <1>2, <2>1, <2>5 DEF Done
  <2>7. ASSUME NEW t \in ts
        PROVE  t \in Range(r) <=> DepsWithin(t, ts) \subseteq First
    BY <1>1, <2>2, <2>3, <2>5
  <2>8. Range(r) = {t \in ts : DepsWithin(t, ts) \subseteq Done(r, n)}
    <3>1. Range(r) \subseteq ts
      BY <1>1, <2>2, <2>5
    <3> QED
      BY <2>6, <2>7, <3>1
  <2>9. ASSUME NEW i \in 1..Len(r)
        PROVE  DepsWithin(r[i], ts) \subseteq {r[j] : j \in 1..i - 1}
    <3>1. CASE i <= Len(q)
      <4>1. r[i] = q[i] /\ \A j \in 1..i - 1 : r[j] = q[j]
        BY <1>2, <2>5, <3>1
      <4>2. DepsWithin(q[i], ts) \subseteq {q[j] : j \in 1..i - 1}
        BY <1>1, <1>2, <2>5, <3>1 DEF Topological
      <4> QED
        BY <4>1, <4>2
    <3>2. CASE i > Len(q)
      <4>1. DepsWithin(r[i], ts) \subseteq First
        BY <2>2, <2>5, <3>2
      <4>2. \A j \in 1..n : r[j] = q[j] /\ j \in 1..i - 1
        BY <1>2, <2>1, <2>5, <3>2
      <4> QED
        BY <4>1, <4>2
    <3> QED
      BY <1>2, <2>5, <3>1, <3>2
  <2>10. SortedUpTo(ts, r, n)
    BY <2>5, <2>8, <2>9 DEF SortedUpTo, Topological
  <2> QED
    BY <1>2, <1>4, <2>10 DEF r, u
<1> QED
  BY <1>2, <1>3, <1>4

(* The loop ends with every task whose dependencies can all be taken.      *)
LEMMA SortedToTheEnd ==
    ASSUME tasks \in TaskLists, NEW ts \in SUBSET Tasks,
           NEW first \in SetToSeqs({t \in ts : DepsWithin(t, ts) = {}})
    PROVE  SortedUpTo(ts, Sorted(ts, first), Cardinality(ts))
PROOF
<1>1. IsFiniteSet(ts)
  BY ListedAll, FS_Subset
<1>2. PICK N : N \in Nat /\ N = Cardinality(ts)
  BY <1>1, FS_CardinalityType
<1> DEFINE Longer(q, n) == IF n > Len(q) THEN q ELSE q \o Unblocked(ts, q, n)
           Step(f) == [n \in 0..N |-> IF n = 0 THEN first ELSE Longer(f[n - 1], n)]
           take == CHOOSE f : f = Step(f)
           P == {n \in 0..N : SortedUpTo(ts, take[n], n)}
<1>3. Sorted(ts, first) = take[N]
  BY <1>2 DEF Sorted
<1>4. SortedUpTo(ts, first, 0)
  <2> DEFINE F == {t \in ts : DepsWithin(t, ts) = {}}
  <2>1. IsFiniteSet(F) /\ F \subseteq ts
    BY <1>1, FS_Subset
  <2>2. first \in SetToSeqs(F)
    OBVIOUS
  <2>3. first \in Seq(F) /\ IsInjective(first) /\ Range(first) = F
    <3> HIDE DEF F
    <3> QED
      BY <2>1, <2>2, OrdersOf
  <2>4. first \in Seq(ts) /\ \A i \in 1..Len(first) : DepsWithin(first[i], ts) = {}
    BY <2>1, <2>3
  <2>5. Done(first, 0) = {}
    BY DEF Done
  <2>6. Range(first) = {t \in ts : DepsWithin(t, ts) \subseteq Done(first, 0)}
    BY <2>3, <2>5
  <2> QED
    BY <2>3, <2>4, <2>6 DEF SortedUpTo, Topological
<1>5. first \in Seq(ts)
  BY <1>4 DEF SortedUpTo
<1>6. ASSUME NEW q \in Seq(ts), NEW n \in 1..N PROVE Longer(q, n) \in Seq(ts)
  <2>1. CASE n > Len(q)
    BY <2>1
  <2>2. CASE n <= Len(q)
    <3>1. n \in 1..Len(q)
      BY <1>2, <2>2
    <3>2. Unblocked(ts, q, n) \in Seq(ts)
      BY <3>1, UnblockedAre
    <3> QED
      BY <2>2, <3>2
  <2> QED
    BY <1>2, <2>1, <2>2
<1>7. ASSUME NEW q, NEW n \in 1..N, SortedUpTo(ts, q, n - 1) PROVE SortedUpTo(ts, Longer(q, n), n)
  BY <1>2, <1>7, TakeNext
<1> HIDE DEF Longer
<1>8. \E f : f = Step(f)
  <2> DEFINE h == [x \in Seq(ts) \X (1..N) |-> Longer(x[1], x[2])]
  <2>1. h \in Steps(N, Seq(ts))
    BY <1>6 DEF Steps
  <2>2. \A q \in Seq(ts), n \in 1..N : h[<<q, n>>] = Longer(q, n)
    OBVIOUS
  <2> HIDE DEF h
  <2>3. PICK f : Unfolds(f, N, Seq(ts), first, h)
    BY <1>2, <1>5, <2>1, RecursionExists
  <2>4. f \in [0..N -> Seq(ts)] /\ f[0] = first /\ \A n \in 1..N : f[n] = h[<<f[n - 1], n>>]
    BY <2>3 DEF Unfolds
  <2>5. \A n \in 1..N : f[n - 1] \in Seq(ts)
    BY <1>2, <2>4
  <2>6. \A n \in 1..N : f[n] = Longer(f[n - 1], n)
    BY <2>2, <2>4, <2>5
  <2>7. f = Step(f)
    BY <1>2, <2>4, <2>6
  <2> QED
    BY <2>7
<1>9. take = Step(take)
  <2> HIDE DEF Step
  <2> QED
    BY <1>8
<1> HIDE DEF take
<1>10. take[0] = first /\ \A n \in 1..N : take[n] = Longer(take[n - 1], n)
  BY <1>2, <1>9
<1>11. 0 \in P
  BY <1>2, <1>4, <1>10
<1>12. ASSUME NEW n \in 1..N, n - 1 \in P PROVE n \in P
  <2>1. SortedUpTo(ts, take[n - 1], n - 1) /\ n \in 0..N
    BY <1>2, <1>12
  <2> QED
    BY <1>7, <1>10, <2>1
<1>13. \A n \in 0..N : n \in P
  <2> HIDE DEF P
  <2> QED
    BY <1>2, <1>11, <1>12, InductionUpTo
<1> QED
  BY <1>2, <1>3, <1>13

(* topological_sort_tasks returns every task, and if no tasks depend on    *)
(* each other in a circle, each after those it depends on.                 *)
LEMMA OrderedTopologically ==
    ASSUME tasks \in TaskLists, NEW ts \in SUBSET Tasks, NEW o \in TopologicalOrders(ts)
    PROVE  /\ o \in Seq(Tasks) /\ Range(o) = ts
           /\ ~CyclicTasks => Topological(o, ts)
PROOF
<1>1. PICK first \in SetToSeqs({t \in ts : DepsWithin(t, ts) = {}}) :
          o = WithCycles(ts, Sorted(ts, first))
  BY DEF TopologicalOrders
<1> DEFINE q == Sorted(ts, first)
           rest == ts \ Range(q)
<1>2. PICK N : N \in Nat /\ N = Cardinality(ts) /\ IsFiniteSet(ts)
  BY ListedAll, FS_Subset, FS_CardinalityType
<1>3. SortedUpTo(ts, q, N)
  BY <1>2, SortedToTheEnd
<1> HIDE DEF q
<1>4. q \in Seq(ts) /\ IsInjective(q) /\ Topological(q, ts)
      /\ Range(q) = {t \in ts : DepsWithin(t, ts) \subseteq Done(q, N)}
  BY <1>3 DEF SortedUpTo
<1>5. /\ Taken(Listed, rest) \in Seq(Tasks)
      /\ Range(Taken(Listed, rest)) = Tasks \cap rest
  <2> HIDE DEF rest
  <2> QED
    BY ListedAll, TakenKeeps
<1>6. Range(Taken(Listed, rest)) = rest
  BY <1>5
<1>7. q \in Seq(Tasks) /\ o = q \o Taken(Listed, rest)
  BY <1>1, <1>4 DEF WithCycles, q
<1>8. o \in Seq(Tasks) /\ Range(o) = Range(q) \cup rest
  <2> DEFINE e == Taken(Listed, rest)
  <2>1. e \in Seq(Tasks) /\ Range(e) = rest /\ o = q \o e
    BY <1>5, <1>6, <1>7
  <2> HIDE DEF e, rest
  <2> QED
    BY <1>7, <2>1, ConcatRange
<1>9. Range(o) = ts
  BY <1>4, <1>8
<1>10. ASSUME ~CyclicTasks PROVE Topological(o, ts)
  <2>1. Len(q) <= N
    <3>1. PICK m : m \in Nat /\ m = Len(q) /\ q \in [1..m -> ts]
      BY <1>4
    <3>2. q \in Injection(1..m, ts)
      BY <1>4, <3>1 DEF Injection
    <3>3. Cardinality(1..m) = m
      <4>1. m \in Nat
        BY <3>1
      <4> QED
        BY <4>1, FS_Interval
    <3>4. m <= N
      BY <1>2, <3>2, <3>3, FS_Injection
    <3> QED
      BY <3>1, <3>4
  <2>2. Done(q, N) = Range(q)
    BY <1>2, <1>4, <2>1 DEF Done, Range
  <2>3. \A t \in rest : tasks[t].deps \cap rest # {}
    BY <1>4, <2>2 DEF DepsWithin
  <2>4. rest = {}
    BY <1>10, <2>3 DEF CyclicTasks
  <2>5. Taken(Listed, rest) = <<>>
    <3> DEFINE e == Taken(Listed, rest)
    <3>1. e \in Seq(Tasks) /\ Range(e) = {}
      BY <1>5, <1>6, <2>4
    <3> HIDE DEF e
    <3>2. e = <<>>
      BY <3>1 DEF Range
    <3> QED
      BY <3>2 DEF e
  <2>6. o = q
    <3>1. q \o <<>> = q
      BY <1>4
    <3> QED
      BY <1>7, <2>5, <3>1
  <2> QED
    BY <1>4, <2>6
<1> QED
  BY <1>8, <1>9, <1>10

(* While the list stays the same, so do its parts.                         *)
LEMMA SameTasks ==
    ASSUME UNCHANGED <<tasks, missing>>
    PROVE  Tasks' = Tasks /\ Independent' = Independent /\ CyclicTasks' = CyclicTasks
           /\ \A t, ts : DepsWithin(t, ts)' = DepsWithin(t, ts)
PROOF
  BY DEF Tasks, Independent, FilesOf, CyclicTasks, DepsWithin
-----------------------------------------------------------------------------

Working == stage \in {"independent", "dependent"}

(* The types of the implementation phase.                                  *)
WorkTypes ==
    /\ tasks \in TaskLists /\ missing \subseteq NewFiles /\ parallel \in BOOLEAN
    /\ leases \in [Paths -> Nat \cup {Unleased}]
    /\ stage \in {"idle", "partition", "independent", "dependent", "over"}
    /\ step \in {"acquire", "batch", "sequence"}
    /\ order \in Seq(Tasks) /\ queue \in Seq(Tasks)
    /\ Range(queue) \subseteq Range(order)
    /\ held \subseteq Range(order) /\ running \subseteq Range(order)
    /\ retry \in 0..MaxDeferred
    /\ settled \in [Tasks -> Seq(Results)]
    /\ stage \in {"idle", "partition"} => out = <<>>
    /\ Working => out \in [Tasks -> Results]
    /\ stage = "over" => out \in [Tasks -> Results] \cup {<<>>}

(* Where the mission is, its phases are.                                   *)
AtPhase ==
    /\ at \in {"health", "research", "planning", "consensus", "escalation",
               "implementation", "verification", "done"}
    /\ at \notin {"implementation", "verification", "done"} =>
           stage = "idle" /\ review = "idle"
    /\ at = "implementation" => stage # "idle" /\ review = "idle"
    /\ at = "verification" => stage = "over"
    /\ at = "done" => ~Working /\ stage # "partition"
    /\ report \in {"none", "success", "failure", "human", "error", "timeout"}
    /\ report # "none" => at = "done"

(* Agents work only in a round, several of them only in the batch of the   *)
(* first stage, and each stage takes its own part of the tasks.            *)
Batches ==
    /\ ~Working => queue = <<>> /\ running = {}
    /\ stage \in {"idle", "partition"} => step = "sequence" /\ order = <<>> /\ held = {}
    /\ Working /\ step # "sequence" => stage = "independent"
    /\ stage = "over" /\ at # "done" => step = "sequence"
    /\ stage = "independent" => Range(order) \subseteq Independent
    /\ stage = "dependent" => Range(order) \subseteq Tasks \ Independent
    /\ step = "acquire" => running = {}
    /\ IsFiniteSet(running) /\ Cardinality(running) <= Permits
    /\ step # "batch" => Cardinality(running) <= 1

(* The tasks of the current round have no final result yet, those of the   *)
(* rounds and stages before it have one, those of a later stage have none. *)
Finals(t, n) == Len(settled[t]) = n
SettledSoFar ==
    \A t \in Tasks :
        /\ stage = "partition" => Finals(t, 0)
        /\ stage = "independent" =>
            Finals(t, IF t \in Independent \ Range(order) THEN 1 ELSE 0)
        /\ stage = "dependent" => Finals(t, IF t \in Range(order) THEN 0 ELSE 1)
        /\ stage = "over" /\ at = "implementation" => Finals(t, 1)

(* In the first round of the dependent tasks the order is topological, the *)
(* queue is what is left of it, and what was taken has an outcome, but for *)
(* the task that runs.                                                     *)
FirstPass ==
    stage = "dependent" /\ retry = 0 =>
        /\ ~CyclicTasks => Topological(order, Tasks \ Independent)
        /\ \E k \in 0..Len(order) :
            /\ queue = SubSeq(order, k + 1, Len(order))
            /\ \A i \in 1..k : order[i] \in running \/ out[order[i]] # "none"
            /\ running # {} => /\ k > 0 /\ running = {order[k]}
                               /\ \A i \in 1..k - 1 : out[order[i]] # "none"

(* Every clean round counts as a round without changes, and while issues   *)
(* are fixed there is none.                                                *)
Asking == Range(Reviewers) \cup {"judge"}
CleanCounted ==
    /\ total \in 0..MaxRounds /\ clean \in 0..total /\ unchanged \in Nat
    /\ review \in Asking \cup {"idle", "round", "fix", "over", "error"}
    /\ review \in Asking => clean < total
    /\ clean <= unchanged
    /\ review = "fix" => clean = 0

WorkInv == WorkTypes /\ Batches /\ SettledSoFar /\ FirstPass /\ NoLeaseLeft
IInv == WorkInv /\ AtPhase /\ CleanCounted /\ ReviewedFinalCode

-----------------------------------------------------------------------------
(* The head and the tail of a queue, and a step along an order.            *)
LEMMA QueueStep ==
    ASSUME NEW S, NEW q \in Seq(S), q # <<>>
    PROVE  /\ Head(q) \in S /\ Head(q) \in Range(q)
           /\ Tail(q) \in Seq(S) /\ Range(Tail(q)) \subseteq Range(q)
PROOF
<1>1. Len(q) \in Nat \ {0} /\ DOMAIN q = 1..Len(q) /\ Head(q) = q[1]
      /\ \A i \in 1..Len(q) : q[i] \in S
  OBVIOUS
<1>2. Tail(q) \in Seq(S) /\ DOMAIN Tail(q) = 1..Len(q) - 1
      /\ \A i \in 1..Len(q) - 1 : Tail(q)[i] = q[i + 1]
  OBVIOUS
<1>3. Head(q) \in S /\ Head(q) \in Range(q)
  BY <1>1 DEF Range
<1>4. Range(Tail(q)) \subseteq Range(q)
  <2> SUFFICES ASSUME NEW i \in 1..Len(q) - 1 PROVE Tail(q)[i] \in Range(q)
    BY <1>2 DEF Range
  <2>1. i + 1 \in 1..Len(q) /\ Tail(q)[i] = q[i + 1]
    BY <1>1, <1>2
  <2> QED
    BY <1>1, <2>1 DEF Range
<1> QED
  BY <1>2, <1>3, <1>4

(* The part of a sequence beyond k starts with its element k + 1.          *)
LEMMA OrderStep ==
    ASSUME NEW S, NEW o \in Seq(S), NEW k \in 0..Len(o),
           SubSeq(o, k + 1, Len(o)) # <<>>
    PROVE  /\ k + 1 \in 1..Len(o)
           /\ Head(SubSeq(o, k + 1, Len(o))) = o[k + 1]
           /\ Tail(SubSeq(o, k + 1, Len(o))) = SubSeq(o, k + 2, Len(o))
PROOF
<1>1. PICK n : n \in Nat /\ n = Len(o)
  OBVIOUS
<1>2. k + 1 \in 1..n
  BY <1>1
<1> QED
  BY <1>1, <1>2

(* Nothing is empty of which nothing is counted.                           *)
LEMMA CountZero ==
    ASSUME NEW S, IsFiniteSet(S), Cardinality(S) < 1
    PROVE  S = {}
PROOF
<1>1. PICK c : c \in Nat /\ c = Cardinality(S)
  BY FS_CardinalityType
<1> QED
  BY <1>1, FS_EmptySet

(* The parts of the invariant that speak of a task's final results and of  *)
(* the first round of the dependent tasks, while what they speak of stays. *)
LEMMA SameSettled ==
    ASSUME SettledSoFar, UNCHANGED <<tasks, missing, stage, order, settled>>,
           at' = "implementation" => at = "implementation"
    PROVE  SettledSoFar'
PROOF
<1>1. Tasks' = Tasks /\ Independent' = Independent
  BY SameTasks
<1> QED
  BY <1>1 DEF SettledSoFar, Finals

(* What is said of the first pass depends on the work only.                *)
LEMMA SameFirstPass ==
    ASSUME FirstPass, UNCHANGED <<tasks, missing, stage, order, queue, running, out, retry>>
    PROVE  FirstPass'
PROOF
<1>1. /\ Tasks' = Tasks /\ Independent' = Independent /\ CyclicTasks' = CyclicTasks
      /\ \A t, ts : DepsWithin(t, ts)' = DepsWithin(t, ts)
  BY SameTasks
<1>2. Topological(order, Tasks \ Independent)' = Topological(order, Tasks \ Independent)
  BY <1>1 DEF Topological, DepsWithin
<1> QED
  BY <1>1, <1>2 DEF FirstPass

(* A step that leaves the work alone, in a phase or out of it, keeps what  *)
(* is said of it.                                                          *)
LEMMA WorkUnchanged ==
    ASSUME WorkInv, UNCHANGED work, at' = "implementation" <=> at = "implementation",
           at = "done" => at' = "done"
    PROVE  WorkInv'
PROOF
<1> USE DEF work
<1>1. WorkTypes'
  BY SameTasks DEF WorkInv, WorkTypes, Working
<1>2. Batches'
  BY SameTasks DEF WorkInv, Batches, Working
<1>3. SettledSoFar' /\ FirstPass'
  BY SameSettled, SameFirstPass DEF WorkInv
<1>4. NoLeaseLeft'
  BY DEF WorkInv, NoLeaseLeft
<1> QED
  BY <1>1, <1>2, <1>3, <1>4 DEF WorkInv

-----------------------------------------------------------------------------
(* At first there is no work and no file is leased.                        *)
LEMMA InitInv == Init => IInv
PROOF
<1> SUFFICES ASSUME Init PROVE IInv
  OBVIOUS
<1> USE DEF Init, InitWork, InitRounds
<1>1. tasks = <<>> /\ Tasks = {} /\ <<>> \in TaskLists /\ Range(<<>>) = {}
  BY DEF Tasks, TaskLists, Range
<1>2. WorkTypes
  <2>1. leases \in [Paths -> Nat \cup {Unleased}]
    BY DEF Free
  <2>2. settled \in [Tasks -> Seq(Results)] /\ order \in Seq(Tasks) /\ queue \in Seq(Tasks)
    BY <1>1
  <2> QED
    BY <1>1, <2>1, <2>2, ImplementationAssumption DEF WorkTypes, Working
<1>3. Batches
  <2>1. IsFiniteSet(running) /\ Cardinality(running) = 0
    BY FS_EmptySet
  <2> QED
    BY <2>1, ImplementationAssumption DEF Batches, Working
<1>4. SettledSoFar /\ FirstPass
  BY <1>1 DEF SettledSoFar, FirstPass
<1>5. NoLeaseLeft
  BY DEF NoLeaseLeft, Free
<1>6. AtPhase
  BY DEF AtPhase, Working
<1>7. CleanCounted /\ ReviewedFinalCode
  <2>1. "idle" \notin Asking /\ "fix" # "idle"
    BY CleanRoundsAssumption DEF Asking
  <2> QED
    BY <2>1, CleanRoundsAssumption DEF CleanCounted, ReviewedFinalCode
<1> QED
  BY <1>2, <1>3, <1>4, <1>5, <1>6, <1>7 DEF IInv, WorkInv

(* The phase begins with a list of tasks.                                  *)
LEMMA BeginWorkKeeps ==
    ASSUME WorkInv, AtPhase, NEW list \in TaskLists, BeginWork(list),
           at' = "implementation", at \notin {"implementation", "done"}
    PROVE  WorkInv' /\ stage' = "partition"
PROOF
<1> USE DEF BeginWork
<1>1. /\ order = <<>> /\ queue = <<>> /\ held = {} /\ running = {}
      /\ step = "sequence" /\ Range(<<>>) = {} /\ stage' = "partition"
  BY DEF WorkInv, Batches, Working, Range
<1>2. WorkTypes'
  <2>1. Tasks' = DOMAIN list /\ <<>> \in Seq(Tasks')
    BY DEF Tasks
  <2>2. settled' \in [Tasks' -> Seq(Results)]
    BY <2>1
  <2> QED
    BY <1>1, <2>1, <2>2 DEF WorkInv, WorkTypes, Working
<1>3. Batches'
  BY <1>1 DEF WorkInv, Batches, Working
<1>4. SettledSoFar' /\ FirstPass'
  <2>1. \A t \in Tasks' : settled'[t] = <<>>
    BY DEF Tasks
  <2>2. \A t \in Tasks' : Len(settled'[t]) = 0
    BY <2>1
  <2> QED
    BY <1>1, <2>2 DEF SettledSoFar, FirstPass, Finals
<1>5. NoLeaseLeft'
  BY DEF WorkInv, NoLeaseLeft
<1> QED
  BY <1>1, <1>2, <1>3, <1>4, <1>5 DEF WorkInv

-----------------------------------------------------------------------------
(* A new pass over pending tasks starts with no lease held.                *)
LEMMA RoundKeeps ==
    ASSUME WorkInv, at = "implementation", at' = at, NEW s \in {"independent", "dependent"},
           NEW pending \in Seq(Tasks), NEW r \in 0..MaxDeferred,
           Round(s, pending, r), UNCHANGED <<tasks, missing, parallel, leases, running>>,
           step = "sequence", running = {},
           settled' \in [Tasks -> Seq(Results)],
           Range(pending) \subseteq IF s = "independent" THEN Independent
                                    ELSE Tasks \ Independent
    PROVE  WorkTypes' /\ Batches' /\ NoLeaseLeft'
PROOF
<1> USE DEF Round
<1>1. Tasks' = Tasks /\ Independent' = Independent
  BY SameTasks
<1>2. WorkTypes'
  BY <1>1 DEF WorkInv, WorkTypes, Working, Results
<1>3. Batches'
  BY <1>1 DEF WorkInv, Batches, Working
<1>4. NoLeaseLeft'
  BY DEF WorkInv, NoLeaseLeft
<1> QED
  BY <1>2, <1>3, <1>4

(* The first pass begins, over the independent tasks.                      *)
LEMMA PartitionKeeps ==
    ASSUME WorkInv, at = "implementation", at' = at, Partition
    PROVE  WorkInv' /\ stage' # "idle"
PROOF
<1> USE DEF Partition
<1>1. tasks \in TaskLists /\ step = "sequence" /\ running = {}
  BY DEF WorkInv, WorkTypes, Batches, Working
<1>2. Taken(Listed, Independent) \in Seq(Tasks) /\ Range(Taken(Listed, Independent)) = Independent
  <2>1. Listed \in Seq(Tasks) /\ Range(Listed) = Tasks /\ Independent \subseteq Tasks
    BY <1>1, ListedAll, IndependentApart
  <2> DEFINE ts == Independent
  <2>2. Taken(Listed, ts) \in Seq(Tasks) /\ Range(Taken(Listed, ts)) = Tasks \cap ts
    <3> HIDE DEF ts
    <3> QED
      BY <2>1, TakenKeeps
  <2> QED
    BY <2>1, <2>2
<1>3. WorkTypes' /\ Batches' /\ NoLeaseLeft'
  <2> DEFINE pending == Taken(Listed, Independent)
  <2>1. /\ Round("independent", pending, 0)
        /\ UNCHANGED <<tasks, missing, parallel, leases, running>>
        /\ pending \in Seq(Tasks) /\ Range(pending) = Independent
    BY <1>2
  <2>2. settled' \in [Tasks -> Seq(Results)] /\ 0 \in 0..MaxDeferred
    BY ImplementationAssumption DEF WorkInv, WorkTypes
  <2>3. "independent" \in {"independent", "dependent"}
    OBVIOUS
  <2> HIDE DEF pending, Partition
  <2> QED
    BY <1>1, <2>1, <2>2, <2>3, RoundKeeps, Zenon
<1>4. Tasks' = Tasks /\ Independent' = Independent
  BY SameTasks
<1>5. SettledSoFar' /\ FirstPass'
  BY <1>2, <1>4 DEF WorkInv, SettledSoFar, FirstPass, Finals, Round
<1> QED
  BY <1>3, <1>5 DEF WorkInv, Round

(* Acquiring the files of the task at the head of the queue: it gets all   *)
(* of them or none.                                                        *)
LEMMA AcquireKeeps ==
    ASSUME WorkInv, AtPhase, at = "implementation", at' = at, Acquire
    PROVE  WorkInv' /\ stage' # "idle"
PROOF
<1> USE DEF Acquire
<1>1. Head(queue) \in Range(queue) /\ Tail(queue) \in Seq(Tasks)
      /\ Range(Tail(queue)) \subseteq Range(queue)
  BY QueueStep DEF WorkInv, WorkTypes
<1>2. stage = "independent"
  BY DEF WorkInv, Batches, Working
<1>3. Head(queue) \in Range(order) /\ Head(queue) \in Nat
  BY <1>1, ListedAll, QueueStep DEF WorkInv, WorkTypes
<1>4. Tasks' = Tasks /\ Independent' = Independent
  BY SameTasks
<1>5. leases' \in [Paths -> Nat \cup {Unleased}]
  BY <1>3 DEF WorkInv, WorkTypes, Grant
<1>6. held' \subseteq Range(order)
  BY <1>3 DEF WorkInv, WorkTypes
<1>7. WorkTypes'
  BY <1>1, <1>4, <1>5, <1>6 DEF WorkInv, WorkTypes, Working
<1>8. Batches'
  BY <1>2, <1>4 DEF WorkInv, Batches, Working
<1>9. SettledSoFar' /\ FirstPass'
  BY <1>2, SameSettled DEF WorkInv, FirstPass
<1>10. NoLeaseLeft'
  BY DEF WorkInv, NoLeaseLeft, Grant
<1> QED
  BY <1>2, <1>7, <1>8, <1>9, <1>10 DEF WorkInv

(* The tasks that got their files become the batch.                        *)
LEMMA StartBatchKeeps ==
    ASSUME WorkInv, AtPhase, at = "implementation", at' = at, StartBatch
    PROVE  WorkInv' /\ stage' # "idle"
PROOF
<1> USE DEF StartBatch
<1>1. Taken(order, held) \in Seq(Tasks) /\ Range(Taken(order, held)) \subseteq Range(order)
  BY TakenKeeps DEF WorkInv, WorkTypes
<1>2. stage = "independent"
  BY DEF WorkInv, WorkTypes, Batches, Working
<1>3. Tasks' = Tasks /\ Independent' = Independent
  BY SameTasks
<1>4. WorkTypes'
  BY <1>1, <1>3 DEF WorkInv, WorkTypes, Working
<1>5. Batches'
  BY <1>2, <1>3, ImplementationAssumption DEF WorkInv, Batches, Working
<1>6. SettledSoFar' /\ FirstPass'
  BY <1>2, SameSettled DEF WorkInv, FirstPass
<1>7. NoLeaseLeft'
  BY DEF WorkInv, NoLeaseLeft
<1> QED
  BY <1>2, <1>4, <1>5, <1>6, <1>7 DEF WorkInv

(* A task starts: of a batch one that holds its files, otherwise alone.    *)
LEMMA StartKeeps ==
    ASSUME WorkInv, AtPhase, at = "implementation", at' = at, Start
    PROVE  WorkInv' /\ stage' # "idle"
PROOF
<1> USE DEF Start
<1>1. Head(queue) \in Range(queue) /\ Tail(queue) \in Seq(Tasks)
      /\ Range(Tail(queue)) \subseteq Range(queue)
  BY QueueStep DEF WorkInv, WorkTypes
<1>2. Head(queue) \in Range(order) /\ Working
  BY <1>1 DEF WorkInv, WorkTypes, Batches
<1>3. Tasks' = Tasks /\ Independent' = Independent
  BY SameTasks
<1>4. WorkTypes'
  BY <1>1, <1>2, <1>3 DEF WorkInv, WorkTypes, Working
<1>5. /\ IsFiniteSet(running') /\ Cardinality(running') <= Permits
      /\ step # "batch" => running = {} /\ Cardinality(running') <= 1
  <2>1. IsFiniteSet(running) /\ Permits \in Nat
    BY ImplementationAssumption DEF WorkInv, Batches
  <2>2. PICK c : c \in Nat /\ c = Cardinality(running)
    BY <2>1, FS_CardinalityType
  <2>3. IsFiniteSet(running') /\ Cardinality(running') \in Nat
        /\ Cardinality(running') <= c + 1
    <3>1. Cardinality(running') = IF Head(queue) \in running THEN c ELSE c + 1
      BY <2>1, <2>2, FS_AddElement
    <3> QED
      BY <2>1, <2>2, <3>1, FS_AddElement
  <2>4. c < IF step = "batch" THEN Permits ELSE 1
    BY <2>2
  <2>5. step # "batch" => running = {}
    BY <2>1, <2>2, <2>4, CountZero
  <2> QED
    BY <2>1, <2>2, <2>3, <2>4, <2>5, ImplementationAssumption
<1>6. Batches'
  BY <1>2, <1>3, <1>5 DEF WorkInv, Batches, Working
<1>7. SettledSoFar'
  BY SameSettled DEF WorkInv
<1>8. FirstPass'
  <2> SUFFICES ASSUME stage = "dependent", retry = 0 PROVE FirstPass'
    BY DEF FirstPass
  <2>1. /\ CyclicTasks' = CyclicTasks
        /\ Topological(order, Tasks \ Independent)' = Topological(order, Tasks \ Independent)
    BY <1>3, SameTasks DEF Topological, DepsWithin
  <2>2. PICK k \in 0..Len(order) :
            /\ queue = SubSeq(order, k + 1, Len(order))
            /\ \A i \in 1..k : order[i] \in running \/ out[order[i]] # "none"
    BY DEF WorkInv, FirstPass
  <2>3. running = {} /\ order \in Seq(Tasks)
    BY <1>2, <1>5 DEF WorkInv, WorkTypes, Batches
  <2>4. k + 1 \in 1..Len(order) /\ Head(queue) = order[k + 1]
        /\ queue' = SubSeq(order, k + 2, Len(order))
    BY <2>2, <2>3, OrderStep
  <2>5. k + 1 \in 0..Len(order) /\ k + 1 > 0 /\ (k + 1) + 1 = k + 2 /\ (k + 1) - 1 = k
    BY <2>2, <2>4
  <2>6. running' = {order[k + 1]}
    BY <2>3, <2>4
  <2>7. \A i \in 1..k : out[order[i]] # "none"
    BY <2>2, <2>3
  <2>8. \A i \in 1..k + 1 : order[i] \in running' \/ out[order[i]] # "none"
    BY <2>2, <2>6, <2>7
  <2> QED
    BY <2>1, <2>4, <2>5, <2>6, <2>7, <2>8 DEF WorkInv, FirstPass
<1>9. NoLeaseLeft'
  BY DEF WorkInv, NoLeaseLeft
<1> QED
  BY <1>2, <1>4, <1>6, <1>7, <1>8, <1>9 DEF WorkInv, Working

(* A task that runs ends with an outcome; its files stay leased until the  *)
(* whole batch has answered.                                               *)
LEMMA FinishKeeps ==
    ASSUME WorkInv, AtPhase, at = "implementation", at' = at, NEW t \in Tasks, Finish(t)
    PROVE  WorkInv' /\ stage' # "idle"
PROOF
<1> USE DEF Finish
<1>1. PICK o \in {"completed", "failed", "deferred"} : out' = [out EXCEPT ![t] = o]
  OBVIOUS
<1>2. Working /\ out \in [Tasks -> Results]
  BY DEF WorkInv, WorkTypes, Batches
<1>3. Tasks' = Tasks /\ Independent' = Independent
  BY SameTasks
<1>4. out' \in [Tasks -> Results] /\ out'[t] # "none"
      /\ \A u \in Tasks : u # t => out'[u] = out[u]
  BY <1>1, <1>2 DEF Results
<1>5. WorkTypes'
  BY <1>3, <1>4 DEF WorkInv, WorkTypes, Working
<1>6. /\ IsFiniteSet(running') /\ Cardinality(running') <= Cardinality(running)
      /\ Cardinality(running') \in Nat /\ Cardinality(running) \in Nat
  <2>1. IsFiniteSet(running) /\ running' \in SUBSET running
    BY DEF WorkInv, Batches
  <2> QED
    BY <2>1, FS_Subset, FS_CardinalityType
<1>7. Batches'
  BY <1>2, <1>3, <1>6, ImplementationAssumption DEF WorkInv, Batches, Working
<1>8. SettledSoFar'
  BY SameSettled DEF WorkInv
<1>9. FirstPass'
  <2> SUFFICES ASSUME stage = "dependent", retry = 0 PROVE FirstPass'
    BY DEF FirstPass
  <2>1. /\ CyclicTasks' = CyclicTasks
        /\ Topological(order, Tasks \ Independent)' = Topological(order, Tasks \ Independent)
    BY <1>3, SameTasks DEF Topological, DepsWithin
  <2>2. PICK k \in 0..Len(order) :
            /\ queue = SubSeq(order, k + 1, Len(order))
            /\ k > 0 /\ running = {order[k]}
            /\ \A i \in 1..k - 1 : out[order[i]] # "none"
    BY DEF WorkInv, FirstPass
  <2>3. \A i \in 1..Len(order) : order[i] \in Tasks
    BY DEF WorkInv, WorkTypes
  <2>4. order[k] = t /\ running' = {} /\ Len(order) \in Nat
    BY <2>2 DEF WorkInv, WorkTypes
  <2>5. \A i \in 1..k : out'[order[i]] # "none"
    <3> SUFFICES ASSUME NEW i \in 1..k, order[i] # t PROVE out'[order[i]] # "none"
      BY <1>4
    <3>1. i \in 1..k - 1 /\ order[i] \in Tasks
      BY <2>2, <2>3, <2>4
    <3> QED
      BY <1>4, <2>2, <3>1
  <2> QED
    BY <2>1, <2>2, <2>4, <2>5 DEF WorkInv, FirstPass
<1>10. NoLeaseLeft'
  BY DEF WorkInv, NoLeaseLeft
<1> QED
  BY <1>2, <1>5, <1>7, <1>8, <1>9, <1>10 DEF WorkInv, Working

(* A batch that has answered gives back its files, and the tasks without   *)
(* files follow one by one.                                                *)
LEMMA EndBatchKeeps ==
    ASSUME WorkInv, AtPhase, at = "implementation", at' = at, EndBatch
    PROVE  WorkInv' /\ stage' # "idle"
PROOF
<1> USE DEF EndBatch
<1>1. Taken(order, Tasks \ held) \in Seq(Tasks)
      /\ Range(Taken(order, Tasks \ held)) \subseteq Range(order)
  BY TakenKeeps DEF WorkInv, WorkTypes
<1>2. stage = "independent"
  BY DEF WorkInv, WorkTypes, Batches, Working
<1>3. Tasks' = Tasks /\ Independent' = Independent
  BY SameTasks
<1>4. leases' \in [Paths -> Nat \cup {Unleased}] /\ \A p \in Paths : leases'[p] = Unleased
  BY DEF WorkInv, WorkTypes, NoLeaseLeft, Release
<1>5. WorkTypes'
  BY <1>1, <1>3, <1>4 DEF WorkInv, WorkTypes, Working
<1>6. Batches'
  <2>1. Cardinality(running) <= 1
    BY FS_EmptySet
  <2> QED
    BY <1>2, <1>3, <2>1 DEF WorkInv, Batches, Working
<1>7. SettledSoFar' /\ FirstPass'
  BY <1>2, SameSettled DEF WorkInv, FirstPass
<1>8. NoLeaseLeft'
  BY <1>4 DEF NoLeaseLeft
<1> QED
  BY <1>2, <1>5, <1>6, <1>7, <1>8 DEF WorkInv

(* The results of a round become final, except for those put off.          *)
LEMMA SettleKeeps ==
    ASSUME WorkInv, Working, NEW exhausted \in SUBSET Deferred, Settle(exhausted)
    PROVE  /\ settled' \in [Tasks -> Seq(Results)]
           /\ \A t \in Tasks : \A n \in Nat : Finals(t, n) =>
                 Len(settled'[t]) =
                     IF t \in exhausted \cup (Range(order) \ Deferred) THEN n + 1 ELSE n
PROOF
<1>1. settled \in [Tasks -> Seq(Results)] /\ out \in [Tasks -> Results]
  BY DEF WorkInv, WorkTypes
<1>2. ASSUME NEW t \in Tasks
      PROVE  /\ Append(settled[t], "failed") \in Seq(Results)
             /\ Append(settled[t], out[t]) \in Seq(Results)
             /\ Len(Append(settled[t], "failed")) = Len(settled[t]) + 1
             /\ Len(Append(settled[t], out[t])) = Len(settled[t]) + 1
  <2>1. settled[t] \in Seq(Results) /\ out[t] \in Results /\ "failed" \in Results
    BY <1>1 DEF Results
  <2> QED
    BY <2>1
<1>3. settled' \in [Tasks -> Seq(Results)]
  BY <1>1, <1>2 DEF Settle
<1> QED
  BY <1>1, <1>2, <1>3 DEF Settle, Finals

(* The deferred tasks get another round, in the order they were in; the    *)
(* other outcomes of this one are final.                                   *)
LEMMA RetryRoundKeeps ==
    ASSUME WorkInv, AtPhase, at = "implementation", at' = at, RetryRound
    PROVE  WorkInv' /\ stage' # "idle"
PROOF
<1> USE DEF RetryRound, RoundOver
<1>1. Working /\ {} \in SUBSET Deferred /\ Deferred \subseteq Range(order)
  BY DEF Working, Deferred
<1> DEFINE pending == Taken(order, Deferred)
<1>2. pending \in Seq(Tasks) /\ Range(pending) = Deferred
  <2>1. Range(pending) = Range(order) \cap Deferred /\ pending \in Seq(Tasks)
    BY TakenKeeps DEF WorkInv, WorkTypes
  <2> QED
    BY <1>1, <2>1
<1>3. settled' \in [Tasks -> Seq(Results)]
      /\ \A t \in Tasks : \A n \in Nat : Finals(t, n) =>
            Len(settled'[t]) = IF t \in Range(order) \ Deferred THEN n + 1 ELSE n
  BY <1>1, SettleKeeps
<1>4. Range(pending) \subseteq IF stage = "independent" THEN Independent
                               ELSE Tasks \ Independent
  BY <1>1, <1>2 DEF WorkInv, Batches
<1>5. retry + 1 \in 0..MaxDeferred /\ retry + 1 # 0
  BY ImplementationAssumption DEF WorkInv, WorkTypes
<1> HIDE DEF pending
<1>6. Round(stage, pending, retry + 1)
  BY DEF pending
<1>7. WorkTypes' /\ Batches' /\ NoLeaseLeft'
  BY <1>2, <1>3, <1>4, <1>5, <1>6, RoundKeeps
<1>8. Tasks' = Tasks /\ Independent' = Independent /\ stage' = stage /\ order' = pending
      /\ retry' # 0
  BY <1>5, <1>6, SameTasks DEF Round
<1>9. FirstPass'
  BY <1>8 DEF FirstPass
<1>10. SettledSoFar'
  <2> SUFFICES ASSUME NEW t \in Tasks
               PROVE  /\ stage = "independent" =>
                           Len(settled'[t]) = IF t \in Independent \ Deferred THEN 1 ELSE 0
                      /\ stage = "dependent" =>
                           Len(settled'[t]) = IF t \in Deferred THEN 0 ELSE 1
    BY <1>1, <1>2, <1>8 DEF SettledSoFar, Finals, Working
  <2>1. /\ stage = "independent" =>
             Finals(t, IF t \in Independent \ Range(order) THEN 1 ELSE 0)
        /\ stage = "dependent" => Finals(t, IF t \in Range(order) THEN 0 ELSE 1)
        /\ stage = "independent" => Range(order) \subseteq Independent
    BY DEF WorkInv, SettledSoFar, Batches
  <2>2. \A n \in {0, 1} : Finals(t, n) =>
            Len(settled'[t]) = IF t \in Range(order) \ Deferred THEN n + 1 ELSE n
    BY <1>3
  <2>3. CASE t \in Range(order)
    BY <1>1, <2>1, <2>2, <2>3
  <2>4. CASE t \notin Range(order)
    BY <1>1, <2>1, <2>2, <2>4
  <2> QED
    BY <2>3, <2>4
<1> QED
  BY <1>1, <1>7, <1>8, <1>9, <1>10 DEF WorkInv, Working

(* A stage that is over settles what is still deferred; after the          *)
(* independent tasks come the others in topological order.                 *)
LEMMA EndStageKeeps ==
    ASSUME WorkInv, AtPhase, at = "implementation", at' = at, EndStage
    PROVE  WorkInv' /\ stage' # "idle"
PROOF
<1> USE DEF EndStage, RoundOver
<1>1. Working /\ Deferred \in SUBSET Deferred /\ Deferred \subseteq Range(order)
      /\ tasks \in TaskLists
  BY DEF Working, Deferred, WorkInv, WorkTypes
<1>2. settled' \in [Tasks -> Seq(Results)]
      /\ \A t \in Tasks : \A n \in Nat : Finals(t, n) =>
            Len(settled'[t]) = IF t \in Range(order) THEN n + 1 ELSE n
  <2>1. Deferred \cup (Range(order) \ Deferred) = Range(order)
    BY <1>1
  <2> QED
    BY <1>1, <2>1, SettleKeeps
<1>3. Tasks' = Tasks /\ Independent' = Independent
  BY SameTasks
<1>4. ASSUME NEW t \in Tasks
      PROVE  /\ stage = "independent" =>
                  Len(settled'[t]) = IF t \in Independent THEN 1 ELSE 0
             /\ stage = "dependent" => Len(settled'[t]) = 1
  <2>1. /\ stage = "independent" =>
             Finals(t, IF t \in Independent \ Range(order) THEN 1 ELSE 0)
        /\ stage = "dependent" => Finals(t, IF t \in Range(order) THEN 0 ELSE 1)
        /\ stage = "independent" => Range(order) \subseteq Independent
    BY DEF WorkInv, SettledSoFar, Batches
  <2>2. /\ Finals(t, 0) => Len(settled'[t]) = IF t \in Range(order) THEN 1 ELSE 0
        /\ Finals(t, 1) /\ t \notin Range(order) => Len(settled'[t]) = 1
    <3>1. \A n \in Nat : Finals(t, n) =>
              Len(settled'[t]) = IF t \in Range(order) THEN n + 1 ELSE n
      BY <1>2
    <3>2. 0 \in Nat /\ 1 \in Nat /\ 0 + 1 = 1
      OBVIOUS
    <3> HIDE DEF EndStage, RoundOver
    <3> QED
      BY <3>1, <3>2
  <2>3. CASE t \in Range(order)
    BY <2>1, <2>2, <2>3
  <2>4. CASE t \notin Range(order)
    BY <2>1, <2>2, <2>4
  <2> QED
    BY <2>3, <2>4
<1>5. ASSUME stage = "independent",
             NEW o \in TopologicalOrders(Tasks \ Independent), Round("dependent", o, 0)
      PROVE  WorkInv' /\ stage' # "idle"
  <2> DEFINE rest == Tasks \ Independent
  <2>1. /\ o \in Seq(Tasks) /\ Range(o) = rest
        /\ ~CyclicTasks => Topological(o, rest)
    BY <1>1, <1>5, OrderedTopologically
  <2>2. WorkTypes' /\ Batches' /\ NoLeaseLeft'
    BY <1>2, <1>5, <2>1, RoundKeeps, ImplementationAssumption
  <2>3. /\ stage' = "dependent" /\ order' = o /\ queue' = o /\ retry' = 0
        /\ running' = {}
    BY <1>5 DEF Round
  <2>4. SettledSoFar'
    BY <1>3, <1>4, <1>5, <2>1, <2>3 DEF SettledSoFar, Finals
  <2>5. FirstPass'
    <3>1. CyclicTasks' = CyclicTasks /\ Topological(o, rest)' = Topological(o, rest)
      BY <1>3, SameTasks DEF Topological, DepsWithin
    <3>2. SubSeq(o, 0 + 1, Len(o)) = o /\ 0 \in 0..Len(o)
      BY <2>1
    <3> QED
      BY <1>3, <2>1, <2>3, <3>1, <3>2 DEF FirstPass
  <2> QED
    BY <2>2, <2>3, <2>4, <2>5 DEF WorkInv
<1>6. ASSUME stage = "dependent", stage' = "over",
             UNCHANGED <<step, order, queue, held, out, retry>>
      PROVE  WorkInv' /\ stage' # "idle"
  <2>1. WorkTypes'
    BY <1>2, <1>3, <1>6 DEF WorkInv, WorkTypes, Working
  <2>2. Batches'
    BY <1>3, <1>6 DEF WorkInv, Batches, Working
  <2>3. SettledSoFar' /\ FirstPass'
    BY <1>3, <1>4, <1>6 DEF SettledSoFar, FirstPass, Finals
  <2>4. NoLeaseLeft'
    BY <1>6 DEF WorkInv, NoLeaseLeft
  <2> QED
    BY <1>6, <2>1, <2>2, <2>3, <2>4 DEF WorkInv
<1> QED
  BY <1>5, <1>6

(* Every step of the phase keeps the invariant.                            *)
LEMMA NextWorkKeeps ==
    ASSUME WorkInv, AtPhase, at = "implementation", at' = at, NextWork
    PROVE  WorkInv' /\ stage' # "idle"
PROOF
  BY PartitionKeeps, AcquireKeeps, StartBatchKeeps, StartKeeps, FinishKeeps, EndBatchKeeps,
     RetryRoundKeeps, EndStageKeeps DEF NextWork

(* The phase ends, by itself or with the mission.                          *)
LEMMA ForgetWorkKeeps ==
    ASSUME WorkInv, at = "implementation", at' = "verification", ForgetWork
    PROVE  WorkInv' /\ stage' = "over"
PROOF
<1> USE DEF ForgetWork
<1>1. Tasks' = {} /\ <<>> \in TaskLists /\ Range(<<>>) = {} /\ order' = <<>>
  BY DEF Tasks, TaskLists, Range
<1>2. queue = <<>> /\ running = {} /\ step = "sequence"
  BY DEF WorkInv, Batches, Working
<1>3. WorkTypes'
  <2>1. settled' \in [Tasks' -> Seq(Results)] /\ order' \in Seq(Tasks') /\ queue' \in Seq(Tasks')
    BY <1>1, <1>2
  <2> QED
    BY <1>1, <1>2, <2>1, ImplementationAssumption DEF WorkInv, WorkTypes, Working
<1>4. Batches'
  BY <1>2 DEF WorkInv, Batches, Working
<1>5. SettledSoFar' /\ FirstPass' /\ NoLeaseLeft'
  BY <1>1, <1>2 DEF WorkInv, SettledSoFar, FirstPass, NoLeaseLeft
<1> QED
  BY <1>3, <1>4, <1>5 DEF WorkInv

(* A mission that ends drops its work, with every lease it has.            *)
LEMMA DropWorkKeeps ==
    ASSUME WorkInv, at' = "done", DropWork
    PROVE  WorkInv' /\ stage' = "over"
PROOF
<1> USE DEF DropWork
<1>1. Tasks' = {} /\ <<>> \in TaskLists /\ Range(<<>>) = {} /\ order' = <<>>
  BY DEF Tasks, TaskLists, Range
<1>2. leases' \in [Paths -> Nat \cup {Unleased}] /\ \A p \in Paths : leases'[p] = Unleased
  BY DEF WorkInv, WorkTypes, NoLeaseLeft, Release
<1>3. WorkTypes'
  <2>1. settled' \in [Tasks' -> Seq(Results)] /\ order' \in Seq(Tasks') /\ queue' \in Seq(Tasks')
    BY <1>1
  <2> QED
    BY <1>1, <1>2, <2>1, ImplementationAssumption DEF WorkInv, WorkTypes, Working
<1>4. Batches'
  BY FS_EmptySet, ImplementationAssumption DEF WorkInv, Batches, Working
<1>5. SettledSoFar' /\ FirstPass' /\ NoLeaseLeft'
  BY <1>1, <1>2 DEF SettledSoFar, FirstPass, NoLeaseLeft
<1> QED
  BY <1>3, <1>4, <1>5 DEF WorkInv

-----------------------------------------------------------------------------
(* A round of reviews asks the reviewers one after the other.              *)
LEMMA Reviewing ==
    /\ Range(Reviewers) \cap {"idle", "round", "judge", "fix", "over", "error"} = {}
    /\ Head(Reviewers) \in Range(Reviewers)
    /\ \A r \in Range(Reviewers) : After(r) \in Asking
PROOF
<1>1. Reviewers \in Seq(STRING) /\ Len(Reviewers) \in Nat \ {0}
      /\ DOMAIN Reviewers = 1..Len(Reviewers) /\ Head(Reviewers) = Reviewers[1]
  BY CleanRoundsAssumption
<1>2. Head(Reviewers) \in Range(Reviewers)
  BY <1>1 DEF Range
<1>3. ASSUME NEW r \in Range(Reviewers), r # Verifier
      PROVE  After(r) \in Range(Reviewers)
  <2> DEFINE k == CHOOSE k \in DOMAIN Reviewers : Reviewers[k] = r
  <2>1. k \in DOMAIN Reviewers /\ Reviewers[k] = r
    BY DEF Range
  <2>2. k # Len(Reviewers)
    BY <1>3, <2>1 DEF Verifier, Last
  <2>3. After(r) = Reviewers[1 + k]
    BY <1>3 DEF After
  <2> HIDE DEF k
  <2>4. 1 + k \in DOMAIN Reviewers
    BY <1>1, <2>1, <2>2
  <2> QED
    BY <2>3, <2>4 DEF Range
<1> QED
  BY <1>2, <1>3, CleanRoundsAssumption DEF After, Asking

(* No step of the verification counts a clean round that was not also a    *)
(* round without changes.                                                  *)
LEMMA NextRoundsKeeps ==
    ASSUME CleanCounted, NextRounds
    PROVE  CleanCounted'
PROOF
<1> USE Reviewing, CleanRoundsAssumption DEF CleanCounted, Asking
<1>1. CASE NextRound
  BY <1>1 DEF NextRound, Going
<1>2. CASE EndRounds
  BY <1>2 DEF EndRounds
<1>3. CASE Review
  <2>1. review' \in Asking \cup {"error"} /\ UNCHANGED <<total, clean, unchanged>>
    BY <1>3 DEF Review
  <2> QED
    BY <1>3, <2>1 DEF Review
<1>4. CASE Judge
  BY <1>4 DEF Judge
<1>5. CASE Fix
  BY <1>5 DEF Fix
<1>6. CASE EndFixes
  BY <1>6 DEF EndFixes
<1> QED
  BY <1>1, <1>2, <1>3, <1>4, <1>5, <1>6 DEF NextRounds

-----------------------------------------------------------------------------
(* The steps of a mission that leave its implementation and its rounds     *)
(* alone, but for where it is, and never make it a success.                *)
LEMMA MissionStep ==
    ASSUME IInv, UNCHANGED <<work, rounds>>,
           at \in {"health", "research", "planning", "consensus"},
           \/ /\ at' \in {"research", "planning", "consensus", "escalation"}
              /\ UNCHANGED report
           \/ at' = "done" /\ report' \in {"failure", "human", "error"}
    PROVE  IInv'
PROOF
<1>1. WorkInv' 
  BY WorkUnchanged DEF IInv
<1>2. AtPhase'
  BY DEF IInv, AtPhase, Working, work, rounds
<1>3. CleanCounted' /\ ReviewedFinalCode'
  BY DEF IInv, CleanCounted, ReviewedFinalCode, rounds, AtPhase
<1> QED
  BY <1>1, <1>2, <1>3 DEF IInv

(* Going into the implementation phase begins the work with the planned    *)
(* tasks.                                                                  *)
LEMMA ImplementStep ==
    ASSUME IInv, NEW list \in TaskLists, Implement(list),
           at \in {"planning", "consensus", "escalation"}
    PROVE  IInv'
PROOF
<1> USE DEF Implement
<1>1. WorkInv' /\ stage' = "partition"
  BY BeginWorkKeeps DEF IInv
<1>2. AtPhase'
  BY <1>1 DEF IInv, AtPhase, Working, rounds
<1>3. CleanCounted' /\ ReviewedFinalCode'
  BY DEF IInv, CleanCounted, ReviewedFinalCode, rounds, AtPhase
<1> QED
  BY <1>1, <1>2, <1>3 DEF IInv

(* Every step of the coordinator keeps the invariant.                      *)
LEMMA NextInv == IInv /\ [Next]_vars => IInv'
PROOF
<1> SUFFICES ASSUME IInv, [Next]_vars PROVE IInv'
  OBVIOUS
<1> USE DEF UnchangedWork, Ends, Goes
<1>1. CASE CheckHealth
  BY <1>1, MissionStep DEF CheckHealth, work, rounds
<1>2. CASE Research
  BY <1>2, MissionStep DEF Research, work, rounds
<1>3. CASE Plan
  BY <1>3, MissionStep, ImplementStep, CoordinatorAssumption DEF Plan, work, rounds
<1>4. CASE Consensus
  BY <1>4, MissionStep, ImplementStep, CoordinatorAssumption DEF Consensus, work, rounds
<1>5. CASE Escalate
  <2>1. <<>> \in TaskLists
    BY DEF TaskLists
  <2>2. CASE Level = "HumanEscalation" /\ Ends("human") /\ UNCHANGED <<work, rounds>>
    <3>1. WorkInv'
      BY <1>5, <2>2, WorkUnchanged DEF IInv, Escalate
    <3> QED
      BY <1>5, <2>2, <3>1
      DEF IInv, AtPhase, Working, work, rounds, CleanCounted, ReviewedFinalCode, Escalate
  <2> QED
    BY <1>5, <2>1, <2>2, ImplementStep, CoordinatorAssumption DEF Escalate
<1>6. CASE WorkStep
  <2>1. WorkInv' /\ stage' # "idle"
    BY <1>6, NextWorkKeeps DEF IInv, WorkStep
  <2> QED
    BY <1>6, <2>1 DEF IInv, WorkStep, AtPhase, CleanCounted, ReviewedFinalCode, rounds
<1>7. CASE Verify
  <2>1. WorkInv' /\ stage' = "over"
    BY <1>7, ForgetWorkKeeps DEF IInv, Verify
  <2>2. CleanCounted'
    BY <1>7, Reviewing DEF IInv, Verify, CleanCounted, BeginRounds, Asking
  <2> QED
    BY <1>7, <2>1, <2>2 DEF IInv, Verify, AtPhase, ReviewedFinalCode, Working, BeginRounds
<1>8. CASE VerifyStep
  <2>1. WorkInv' /\ CleanCounted'
    BY <1>8, WorkUnchanged, NextRoundsKeeps DEF IInv, VerifyStep
  <2> QED
    BY <1>8, <2>1 DEF IInv, VerifyStep, AtPhase, ReviewedFinalCode, Working, work
<1>9. CASE Finalize
  <2>1. WorkInv' 
    BY <1>9, WorkUnchanged DEF IInv, Finalize
  <2>2. AtPhase' /\ CleanCounted'
    BY <1>9 DEF IInv, Finalize, AtPhase, CleanCounted, Working, work, rounds, Converged
  <2>3. ReviewedFinalCode'
    BY <1>9, CleanRoundsAssumption
    DEF IInv, Finalize, CleanCounted, ReviewedFinalCode, rounds, Converged
  <2> QED
    BY <2>1, <2>2, <2>3 DEF IInv
<1>10. CASE Timeout
  <2>1. WorkInv' /\ stage' = "over"
    BY <1>10, DropWorkKeeps DEF IInv, Timeout
  <2> QED
    BY <1>10, <2>1
    DEF IInv, Timeout, AtPhase, CleanCounted, ReviewedFinalCode, Working, rounds
<1>11. CASE UNCHANGED vars
  <2>1. WorkInv'
    BY <1>11, WorkUnchanged DEF IInv, vars
  <2> QED
    BY <1>11, <2>1
    DEF IInv, vars, work, rounds, AtPhase, Working, CleanCounted, ReviewedFinalCode
<1> QED
  BY <1>1, <1>2, <1>3, <1>4, <1>5, <1>6, <1>7, <1>8, <1>9, <1>10, <1>11
  DEF Next, Progress

(* The inductive invariant holds in every behaviour of the coordinator,    *)
(* for any tasks, files and limits.                                        *)
THEOREM Invariance == Spec => []IInv
PROOF
  BY InitInv, NextInv, PTL DEF Spec

-----------------------------------------------------------------------------
(* The counters of the rounds and of the escalations: a round that is      *)
(* going on is not counted yet, and a mission is escalated once at most.   *)
Counted ==
    /\ found \in Seq(Issues) /\ attempts \in [Issues -> Nat] /\ passed \in BOOLEAN
    /\ unanimous \in 0..total /\ unchanged \in 0..total
    /\ review \in Asking => unanimous < total /\ unchanged < total
    /\ adaptive \in BOOLEAN
    /\ escalations \in 0..4 * MaxAttempts + 1
    /\ at \in {"health", "research", "planning", "consensus", "escalation"} =>
           escalations <= 4 * MaxAttempts

(* A finite set of issues is listed as a sequence of them.                 *)
LEMMA ListOfIssues ==
    ASSUME NEW F \in SUBSET Issues
    PROVE  SetToSeq(F) \in Seq(Issues)
PROOF
<1>1. IsFiniteSet(F)
  BY FS_Subset, CleanRoundsAssumption
<1>2. PICK c : c \in Nat /\ c = Cardinality(F)
  BY <1>1, FS_CardinalityType
<1>3. \E f \in [1..c -> F] : IsInjective(f)
  <2>1. PICK f : f \in Bijection(1..c, F)
    BY <1>1, <1>2, FS_CardinalityType DEF ExistsBijection
  <2> QED
    BY <2>1 DEF Bijection, Injection
<1>4. SetToSeq(F) \in [1..c -> F]
  BY <1>2, <1>3 DEF SetToSeq
<1> QED
  BY <1>2, <1>4

(* Every step keeps the counters in their ranges.                          *)
LEMMA NextCounted == IInv /\ Counted /\ [Next]_vars => Counted'
PROOF
<1> SUFFICES ASSUME IInv, Counted, [Next]_vars PROVE Counted'
  OBVIOUS
<1>1. total \in Nat /\ MaxAttempts \in Nat
  BY CoordinatorAssumption, CleanRoundsAssumption DEF IInv, CleanCounted
<1>2. CASE VerifyStep
  <2> USE <1>1, <1>2, Reviewing, CleanRoundsAssumption DEF Counted, VerifyStep, Asking
  <2>1. CASE NextRound
    BY <2>1 DEF NextRound
  <2>2. CASE EndRounds
    BY <2>2 DEF EndRounds
  <2>3. CASE Review
    <3>1. review' \in Asking \cup {"error"} /\ passed' \in BOOLEAN
      BY <2>3 DEF Review
    <3>2. found' \in Seq(Issues)
      <4>1. ASSUME NEW issues \in SUBSET Issues, found' = found \o SetToSeq(issues)
            PROVE  found' \in Seq(Issues)
        <5> DEFINE more == SetToSeq(issues)
        <5>1. more \in Seq(Issues) /\ found \in Seq(Issues) /\ found' = found \o more
          BY <4>1, ListOfIssues
        <5> HIDE DEF more
        <5> QED
          BY <5>1
      <4>2. UNCHANGED found \/ \E issues \in SUBSET Issues : found' = found \o SetToSeq(issues)
        BY <2>3 DEF Review
      <4> QED
        BY <4>1, <4>2
    <3> QED
      BY <2>3, <3>1, <3>2 DEF Review
  <2>4. CASE Judge
    BY <2>4 DEF Judge
  <2>5. CASE Fix
    <3>1. Head(found) \in Issues /\ Tail(found) \in Seq(Issues)
      BY <2>5 DEF Fix
    <3>2. attempts' \in [Issues -> Nat]
      BY <2>5, <3>1 DEF Fix
    <3> QED
      BY <2>5, <3>1, <3>2 DEF Fix
  <2>6. CASE EndFixes
    BY <2>6 DEF EndFixes
  <2> QED
    BY <2>1, <2>2, <2>3, <2>4, <2>5, <2>6 DEF NextRounds
<1>3. CASE Verify
  <2>1. review' = "round" /\ "round" \notin Asking
    BY <1>3, CleanRoundsAssumption DEF Verify, BeginRounds, Asking
  <2> QED
    BY <1>1, <1>3, <2>1 DEF Counted, Verify, BeginRounds, Goes
<1>4. CASE Escalate
  <2>1. escalations' = escalations + 1 /\ at = "escalation"
        /\ at' \in {"implementation", "done"} /\ UNCHANGED <<rounds, adaptive>>
    BY <1>4 DEF Escalate, Implement, Ends
  <2> QED
    BY <1>1, <2>1 DEF Counted, rounds
<1>5. ASSUME UNCHANGED <<rounds, adaptive, escalations>>,
             at' \in {"health", "research", "planning", "consensus", "escalation"} =>
                 at \in {"health", "research", "planning", "consensus", "escalation"}
      PROVE  Counted'
  BY <1>5 DEF Counted, rounds
<1> QED
  BY <1>2, <1>3, <1>4, <1>5
  DEF Next, Progress, CheckHealth, Research, Plan, Consensus, Implement, WorkStep, Finalize,
      Timeout, UnchangedWork, Ends, vars

(* Every variable of the coordinator stays in the range the code's types   *)
(* and limits give it.                                                     *)
THEOREM Types == Spec => []TypeOK
PROOF
<1>1. Init => Counted
  <2> SUFFICES ASSUME Init PROVE Counted
    OBVIOUS
  <2>1. Len(Levels) = 4 /\ MaxAttempts \in Nat
    BY CoordinatorAssumption DEF Levels
  <2>2. "idle" \notin Asking
    BY CleanRoundsAssumption DEF Asking
  <2>3. /\ escalations \in 0..4 * MaxAttempts /\ adaptive \in BOOLEAN
        /\ total = 0 /\ found = <<>> /\ attempts = [i \in Issues |-> 0] /\ passed = TRUE
        /\ unanimous = 0 /\ unchanged = 0 /\ review = "idle"
    BY <2>1 DEF Init, InitRounds
  <2> QED
    BY <2>1, <2>2, <2>3 DEF Counted
<1>2. IInv /\ Counted => TypeOK
  <2> SUFFICES ASSUME IInv, Counted PROVE TypeOK
    OBVIOUS
  <2>1. leases \in [Paths -> Tasks \cup {Unleased}]
    BY DEF IInv, WorkInv, WorkTypes, NoLeaseLeft, Range
  <2>2. out \in [Tasks -> Results] \cup {<<>>}
    BY DEF IInv, WorkInv, WorkTypes, Working
  <2>3. WorkTypes /\ AtPhase /\ CleanCounted
    BY DEF IInv, WorkInv
  <2>4. Len(Levels) = 4
    BY DEF Levels
  <2>5. review \in Range(Reviewers) \cup {"idle", "round", "judge", "fix", "over", "error"}
    BY <2>3 DEF CleanCounted, Asking
  <2>6. /\ tasks \in TaskLists /\ missing \subseteq NewFiles /\ parallel \in BOOLEAN
        /\ stage \in {"idle", "partition", "independent", "dependent", "over"}
        /\ step \in {"acquire", "batch", "sequence"}
        /\ order \in Seq(Tasks) /\ queue \in Seq(Tasks) /\ Range(queue) \subseteq Range(order)
        /\ held \subseteq Range(order) /\ running \subseteq Range(order)
        /\ retry \in 0..MaxDeferred /\ settled \in [Tasks -> Seq(Results)]
    BY <2>3 DEF WorkTypes
  <2>7. escalations \in 0..Len(Levels) * MaxAttempts + 1
    BY <2>4 DEF Counted
  <2> QED
    BY <2>1, <2>2, <2>3, <2>5, <2>6, <2>7 DEF AtPhase, CleanCounted, Counted, TypeOK
<1> QED
  BY <1>1, <1>2, NextCounted, Invariance, PTL DEF Spec

(* Agents that work at the same time have no path in common, nor a file    *)
(* that existed when the tasks were partitioned, and no more of them work  *)
(* than the permits allow: only the tasks of a batch run together, a batch *)
(* is of independent tasks, and partition_tasks leaves no two of those     *)
(* the same path, as it is found or else as it is spelled.                 *)
THEOREM FilesAreExclusive == Spec => []ExclusiveFiles
PROOF
<1>1. IInv => ExclusiveFiles
  <2> SUFFICES ASSUME IInv, NEW t \in running, NEW u \in running, t # u
               PROVE  \A p \in Range(tasks[t].files), q \in Range(tasks[u].files) :
                          p # q /\ (Resolved[p] = Resolved[q] => Resolved[p] \in missing)
    BY DEF ExclusiveFiles, IInv, WorkInv, Batches
  <2>1. step = "batch"
    <3>1. IsFiniteSet(running) /\ {t, u} \in SUBSET running
      BY DEF IInv, WorkInv, Batches
    <3>2. Cardinality({t, u}) = 2
      <4>1. IsFiniteSet({t}) /\ Cardinality({t}) = 1 /\ {t} \cup {u} = {t, u} /\ u \notin {t}
        BY FS_Singleton
      <4> QED
        BY <4>1, FS_AddElement
    <3>3. 2 <= Cardinality(running) /\ Cardinality(running) \in Nat
      BY <3>1, <3>2, FS_Subset, FS_CardinalityType
    <3> QED
      BY <3>3 DEF IInv, WorkInv, Batches
  <2>2. running \subseteq Independent
    BY <2>1 DEF IInv, WorkInv, WorkTypes, Batches, Working
  <2>3. FilesOf(t) \cap FilesOf(u) = {}
    BY <2>2, IndependentApart DEF IInv, WorkInv, WorkTypes
  <2> QED
    BY <2>3 DEF FilesOf
<1> QED
  BY <1>1, Invariance, PTL

(* A dependent task waits, in the first round, until everything it depends *)
(* on was tried: the independent tasks are settled, and of the dependent   *)
(* ones those before it in the order have an outcome.                      *)
THEOREM DependenciesComeFirst == Spec => []DependenciesFirst
PROOF
<1>1. IInv => DependenciesFirst
  <2> SUFFICES ASSUME IInv, NEW t \in running, stage = "dependent", retry = 0, ~CyclicTasks,
                      NEW d \in tasks[t].deps \cap Tasks
               PROVE  settled[d] # <<>> \/ out[d] # "none"
    BY DEF DependenciesFirst
  <2>1. PICK k \in 1..Len(order) :
            running = {order[k]} /\ \A i \in 1..k - 1 : out[order[i]] # "none"
    BY DEF IInv, WorkInv, FirstPass
  <2>2. CASE d \in Independent
    <3>1. d \notin Range(order)
      BY <2>2 DEF IInv, WorkInv, Batches
    <3>2. Len(settled[d]) = 1
      BY <3>1 DEF IInv, WorkInv, SettledSoFar, Finals
    <3>3. ASSUME settled[d] = <<>> PROVE FALSE
      <4>1. Len(settled[d]) = 0
        BY <3>3
      <4>2. 0 # 1
        OBVIOUS
      <4> QED
        BY <3>2, <4>1, <4>2, Zenon
    <3> QED
      BY <3>3
  <2>3. CASE d \notin Independent
    <3>1. d \in DepsWithin(order[k], Tasks \ Independent)
      BY <2>1, <2>3 DEF DepsWithin
    <3>2. d \in {order[j] : j \in 1..k - 1}
      BY <3>1 DEF IInv, WorkInv, FirstPass, Topological
    <3> QED
      BY <2>1, <3>2
  <2> QED
    BY <2>2, <2>3
<1> QED
  BY <1>1, Invariance, PTL

(* The verification starts with exactly one final result for every task,   *)
(* whatever was put off and tried again.                                   *)
THEOREM TasksSettledOnce == Spec => []SettledOnce
PROOF
<1>1. IInv => SettledOnce
  BY DEF IInv, WorkInv, SettledSoFar, Finals, SettledOnce
<1> QED
  BY <1>1, Invariance, PTL

(* Leases are held by the tasks of the batch only, and a mission that ends *)
(* at any moment leaves none behind.                                       *)
THEOREM NoLeaseStays == Spec => []NoLeaseLeft
PROOF
<1>1. IInv => NoLeaseLeft
  BY DEF IInv, WorkInv
<1> QED
  BY <1>1, Invariance, PTL

(* A mission that succeeds had as many rounds since the last fix as it     *)
(* needs clean ones: every clean round counts as a round without changes.  *)
THEOREM FinalCodeReviewed == Spec => []ReviewedFinalCode
PROOF
<1>1. IInv => ReviewedFinalCode
  BY DEF IInv
<1> QED
  BY <1>1, Invariance, PTL
=============================================================================
