---------------------------- MODULE CoordinatorMC ----------------------------
(***************************************************************************)
(* Instances of Coordinator for TLC.  Paths a1 and a2 name one file, which *)
(* may not exist yet; c is a file of module m, and a task of module n may  *)
(* not have it.                                                            *)
(***************************************************************************)
EXTENDS Coordinator, TLC
CONSTANTS a1, a2, b, c, FileA, m, n, i1

Names == {a1, a2, b, c}
Files == (a1 :> FileA) @@ (a2 :> FileA) @@ (b :> b) @@ (c :> c)
Owners == (a1 :> NoModule) @@ (a2 :> NoModule) @@ (b :> NoModule) @@ (c :> m)

Task(deps, files, module) == [deps |-> deps, files |-> files, module |-> module]

(* Aliases, a refused lease, a path named twice, a chain that is listed    *)
(* against its order, a cycle and a dependency on no task of the list.     *)
Lists == {
    << Task({}, <<a1, b>>, n), Task({}, <<c>>, n), Task({}, <<a2>>, n) >>,
    << Task({}, <<c>>, m), Task({}, <<b, b>>, n), Task({}, <<a1>>, NoModule) >>,
    << Task({2}, <<a1>>, n), Task({3}, <<a1>>, n), Task({}, <<b>>, n) >>,
    << Task({2}, <<a1>>, n), Task({1}, <<b>>, n), Task({9}, <<c>>, m) >> }
Asked == <<"code review", "architecture review", "verification">>
Findings == { <<>>, << Task({}, <<>>, n), Task({}, <<>>, NoModule) >> }
=============================================================================
