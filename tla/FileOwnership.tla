--------------------------- MODULE FileOwnership ---------------------------
(***************************************************************************)
(* The leases on files a coordinator gives to the tasks it runs in         *)
(* parallel (src/agent/multi/ownership).  All leases are exclusive, as the *)
(* coordinator asks for no other access.  A lease expires after five       *)
(* minutes, but leases are only asked for before a batch starts and are    *)
(* returned when it ends, so no expired lease is ever looked at; the wait  *)
(* queues have no producer, and without them a file never involves the     *)
(* three modules a negotiation needs.                                      *)
(***************************************************************************)
EXTENDS Naturals, Sequences, Functions

CONSTANTS
    Paths,      \* names of files as the tasks spell them
    Modules,
    Boundary,   \* module_defaults: path -> the module that owns it, or NoModule
    Uses,       \* module_dependencies: pairs of modules
    NoModule,
    Unleased

ASSUME OwnershipAssumption ==
    /\ Boundary \in [Paths -> Modules \cup {NoModule}]
    /\ Uses \subseteq Modules \X Modules

VARIABLE leases     \* ownership: path -> the task that holds it, or Unleased

Free == [p \in Paths |-> Unleased]

(* get_default_owner and is_same_or_allowed_module.                        *)
WithinBoundary(module, p) ==
    \/ module = NoModule
    \/ Boundary[p] \in {NoModule, module}
    \/ <<module, Boundary[p]>> \in Uses

(* acquire: an exclusive lease is queued behind any other, its own too, so *)
(* acquire_ordered fails for a task that names a path twice.               *)
Grantable(task) ==
    /\ IsInjective(task.files)
    /\ \A i \in DOMAIN task.files :
        /\ leases[task.files[i]] = Unleased
        /\ WithinBoundary(task.module, task.files[i])

(* acquire_ordered: all the files of a task, or none.                      *)
Grant(owner, task) ==
    leases' = [p \in Paths |-> IF p \in Range(task.files) THEN owner ELSE leases[p]]

(* LeaseGuard::release_and_get_deferred, or the guards' Drop.              *)
FaultRelease(owners) == UNCHANGED leases
Release(owners) ==
    leases' = [p \in Paths |-> IF leases[p] \in owners THEN Unleased ELSE leases[p]]
=============================================================================
