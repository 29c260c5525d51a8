----------------------------- MODULE ProcessLock -----------------------------
(***************************************************************************)
(* The execution lock of one mission: the file locks/<id>.lock, written by *)
(* whoever executes the mission, renewed by its heartbeat task and judged  *)
(* by every reader on its own (src/orchestrator/lifecycle.rs).  Nothing in *)
(* it is locked: acquiring is a read followed by a rename, releasing is an *)
(* unconditional unlink.                                                   *)
(*                                                                         *)
(* A process is one run of the program, so its number is a pid that is     *)
(* never used twice.  All processes run on one host.                       *)
(***************************************************************************)
EXTENDS Naturals, FiniteSets

CONSTANTS
    Procs,       \* the runs of the program, numbered in the order they start
    MaxLapses,   \* bound: heartbeats that come later than the stale threshold
    NoLock       \* no lock file; no heartbeat in flight

ASSUME LockAssumption ==
    /\ Procs \subseteq Nat /\ MaxLapses \in Nat
    /\ NoLock \notin Procs \cup [pid : Procs, stale : BOOLEAN]

VARIABLES
    alive,     \* processes that run
    lockFile,  \* [pid, stale] or NoLock
    holds,     \* processes that own a LockGuard
    beat,      \* [Procs -> pid the heartbeat has read, or NoLock]
    lapses     \* lapses so far

lockVars == <<alive, lockFile, holds, beat, lapses>>

LockOf(p) == [pid |-> p, stale |-> FALSE]

LockInit ==
    /\ alive = {} /\ holds = {} /\ lapses = 0
    /\ lockFile = NoLock
    /\ beat = [p \in Procs |-> NoLock]

(* ProcessLockInfo::is_valid of what read_lock returns.                    *)
FaultAnyLockValid == lockFile # NoLock
LockValid ==
    /\ lockFile # NoLock
    /\ lockFile.pid \in alive
    /\ ~lockFile.stale

(* LifecycleManager::is_orphan_state: nobody valid is named.               *)
LockOrphaned == ~LockValid

(* The rename that ends try_acquire_lock: it replaces whatever is there.   *)
TakeLock(p) ==
    /\ lockFile' = LockOf(p)
    /\ holds' = holds \cup {p}
    /\ UNCHANGED <<alive, beat, lapses>>

(* Drop of the LockGuard: the heartbeat is aborted and the file unlinked,  *)
(* whoever it names.  A rename the heartbeat has already handed to the     *)
(* blocking pool is not stopped by the abort.                              *)
DropGuard(p) ==
    /\ lockFile' = NoLock
    /\ holds' = holds \ {p}
    /\ UNCHANGED <<alive, beat, lapses>>

(* LifecycleManager::release_lock.                                         *)
ReleaseLock ==
    /\ lockFile' = NoLock
    /\ UNCHANGED <<alive, holds, beat, lapses>>

(* update_heartbeat_file, the read: the tick finds a file, of anybody.     *)
BeatRead(p) ==
    /\ p \in holds
    /\ beat[p] = NoLock
    /\ lockFile # NoLock
    /\ beat' = [beat EXCEPT ![p] = lockFile.pid]
    /\ UNCHANGED <<alive, lockFile, holds, lapses>>

(* update_heartbeat_file, the rename: the content read comes back with a   *)
(* new date, over whatever the file has become since.                      *)
BeatWrite(p) ==
    /\ beat[p] # NoLock
    /\ lockFile' = LockOf(beat[p])
    /\ beat' = [beat EXCEPT ![p] = NoLock]
    /\ UNCHANGED <<alive, holds, lapses>>

(* The file grows older than the stale threshold.                          *)
Lapse ==
    /\ lapses < MaxLapses
    /\ lockFile # NoLock
    /\ lockFile' = [lockFile EXCEPT !.stale = TRUE]
    /\ lapses' = lapses + 1
    /\ UNCHANGED <<alive, holds, beat>>

(* The process ends, in an orderly way or not: its guard is gone, its file *)
(* stays unless DropGuard removed it.                                      *)
Die(p) ==
    /\ alive' = alive \ {p}
    /\ holds' = holds \ {p}
    /\ beat' = [beat EXCEPT ![p] = NoLock]
    /\ UNCHANGED <<lockFile, lapses>>
=============================================================================
