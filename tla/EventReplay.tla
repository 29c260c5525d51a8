----------------------------- MODULE EventReplay ----------------------------
(***************************************************************************)
(* Rebuilding projections from the event store with snapshots              *)
(* (src/state/replay.rs, snapshots.rs and the Projection trait of          *)
(* projections.rs).  The store is seen as EventStore shows it to a single  *)
(* process: appends and archiving are atomic and in order.  A projection   *)
(* is what the code can tell about it: last_applied_seq, and which events  *)
(* were folded into it how often; what a type computes from them is left   *)
(* out, the types only keep their snapshots apart.                         *)
(***************************************************************************)
EXTENDS EventLog

CONSTANTS
    Aggregates,     \* aggregate ids
    Types,          \* projection types
    SnapshotInterval,      \* StateConfig::snapshot_interval
    MaxSnapshots,          \* StateConfig::max_snapshots_per_aggregate
    Settings        \* the settings a program may run with, see below

(* A setting says whether StateConfig::archive_after_snapshot is on, which *)
(* async tasks use the replayer concurrently, and bounds: appends, replays *)
(* started, and restarts plus snapshots that get corrupted.                *)
ASSUME ReplayAssumption ==
    /\ SnapshotInterval \in Nat \ {0} /\ MaxSnapshots \in Nat \ {0}
    /\ \A s \in Settings :
        /\ DOMAIN s = {"archive", "tasks", "events", "replays", "faults"}
        /\ s.archive \in BOOLEAN
        /\ s.events \in Nat /\ s.replays \in Nat /\ s.faults \in Nat

Tasks == UNION {s.tasks : s \in Settings}

VARIABLES
    live, archived,  \* rows of events.db
    nextSeq,         \* the writer's allocator
    snaps,           \* snapshots.db: [Aggregates \X Types -> set of rows]
    task,            \* [Tasks -> what the task is doing]
    replays, faults, \* replays started, faults injected
    setting          \* the setting the program runs with

store == <<live, archived, nextSeq>>
vars == <<live, archived, nextSeq, snaps, task, replays, faults, setting>>

Stored == live \cup archived
Ops(rows) == {e.op : e \in rows}

-----------------------------------------------------------------------------
(* Projection::apply_idempotent over rows in ascending global_seq: rows    *)
(* not beyond last_applied_seq are skipped.  count is the number of calls  *)
(* of apply.                                                               *)
DefaultProjection == [last |-> 0, applied |-> {}, count |-> 0]

FaultApplyAll(proj, rows) ==
    IF rows = {} THEN proj
    ELSE [last |-> MaxSeq(rows), applied |-> proj.applied \cup Ops(rows),
          count |-> proj.count + Cardinality(rows)]
ApplyAll(proj, rows) ==
    LET new == {e \in rows : e.seq > proj.last}
    IN  IF new = {} THEN proj
        ELSE [last |-> MaxSeq(new), applied |-> proj.applied \cup Ops(new),
              count |-> proj.count + Cardinality(new)]

(* Which of several rows with the same global_seq ORDER BY ... LIMIT takes *)
(* is the database's choice: the sets of n rows no row left out is beyond. *)
Highest(rows, n) ==
    {kept \in SUBSET rows :
        /\ Cardinality(kept) = n
        /\ \A x \in kept, y \in rows \ kept : y.proj.last =< x.proj.last}

(* load_latest: of the newest max_snapshots_per_aggregate rows, the newest *)
(* whose checksum fits; if none does, a default projection at 0.           *)
Window(rows) ==
    IF Cardinality(rows) =< MaxSnapshots THEN {rows} ELSE Highest(rows, MaxSnapshots)
Valid(rows) == {x \in rows : x.ok}
LoadLatest(a, ty) ==
    LET good == Valid(CHOOSE w \in Window(snaps[<<a, ty>>]) : TRUE)
    IN  IF good = {} THEN DefaultProjection
        ELSE (CHOOSE x \in good : \A y \in good : y.proj.last =< x.proj.last).proj

(* save inserts a row and then, in a statement of its own, cleans up: of   *)
(* too many rows those with the lowest global_seq go.                      *)
Inserted(a, ty, proj) ==
    LET id == CHOOSE n \in 1..(Cardinality(snaps[<<a, ty>>]) + 1) :
                \A x \in snaps[<<a, ty>>] : x.id # n
    IN  snaps[<<a, ty>>] \cup {[id |-> id, proj |-> proj, ok |-> TRUE]}

FaultCleanedNewest(rows) ==
    IF Cardinality(rows) =< MaxSnapshots THEN {rows}
    ELSE {rows \ out : out \in Highest(rows, Cardinality(rows) - MaxSnapshots)}
Cleaned(rows) == Window(rows)

SaveSnapshot(a, ty, proj) ==
    \E rows \in Cleaned(Inserted(a, ty, proj)) :
        snaps' = [snaps EXCEPT ![<<a, ty>>] = rows]

Init ==
    /\ live = {} /\ archived = {} /\ nextSeq = 1
    /\ snaps = [x \in Aggregates \X Types |-> {}]
    /\ task = [t \in Tasks |-> [pc |-> "idle"]]
    /\ replays = 0 /\ faults = 0
    /\ setting \in Settings

(* EventStore::append, committed and answered.                             *)
AppendEvent(a) ==
    /\ Cardinality(Stored) < setting.events
    /\ live' = live \cup
        {Row(a, LatestVersion(live, a) + 1, nextSeq, Cardinality(Stored) + 1)}
    /\ nextSeq' = nextSeq + 1
    /\ UNCHANGED <<archived, snaps, task, replays, faults, setting>>

(* rebuild_projection (until = 0) and replay_from_checkpoint (until is the *)
(* checkpoint's seq) begin with load_latest.  The query that follows is    *)
(* awaited.  replay_from_checkpoint queries from 0 when the snapshot is    *)
(* not older than the checkpoint, but keeps the snapshot's projection.     *)
(* owed are the rows the answer ought to contain.                          *)
Load(t, a, ty, until) ==
    /\ task[t].pc \in {"idle", "returned"}
    /\ replays < setting.replays
    /\ LET proj == LoadLatest(a, ty)
           from == IF until = 0 \/ until > proj.last THEN proj.last ELSE 0
       IN  task' = [task EXCEPT ![t] =
             [pc |-> "query", agg |-> a, type |-> ty, until |-> until,
              from |-> from, proj |-> proj, owed |-> EventsOf(Stored, a)]]
    /\ replays' = replays + 1
    /\ UNCHANGED <<store, snaps, faults, setting>>

(* The rows arrive and are folded in.  Only a rebuild that folded at least *)
(* snapshot_interval rows goes on to save a snapshot.                      *)
Queried(t) ==
    IF task[t].until = 0 THEN AggregateFromSeq(live, task[t].agg, task[t].from)
    ELSE AggregateFromSeqUntil(live, task[t].agg, task[t].from, task[t].until)
Fold(t) ==
    /\ task[t].pc = "query"
    /\ task' = [task EXCEPT
        ![t].proj = ApplyAll(@, Queried(t)),
        ![t].pc = IF /\ task[t].until = 0
                     /\ Cardinality(Queried(t)) >= SnapshotInterval
                  THEN "save" ELSE "returned"]
    /\ UNCHANGED <<store, snaps, replays, faults, setting>>

AfterSave == IF setting.archive THEN "archive" ELSE "returned"

Save(t) ==
    /\ task[t].pc = "save"
    /\ SaveSnapshot(task[t].agg, task[t].type, task[t].proj)
    /\ task' = [task EXCEPT ![t].pc = AfterSave]
    /\ UNCHANGED <<store, replays, faults, setting>>

(* auto_archive_if_enabled: archives every aggregate's rows up to the      *)
(* snapshot's seq.                                                         *)
AutoArchive(t) ==
    /\ task[t].pc = "archive"
    /\ archived' = archived \cup RowsThrough(live, task[t].proj.last)
    /\ live' = live \ RowsThrough(live, task[t].proj.last)
    /\ task' = [task EXCEPT ![t].pc = "returned"]
    /\ UNCHANGED <<nextSeq, snaps, replays, faults, setting>>

(* maybe_snapshot with a projection obtained earlier.  The distance to the *)
(* latest snapshot is a u64 subtraction: when another task has saved a     *)
(* newer one it wraps round to a number beyond any interval.               *)
Due(cur, last) == cur < last \/ cur - last >= SnapshotInterval
MaybeSnapshot(t) ==
    /\ task[t].pc = "returned"
    /\ Due(task[t].proj.last, LoadLatest(task[t].agg, task[t].type).last)
    /\ SaveSnapshot(task[t].agg, task[t].type, task[t].proj)
    /\ task' = [task EXCEPT ![t].pc = AfterSave]
    /\ UNCHANGED <<store, replays, faults, setting>>

(* A stored snapshot goes bad: its checksum no longer fits its data.       *)
Corrupt(x, row) ==
    /\ faults < setting.faults
    /\ row.ok
    /\ snaps' = [snaps EXCEPT ![x] = (@ \ {row}) \cup {[row EXCEPT !.ok = FALSE]}]
    /\ faults' = faults + 1
    /\ UNCHANGED <<store, task, replays, setting>>

(* The process ends, with or without warning, and a new one opens the      *)
(* databases: tasks are gone, the allocator starts again.                  *)
NewProcess ==
    /\ faults < setting.faults
    /\ nextSeq' = MaxSeq(live) + 1
    /\ task' = [t \in Tasks |-> [pc |-> "idle"]]
    /\ faults' = faults + 1
    /\ UNCHANGED <<live, archived, replays, setting>>

Restart == NewProcess /\ UNCHANGED snaps

(* It ends between the insert and the clean-up of save.                    *)
CrashInSave(t) ==
    /\ task[t].pc = "save"
    /\ snaps' = [snaps EXCEPT ![<<task[t].agg, task[t].type>>] =
                    Inserted(task[t].agg, task[t].type, task[t].proj)]
    /\ NewProcess

Next ==
    \/ \E a \in Aggregates : AppendEvent(a)
    \/ \E t \in setting.tasks :
        \/ \E a \in Aggregates, ty \in Types, until \in 0..(nextSeq - 1) :
              Load(t, a, ty, until)
        \/ Fold(t) \/ Save(t) \/ AutoArchive(t) \/ MaybeSnapshot(t) \/ CrashInSave(t)
    \/ \E x \in Aggregates \X Types : \E row \in snaps[x] : Corrupt(x, row)
    \/ Restart

Spec == Init /\ [][Next]_vars
-----------------------------------------------------------------------------
Rows == [agg : Aggregates, version : Nat \ {0}, seq : Nat \ {0}, op : Nat \ {0}]
Projections == [last : Nat, applied : SUBSET (Nat \ {0}), count : Nat]
Snapshots == [id : Nat \ {0}, proj : Projections, ok : BOOLEAN]
Replays == [pc : {"query", "save", "archive", "returned"}, agg : Aggregates,
            type : Types, until : Nat, from : Nat, proj : Projections,
            owed : SUBSET Rows]

(* Tables, snapshots and tasks keep their types, and a projection type of  *)
(* an aggregate holds no more snapshots than configured, but for those a   *)
(* crash kept from being cleaned up.                                       *)
TypeOK ==
    /\ live \subseteq Rows /\ archived \subseteq Rows /\ nextSeq \in Nat \ {0}
    /\ snaps \in [Aggregates \X Types -> SUBSET Snapshots]
    /\ \A x \in Aggregates \X Types : Cardinality(snaps[x]) =< MaxSnapshots + faults
    /\ task \in [Tasks -> [pc : {"idle"}] \cup Replays]
    /\ replays \in Nat /\ faults \in Nat /\ setting \in Settings

(* The projection counts each of the rows exactly once and no other.       *)
Exactly(proj, rows) ==
    proj.applied = Ops(rows) /\ proj.count = Cardinality(rows)

(* A snapshot that passes its checksum is the fold of all events of its    *)
(* aggregate up to its seq, each once: loading it instead of replaying     *)
(* from the start can make no difference.                                  *)
SnapshotsExact ==
    \A x \in Aggregates \X Types : \A row \in Valid(snaps[x]) :
        Exactly(row.proj, RowsThrough(EventsOf(Stored, x[1]), row.proj.last))

(* rebuild_projection returns a projection with every event that was       *)
(* stored before the call, and each event once, whatever snapshots were    *)
(* saved, dropped or corrupted meanwhile.                                  *)
RebuildComplete ==
    \A t \in Tasks :
        (task[t].pc \in {"save", "archive", "returned"} /\ task[t].until = 0) =>
            /\ Ops(task[t].owed) \subseteq task[t].proj.applied
            /\ task[t].proj.count = Cardinality(task[t].proj.applied)

(* replay_from_checkpoint returns the aggregate exactly as of the          *)
(* checkpoint, unless a newer snapshot made it start beyond it already, or *)
(* archiving took away rows it asks for again.                             *)
CheckpointExact ==
    ~setting.archive => \A t \in Tasks :
        (task[t].pc = "returned" /\ task[t].until >= task[t].proj.last) =>
            Exactly(task[t].proj,
                    RowsThrough(EventsOf(Stored, task[t].agg), task[t].until))

(* No step but a corruption loses ground: the newest valid snapshot of a   *)
(* projection never gives way to an older one or to none.                  *)
NewestNeverRegresses ==
    [][(faults' = faults) =>
        \A a \in Aggregates, ty \in Types : LoadLatest(a, ty).last =< LoadLatest(a, ty)'.last]_vars
=============================================================================
