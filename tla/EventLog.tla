------------------------------ MODULE EventLog ------------------------------
(***************************************************************************)
(* The two SQLite tables of events.db, `events` and `archived_events`, as  *)
(* sets of rows, and the statements the code runs against them             *)
(* (src/state/writer.rs and src/state/event_store.rs).  A row keeps the    *)
(* columns that ordering and identity depend on: the aggregate it belongs  *)
(* to, its version in that aggregate, its global sequence number, and op,  *)
(* which stands for the event's own id and payload: the call that wrote    *)
(* it.  Timestamps, correlation ids and payload text are left out.         *)
(***************************************************************************)
EXTENDS Integers, Sequences, FiniteSetsExt

(* One row; the order of the columns is that of the CREATE TABLE.          *)
Row(a, v, s, op) == [agg |-> a, version |-> v, seq |-> s, op |-> op]

EventsOf(db, a) == {e \in db : e.agg = a}

(* SELECT MAX(version) FROM events WHERE aggregate_id = ?                  *)
(* No row at all counts as version 0.                                      *)
LatestVersion(db, a) ==
    IF EventsOf(db, a) = {} THEN 0
    ELSE Max({e.version : e \in EventsOf(db, a)})

(* SELECT MAX(global_seq) FROM events.  Archived rows are not consulted.   *)
MaxSeq(db) == IF db = {} THEN 0 ELSE Max({e.seq : e \in db})

(* WHERE aggregate_id = ? AND global_seq > ?                               *)
FaultAggregateFromSeq(db, a, from) == {e \in EventsOf(db, a) : e.seq > from + 1}
AggregateFromSeq(db, a, from) == {e \in EventsOf(db, a) : e.seq > from}

(* WHERE aggregate_id = ? AND global_seq > ? AND global_seq <= ?           *)
FaultAggregateFromSeqUntil(db, a, from, until) ==
    {e \in AggregateFromSeq(db, a, from) : e.seq < until}
AggregateFromSeqUntil(db, a, from, until) ==
    {e \in AggregateFromSeq(db, a, from) : e.seq =< until}

(* The rows ArchiveThrough moves: every aggregate's, up to and including s *)
RowsThrough(db, s) == {e \in db : e.seq =< s}

(* idx_global_seq, the unique index that makes an INSERT fail.             *)
SeqTaken(db, s) == \E e \in db : e.seq = s
=============================================================================
