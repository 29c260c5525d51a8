----------------------------- MODULE EventStore -----------------------------
(***************************************************************************)
(* The event store: events.db shared by the claude-pilot processes that    *)
(* have it open.  Each process has one writer thread with a bounded        *)
(* command queue and a sequence allocator of its own (src/state/writer.rs) *)
(* and any number of async callers that send a command, then wait for the  *)
(* answer with a timeout (src/state/event_store.rs).                       *)
(*                                                                         *)
(* Every CLI command opens the store, so several processes may write at    *)
(* once; SQLite in WAL mode serialises their transactions.  A transaction  *)
(* that has read and then writes fails when another process committed in   *)
(* between (SQLITE_BUSY_SNAPSHOT); `commits` counts commits for that test. *)
(***************************************************************************)
EXTENDS EventLog

CONSTANTS
    Procs,          \* claude-pilot processes that may open events.db
    Callers,        \* async callers of the store
    Home,           \* Home[c]: the process caller c runs in
    Aggregates,     \* aggregate ids (missions, sessions)
    Calls,          \* the calls callers make: kind and arguments
    QueueCapacity,  \* StateConfig::write_queue_capacity
    MaxOps,         \* bound: calls made in a behaviour
    MaxOpens,       \* bound: times the store is opened
    NoVersion,      \* expected_version = None
    NoTx            \* no transaction is open

ASSUME ProcsAssumption == Home \in [Callers -> Procs]
ASSUME NumbersAssumption ==
    /\ QueueCapacity \in Nat \ {0}
    /\ MaxOps \in Nat /\ MaxOpens \in Nat
    /\ NoVersion \notin Nat

(* The methods that write: append and append_with_version, append_batch,   *)
(* archive_events_through and compact.                                     *)
AppendCall(a, v) ==
    [kind |-> "append", aggs |-> <<a>>, expected |-> v, through |-> 0]
BatchCall(as) ==
    [kind |-> "batch", aggs |-> as, expected |-> NoVersion, through |-> 0]
ArchiveCall(s) ==
    [kind |-> "archive", aggs |-> <<>>, expected |-> NoVersion, through |-> s]
CompactCall ==
    [kind |-> "compact", aggs |-> <<>>, expected |-> NoVersion, through |-> 0]

CallShapes ==
    [kind : {"append", "batch", "archive", "compact"}, aggs : Seq(Aggregates),
     expected : Nat \cup {NoVersion}, through : Nat]

ASSUME CallsAssumption ==
    /\ Calls \subseteq CallShapes
    /\ \A call \in Calls :
        /\ call.kind = "append" => Len(call.aggs) = 1
        /\ call.kind = "batch" => call.expected = NoVersion
        /\ call.kind \in {"archive", "compact"} => call.aggs = <<>>

VARIABLES
    live,      \* rows of table events
    archived,  \* rows of table archived_events
    commits,   \* commits so far, what a snapshot of the database is dated by
    writer,    \* [Procs -> "down" | "up" | "closing"], the writer threads
    nextSeq,   \* [Procs -> Nat], SequenceAllocator::next_seq
    queue,     \* [Procs -> Seq(Command)], the sync_channel
    tx,        \* [Procs -> open append transaction or NoTx]
    caller,    \* [Callers -> "idle" | "sending" | "waiting"]
    issued,    \* the calls made: op n is issued[n] = [by, call]
    acked,     \* rows whose Ok answer was received by the caller
    failed,    \* [op, why] of the commands the writer answered with an error
    opens      \* times a process opened the store

tables == <<live, archived, commits>>
threads == <<writer, nextSeq, queue, tx>>
ghosts == <<issued, acked, failed, opens>>
vars == <<live, archived, commits, writer, nextSeq, queue, tx, caller, issued,
          acked, failed, opens>>

-----------------------------------------------------------------------------
(* The op a caller is engaged in: its last one.                            *)
LastOpOf(c) ==
    CHOOSE n \in DOMAIN issued :
        /\ issued[n].by = c
        /\ \A m \in DOMAIN issued : issued[m].by = c => m =< n

Idle(p) == \A c \in Callers : Home[c] = p => caller[c] = "idle"

FaultReversedRow(t, i) ==
    LET aggs == issued[t.op].call.aggs
        base == IF aggs[i] = aggs[1] THEN t.version
                ELSE LatestVersion(live, aggs[i]) + 1
        earlier == {j \in 1..(i - 1) : aggs[j] = aggs[i]}
    IN  Row(aggs[i], base + Cardinality(earlier), t.first + Len(aggs) - i, t.op)

(* The rows a transaction t inserts.  The first has the version read when  *)
(* the transaction began; a later one, read inside the write, the next     *)
(* version of its aggregate after the earlier rows of the batch.           *)
NewRow(t, i) ==
    LET aggs == issued[t.op].call.aggs
        base == IF aggs[i] = aggs[1] THEN t.version
                ELSE LatestVersion(live, aggs[i]) + 1
        earlier == {j \in 1..(i - 1) : aggs[j] = aggs[i]}
    IN  Row(aggs[i], base + Cardinality(earlier), t.first + i - 1, t.op)
FaultRowsButLast(t) ==
    {NewRow(t, i) : i \in 1..(Len(issued[t.op].call.aggs) - 1)}
NewRows(t) == {NewRow(t, i) : i \in DOMAIN issued[t.op].call.aggs}

(* Positions of the batch whose sequence number idx_global_seq refuses.    *)
Collisions(t) ==
    {i \in DOMAIN issued[t.op].call.aggs : SeqTaken(live, t.first + i - 1)}

(* The oneshot answer: rows reach the caller only if it still waits for op *)
Waits(op) ==
    LET c == issued[op].by
    IN  caller[c] = "waiting" /\ LastOpOf(c) = op
Answered(op) == IF Waits(op) THEN [caller EXCEPT ![issued[op].by] = "idle"]
                ELSE caller
ReplyOk(op, rows) ==
    /\ caller' = Answered(op)
    /\ acked' = IF Waits(op) THEN acked \cup rows ELSE acked
    /\ UNCHANGED failed
FaultSilentErr(op, why) ==
    /\ failed' = failed \cup {[op |-> op, why |-> why]}
    /\ UNCHANGED <<acked, caller>>
ReplyErr(op, why) ==
    /\ caller' = Answered(op)
    /\ failed' = failed \cup {[op |-> op, why |-> why]}
    /\ UNCHANGED acked
-----------------------------------------------------------------------------
Init ==
    /\ live = {} /\ archived = {} /\ commits = 0
    /\ writer = [p \in Procs |-> "down"]
    /\ nextSeq = [p \in Procs |-> 1]
    /\ queue = [p \in Procs |-> <<>>]
    /\ tx = [p \in Procs |-> NoTx]
    /\ caller = [c \in Callers |-> "idle"]
    /\ issued = <<>> /\ acked = {} /\ failed = {} /\ opens = 0

(* Where a writer thread's allocator starts: one past the largest number   *)
(* still in table events.                                                  *)
FaultFirstSeq == MaxSeq(live)
FirstSeq == MaxSeq(live) + 1

(* EventWriter::with_config: the thread opens the database, starts its     *)
(* allocator and waits for commands.                                       *)
Open(p) ==
    /\ writer[p] = "down"
    /\ opens < MaxOpens
    /\ opens' = opens + 1
    /\ writer' = [writer EXCEPT ![p] = "up"]
    /\ nextSeq' = [nextSeq EXCEPT ![p] = FirstSeq]
    /\ UNCHANGED <<tables, queue, tx, caller, issued, acked, failed>>

(* A caller enters append, append_with_version, append_batch,              *)
(* archive_events_through or compact.                                      *)
Call(c, call) ==
    /\ writer[Home[c]] = "up"
    /\ caller[c] = "idle"
    /\ Len(issued) < MaxOps
    /\ issued' = Append(issued, [by |-> c, call |-> call])
    /\ caller' = [caller EXCEPT ![c] = "sending"]
    /\ UNCHANGED <<tables, threads, acked, failed, opens>>

(* send_write, first half: SyncSender::send blocks while the channel is    *)
(* full.  The timeout does not cover it.                                   *)
Send(c) ==
    /\ caller[c] = "sending"
    /\ Len(queue[Home[c]]) < QueueCapacity
    /\ queue' = [queue EXCEPT ![Home[c]] = Append(@, LastOpOf(c))]
    /\ caller' = [caller EXCEPT ![c] = "waiting"]
    /\ UNCHANGED <<tables, writer, nextSeq, tx, ghosts>>

(* send_write, second half: the wait for the answer is given up.  The      *)
(* command stays in the queue, or in the transaction already open.         *)
Timeout(c) ==
    /\ caller[c] = "waiting"
    /\ caller' = [caller EXCEPT ![c] = "idle"]
    /\ UNCHANGED <<tables, threads, ghosts>>

FaultTakesNewest(p, op) ==
    /\ writer[p] # "down"
    /\ tx[p] = NoTx
    /\ queue[p] # <<>>
    /\ op = queue[p][Len(queue[p])]
    /\ queue' = [queue EXCEPT ![p] = SubSeq(@, 1, Len(@) - 1)]

(* The writer thread takes the command at the head of its queue.           *)
Takes(p, op) ==
    /\ writer[p] # "down"
    /\ tx[p] = NoTx
    /\ queue[p] # <<>>
    /\ op = Head(queue[p])
    /\ queue' = [queue EXCEPT ![p] = Tail(@)]

(* append_batch of no event answers before any transaction.                *)
AppendNothing(p) ==
    \E op \in DOMAIN issued :
        /\ Takes(p, op)
        /\ issued[op].call.kind = "batch" /\ issued[op].call.aggs = <<>>
        /\ ReplyOk(op, {})
        /\ UNCHANGED <<tables, writer, nextSeq, tx, issued, opens>>

(* The version check of append_event.                                      *)
FaultAcceptsAny(op) == TRUE
Accepts(op) ==
    issued[op].call.expected \in {NoVersion, LatestVersion(live, issued[op].call.aggs[1])}

(* append_event refuses a caller that expected another version; it spends  *)
(* no sequence number on it.                                               *)
Conflict(p) ==
    \E op \in DOMAIN issued :
        /\ Takes(p, op)
        /\ issued[op].call.kind = "append"
        /\ ~Accepts(op)
        /\ ReplyErr(op, "conflict")
        /\ UNCHANGED <<tables, writer, nextSeq, tx, issued, opens>>

(* append_event and append_batch, up to the first INSERT: the transaction  *)
(* reads the current version, which dates its snapshot, and takes a        *)
(* sequence number from the allocator.                                     *)
Begin(p, op) ==
    /\ tx' = [tx EXCEPT ![p] =
                [op |-> op, first |-> nextSeq[p], at |-> commits,
                 version |-> LatestVersion(live, issued[op].call.aggs[1]) + 1]]
    /\ nextSeq' = [nextSeq EXCEPT ![p] = @ + 1]
    /\ UNCHANGED <<tables, writer, caller, ghosts>>

BeginAppend(p) ==
    \E op \in DOMAIN issued :
        /\ Takes(p, op)
        /\ issued[op].call.kind \in {"append", "batch"} /\ issued[op].call.aggs # <<>>
        /\ Accepts(op)
        /\ Begin(p, op)

(* SQLite lets a transaction that has read go on to write only while its   *)
(* snapshot is the latest one.                                             *)
FaultAlwaysFresh(t) == TRUE
Fresh(t) == t.at = commits

(* The INSERTs and the commit: nothing was committed since the snapshot    *)
(* and no sequence number is taken.                                        *)
Commit(p) ==
    /\ live' = live \cup NewRows(tx[p])
    /\ commits' = commits + 1
    /\ nextSeq' = [nextSeq EXCEPT ![p] = tx[p].first + Cardinality(NewRows(tx[p]))]
    /\ ReplyOk(tx[p].op, NewRows(tx[p]))
    /\ tx' = [tx EXCEPT ![p] = NoTx]
    /\ UNCHANGED <<archived, writer, queue, issued, opens>>

CommitAppend(p) ==
    /\ tx[p] # NoTx
    /\ Fresh(tx[p])
    /\ Collisions(tx[p]) = {}
    /\ Commit(p)

(* An INSERT fails, on a stale snapshot (the first one) or on a sequence   *)
(* number another process has used (the i-th): the transaction rolls back. *)
(* The numbers taken so far are spent.                                     *)
AbortStale(p) ==
    /\ tx[p] # NoTx
    /\ ~Fresh(tx[p])
    /\ ReplyErr(tx[p].op, "busy")
    /\ tx' = [tx EXCEPT ![p] = NoTx]
    /\ UNCHANGED <<tables, writer, nextSeq, queue, issued, opens>>

AbortCollision(p) ==
    /\ tx[p] # NoTx
    /\ Fresh(tx[p])
    /\ \E i \in Collisions(tx[p]) :
        /\ \A j \in Collisions(tx[p]) : i =< j
        /\ nextSeq' = [nextSeq EXCEPT ![p] = tx[p].first + i]
    /\ ReplyErr(tx[p].op, "collision")
    /\ tx' = [tx EXCEPT ![p] = NoTx]
    /\ UNCHANGED <<tables, writer, queue, issued, opens>>

(* INSERT INTO archived_events SELECT ..., then DELETE FROM events         *)
FaultCopiedRows(s) == {e \in live : e.seq < s}
CopiedRows(s) == RowsThrough(live, s)
DeletedRows(s) == RowsThrough(live, s)

(* archive_through: one transaction that starts by writing, moves the rows *)
(* of every aggregate up to the given number and leaves the allocator be.  *)
ArchiveThrough(p) ==
    \E op \in DOMAIN issued :
        /\ Takes(p, op)
        /\ issued[op].call.kind = "archive"
        /\ archived' = archived \cup CopiedRows(issued[op].call.through)
        /\ live' = live \ DeletedRows(issued[op].call.through)
        /\ commits' = commits + 1
        /\ ReplyOk(op, {})
        /\ UNCHANGED <<writer, nextSeq, tx, issued, opens>>

(* compact: checkpoint and VACUUM rewrite the file, not the rows.          *)
Compact(p) ==
    \E op \in DOMAIN issued :
        /\ Takes(p, op)
        /\ issued[op].call.kind = "compact"
        /\ commits' = commits + 1
        /\ ReplyOk(op, {})
        /\ UNCHANGED <<live, archived, writer, nextSeq, tx, issued, opens>>

(* The last handle on the store is dropped (no caller is inside it):       *)
(* Shutdown goes to the end of the queue and the thread is joined, so what *)
(* was queued, a timed out command included, is still carried out.         *)
Close(p) ==
    /\ writer[p] = "up" /\ Idle(p)
    /\ writer' = [writer EXCEPT ![p] = "closing"]
    /\ UNCHANGED <<tables, nextSeq, queue, tx, caller, ghosts>>

Joined(p) ==
    /\ writer[p] = "closing" /\ queue[p] = <<>> /\ tx[p] = NoTx
    /\ writer' = [writer EXCEPT ![p] = "down"]
    /\ UNCHANGED <<tables, nextSeq, queue, tx, caller, ghosts>>

(* The process dies: what was committed stays, its queue, its open         *)
(* transaction and its callers are gone.                                   *)
Crash(p) ==
    /\ writer[p] # "down"
    /\ writer' = [writer EXCEPT ![p] = "down"]
    /\ queue' = [queue EXCEPT ![p] = <<>>]
    /\ tx' = [tx EXCEPT ![p] = NoTx]
    /\ caller' = [c \in Callers |-> IF Home[c] = p THEN "idle" ELSE caller[c]]
    /\ UNCHANGED <<tables, nextSeq, ghosts>>

WriterStep(p) ==
    \/ AppendNothing(p) \/ Conflict(p)
    \/ BeginAppend(p) \/ CommitAppend(p)
    \/ AbortStale(p) \/ AbortCollision(p)
    \/ ArchiveThrough(p) \/ Compact(p) \/ Joined(p)

Next ==
    \/ \E p \in Procs : Open(p) \/ WriterStep(p) \/ Close(p) \/ Crash(p)
    \/ \E c \in Callers :
        \/ \E call \in Calls : Call(c, call)
        \/ Send(c) \/ Timeout(c)

Spec == Init /\ [][Next]_vars

(* The writer thread runs while its process does, and a sender blocked on  *)
(* the channel is woken when there is room.                                *)
Fairness ==
    /\ \A p \in Procs : WF_vars(WriterStep(p))
    /\ \A c \in Callers : SF_vars(Send(c))

FairSpec == Spec /\ Fairness
-----------------------------------------------------------------------------
(* Every variable keeps its type; versions and sequence numbers start at 1 *)
(* (i64/u32 columns, never 0 for a row the writer inserted).               *)
Rows == [agg : Aggregates, version : Nat \ {0}, seq : Nat \ {0}, op : Nat \ {0}]
Transactions == [op : Nat \ {0}, first : Nat \ {0}, at : Nat, version : Nat \ {0}]
ASSUME NoTxAssumption == NoTx \notin Transactions
TypeOK ==
    /\ live \subseteq Rows /\ archived \subseteq Rows /\ commits \in Nat
    /\ writer \in [Procs -> {"down", "up", "closing"}]
    /\ nextSeq \in [Procs -> Nat \ {0}]
    /\ queue \in [Procs -> Seq(Nat \ {0})]
    /\ tx \in [Procs -> Transactions \cup {NoTx}]
    /\ caller \in [Callers -> {"idle", "sending", "waiting"}]
    /\ issued \in Seq([by : Callers, call : Calls])
    /\ acked \subseteq Rows
    /\ failed \subseteq [op : Nat \ {0}, why : {"conflict", "busy", "collision"}]
    /\ opens \in Nat

Stored == live \cup archived
RowsOf(op) == {e \in Stored : e.op = op}

(* No two live rows share a global_seq, and none share a version of the    *)
(* same aggregate, whichever processes wrote them: what query's ORDER BY   *)
(* version and a projection's last_applied_seq rely on.                    *)
UniqueRows ==
    \A e, f \in live : e # f => /\ e.seq # f.seq
                                /\ e.agg = f.agg => e.version # f.version

(* A caller that was told Ok finds its events in the database for good:    *)
(* timeouts, crashes, reopening and archiving never take them away.        *)
AckedDurable == acked \subseteq Stored

(* A call writes all its events or none, and none when it was answered     *)
(* with an error; timed out calls may do either.                           *)
AllOrNothing ==
    \A op \in DOMAIN issued :
        /\ Cardinality(RowsOf(op)) \in {0, Len(issued[op].call.aggs)}
        /\ op \in {x.op : x \in failed} => RowsOf(op) = {}

(* Optimistic concurrency (append_with_version): when an event is written  *)
(* its caller's expectation is still true, whatever was committed since it *)
(* was checked, and no other call with the same expectation has a row in   *)
(* table events.  A second one can only win after the first one's rows     *)
(* were archived, since append_event reads the version from that table.    *)
OptimisticLock ==
    [][\A f \in live' \ live :
          LET v == issued[f.op].call.expected
          IN  v # NoVersion =>
                /\ LatestVersion(live, f.agg) = v
                /\ \A e \in live : e.agg = f.agg => issued[e.op].call.expected # v]_vars

(* The events of one caller stand in the log in the order of its calls,    *)
(* even if it gave up waiting for the earlier ones.                        *)
CallOrder ==
    \A e, f \in Stored :
        (/\ issued[e.op].by = issued[f.op].by
         /\ e.op < f.op) => e.seq < f.seq

(* The only error the writer answers an append with is a version conflict: *)
(* in particular an append that names no version is never refused.         *)
OnlyConflictsFail == \A x \in failed : x.why = "conflict"

(* The stored rows in the order of their sequence numbers.                 *)
RowAt(db, n) == CHOOSE e \in db : e.seq = n
Log(db) ==
    [n \in 1..Cardinality(db) |->
        [agg |-> RowAt(db, n).agg, version |-> RowAt(db, n).version, op |-> RowAt(db, n).op]]
Abstract == INSTANCE EventStream WITH history <- Log(Stored)

(* One process's store is an append-only history: its log in global_seq    *)
(* order, which has no gaps, only ever grows at the end, by whole calls,   *)
(* and each aggregate's events in version order are that history           *)
(* restricted to the aggregate.                                            *)
ImplementsStream == Abstract!StreamSpec

(* Every call returns, whatever the length of the queue, as long as the    *)
(* writer thread runs.                                                     *)
EveryCallReturns == \A c \in Callers : caller[c] # "idle" ~> caller[c] = "idle"
=============================================================================
