---------------------------- MODULE EventStream -----------------------------
(***************************************************************************)
(* What the event store promises its users, without tables, queues,        *)
(* transactions or sequence numbers: one totally ordered history that is   *)
(* never rewritten and that each call adds its events to in one step, and  *)
(* for each aggregate the stream of its own events in the same order,      *)
(* numbered by their versions.  EventStore implements this when one        *)
(* process owns the database and archives nothing.                         *)
(***************************************************************************)
EXTENDS Sequences, Integers, FiniteSets

VARIABLE history  \* sequence of events [agg, version, op]: op is the call

(* The place of the n-th event in the stream of its aggregate.             *)
Place(h, n) == Cardinality({m \in 1..n : h[m].agg = h[n].agg})

StreamInit == history = <<>>

(* A call adds its events at the end, all of them and no others, and each  *)
(* of them takes the next place in the stream of its aggregate.            *)
AppendToHistory ==
    LET new == (Len(history) + 1)..Len(history')
    IN  /\ new # {}
        /\ \A n \in DOMAIN history : history'[n] = history[n]
        /\ \A n \in new, m \in DOMAIN history' :
              history'[m].op = history'[n].op <=> m \in new
        /\ \A n \in new : history'[n].version = Place(history', n)

StreamSpec == StreamInit /\ [][AppendToHistory]_history
=============================================================================
