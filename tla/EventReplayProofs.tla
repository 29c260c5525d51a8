------------------------- MODULE EventReplayProofs --------------------------
(***************************************************************************)
(* Theorems about EventReplay for any aggregates, projection types and     *)
(* tasks: where the program does not archive, what snapshots hold, what a  *)
(* rebuild returns and what a replay from a checkpoint returns is exact.   *)
(***************************************************************************)
EXTENDS EventReplay, ProofLemmas

-----------------------------------------------------------------------------
(* A finite log whose rows have numbers and ops of their own.              *)
LogOk(db) ==
    /\ db \subseteq Rows /\ IsFiniteSet(db)
    /\ \A e, f \in db : e.seq = f.seq \/ e.op = f.op => e = f

(* A projection of the events of a that is exact as of its own seq.        *)
ProjOk(db, proj, a) ==
    /\ proj \in Projections /\ proj.last =< MaxSeq(db)
    /\ Exactly(proj, RowsThrough(EventsOf(db, a), proj.last))

SnapsOk(db, rows, a) ==
    /\ IsFiniteSet(rows)
    /\ \A x \in rows : x \in [id : {x.id}, proj : Projections, ok : BOOLEAN]
    /\ \A x \in Valid(rows) : ProjOk(db, x.proj, a)

(* What a task knows: where its query starts, that its projection is exact,*)
(* and once it has folded that nothing it asked for is missing.            *)
TaskOk(db, next, r) ==
    r.pc = "idle" \/
        /\ r \in Replays /\ r.pc # "archive" /\ ProjOk(db, r.proj, r.agg) /\ r.until < next
        /\ r.owed \subseteq EventsOf(db, r.agg)
        /\ r.pc = "query" =>
              r.from = (IF r.until = 0 \/ r.until > r.proj.last THEN r.proj.last ELSE 0)
        /\ r.pc = "save" => r.until = 0
        /\ r.pc # "query" =>
              \A e \in EventsOf(db, r.agg) :
                  e.seq > r.proj.last => e.seq > r.until /\ (r.until = 0 => e \notin r.owed)

(* What holds where the program does not archive.  A snapshot stays exact  *)
(* while events are appended because every later row has a number beyond   *)
(* its seq, and so a fold over a snapshot stays exact too.                 *)
Plain ==
    /\ archived = {}
    /\ LogOk(live) /\ nextSeq \in Nat /\ MaxSeq(live) < nextSeq
    /\ \A e \in live : e.op =< Cardinality(live)
    /\ snaps = [x \in Aggregates \X Types |-> snaps[x]]
    /\ \A a \in Aggregates, ty \in Types : SnapsOk(live, snaps[<<a, ty>>], a)
    /\ task \in [Tasks -> [pc : {"idle"}] \cup Replays]
    /\ \A t \in Tasks : TaskOk(live, nextSeq, task[t])

IInv == setting \in Settings /\ (~setting.archive => Plain)
-----------------------------------------------------------------------------
(* The newest row has the number MaxSeq, and no row has a larger one.      *)
LEMMA MaxSeqIs ==
    ASSUME NEW db, db \subseteq Rows, IsFiniteSet(db)
    PROVE  /\ MaxSeq(db) \in Nat /\ \A e \in db : e.seq =< MaxSeq(db)
           /\ db # {} => \E e \in db : e.seq = MaxSeq(db)
PROOF
<1>1. CASE db = {}
  BY <1>1 DEF MaxSeq
<1>2. CASE db # {}
  <2> DEFINE S == {e.seq : e \in db}
  <2>1. S \in SUBSET Int /\ S # {} /\ \A y \in S : y \in Nat
    BY <1>2 DEF Rows
  <2>2. IsFiniteSet(S)
    <3> DEFINE f == [e \in db |-> e.seq]
    <3>1. f \in Surjection(db, S)
      BY DEF Surjection
    <3> HIDE DEF S, f
    <3> QED
      BY <3>1, FS_Surjection
  <2>3. \E x \in S : \A y \in S : x >= y
    BY <2>1, <2>2, MaxExists
  <2>4. Max(S) \in S /\ \A y \in S : Max(S) >= y
    BY <2>3 DEF Max
  <2>5. MaxSeq(db) = Max(S)
    BY <1>2 DEF MaxSeq
  <2> QED
    BY <2>1, <2>4, <2>5
<1> QED
  BY <1>1, <1>2

(* Rows of a log are as many as the ops in them.                           *)
LEMMA RowsCount ==
    ASSUME NEW db, LogOk(db), NEW rows \in SUBSET db
    PROVE  /\ IsFiniteSet(rows) /\ Cardinality(rows) \in Nat
           /\ IsFiniteSet(Ops(rows)) /\ Cardinality(Ops(rows)) = Cardinality(rows)
           /\ Ops(rows) \in SUBSET (Nat \ {0})
PROOF
<1>1. IsFiniteSet(rows) /\ Cardinality(rows) \in Nat
  BY FS_Subset, FS_CardinalityType DEF LogOk
<1> DEFINE f == [e \in rows |-> e.op]
<1>2. f \in Surjection(rows, Ops(rows))
  BY DEF Surjection, Ops
<1>3. f \in Injection(rows, Ops(rows))
  <2>1. \A e, g \in rows : f[e] = f[g] => e = g
    BY DEF LogOk
  <2> QED
    BY <1>2, <2>1 DEF Injection, IsInjective, Surjection
<1>4. Ops(rows) \in SUBSET (Nat \ {0})
  BY DEF Ops, LogOk, Rows
<1> HIDE DEF f
<1> QED
  BY <1>1, <1>2, <1>3, <1>4, FS_Surjection

(* A projection of nothing is exact as of 0.                               *)
LEMMA DefaultOk ==
    ASSUME NEW db, LogOk(db), NEW a
    PROVE  ProjOk(db, DefaultProjection, a)
PROOF
<1>1. RowsThrough(EventsOf(db, a), 0) = {}
  BY DEF RowsThrough, EventsOf, LogOk, Rows
<1>2. MaxSeq(db) \in Nat
  BY MaxSeqIs DEF LogOk
<1> QED
  BY <1>1, <1>2, FS_EmptySet DEF ProjOk, DefaultProjection, Projections, Exactly, Ops


(* Folding in the rows a query returned, all those beyond the projection   *)
(* up to a limit, leaves the projection exact and misses none of them.     *)
LEMMA FoldIs ==
    ASSUME NEW db, LogOk(db), NEW a, NEW proj, ProjOk(db, proj, a), NEW until \in Nat,
           NEW rows \in SUBSET EventsOf(db, a),
           \A e \in EventsOf(db, a) :
               e.seq > proj.last => (e \in rows <=> until = 0 \/ e.seq =< until)
    PROVE  /\ ProjOk(db, ApplyAll(proj, rows), a)
           /\ \A e \in EventsOf(db, a) :
                  e.seq > ApplyAll(proj, rows).last => until # 0 /\ e.seq > until
PROOF
<1>1. PICK new : new = {e \in rows : e.seq > proj.last}
  OBVIOUS
<1>2. /\ EventsOf(db, a) \in SUBSET db /\ db \subseteq Rows
      /\ \A e \in EventsOf(db, a) : e.seq \in Nat
      /\ proj \in Projections /\ proj.last \in Nat
  BY DEF EventsOf, LogOk, Rows, ProjOk, Projections
<1>3. CASE new = {}
  <2>1. ApplyAll(proj, rows) = proj
    BY <1>1, <1>3 DEF ApplyAll
  <2>2. \A e \in EventsOf(db, a) : e.seq > proj.last => e \notin rows
    BY <1>1, <1>3
  <2> QED
    BY <1>2, <2>1, <2>2
<1>4. CASE new # {}
  <2> DEFINE old == RowsThrough(EventsOf(db, a), proj.last)
             p == ApplyAll(proj, rows)
  <2>1. p = [last |-> MaxSeq(new), applied |-> proj.applied \cup Ops(new),
             count |-> proj.count + Cardinality(new)]
    BY <1>1, <1>4 DEF ApplyAll
  <2>2. new \in SUBSET db /\ old \in SUBSET db /\ new \in SUBSET EventsOf(db, a)
    BY <1>1, <1>2 DEF RowsThrough
  <2>3. /\ IsFiniteSet(new) /\ Cardinality(new) \in Nat /\ Ops(new) \in SUBSET (Nat \ {0})
        /\ IsFiniteSet(old) /\ Cardinality(old) \in Nat
    BY <2>2, RowsCount
  <2>4. PICK f \in new : /\ f.seq = MaxSeq(new) /\ MaxSeq(new) \in Nat
                         /\ \A e \in new : e.seq =< f.seq
    <3>1. new \subseteq Rows
      BY <1>2, <2>2
    <3> QED
      BY <1>4, <2>3, <3>1, MaxSeqIs
  <2>5. f \in EventsOf(db, a) /\ f.seq > proj.last /\ f \in rows /\ f.seq \in Nat
    BY <1>1, <1>2, <2>4
  <2>6. until = 0 \/ f.seq =< until
    BY <2>5
  <2>7. RowsThrough(EventsOf(db, a), f.seq) = old \cup new
    <3>1. ASSUME NEW e \in EventsOf(db, a) PROVE e.seq =< f.seq <=> e \in old \/ e \in new
      <4>1. CASE e.seq > proj.last
        BY <1>1, <1>2, <2>4, <2>5, <2>6, <4>1 DEF RowsThrough
      <4>2. CASE e.seq =< proj.last
        BY <1>2, <2>5, <4>2 DEF RowsThrough
      <4> QED
        BY <1>2, <4>1, <4>2
    <3> QED
      BY <2>2, <3>1 DEF RowsThrough
  <2>8. old \cap new = {}
    BY <1>1, <1>2 DEF RowsThrough
  <2>9. Ops(old \cup new) = Ops(old) \cup Ops(new)
    BY DEF Ops
  <2>10. Cardinality(old \cup new) = Cardinality(old) + Cardinality(new)
    <3>1. Cardinality(old \cap new) = 0
      BY <2>8, FS_EmptySet
    <3>2. IsFiniteSet(old) /\ IsFiniteSet(new)
      BY <2>3
    <3>3. Cardinality(old \cup new) =
              Cardinality(old) + Cardinality(new) - Cardinality(old \cap new)
      BY <3>2, FS_Union
    <3> HIDE DEF old
    <3> QED
      BY <2>3, <3>1, <3>3
  <2>11. proj.applied = Ops(old) /\ proj.count = Cardinality(old)
    BY DEF ProjOk, Exactly
  <2>12. Exactly(p, RowsThrough(EventsOf(db, a), p.last))
    <3>1. /\ p.last = f.seq /\ p.applied = proj.applied \cup Ops(new)
          /\ p.count = proj.count + Cardinality(new)
      BY <2>1, <2>4
    <3> QED
      BY <2>7, <2>9, <2>10, <2>11, <3>1 DEF Exactly
  <2>13. p \in Projections
    BY <1>2, <2>1, <2>3, <2>4 DEF Projections
  <2>14. p.last =< MaxSeq(db)
    BY <2>1, <2>2, <2>4, MaxSeqIs DEF LogOk
  <2>15. ASSUME NEW e \in EventsOf(db, a), e.seq > p.last PROVE until # 0 /\ e.seq > until
    <3>1. e.seq > f.seq /\ e \notin new
      BY <1>2, <2>1, <2>4, <2>5, <2>15
    <3>2. e.seq > proj.last
      BY <1>2, <2>5, <3>1
    <3> QED
      BY <1>1, <1>2, <3>1, <3>2
  <2> QED
    BY <2>12, <2>13, <2>14, <2>15 DEF ProjOk
<1> QED
  BY <1>3, <1>4

-----------------------------------------------------------------------------
(* Some snapshot of a nonempty finite set of them is the newest.           *)
LEMMA NewestExists ==
    ASSUME NEW rows, IsFiniteSet(rows), \A x \in rows : x.proj.last \in Nat,
           NEW some \in SUBSET rows, some # {}
    PROVE  \E m \in some : \A y \in some : y.proj.last =< m.proj.last
PROOF
<1> DEFINE S == {y.proj.last : y \in some}
           f == [y \in some |-> y.proj.last]
<1>1. S \in SUBSET Int /\ S # {}
  OBVIOUS
<1>2. f \in Surjection(some, S)
  BY DEF Surjection
<1>3. IsFiniteSet(S)
  <2>1. IsFiniteSet(some)
    BY FS_Subset
  <2> HIDE DEF S, f
  <2> QED
    BY <1>2, <2>1, FS_Surjection
<1>4. \E x \in S : \A y \in S : x >= y
  <2> HIDE DEF S, f
  <2> QED
    BY <1>1, <1>3, MaxExists
<1>5. PICK m \in some : \A y \in S : m.proj.last >= y
  BY <1>4
<1>6. \A y \in some : m.proj.last >= y.proj.last /\ y.proj.last \in Nat
  BY <1>5
<1> QED
  BY <1>6

(* Of any finite set of snapshots some n have the highest numbers.         *)
LEMMA HighestExist ==
    ASSUME NEW rows, IsFiniteSet(rows), \A x \in rows : x.proj.last \in Nat,
           NEW n \in 0..Cardinality(rows)
    PROVE  Highest(rows, n) # {}
PROOF
<1>1. PICK N : N = Cardinality(rows) /\ N \in Nat
  BY FS_CardinalityType
<1>2. N \in Nat
  BY <1>1
<1> DEFINE P == {k \in 0..N : Highest(rows, k) # {}}
<1>3. 0 \in P
  <2>1. {} \in Highest(rows, 0)
    BY FS_EmptySet DEF Highest
  <2> QED
    BY <1>2, <2>1
<1>4. ASSUME NEW k \in 1..N, k - 1 \in P PROVE k \in P
  <2>1. PICK kept \in SUBSET rows :
            /\ Cardinality(kept) = k - 1
            /\ \A x \in kept, y \in rows \ kept : y.proj.last =< x.proj.last
    BY <1>4 DEF Highest
  <2>2. PICK rest : rest = rows \ kept
    OBVIOUS
  <2>3. IsFiniteSet(kept) /\ IsFiniteSet(rest)
    BY <2>1, <2>2, FS_Subset, FS_Difference
  <2>4. rest # {}
    <3>1. kept # rows
      BY <1>1, <2>1
    <3> QED
      BY <2>1, <2>2, <3>1
  <2>5. PICK m \in rest : \A y \in rest : y.proj.last =< m.proj.last
    BY <2>2, <2>4, NewestExists
  <2>6. kept \cup {m} \in Highest(rows, k)
    <3>1. Cardinality(kept \cup {m}) = k
      <4>1. m \notin kept /\ IsFiniteSet(kept)
        BY <2>2, <2>3, <2>5
      <4>2. Cardinality(kept \cup {m}) = IF m \in kept THEN Cardinality(kept)
                                         ELSE Cardinality(kept) + 1
        BY <4>1, FS_AddElement
      <4> QED
        BY <2>1, <4>1, <4>2
    <3> QED
      BY <2>1, <2>2, <2>5, <3>1 DEF Highest
  <2> QED
    BY <2>6
<1> HIDE DEF P
<1>5. \A k \in 0..N : k \in P
  BY <1>2, <1>3, <1>4, InductionUpTo
<1> QED
  BY <1>1, <1>5 DEF P

(* load_latest looks at some of the snapshots, and save keeps some.        *)
LEMMA WindowIs ==
    ASSUME NEW rows, IsFiniteSet(rows), \A x \in rows : x.proj.last \in Nat
    PROVE  Window(rows) # {} /\ \A w \in Window(rows) : w \subseteq rows
PROOF
<1>1. CASE Cardinality(rows) =< MaxSnapshots
  BY <1>1 DEF Window
<1>2. CASE ~(Cardinality(rows) =< MaxSnapshots)
  <2>1. MaxSnapshots \in 0..Cardinality(rows)
    BY <1>2, FS_CardinalityType, ReplayAssumption
  <2>2. Window(rows) = Highest(rows, MaxSnapshots)
    BY <1>2 DEF Window
  <2> QED
    BY <2>1, <2>2, HighestExist DEF Highest
<1> QED
  BY <1>1, <1>2

(* load_latest returns an exact projection: a valid snapshot's, or an      *)
(* empty one.                                                              *)
LEMMA LoadLatestOk ==
    ASSUME NEW db, LogOk(db), NEW a, NEW ty, SnapsOk(db, snaps[<<a, ty>>], a)
    PROVE  ProjOk(db, LoadLatest(a, ty), a)
PROOF
<1>1. PICK rows : rows = snaps[<<a, ty>>]
  OBVIOUS
<1>2. IsFiniteSet(rows) /\ \A x \in rows : x.proj.last \in Nat
  BY <1>1 DEF SnapsOk, Projections
<1> DEFINE good == Valid(CHOOSE w \in Window(rows) : TRUE)
<1>3. good \subseteq Valid(rows) /\ Valid(rows) \subseteq rows
  BY <1>2, WindowIs DEF Valid
<1>4. CASE good = {}
  <2>1. LoadLatest(a, ty) = DefaultProjection
    BY <1>1, <1>4 DEF LoadLatest
  <2> QED
    BY <2>1, DefaultOk
<1>5. CASE good # {}
  <2>1. LoadLatest(a, ty) =
            (CHOOSE x \in good : \A y \in good : y.proj.last =< x.proj.last).proj
    BY <1>1, <1>5 DEF LoadLatest
  <2>2. PICK some : some = good
    OBVIOUS
  <2>3. some # {} /\ some \in SUBSET rows /\ some \subseteq Valid(rows)
    BY <1>3, <1>5, <2>2
  <2>4. \E m \in some : \A y \in some : y.proj.last =< m.proj.last
    BY <1>2, <2>3, NewestExists
  <2>5. (CHOOSE x \in some : \A y \in some : y.proj.last =< x.proj.last) \in some
    BY <2>4
  <2>6. \A x \in some : ProjOk(db, x.proj, a)
    BY <1>1, <2>3 DEF SnapsOk
  <2> HIDE DEF good
  <2>7. ProjOk(db, (CHOOSE x \in some : \A y \in some : y.proj.last =< x.proj.last).proj, a)
    BY <2>5, <2>6
  <2> QED
    BY <2>1, <2>2, <2>7
<1> QED
  BY <1>4, <1>5

(* A snapshot of an exact projection joins the others.                     *)
LEMMA InsertedOk ==
    ASSUME NEW db, NEW a, NEW ty, SnapsOk(db, snaps[<<a, ty>>], a), NEW proj, ProjOk(db, proj, a)
    PROVE  SnapsOk(db, Inserted(a, ty, proj), a)
PROOF
<1>1. PICK rows : rows = snaps[<<a, ty>>]
  OBVIOUS
<1>2. PICK id : Inserted(a, ty, proj) = rows \cup {[id |-> id, proj |-> proj, ok |-> TRUE]}
  BY <1>1 DEF Inserted
<1>3. PICK new : new = [id |-> id, proj |-> proj, ok |-> TRUE]
  OBVIOUS
<1>4. IsFiniteSet(rows \cup {new})
  BY <1>1, FS_AddElement DEF SnapsOk
<1>5. new \in [id : {new.id}, proj : Projections, ok : BOOLEAN]
  BY <1>3 DEF ProjOk
<1>6. \A x \in Valid(rows \cup {new}) : x \in Valid(rows) \/ x.proj = proj
  BY <1>3 DEF Valid
<1> QED
  BY <1>1, <1>2, <1>3, <1>4, <1>5, <1>6 DEF SnapsOk

(* So do those the clean-up leaves.                                        *)
LEMMA FewerOk ==
    ASSUME NEW db, NEW a, NEW rows, SnapsOk(db, rows, a), NEW kept, kept \subseteq rows
    PROVE  SnapsOk(db, kept, a)
PROOF
<1>1. IsFiniteSet(kept)
  BY FS_Subset DEF SnapsOk
<1> QED
  BY <1>1 DEF SnapsOk, Valid

-----------------------------------------------------------------------------
(* Appending leaves every exact projection exact: the new row has a number *)
(* beyond all others.                                                      *)
LEMMA AppendLog ==
    ASSUME NEW db, LogOk(db), NEW e \in Rows, e.seq > MaxSeq(db),
           e.op = Cardinality(db) + 1, \A f \in db : f.op =< Cardinality(db)
    PROVE  /\ LogOk(db \cup {e}) /\ Cardinality(db \cup {e}) = Cardinality(db) + 1
           /\ MaxSeq(db \cup {e}) = e.seq
           /\ \A f \in db \cup {e} : f.op =< Cardinality(db \cup {e})
PROOF
<1>1. MaxSeq(db) \in Nat /\ Cardinality(db) \in Nat /\ db \subseteq Rows /\ IsFiniteSet(db)
  BY MaxSeqIs, FS_CardinalityType DEF LogOk
<1>2. \A f \in db : f.seq =< MaxSeq(db) /\ f.seq \in Nat /\ f.op \in Nat
  BY <1>1, MaxSeqIs DEF Rows
<1>3. e.seq \in Nat /\ e.op \in Nat
  BY DEF Rows
<1>4. e \notin db
  BY <1>1, <1>2, <1>3
<1>5. IsFiniteSet(db \cup {e}) /\ Cardinality(db \cup {e}) = Cardinality(db) + 1
  BY <1>1, <1>4, FS_AddElement
<1>6. \A f, g \in db \cup {e} : f.seq = g.seq \/ f.op = g.op => f = g
  BY <1>1, <1>2, <1>3 DEF LogOk
<1>7. MaxSeq(db \cup {e}) = e.seq
  <2>1. PICK all : all = db \cup {e}
    OBVIOUS
  <2>2. all \subseteq Rows /\ IsFiniteSet(all) /\ all # {}
    BY <1>1, <1>5, <2>1
  <2>3. /\ MaxSeq(all) \in Nat /\ \A f \in all : f.seq =< MaxSeq(all)
        /\ \E f \in all : f.seq = MaxSeq(all)
    BY <2>2, MaxSeqIs
  <2>4. PICK f \in all : f.seq = MaxSeq(all)
    BY <2>3
  <2>5. f.seq =< e.seq
    BY <1>1, <1>2, <1>3, <2>1
  <2>6. e.seq =< MaxSeq(all)
    BY <2>1, <2>3
  <2> QED
    BY <1>3, <2>1, <2>3, <2>4, <2>5, <2>6
<1>8. \A f \in db \cup {e} : f.op =< Cardinality(db) + 1
  BY <1>1, <1>2
<1> QED
  BY <1>1, <1>5, <1>6, <1>7, <1>8 DEF LogOk

(* An event appended to the log leaves a projection what it was: the events*)
(* folded into it are those of the log up to its last one.                 *)
LEMMA AppendProj ==
    ASSUME NEW db, LogOk(db), NEW e \in Rows, e.seq > MaxSeq(db), NEW a,
           MaxSeq(db \cup {e}) = e.seq,
           NEW proj, ProjOk(db, proj, a)
    PROVE  ProjOk(db \cup {e}, proj, a)
PROOF
<1>1. MaxSeq(db) \in Nat /\ e.seq \in Nat /\ proj.last \in Nat /\ proj.last =< MaxSeq(db)
  BY MaxSeqIs DEF LogOk, Rows, ProjOk, Projections
<1>2. RowsThrough(EventsOf(db \cup {e}, a), proj.last) = RowsThrough(EventsOf(db, a), proj.last)
  BY <1>1 DEF RowsThrough, EventsOf
<1> QED
  BY <1>1, <1>2 DEF ProjOk

(* What a task knows stays true too: the new row is none it asked for.     *)
LEMMA AppendTask ==
    ASSUME NEW db, LogOk(db), NEW e \in Rows, e.seq > MaxSeq(db),
           MaxSeq(db \cup {e}) = e.seq, NEW r, TaskOk(db, e.seq, r)
    PROVE  TaskOk(db \cup {e}, e.seq + 1, r)
PROOF
<1>1. CASE r.pc = "idle"
  BY <1>1 DEF TaskOk
<1>2. CASE r.pc # "idle"
  <2>1. /\ r \in Replays /\ r.pc # "archive" /\ ProjOk(db, r.proj, r.agg) /\ r.until < e.seq
        /\ r.owed \subseteq EventsOf(db, r.agg)
        /\ r.pc = "query" =>
              r.from = (IF r.until = 0 \/ r.until > r.proj.last THEN r.proj.last ELSE 0)
        /\ r.pc = "save" => r.until = 0
    BY <1>2 DEF TaskOk
  <2>2. ProjOk(db \cup {e}, r.proj, r.agg)
    BY <2>1, AppendProj
  <2>3. e.seq \in Nat /\ r.until \in Nat
    BY <2>1 DEF Rows, Replays
  <2>4. e \notin db
    <3>1. MaxSeq(db) \in Nat /\ \A f \in db : f.seq =< MaxSeq(db)
      BY MaxSeqIs DEF LogOk
    <3>2. \A f \in db : f.seq \in Nat
      BY DEF LogOk, Rows
    <3> QED
      BY <2>3, <3>1, <3>2
  <2>5. EventsOf(db, r.agg) \subseteq EventsOf(db \cup {e}, r.agg)
        /\ EventsOf(db \cup {e}, r.agg) \subseteq EventsOf(db, r.agg) \cup {e}
        /\ e \notin EventsOf(db, r.agg)
    BY <2>4 DEF EventsOf
  <2>6. ASSUME r.pc # "query", NEW f \in EventsOf(db \cup {e}, r.agg), f.seq > r.proj.last
        PROVE  f.seq > r.until /\ (r.until = 0 => f \notin r.owed)
    <3>1. CASE f = e
      BY <2>1, <2>3, <2>5, <3>1
    <3>2. CASE f \in EventsOf(db, r.agg)
      BY <1>2, <2>6, <3>2 DEF TaskOk
    <3> QED
      BY <2>5, <3>1, <3>2
  <2>7. r.until < e.seq + 1
    BY <2>1, <2>3
  <2>8. r.owed \subseteq EventsOf(db \cup {e}, r.agg)
    BY <2>1, <2>5
  <2> QED
    BY <2>1, <2>2, <2>6, <2>7, <2>8 DEF TaskOk
<1> QED
  BY <1>1, <1>2

-----------------------------------------------------------------------------
(* append_event keeps what holds without archiving.                        *)
LEMMA AppendKeeps ==
    ASSUME Plain, NEW a \in Aggregates, AppendEvent(a)
    PROVE  Plain'
PROOF
<1>1. /\ archived = {} /\ LogOk(live) /\ nextSeq \in Nat /\ MaxSeq(live) < nextSeq
      /\ live \subseteq Rows /\ IsFiniteSet(live) /\ Stored = live
  BY DEF Plain, LogOk, Stored
<1>2. MaxSeq(live) \in Nat /\ Cardinality(live) \in Nat
  BY <1>1, MaxSeqIs, FS_CardinalityType
<1>3. LatestVersion(live, a) \in Nat
  <2> DEFINE S == {e.version : e \in EventsOf(live, a)}
             f == [e \in EventsOf(live, a) |-> e.version]
  <2>1. CASE EventsOf(live, a) = {}
    BY <2>1 DEF LatestVersion
  <2>2. CASE EventsOf(live, a) # {}
    <3>1. S \in SUBSET Int /\ S # {} /\ \A v \in S : v \in Nat
      BY <1>1, <2>2 DEF EventsOf, Rows
    <3>2. f \in Surjection(EventsOf(live, a), S)
      BY DEF Surjection
    <3>3. IsFiniteSet(S)
      <4>1. IsFiniteSet(EventsOf(live, a))
        BY <1>1, FS_Subset DEF EventsOf
      <4> HIDE DEF S, f
      <4> QED
        BY <3>2, <4>1, FS_Surjection
    <3>4. \E x \in S : \A y \in S : x >= y
      <4> HIDE DEF S
      <4> QED
        BY <3>1, <3>3, MaxExists
    <3>5. Max(S) \in S
      BY <3>4 DEF Max
    <3>6. LatestVersion(live, a) = Max(S)
      BY <2>2 DEF LatestVersion
    <3> QED
      BY <3>1, <3>5, <3>6
  <2> QED
    BY <2>1, <2>2
<1>4. PICK e : e = Row(a, LatestVersion(live, a) + 1, nextSeq, Cardinality(Stored) + 1)
  OBVIOUS
<1>5. /\ live' = live \cup {e} /\ nextSeq' = e.seq + 1
      /\ archived' = {} /\ snaps' = snaps /\ task' = task
  BY <1>1, <1>4 DEF AppendEvent, Row
<1>6. e \in Rows /\ e.seq = nextSeq /\ e.op = Cardinality(live) + 1 /\ e.seq > MaxSeq(live)
  BY <1>1, <1>2, <1>3, <1>4 DEF Row, Rows
<1>7. \A f \in live : f.op =< Cardinality(live)
  BY DEF Plain
<1>8. /\ LogOk(live \cup {e}) /\ MaxSeq(live \cup {e}) = e.seq
      /\ \A f \in live \cup {e} : f.op =< Cardinality(live \cup {e})
  BY <1>1, <1>6, <1>7, AppendLog
<1>9. \A b \in Aggregates, ty \in Types : SnapsOk(live \cup {e}, snaps[<<b, ty>>], b)
  BY <1>1, <1>6, <1>8, AppendProj DEF Plain, SnapsOk
<1>10. \A t \in Tasks : TaskOk(live \cup {e}, e.seq + 1, task[t])
  BY <1>1, <1>6, <1>8, AppendTask DEF Plain
<1>11. nextSeq' \in Nat /\ MaxSeq(live') < nextSeq'
  BY <1>1, <1>5, <1>6, <1>8
<1>12. LogOk(live') /\ \A f \in live' : f.op =< Cardinality(live')
  BY <1>5, <1>8
<1>13. \A b \in Aggregates, ty \in Types : SnapsOk(live', snaps'[<<b, ty>>], b)
  BY <1>5, <1>9
<1>14. \A t \in Tasks : TaskOk(live', nextSeq', task'[t])
  BY <1>5, <1>10
<1>15. /\ snaps' = [x \in Aggregates \X Types |-> snaps'[x]]
       /\ task' \in [Tasks -> [pc : {"idle"}] \cup Replays]
  BY <1>5 DEF Plain
<1> QED
  BY <1>5, <1>11, <1>12, <1>13, <1>14, <1>15 DEF Plain

(* A step of one task that adds no row.                                    *)
LEMMA TaskMoves ==
    ASSUME Plain, UNCHANGED store, UNCHANGED snaps, NEW t \in Tasks, NEW r \in Replays,
           task' = [task EXCEPT ![t] = r], TaskOk(live, nextSeq, r)
    PROVE  Plain'
PROOF
<1>1. live' = live /\ archived' = archived /\ nextSeq' = nextSeq /\ snaps' = snaps
  BY DEF store
<1>2. task' \in [Tasks -> [pc : {"idle"}] \cup Replays]
  BY DEF Plain
<1>3. \A u \in Tasks : TaskOk(live, nextSeq, task'[u])
  BY DEF Plain
<1> QED
  BY <1>1, <1>2, <1>3 DEF Plain

(* A step that writes to snapshots.db.                                     *)
LEMMA SnapsMove ==
    ASSUME Plain, NEW a \in Aggregates, NEW ty \in Types, NEW rows, SnapsOk(live, rows, a),
           UNCHANGED <<live, archived>>, snaps' = [snaps EXCEPT ![<<a, ty>>] = rows],
           nextSeq' \in Nat, MaxSeq(live) < nextSeq',
           task' \in [Tasks -> [pc : {"idle"}] \cup Replays],
           \A t \in Tasks : TaskOk(live, nextSeq', task'[t])
    PROVE  Plain'
PROOF
<1>1. /\ snaps' = [x \in Aggregates \X Types |-> snaps'[x]]
      /\ snaps'[<<a, ty>>] = rows
      /\ \A b \in Aggregates, u \in Types :
            <<b, u>> # <<a, ty>> => snaps'[<<b, u>>] = snaps[<<b, u>>]
  BY DEF Plain
<1>2. ASSUME NEW b \in Aggregates, NEW u \in Types
      PROVE  SnapsOk(live, snaps'[<<b, u>>], b)
  <2>1. CASE <<b, u>> = <<a, ty>>
    <3>1. b = a /\ u = ty
      BY <2>1
    <3> QED
      BY <1>1, <3>1
  <2>2. CASE <<b, u>> # <<a, ty>>
    BY <1>1, <2>2 DEF Plain
  <2> QED
    BY <2>1, <2>2
<1> QED
  BY <1>1, <1>2 DEF Plain

(* A task in the middle of a replay, with what it knows.                   *)
LEMMA BusyTask ==
    ASSUME Plain, NEW t \in Tasks, task[t].pc # "idle"
    PROVE  /\ task[t] \in Replays /\ task[t].agg \in Aggregates /\ task[t].type \in Types
           /\ task[t].pc # "archive" /\ task[t].until \in Nat
           /\ ProjOk(live, task[t].proj, task[t].agg) /\ task[t].proj.last \in Nat
           /\ task[t] = [pc |-> task[t].pc, agg |-> task[t].agg, type |-> task[t].type,
                         until |-> task[t].until, from |-> task[t].from,
                         proj |-> task[t].proj, owed |-> task[t].owed]
PROOF
<1>1. TaskOk(live, nextSeq, task[t]) /\ task[t] \in [pc : {"idle"}] \cup Replays
  BY DEF Plain
<1>2. task[t] \in Replays /\ task[t].pc # "archive" /\ ProjOk(live, task[t].proj, task[t].agg)
  BY <1>1 DEF TaskOk
<1>3. task[t].proj.last \in Nat
  BY <1>2 DEF ProjOk, Projections
<1> QED
  BY <1>2, <1>3 DEF Replays

(* A replay starts from an exact projection.                               *)
LEMMA LoadKeeps ==
    ASSUME Plain, NEW t \in Tasks, NEW a \in Aggregates, NEW ty \in Types,
           NEW until \in 0..(nextSeq - 1), Load(t, a, ty, until)
    PROVE  Plain'
PROOF
<1>1. LogOk(live) /\ archived = {} /\ Stored = live /\ nextSeq \in Nat /\ until \in Nat
  BY DEF Plain, Stored
<1>2. PICK proj : proj = LoadLatest(a, ty)
  OBVIOUS
<1>3. ProjOk(live, proj, a) /\ proj \in Projections /\ proj.last \in Nat
  BY <1>1, <1>2, LoadLatestOk DEF Plain, ProjOk, Projections
<1>4. PICK from : from = IF until = 0 \/ until > proj.last THEN proj.last ELSE 0
  OBVIOUS
<1>5. PICK r : r = [pc |-> "query", agg |-> a, type |-> ty, until |-> until,
                    from |-> from, proj |-> proj, owed |-> EventsOf(Stored, a)]
  OBVIOUS
<1>6. task' = [task EXCEPT ![t] = r] /\ UNCHANGED store /\ UNCHANGED snaps
  BY <1>2, <1>4, <1>5 DEF Load
<1>7. EventsOf(live, a) \subseteq Rows
  BY <1>1 DEF EventsOf, LogOk
<1>8. from \in Nat
  BY <1>3, <1>4
<1>9. r \in Replays
  BY <1>1, <1>3, <1>5, <1>7, <1>8 DEF Replays
<1>10. TaskOk(live, nextSeq, r)
  <2>1. /\ r.pc = "query" /\ r.proj = proj /\ r.agg = a /\ r.until = until /\ r.from = from
        /\ r.owed = EventsOf(live, a)
    BY <1>1, <1>5
  <2>2. until < nextSeq
    BY <1>1
  <2> QED
    BY <1>3, <1>4, <1>9, <2>1, <2>2 DEF TaskOk
<1> QED
  BY <1>6, <1>9, <1>10, TaskMoves

(* Folding leaves the projection exact.                                    *)
LEMMA FoldKeeps ==
    ASSUME Plain, NEW t \in Tasks, Fold(t)
    PROVE  Plain'
PROOF
<1>1. PICK o : o = task[t]
  OBVIOUS
<1>2. /\ o.pc = "query" /\ o \in Replays /\ o.agg \in Aggregates /\ o.type \in Types
      /\ o.until \in Nat /\ ProjOk(live, o.proj, o.agg) /\ o.proj.last \in Nat
      /\ o = [pc |-> o.pc, agg |-> o.agg, type |-> o.type, until |-> o.until,
              from |-> o.from, proj |-> o.proj, owed |-> o.owed]
  BY <1>1, BusyTask DEF Fold
<1>3. /\ TaskOk(live, nextSeq, o) /\ LogOk(live)
      /\ \A e \in EventsOf(live, o.agg) : e.seq \in Nat
  BY <1>1 DEF Plain, LogOk, EventsOf, Rows
<1>4. /\ o.from = (IF o.until = 0 \/ o.until > o.proj.last THEN o.proj.last ELSE 0)
      /\ o.until < nextSeq /\ o.owed \subseteq EventsOf(live, o.agg)
  BY <1>2, <1>3 DEF TaskOk
<1>5. PICK rows : rows = Queried(t)
  OBVIOUS
<1>6. /\ rows \in SUBSET EventsOf(live, o.agg)
      /\ \A e \in EventsOf(live, o.agg) :
            e.seq > o.proj.last => (e \in rows <=> o.until = 0 \/ e.seq =< o.until)
  <2>1. CASE o.until = 0
    <3>1. rows = {e \in EventsOf(live, o.agg) : e.seq > o.from}
      BY <1>1, <1>5, <2>1 DEF Queried, AggregateFromSeq
    <3> QED
      BY <1>4, <2>1, <3>1
  <2>2. CASE o.until # 0
    <3>1. rows = {e \in EventsOf(live, o.agg) : e.seq > o.from /\ e.seq =< o.until}
      BY <1>1, <1>5, <2>2 DEF Queried, AggregateFromSeq, AggregateFromSeqUntil
    <3>2. \A e \in EventsOf(live, o.agg) : e.seq > o.proj.last => e.seq > o.from
      BY <1>2, <1>3, <1>4
    <3> QED
      BY <2>2, <3>1, <3>2
  <2> QED
    BY <2>1, <2>2
<1>7. PICK p : p = ApplyAll(o.proj, rows)
  OBVIOUS
<1>8. /\ ProjOk(live, p, o.agg)
      /\ \A e \in EventsOf(live, o.agg) : e.seq > p.last => o.until # 0 /\ e.seq > o.until
  BY <1>2, <1>3, <1>6, <1>7, FoldIs
<1>9. PICK pc : pc = IF o.until = 0 /\ Cardinality(rows) >= SnapshotInterval
                     THEN "save" ELSE "returned"
  OBVIOUS
<1>10. PICK r : r = [pc |-> pc, agg |-> o.agg, type |-> o.type, until |-> o.until,
                     from |-> o.from, proj |-> p, owed |-> o.owed]
  OBVIOUS
<1>11. task' = [task EXCEPT ![t] = r]
  <2>1. task' = [task EXCEPT ![t] = [o EXCEPT !.proj = p, !.pc = pc]]
    BY <1>1, <1>5, <1>7, <1>9 DEF Fold
  <2>2. [o EXCEPT !.proj = p, !.pc = pc] = r
    <3>1. PICK d : d = [o EXCEPT !.proj = p]
      OBVIOUS
    <3>2. d = [pc |-> o.pc, agg |-> o.agg, type |-> o.type, until |-> o.until,
               from |-> o.from, proj |-> p, owed |-> o.owed]
      BY <1>2, <3>1 DEF Replays
    <3>3. [d EXCEPT !.pc = pc] = r
      BY <1>10, <3>2
    <3> QED
      BY <3>1, <3>3
  <2> QED
    BY <2>1, <2>2
<1>12. pc \in {"save", "returned"} /\ (pc = "save" => o.until = 0)
  BY <1>9
<1>13. p \in Projections /\ o.from \in Nat /\ o.owed \in SUBSET Rows
  BY <1>2, <1>8 DEF ProjOk, Replays
<1>14. r \in Replays
  BY <1>2, <1>10, <1>12, <1>13 DEF Replays
<1>15. TaskOk(live, nextSeq, r)
  <2>1. /\ r.pc = pc /\ r.proj = p /\ r.agg = o.agg /\ r.until = o.until /\ r.owed = o.owed
    BY <1>10
  <2> QED
    BY <1>4, <1>8, <1>12, <1>14, <2>1 DEF TaskOk
<1> QED
  BY <1>11, <1>14, <1>15, TaskMoves DEF Fold

(* A task saves the exact projection it has and goes on.                   *)
LEMMA SaveKeeps ==
    ASSUME Plain, ~setting.archive, NEW t \in Tasks,
           task[t].pc \in {"save", "returned"},
           SaveSnapshot(task[t].agg, task[t].type, task[t].proj),
           task' = [task EXCEPT ![t].pc = AfterSave], UNCHANGED store
    PROVE  Plain'
PROOF
<1>1. PICK o : o = task[t]
  OBVIOUS
<1>2. /\ o.pc \in {"save", "returned"} /\ o \in Replays /\ o.agg \in Aggregates
      /\ o.type \in Types /\ ProjOk(live, o.proj, o.agg)
      /\ o = [pc |-> o.pc, agg |-> o.agg, type |-> o.type, until |-> o.until,
              from |-> o.from, proj |-> o.proj, owed |-> o.owed]
  BY <1>1, BusyTask
<1>3. PICK rows \in Cleaned(Inserted(o.agg, o.type, o.proj)) :
          snaps' = [snaps EXCEPT ![<<o.agg, o.type>>] = rows]
  BY <1>1 DEF SaveSnapshot
<1>4. SnapsOk(live, rows, o.agg)
  <2>1. SnapsOk(live, Inserted(o.agg, o.type, o.proj), o.agg)
    BY <1>2, InsertedOk DEF Plain
  <2>2. rows \subseteq Inserted(o.agg, o.type, o.proj)
    <3>1. /\ IsFiniteSet(Inserted(o.agg, o.type, o.proj))
          /\ \A x \in Inserted(o.agg, o.type, o.proj) : x.proj.last \in Nat
      BY <2>1 DEF SnapsOk, Projections
    <3> QED
      BY <3>1, WindowIs DEF Cleaned
  <2> QED
    BY <2>1, <2>2, FewerOk
<1>5. PICK r : r = [o EXCEPT !.pc = "returned"]
  OBVIOUS
<1>6. task' = [task EXCEPT ![t] = r]
  BY <1>1, <1>5 DEF AfterSave
<1>7. r \in Replays
  BY <1>2, <1>5 DEF Replays
<1>8. TaskOk(live, nextSeq, r)
  <2>1. /\ r.pc = "returned" /\ r.proj = o.proj /\ r.agg = o.agg /\ r.until = o.until
        /\ r.owed = o.owed
    BY <1>2, <1>5
  <2>2. TaskOk(live, nextSeq, o)
    BY <1>1 DEF Plain
  <2> QED
    BY <1>2, <1>7, <2>1, <2>2 DEF TaskOk
<1>9. task' \in [Tasks -> [pc : {"idle"}] \cup Replays]
  BY <1>6, <1>7 DEF Plain
<1>10. \A u \in Tasks : TaskOk(live, nextSeq', task'[u])
  BY <1>6, <1>8 DEF Plain, store
<1>11. live' = live /\ archived' = archived /\ nextSeq' \in Nat /\ MaxSeq(live) < nextSeq'
  BY DEF Plain, store
<1> QED
  BY <1>2, <1>3, <1>4, <1>9, <1>10, <1>11, SnapsMove

(* A snapshot that goes bad is no longer valid, and the others stay.       *)
LEMMA CorruptKeeps ==
    ASSUME Plain, NEW x \in Aggregates \X Types, NEW row \in snaps[x], Corrupt(x, row)
    PROVE  Plain'
PROOF
<1>1. PICK a \in Aggregates, ty \in Types : x = <<a, ty>>
  OBVIOUS
<1>2. PICK rows : rows = snaps[<<a, ty>>]
  OBVIOUS
<1>3. PICK bad : bad = [row EXCEPT !.ok = FALSE]
  OBVIOUS
<1>4. SnapsOk(live, rows, a) /\ row \in rows
  BY <1>1, <1>2 DEF Plain
<1>5. row \in [id : {row.id}, proj : Projections, ok : BOOLEAN]
  BY <1>4 DEF SnapsOk
<1>6. bad.ok = FALSE /\ bad \in [id : {bad.id}, proj : Projections, ok : BOOLEAN]
  BY <1>3, <1>5
<1>7. SnapsOk(live, (rows \ {row}) \cup {bad}, a)
  <2>1. IsFiniteSet((rows \ {row}) \cup {bad})
    BY <1>4, FS_RemoveElement, FS_AddElement DEF SnapsOk
  <2>2. Valid((rows \ {row}) \cup {bad}) \subseteq Valid(rows)
    BY <1>6 DEF Valid
  <2> QED
    BY <1>4, <1>6, <2>1, <2>2 DEF SnapsOk
<1>8. snaps' = [snaps EXCEPT ![<<a, ty>>] = (rows \ {row}) \cup {bad}]
  BY <1>1, <1>2, <1>3 DEF Corrupt
<1>9. /\ live' = live /\ archived' = archived /\ nextSeq' = nextSeq /\ task' = task
      /\ nextSeq \in Nat /\ MaxSeq(live) < nextSeq
      /\ task \in [Tasks -> [pc : {"idle"}] \cup Replays]
      /\ \A t \in Tasks : TaskOk(live, nextSeq, task[t])
  BY DEF Plain, Corrupt, store
<1> QED
  BY <1>7, <1>8, <1>9, SnapsMove

(* A new process knows nothing, and its allocator starts beyond all rows.  *)
LEMMA FreshProcess ==
    ASSUME Plain, NewProcess
    PROVE  /\ live' = live /\ archived' = archived
           /\ nextSeq' \in Nat /\ MaxSeq(live) < nextSeq'
           /\ task' \in [Tasks -> [pc : {"idle"}] \cup Replays]
           /\ \A t \in Tasks : TaskOk(live, nextSeq', task'[t])
PROOF
<1>1. live' = live /\ archived' = archived
  BY DEF NewProcess
<1>2. MaxSeq(live) \in Nat /\ nextSeq' = MaxSeq(live) + 1
  BY MaxSeqIs DEF NewProcess, Plain, LogOk
<1>3. /\ task' \in [Tasks -> [pc : {"idle"}] \cup Replays]
      /\ \A t \in Tasks : task'[t].pc = "idle"
  BY DEF NewProcess
<1>4. \A t \in Tasks : TaskOk(live, nextSeq', task'[t])
  BY <1>3 DEF TaskOk
<1> QED
  BY <1>1, <1>2, <1>3, <1>4

(* A restart loses the tasks, and one in the middle of save leaves the     *)
(* snapshot inserted.                                                      *)
LEMMA RestartKeeps ==
    ASSUME Plain, Restart
    PROVE  Plain'
PROOF
<1>1. snaps' = snaps /\ NewProcess
  BY DEF Restart
<1> QED
  BY <1>1, FreshProcess DEF Plain

(* A crash between a snapshot's INSERT and its clean-up leaves an exact    *)
(* snapshot more.                                                          *)
LEMMA CrashKeeps ==
    ASSUME Plain, NEW t \in Tasks, CrashInSave(t)
    PROVE  Plain'
PROOF
<1>1. PICK o : o = task[t]
  OBVIOUS
<1>2. o.pc = "save" /\ o.agg \in Aggregates /\ o.type \in Types
      /\ ProjOk(live, o.proj, o.agg)
  BY <1>1, BusyTask DEF CrashInSave
<1>3. SnapsOk(live, Inserted(o.agg, o.type, o.proj), o.agg)
  BY <1>2, InsertedOk DEF Plain
<1>4. /\ snaps' = [snaps EXCEPT ![<<o.agg, o.type>>] = Inserted(o.agg, o.type, o.proj)]
      /\ NewProcess
  BY <1>1 DEF CrashInSave
<1> QED
  BY <1>2, <1>3, <1>4, FreshProcess, SnapsMove

-----------------------------------------------------------------------------
(* An empty store, no snapshots and no replays.                            *)
LEMMA InitInv == Init => IInv
PROOF
<1> SUFFICES ASSUME Init PROVE IInv
  OBVIOUS
<1> USE DEF Init
<1>1. LogOk(live) /\ MaxSeq(live) = 0
  BY FS_EmptySet DEF LogOk, MaxSeq
<1>2. \A a \in Aggregates, ty \in Types : SnapsOk(live, snaps[<<a, ty>>], a)
  <2>1. \A a \in Aggregates, ty \in Types : snaps[<<a, ty>>] = {}
    OBVIOUS
  <2>2. \A a : SnapsOk(live, {}, a)
    BY FS_EmptySet DEF SnapsOk, Valid
  <2> QED
    BY <2>1, <2>2
<1>3. \A t \in Tasks : TaskOk(live, nextSeq, task[t])
  BY DEF TaskOk
<1> QED
  BY <1>1, <1>2, <1>3 DEF IInv, Plain

(* Every step keeps the invariant.                                         *)
LEMMA NextInv == IInv /\ [Next]_vars => IInv'
PROOF
<1> SUFFICES ASSUME IInv, [Next]_vars PROVE IInv'
  OBVIOUS
<1>1. setting' = setting
  BY DEF Next, vars, AppendEvent, Load, Fold, Save, AutoArchive, MaybeSnapshot, CrashInSave,
         Corrupt, Restart, NewProcess
<1>2. SUFFICES ASSUME ~setting.archive PROVE Plain'
  BY <1>1 DEF IInv
<1>3. Plain /\ setting.tasks \subseteq Tasks
  BY <1>2 DEF IInv, Tasks
<1>4. CASE UNCHANGED vars
  BY <1>3, <1>4 DEF Plain, vars
<1>5. ASSUME NEW a \in Aggregates, AppendEvent(a) PROVE Plain'
  BY <1>3, <1>5, AppendKeeps
<1>6. ASSUME NEW t \in setting.tasks, NEW a \in Aggregates, NEW ty \in Types,
             NEW until \in 0..(nextSeq - 1), Load(t, a, ty, until)
      PROVE  Plain'
  BY <1>3, <1>6, LoadKeeps
<1>7. ASSUME NEW t \in setting.tasks, Fold(t) PROVE Plain'
  BY <1>3, <1>7, FoldKeeps
<1>8. ASSUME NEW t \in setting.tasks, Save(t) PROVE Plain'
  BY <1>2, <1>3, <1>8, SaveKeeps DEF Save
<1>9. ASSUME NEW t \in setting.tasks, AutoArchive(t) PROVE Plain'
  BY <1>3, <1>9, BusyTask DEF AutoArchive
<1>10. ASSUME NEW t \in setting.tasks, MaybeSnapshot(t) PROVE Plain'
  BY <1>2, <1>3, <1>10, SaveKeeps DEF MaybeSnapshot
<1>11. ASSUME NEW t \in setting.tasks, CrashInSave(t) PROVE Plain'
  BY <1>3, <1>11, CrashKeeps
<1>12. ASSUME NEW x \in Aggregates \X Types, NEW row \in snaps[x], Corrupt(x, row)
       PROVE  Plain'
  BY <1>3, <1>12, CorruptKeeps
<1>13. CASE Restart
  BY <1>3, <1>13, RestartKeeps
<1> QED
  BY <1>4, <1>5, <1>6, <1>7, <1>8, <1>9, <1>10, <1>11, <1>12, <1>13 DEF Next

-----------------------------------------------------------------------------
(* The inductive invariant holds in every behaviour: without archiving,    *)
(* however replays, snapshots, corruption and restarts interleave.         *)
THEOREM Invariance == Spec => []IInv
PROOF
  BY InitInv, NextInv, PTL DEF Spec

(* Where the program does not archive, a snapshot that passes its checksum *)
(* is the fold of all its aggregate's events up to its seq, each once.     *)
THEOREM SnapshotsAreExact == Spec => [](~setting.archive => SnapshotsExact)
PROOF
<1>1. IInv => (~setting.archive => SnapshotsExact)
  <2> SUFFICES ASSUME IInv, ~setting.archive,
                      NEW x \in Aggregates \X Types, NEW row \in Valid(snaps[x])
               PROVE  Exactly(row.proj, RowsThrough(EventsOf(Stored, x[1]), row.proj.last))
    BY DEF SnapshotsExact
  <2>1. PICK a \in Aggregates, ty \in Types : x = <<a, ty>>
    OBVIOUS
  <2>2. x[1] = a /\ SnapsOk(live, snaps[x], a) /\ Stored = live
    BY <2>1 DEF IInv, Plain, Stored
  <2> QED
    BY <2>2 DEF SnapsOk, ProjOk
<1> QED
  BY <1>1, Invariance, PTL

(* Where it does not archive, rebuild_projection returns every event that  *)
(* was stored before the call, each once.                                  *)
THEOREM RebuildsAreComplete == Spec => [](~setting.archive => RebuildComplete)
PROOF
<1>1. IInv => (~setting.archive => RebuildComplete)
  <2> SUFFICES ASSUME IInv, ~setting.archive, NEW t \in Tasks,
                      task[t].pc \in {"save", "archive", "returned"}, task[t].until = 0
               PROVE  /\ Ops(task[t].owed) \subseteq task[t].proj.applied
                      /\ task[t].proj.count = Cardinality(task[t].proj.applied)
    BY DEF RebuildComplete
  <2>1. PICK o : o = task[t]
    OBVIOUS
  <2>2. TaskOk(live, nextSeq, o) /\ LogOk(live)
    BY <2>1 DEF IInv, Plain
  <2>3. /\ o.owed \subseteq EventsOf(live, o.agg) /\ ProjOk(live, o.proj, o.agg)
        /\ \A e \in EventsOf(live, o.agg) : e.seq > o.proj.last => e \notin o.owed
    BY <2>1, <2>2 DEF TaskOk
  <2>4. PICK rows : rows = RowsThrough(EventsOf(live, o.agg), o.proj.last)
    OBVIOUS
  <2>5. o.proj.applied = Ops(rows) /\ o.proj.count = Cardinality(rows)
    BY <2>3, <2>4 DEF ProjOk, Exactly
  <2>6. rows \in SUBSET live /\ o.proj.last \in Nat /\ \A e \in live : e.seq \in Nat
    BY <2>2, <2>3, <2>4 DEF RowsThrough, EventsOf, ProjOk, Projections, LogOk, Rows
  <2>7. Cardinality(Ops(rows)) = Cardinality(rows)
    BY <2>2, <2>6, RowsCount
  <2>8. o.owed \subseteq rows
    BY <2>3, <2>4, <2>6 DEF RowsThrough, EventsOf
  <2>9. Ops(o.owed) \subseteq Ops(rows)
    BY <2>8 DEF Ops
  <2> QED
    BY <2>1, <2>5, <2>7, <2>9
<1> QED
  BY <1>1, Invariance, PTL

(* replay_from_checkpoint returns the aggregate exactly as of a checkpoint *)
(* that its snapshot was not beyond.                                       *)
THEOREM CheckpointsAreExact == Spec => []CheckpointExact
PROOF
<1>1. IInv => CheckpointExact
  <2> SUFFICES ASSUME IInv, ~setting.archive, NEW t \in Tasks, task[t].pc = "returned",
                      task[t].until >= task[t].proj.last
               PROVE  Exactly(task[t].proj,
                              RowsThrough(EventsOf(Stored, task[t].agg), task[t].until))
    BY DEF CheckpointExact
  <2>1. PICK o : o = task[t]
    OBVIOUS
  <2>2. TaskOk(live, nextSeq, o) /\ LogOk(live) /\ Stored = live
    BY <2>1 DEF IInv, Plain, Stored
  <2>3. /\ ProjOk(live, o.proj, o.agg) /\ o.until \in Nat
        /\ \A e \in EventsOf(live, o.agg) : e.seq > o.proj.last => e.seq > o.until
    BY <2>1, <2>2 DEF TaskOk, Replays
  <2>4. /\ o.proj.last \in Nat /\ o.until >= o.proj.last
        /\ \A e \in EventsOf(live, o.agg) : e.seq \in Nat
    BY <2>1, <2>2, <2>3 DEF ProjOk, Projections, LogOk, EventsOf, Rows
  <2>5. RowsThrough(EventsOf(live, o.agg), o.until) =
            RowsThrough(EventsOf(live, o.agg), o.proj.last)
    BY <2>3, <2>4 DEF RowsThrough
  <2> QED
    BY <2>1, <2>2, <2>3, <2>5 DEF ProjOk
<1> QED
  BY <1>1, Invariance, PTL
-----------------------------------------------------------------------------
(* Tables of snapshots that no crash left longer than the limit.           *)
SmallTables == \A x \in Aggregates \X Types : Cardinality(snaps[x]) =< MaxSnapshots

(* What load_latest returns, of a table.                                   *)
Latest(rows) ==
    LET good == Valid(CHOOSE w \in Window(rows) : TRUE)
    IN  IF good = {} THEN DefaultProjection
        ELSE (CHOOSE x \in good : \A y \in good : y.proj.last =< x.proj.last).proj

(* Of a table that is not too long it is the newest valid snapshot.        *)
LEMMA LatestIs ==
    ASSUME NEW rows, IsFiniteSet(rows), \A x \in rows : x.proj.last \in Nat,
           Cardinality(rows) =< MaxSnapshots
    PROVE  /\ Valid(rows) = {} => Latest(rows).last = 0
           /\ Valid(rows) # {} =>
                 \E m \in Valid(rows) :
                     Latest(rows) = m.proj /\ \A y \in Valid(rows) : y.proj.last =< m.proj.last
PROOF
<1> DEFINE good == Valid(CHOOSE w \in Window(rows) : TRUE)
<1>1. Window(rows) = {rows}
  BY DEF Window
<1>2. (CHOOSE w \in Window(rows) : TRUE) = rows
  BY <1>1
<1>3. good = Valid(rows)
  BY <1>2
<1>4. Latest(rows) = IF good = {} THEN DefaultProjection
          ELSE (CHOOSE x \in good : \A y \in good : y.proj.last =< x.proj.last).proj
  BY DEF Latest
<1>5. PICK some : some = good
  OBVIOUS
<1>6. CASE some = {}
  BY <1>3, <1>4, <1>5, <1>6 DEF DefaultProjection
<1>7. CASE some # {}
  <2>1. some \in SUBSET rows
    BY <1>3, <1>5 DEF Valid
  <2>2. \E m \in some : \A y \in some : y.proj.last =< m.proj.last
    BY <1>7, <2>1, NewestExists
  <2>3. PICK m \in some : /\ m = CHOOSE x \in some : \A y \in some : y.proj.last =< x.proj.last
                          /\ \A y \in some : y.proj.last =< m.proj.last
    BY <2>2
  <2> HIDE DEF good
  <2> QED
    BY <1>3, <1>4, <1>5, <1>7, <2>3
<1> QED
  BY <1>6, <1>7

(* The clean-up after an insertion drops at most one row, and none that is *)
(* newer than what it keeps.                                               *)
LEMMA CleanUpIs ==
    ASSUME NEW rows, IsFiniteSet(rows), \A x \in rows : x.proj.last \in Nat,
           Cardinality(rows) =< MaxSnapshots,
           NEW new, new.ok, new.proj.last \in Nat,
           NEW kept \in Cleaned(rows \cup {new})
    PROVE  /\ kept \subseteq rows \cup {new} /\ IsFiniteSet(kept)
           /\ Cardinality(kept) =< MaxSnapshots
           /\ \A x \in Valid(rows) : \E y \in Valid(kept) : x.proj.last =< y.proj.last
PROOF
<1>1. PICK all : all = rows \cup {new}
  OBVIOUS
<1>2. IsFiniteSet(all) /\ Cardinality(all) \in Nat /\ Cardinality(all) =< Cardinality(rows) + 1
  <2>1. /\ IsFiniteSet(all)
        /\ Cardinality(all) = IF new \in rows THEN Cardinality(rows) ELSE Cardinality(rows) + 1
    BY <1>1, FS_AddElement
  <2> QED
    BY <2>1, FS_CardinalityType
<1>3. kept \in Window(all)
  BY <1>1 DEF Cleaned
<1>4. MaxSnapshots \in Nat /\ Cardinality(rows) \in Nat
  BY ReplayAssumption, FS_CardinalityType
<1>5. CASE Cardinality(all) =< MaxSnapshots
  <2>1. kept = all
    BY <1>3, <1>5 DEF Window
  <2> QED
    BY <1>1, <1>2, <1>5, <2>1 DEF Valid
<1>6. CASE ~(Cardinality(all) =< MaxSnapshots)
  <2>1. /\ kept \in SUBSET all /\ Cardinality(kept) = MaxSnapshots
        /\ \A x \in kept, y \in all \ kept : y.proj.last =< x.proj.last
    BY <1>3, <1>6 DEF Window, Highest
  <2>2. IsFiniteSet(kept) /\ IsFiniteSet(all \ kept)
    BY <1>2, <2>1, FS_Subset, FS_Difference
  <2>3. Cardinality(all \ kept) = 1
    <3>1. Cardinality(all \ kept) = Cardinality(all) - Cardinality(all \cap kept)
      BY <1>2, FS_Difference
    <3>2. all \cap kept = kept
      BY <2>1
    <3>3. Cardinality(all \ kept) = Cardinality(all) - MaxSnapshots
      BY <2>1, <3>1, <3>2
    <3> QED
      BY <1>2, <1>4, <1>6, <3>3
  <2>4. PICK out : all \ kept = {out}
    BY <2>2, <2>3, FS_Singleton
  <2>5. ASSUME NEW x \in Valid(rows)
        PROVE  \E y \in Valid(kept) : x.proj.last =< y.proj.last
    <3>1. x \in rows /\ x \in all /\ x.ok /\ x.proj.last \in Nat
      BY <1>1 DEF Valid
    <3>2. CASE x \in kept
      BY <3>1, <3>2 DEF Valid
    <3>3. CASE x \notin kept /\ new \in kept
      <4>1. x.proj.last =< new.proj.last
        BY <2>1, <3>1, <3>3
      <4> QED
        BY <3>3, <4>1 DEF Valid
    <3>4. CASE x \notin kept /\ new \notin kept
      <4>1. x = new
        BY <1>1, <2>4, <3>1, <3>4
      <4>2. all = rows
        BY <1>1, <3>1, <4>1
      <4> QED
        BY <1>6, <4>2
    <3> QED
      BY <3>2, <3>3, <3>4
  <2> QED
    BY <1>1, <1>4, <2>1, <2>2, <2>5
<1> QED
  BY <1>5, <1>6

(* After a save into such a table, load_latest returns what it did before  *)
(* or something newer, and the table stays short.                          *)
LEMMA SaveGains ==
    ASSUME Plain, Plain', SmallTables, NEW b \in Aggregates, NEW tb \in Types, NEW proj,
           ProjOk(live, proj, b), SaveSnapshot(b, tb, proj)
    PROVE  /\ SmallTables'
           /\ \A a \in Aggregates, ty \in Types :
                  LoadLatest(a, ty).last =< LoadLatest(a, ty)'.last
PROOF
<1>1. PICK kept \in Cleaned(Inserted(b, tb, proj)) : snaps' = [snaps EXCEPT ![<<b, tb>>] = kept]
  BY DEF SaveSnapshot
<1>2. PICK new : /\ new.ok /\ new.proj = proj
                 /\ Inserted(b, tb, proj) = snaps[<<b, tb>>] \cup {new}
  BY DEF Inserted
<1>3. proj.last \in Nat
  BY DEF ProjOk, Projections
<1>4. \A a \in Aggregates, ty \in Types :
         /\ IsFiniteSet(snaps[<<a, ty>>]) /\ Cardinality(snaps[<<a, ty>>]) =< MaxSnapshots
         /\ \A x \in snaps[<<a, ty>>] : x.proj.last \in Nat
  BY DEF Plain, SnapsOk, SmallTables, Projections
<1>5. /\ IsFiniteSet(kept) /\ Cardinality(kept) =< MaxSnapshots
      /\ \A x \in kept : x.proj.last \in Nat
      /\ \A x \in Valid(snaps[<<b, tb>>]) :
             \E y \in Valid(kept) : x.proj.last =< y.proj.last
  <2>1. PICK rows : rows = snaps[<<b, tb>>]
    OBVIOUS
  <2>2. /\ IsFiniteSet(rows) /\ Cardinality(rows) =< MaxSnapshots
        /\ \A x \in rows : x.proj.last \in Nat
    BY <1>4, <2>1
  <2>3. kept \in Cleaned(rows \cup {new})
    BY <1>1, <1>2, <2>1
  <2>4. /\ kept \subseteq rows \cup {new} /\ IsFiniteSet(kept)
        /\ Cardinality(kept) =< MaxSnapshots
        /\ \A x \in Valid(rows) : \E y \in Valid(kept) : x.proj.last =< y.proj.last
    <3>1. new.ok /\ new.proj.last \in Nat
      BY <1>2, <1>3
    <3> QED
      BY <2>2, <2>3, <3>1, CleanUpIs
  <2> QED
    BY <1>2, <1>3, <2>1, <2>2, <2>4
<1>6. snaps = [x \in Aggregates \X Types |-> snaps[x]]
  BY DEF Plain
<1>7. /\ snaps'[<<b, tb>>] = kept
      /\ \A x \in Aggregates \X Types : x # <<b, tb>> => snaps'[x] = snaps[x]
  BY <1>1, <1>6
<1>8. SmallTables'
  BY <1>5, <1>7 DEF SmallTables
<1>9. ASSUME NEW a \in Aggregates, NEW ty \in Types
      PROVE  LoadLatest(a, ty).last =< LoadLatest(a, ty)'.last
  <2>1. CASE <<a, ty>> # <<b, tb>>
    <3>1. snaps'[<<a, ty>>] = snaps[<<a, ty>>]
      BY <1>7, <2>1
    <3>2. LoadLatest(a, ty)' = LoadLatest(a, ty)
      BY <3>1 DEF LoadLatest
    <3>3. LoadLatest(a, ty).last \in Nat
      BY LoadLatestOk DEF Plain, ProjOk, Projections
    <3> QED
      BY <3>2, <3>3
  <2>2. CASE <<a, ty>> = <<b, tb>>
    <3>1. PICK rows : rows = snaps[<<a, ty>>]
      OBVIOUS
    <3>2. /\ IsFiniteSet(rows) /\ Cardinality(rows) =< MaxSnapshots
          /\ \A x \in rows : x.proj.last \in Nat
          /\ \A x \in Valid(rows) : \E y \in Valid(kept) : x.proj.last =< y.proj.last
      BY <1>4, <1>5, <2>2, <3>1
    <3>3. snaps'[<<a, ty>>] = kept
      BY <1>7, <2>2
    <3>4. LoadLatest(a, ty) = Latest(rows) /\ LoadLatest(a, ty)' = Latest(kept)
      BY <3>1, <3>3 DEF LoadLatest, Latest
    <3>5. /\ Valid(rows) = {} => Latest(rows).last = 0
          /\ Valid(rows) # {} => \E m \in Valid(rows) : Latest(rows) = m.proj
      BY <3>2, LatestIs
    <3>6. /\ Valid(kept) = {} => Latest(kept).last = 0
          /\ Valid(kept) # {} => \E m \in Valid(kept) :
                Latest(kept) = m.proj /\ \A y \in Valid(kept) : y.proj.last =< m.proj.last
      BY <1>5, LatestIs
    <3>7. Valid(rows) \subseteq rows /\ Valid(kept) \subseteq kept
      BY DEF Valid
    <3> QED
      BY <1>5, <3>2, <3>4, <3>5, <3>6, <3>7
  <2> QED
    BY <2>1, <2>2
<1> QED
  BY <1>8, <1>9

(* The only steps that change a table without a fault are saves.           *)
LEMMA StepGains ==
    ASSUME IInv, IInv', Next, ~setting.archive, SmallTables, faults \in Nat, faults' = faults
    PROVE  /\ SmallTables'
           /\ \A a \in Aggregates, ty \in Types :
                  LoadLatest(a, ty).last =< LoadLatest(a, ty)'.last
PROOF
<1>1. setting' = setting
  BY DEF Next, AppendEvent, Load, Fold, Save, AutoArchive, MaybeSnapshot, CrashInSave,
         Corrupt, Restart, NewProcess
<1>2. Plain /\ Plain' /\ setting.tasks \subseteq Tasks
  BY <1>1 DEF IInv, Tasks
<1>3. CASE snaps' = snaps
  <2>1. \A a, ty : LoadLatest(a, ty)' = LoadLatest(a, ty)
    BY <1>3 DEF LoadLatest
  <2>2. \A a \in Aggregates, ty \in Types : LoadLatest(a, ty).last \in Nat
    BY <1>2, LoadLatestOk DEF Plain, ProjOk, Projections
  <2> QED
    BY <1>3, <2>1, <2>2 DEF SmallTables
<1>4. ASSUME NEW t \in setting.tasks, task[t].pc \in {"save", "returned"},
             SaveSnapshot(task[t].agg, task[t].type, task[t].proj)
      PROVE  /\ SmallTables'
             /\ \A a \in Aggregates, ty \in Types :
                    LoadLatest(a, ty).last =< LoadLatest(a, ty)'.last
  <2>1. /\ task[t].agg \in Aggregates /\ task[t].type \in Types
        /\ ProjOk(live, task[t].proj, task[t].agg)
    BY <1>2, <1>4, BusyTask
  <2> QED
    BY <1>2, <1>4, <2>1, SaveGains
<1>5. \/ snaps' = snaps
      \/ \E t \in setting.tasks : task[t].pc \in {"save", "returned"} /\
             SaveSnapshot(task[t].agg, task[t].type, task[t].proj)
  <2>1. ~NewProcess /\ \A x, row : ~Corrupt(x, row)
    BY DEF NewProcess, Corrupt
  <2> QED
    BY <2>1 DEF Next, AppendEvent, Load, Fold, Save, AutoArchive, MaybeSnapshot, CrashInSave,
                Restart
<1> QED
  BY <1>3, <1>4, <1>5

(* Where the program does not archive and no crash has cut off a clean-up, *)
(* a save never replaces the newest valid snapshot by an older one.        *)
THEOREM SavesLoseNoGround ==
    Spec => [][~setting.archive /\ SmallTables /\ faults' = faults =>
                   \A a \in Aggregates, ty \in Types :
                       LoadLatest(a, ty).last =< LoadLatest(a, ty)'.last]_vars
PROOF
<1> DEFINE Gains == ~setting.archive /\ SmallTables /\ faults' = faults =>
                        \A a \in Aggregates, ty \in Types :
                            LoadLatest(a, ty).last =< LoadLatest(a, ty)'.last
<1>1. Init => faults \in Nat
  BY DEF Init
<1>2. faults \in Nat /\ [Next]_vars => (faults \in Nat)'
  <2> SUFFICES ASSUME faults \in Nat, [Next]_vars PROVE faults' \in Nat
    OBVIOUS
  <2>1. faults' = faults \/ faults' = faults + 1
    BY DEF Next, vars, AppendEvent, Load, Fold, Save, AutoArchive, MaybeSnapshot, CrashInSave,
           Corrupt, Restart, NewProcess
  <2> QED
    BY <2>1
<1>3. IInv /\ IInv' /\ faults \in Nat /\ [Next]_vars => [Gains]_vars
  BY StepGains
<1> HIDE DEF Gains
<1>4. Spec => [][Gains]_vars
  BY <1>1, <1>2, <1>3, Invariance, PTL DEF Spec
<1> QED
  BY <1>4, PTL DEF Gains

(* A table is no longer than the limit until something goes wrong.         *)
THEOREM TablesStaySmall == Spec => [](~setting.archive /\ faults = 0 => SmallTables)
PROOF
<1> DEFINE Small == faults \in Nat /\ (~setting.archive /\ faults = 0 => SmallTables)
<1>1. Init => Small
  BY FS_EmptySet, ReplayAssumption DEF Init, SmallTables
<1>2. IInv /\ IInv' /\ Small /\ [Next]_vars => Small'
  <2> SUFFICES ASSUME IInv, IInv', Small, [Next]_vars PROVE Small'
    OBVIOUS
  <2>1. CASE UNCHANGED vars
    BY <2>1 DEF vars, SmallTables
  <2>2. CASE Next
    <3>1. setting' = setting /\ (faults' = faults \/ faults' = faults + 1)
      BY <2>2 DEF Next, AppendEvent, Load, Fold, Save, AutoArchive, MaybeSnapshot,
                  CrashInSave, Corrupt, Restart, NewProcess
    <3>2. CASE faults' = faults
      BY <2>2, <3>1, <3>2, StepGains
    <3>3. CASE faults' = faults + 1
      BY <3>3
    <3> QED
      BY <3>1, <3>2, <3>3
  <2> QED
    BY <2>1, <2>2
<1>3. Small => (~setting.archive /\ faults = 0 => SmallTables)
  OBVIOUS
<1> QED
  BY <1>1, <1>2, <1>3, Invariance, PTL DEF Spec
=============================================================================
