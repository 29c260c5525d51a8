-------------------------- MODULE EventStoreProofs --------------------------
(***************************************************************************)
(* Theorems about EventStore for any processes, callers, calls and queue   *)
(* capacity: its types, that versions and sequence numbers stay unique     *)
(* whichever processes write, that acknowledged events are kept and calls  *)
(* are atomic, and what one process on its own guarantees: only conflicts  *)
(* fail, each caller's order is kept, and the store is the append-only     *)
(* history of EventStream.                                                 *)
(***************************************************************************)
EXTENDS EventStore, ProofLemmas

(* Max returns the largest element of a finite set.                        *)
LEMMA MaxIsLargest ==
    ASSUME NEW S \in SUBSET Int, IsFiniteSet(S), S # {}
    PROVE  Max(S) \in S /\ \A y \in S : Max(S) >= y
PROOF
  BY MaxExists DEF Max

(* The number a writer thread starts from: every row of a finite table has *)
(* one at most as large, and if there are rows one has it.                 *)
LEMMA MaxSeqBounds ==
    ASSUME NEW db, IsFiniteSet(db), \A e \in db : e.seq \in Nat
    PROVE  /\ MaxSeq(db) \in Nat /\ \A e \in db : e.seq =< MaxSeq(db)
           /\ db # {} => \E e \in db : e.seq = MaxSeq(db)
PROOF
<1>1. CASE db = {}
  BY <1>1 DEF MaxSeq
<1>2. CASE db # {}
  <2> DEFINE S == {e.seq : e \in db}
  <2>1. S \in SUBSET Int /\ S # {}
    BY <1>2
  <2>2. IsFiniteSet(S)
    <3> DEFINE f == [e \in db |-> e.seq]
    <3>1. f \in Surjection(db, S)
      BY DEF Surjection
    <3> HIDE DEF S, f
    <3> QED
      BY <3>1, FS_Surjection
  <2>3. Max(S) \in S /\ \A y \in S : Max(S) >= y
    BY <2>1, <2>2, MaxIsLargest
  <2>4. MaxSeq(db) = Max(S)
    BY <1>2 DEF MaxSeq
  <2>5. Max(S) \in Nat
    BY <2>3
  <2>6. \E e \in db : e.seq = Max(S)
    BY <2>3
  <2> QED
    BY <2>3, <2>4, <2>5, <2>6
<1> QED
  BY <1>1, <1>2

(* The version append_event reads: every row of the aggregate has one at   *)
(* most as large, so the next version is unused; if there are any, one has *)
(* it.                                                                     *)
LEMMA LatestVersionBounds ==
    ASSUME NEW db, IsFiniteSet(db), \A e \in db : e.version \in Nat, NEW a
    PROVE  /\ LatestVersion(db, a) \in Nat
           /\ \A e \in db : e.agg = a => e.version =< LatestVersion(db, a)
           /\ EventsOf(db, a) # {} => \E e \in EventsOf(db, a) : e.version = LatestVersion(db, a)
PROOF
<1>1. EventsOf(db, a) \subseteq db /\ IsFiniteSet(EventsOf(db, a))
  BY FS_Subset DEF EventsOf
<1>2. CASE EventsOf(db, a) = {}
  BY <1>2 DEF LatestVersion, EventsOf
<1>3. CASE EventsOf(db, a) # {}
  <2> DEFINE S == {e.version : e \in EventsOf(db, a)}
  <2>1. S \in SUBSET Int /\ S # {}
    BY <1>1, <1>3
  <2>2. IsFiniteSet(S)
    <3> DEFINE f == [e \in EventsOf(db, a) |-> e.version]
    <3>1. f \in Surjection(EventsOf(db, a), S)
      BY DEF Surjection
    <3> HIDE DEF S, f
    <3> QED
      BY <1>1, <3>1, FS_Surjection
  <2>3. Max(S) \in S /\ \A y \in S : Max(S) >= y
    BY <2>1, <2>2, MaxIsLargest
  <2>4. LatestVersion(db, a) = Max(S)
    BY <1>3 DEF LatestVersion
  <2>5. Max(S) \in Nat
    BY <1>1, <2>3
  <2>6. \A e \in db : e.agg = a => e.version \in S
    BY DEF EventsOf
  <2>7. \E e \in EventsOf(db, a) : e.version = Max(S)
    BY <2>3
  <2> QED
    BY <2>3, <2>4, <2>5, <2>6, <2>7
<1> QED
  BY <1>2, <1>3

-----------------------------------------------------------------------------

(* A caller that is not idle has made a call; a transaction belongs to a   *)
(* call that appends something.                                            *)
EngagedHasOp ==
    \A c \in Callers : caller[c] # "idle" =>
        \E n \in DOMAIN issued : issued[n].by = c
TxAppends ==
    \A p \in Procs : tx[p] # NoTx =>
        tx[p].op \in DOMAIN issued /\ issued[tx[p].op].call.aggs # <<>>

(* A transaction whose snapshot is still the latest read the version that  *)
(* is the latest now.  (No snapshot is dated in the future.)               *)
TxVersionFresh ==
    \A p \in Procs : tx[p] # NoTx =>
        /\ tx[p].at =< commits
        /\ Fresh(tx[p]) =>
            tx[p].version = LatestVersion(live, issued[tx[p].op].call.aggs[1]) + 1

(* The inductive invariant.  UniqueRows alone is not inductive: the rows a *)
(* commit adds have unused versions only because a fresh transaction knows *)
(* the latest one, and that is a maximum only because live is finite.      *)
IInv ==
    /\ TypeOK
    /\ IsFiniteSet(live)
    /\ EngagedHasOp /\ TxAppends /\ TxVersionFresh
    /\ UniqueRows
-----------------------------------------------------------------------------
(* The events of a batch that come before the i-th and are of its          *)
(* aggregate: their number is what the i-th adds to the version.           *)
Earlier(aggs, i) == {j \in 1..(i - 1) : aggs[j] = aggs[i]}

(* Later events of the same aggregate in a batch come after more of its    *)
(* events, and so get higher versions.                                     *)
LEMMA EarlierCounts ==
    ASSUME NEW A, NEW aggs \in Seq(A)
    PROVE  /\ \A i \in DOMAIN aggs : Cardinality(Earlier(aggs, i)) \in Nat
           /\ \A i, j \in DOMAIN aggs : i < j /\ aggs[i] = aggs[j] =>
                Cardinality(Earlier(aggs, i)) < Cardinality(Earlier(aggs, j))
PROOF
<1>1. \A i \in DOMAIN aggs : i \in Nat \ {0}
  OBVIOUS
<1>2. ASSUME NEW i \in DOMAIN aggs
      PROVE  IsFiniteSet(Earlier(aggs, i)) /\ Cardinality(Earlier(aggs, i)) \in Nat
  <2>1. Earlier(aggs, i) \in SUBSET (1..(i - 1))
    BY DEF Earlier
  <2>2. IsFiniteSet(1..(i - 1))
    BY <1>1, FS_Interval
  <2> QED
    BY <2>1, <2>2, FS_Subset, FS_CardinalityType
<1>3. ASSUME NEW i \in DOMAIN aggs, NEW j \in DOMAIN aggs,
             i < j, aggs[i] = aggs[j]
      PROVE  Cardinality(Earlier(aggs, i)) < Cardinality(Earlier(aggs, j))
  <2>1. Earlier(aggs, i) \in SUBSET Earlier(aggs, j)
    BY <1>1, <1>3 DEF Earlier
  <2>2. i \in Earlier(aggs, j) /\ i \notin Earlier(aggs, i)
    BY <1>1, <1>3 DEF Earlier
  <2>3. Earlier(aggs, i) # Earlier(aggs, j)
    BY <2>2
  <2>4. /\ Cardinality(Earlier(aggs, i)) =< Cardinality(Earlier(aggs, j))
        /\ Cardinality(Earlier(aggs, i)) # Cardinality(Earlier(aggs, j))
    BY <1>2, <2>1, <2>3, FS_Subset
  <2> QED
    BY <1>2, <2>4
<1> QED
  BY <1>2, <1>3

(* What is known of the op of a call that was made.                        *)
LEMMA IssuedType ==
    ASSUME TypeOK, NEW op \in DOMAIN issued
    PROVE  /\ op \in Nat \ {0}
           /\ issued[op].by \in Callers
           /\ issued[op].call \in CallShapes
PROOF
<1>1. ASSUME NEW S, NEW s \in Seq(S), NEW n \in DOMAIN s
      PROVE  n \in Nat \ {0} /\ s[n] \in S
  OBVIOUS
<1>2. issued \in Seq([by : Callers, call : Calls])
  BY DEF TypeOK
<1>3. op \in Nat \ {0} /\ issued[op] \in [by : Callers, call : Calls]
  BY <1>1, <1>2
<1> QED
  BY <1>3, CallsAssumption

(* The call behind an open transaction.                                    *)
LEMMA TxCall ==
    ASSUME TypeOK, TxAppends, NEW p \in Procs, tx[p] # NoTx
    PROVE  /\ tx[p] \in Transactions
           /\ tx[p].op \in DOMAIN issued
           /\ issued[tx[p].op].call.aggs \in Seq(Aggregates)
           /\ issued[tx[p].op].call.aggs # <<>>
PROOF
<1>1. tx[p] \in Transactions /\ tx[p].op \in DOMAIN issued
  BY DEF TypeOK, TxAppends
<1>2. issued[tx[p].op].call \in CallShapes
  BY <1>1, IssuedType
<1> QED
  BY <1>1, <1>2 DEF CallShapes, TxAppends

(* The places of a sequence and what is there.                             *)
LEMMA SeqPlaces ==
    ASSUME NEW S, NEW s \in Seq(S)
    PROVE  /\ Len(s) \in Nat /\ DOMAIN s = 1..Len(s)
           /\ \A i \in DOMAIN s : i \in Nat \ {0} /\ s[i] \in S
PROOF
  OBVIOUS

(* What the rows of a transaction are.                                     *)
LEMMA NewRowShape ==
    ASSUME IInv, NEW p \in Procs, tx[p] # NoTx,
           NEW i \in DOMAIN issued[tx[p].op].call.aggs
    PROVE  /\ NewRow(tx[p], i) \in Rows
           /\ NewRow(tx[p], i).seq = tx[p].first + i - 1
           /\ NewRow(tx[p], i).agg = issued[tx[p].op].call.aggs[i]
           /\ Fresh(tx[p]) =>
                NewRow(tx[p], i).version =
                    LatestVersion(live, issued[tx[p].op].call.aggs[i]) + 1
                    + Cardinality(Earlier(issued[tx[p].op].call.aggs, i))
PROOF
<1> DEFINE aggs == issued[tx[p].op].call.aggs
           base == IF aggs[i] = aggs[1] THEN tx[p].version
                   ELSE LatestVersion(live, aggs[i]) + 1
<1>1. tx[p] \in Transactions /\ aggs \in Seq(Aggregates)
  BY TxCall DEF IInv
<1>2. i \in Nat \ {0} /\ aggs[i] \in Aggregates
  BY <1>1, SeqPlaces, Zenon
<1>3. \A e \in live : e.version \in Nat
  BY DEF IInv, TypeOK, Rows
<1>4. LatestVersion(live, aggs[i]) \in Nat
  BY <1>3, LatestVersionBounds DEF IInv
<1>5. base \in Nat \ {0}
  BY <1>1, <1>4 DEF Transactions
<1>6. Cardinality(Earlier(aggs, i)) \in Nat
  BY <1>1, EarlierCounts
<1>7. NewRow(tx[p], i) =
        [agg |-> aggs[i], version |-> base + Cardinality(Earlier(aggs, i)),
         seq |-> tx[p].first + i - 1, op |-> tx[p].op]
  BY DEF NewRow, Row, Earlier
<1>8. Fresh(tx[p]) => base = LatestVersion(live, aggs[i]) + 1
  BY DEF IInv, TxVersionFresh
<1> HIDE DEF aggs, base
<1>9. base + Cardinality(Earlier(aggs, i)) \in Nat \ {0}
  BY <1>5, <1>6
<1>10. tx[p].first + i - 1 \in Nat \ {0} /\ tx[p].op \in Nat \ {0}
  BY <1>1, <1>2 DEF Transactions
<1>11. NewRow(tx[p], i) \in Rows
  BY <1>2, <1>7, <1>9, <1>10 DEF Rows
<1> QED
  BY <1>7, <1>8, <1>11 DEF aggs

(* A transaction writes finitely many rows.                                *)
LEMMA NewRowsShape ==
    ASSUME IInv, NEW p \in Procs, tx[p] # NoTx
    PROVE  /\ NewRows(tx[p]) \subseteq Rows
           /\ IsFiniteSet(NewRows(tx[p]))
           /\ Cardinality(NewRows(tx[p])) \in Nat
PROOF
<1> DEFINE aggs == issued[tx[p].op].call.aggs
           f == [i \in DOMAIN aggs |-> NewRow(tx[p], i)]
<1>1. NewRows(tx[p]) \subseteq Rows
  BY NewRowShape DEF NewRows
<1>2. aggs \in Seq(Aggregates)
  BY TxCall DEF IInv
<1>3. IsFiniteSet(DOMAIN aggs)
  <2>1. DOMAIN aggs = 1..Len(aggs) /\ Len(aggs) \in Nat
    BY <1>2, SeqPlaces, Zenon
  <2> HIDE DEF aggs
  <2>2. PICK n \in Nat : n = Len(aggs)
    BY <2>1
  <2>3. IsFiniteSet(1..n)
    BY FS_Interval
  <2> QED
    BY <2>1, <2>2, <2>3, Zenon
<1>4. f \in Surjection(DOMAIN aggs, NewRows(tx[p]))
  BY DEF Surjection, NewRows
<1> HIDE DEF aggs, f
<1>5. IsFiniteSet(NewRows(tx[p]))
  BY <1>3, <1>4, FS_Surjection
<1> QED
  BY <1>1, <1>5, FS_CardinalityType

(* n is the last call of c.                                                *)
IsLast(c, n) ==
    issued[n].by = c /\ \A m \in DOMAIN issued : issued[m].by = c => m =< n

(* The last call of an engaged caller.                                     *)
LEMMA LastOpIsLast ==
    ASSUME TypeOK, EngagedHasOp, NEW c \in Callers, caller[c] # "idle"
    PROVE  LastOpOf(c) \in DOMAIN issued /\ IsLast(c, LastOpOf(c))
PROOF
<1> DEFINE Mine == {n \in DOMAIN issued : issued[n].by = c}
           L(n) == issued[n].by = c /\ \A m \in DOMAIN issued : issued[m].by = c => m =< n
<1>1. issued \in Seq([by : Callers, call : Calls])
  BY DEF TypeOK
<1>2. DOMAIN issued = 1..Len(issued) /\ Len(issued) \in Nat
  BY <1>1
<1>3. Mine # {} /\ Mine \in SUBSET Int /\ Mine \in SUBSET (1..Len(issued))
  BY <1>2 DEF EngagedHasOp
<1>4. IsFiniteSet(Mine)
  <2>1. IsFiniteSet(1..Len(issued))
    BY <1>2, FS_Interval
  <2> QED
    BY <1>3, <2>1, FS_Subset
<1>5. PICK n \in Mine : \A m \in Mine : n >= m
  BY <1>3, <1>4, MaxExists
<1>6. n \in DOMAIN issued /\ L(n)
  BY <1>2, <1>5
<1>7. LastOpOf(c) = CHOOSE k \in DOMAIN issued : L(k)
  BY DEF LastOpOf
<1> HIDE DEF L
<1>8. LastOpOf(c) \in DOMAIN issued /\ L(LastOpOf(c))
  BY <1>6, <1>7
<1> QED
  BY <1>8 DEF L, IsLast

(* The op a sender puts in the queue.                                      *)
LEMMA LastOpType ==
    ASSUME TypeOK, EngagedHasOp, NEW c \in Callers, caller[c] # "idle"
    PROVE  LastOpOf(c) \in DOMAIN issued /\ LastOpOf(c) \in Nat \ {0}
PROOF
  BY LastOpIsLast, IssuedType
-----------------------------------------------------------------------------
(* Answering a command or giving up on it engages no caller that was idle. *)
LEMMA AnsweredType ==
    ASSUME TypeOK, NEW op \in DOMAIN issued
    PROVE  /\ Answered(op) \in [Callers -> {"idle", "sending", "waiting"}]
           /\ \A c \in Callers : Answered(op)[c] # "idle" => caller[c] # "idle"
PROOF
<1>1. issued[op].by \in Callers
  BY IssuedType
<1>2. caller \in [Callers -> {"idle", "sending", "waiting"}]
  BY DEF TypeOK
<1> QED
  BY <1>1, <1>2 DEF Answered

(* Taking a command leaves a queue of ops.                                 *)
LEMMA TakesType ==
    ASSUME TypeOK, NEW p \in Procs, NEW op \in DOMAIN issued, Takes(p, op)
    PROVE  /\ queue' \in [Procs -> Seq(Nat \ {0})]
           /\ tx[p] = NoTx
           /\ op \in Nat \ {0}
           /\ issued[op].call \in CallShapes
PROOF
<1>1. op \in Nat \ {0} /\ issued[op].call \in CallShapes
  BY IssuedType
<1>2. queue \in [Procs -> Seq(Nat \ {0})]
  BY DEF TypeOK
<1>3. queue[p] # <<>> /\ queue' = [queue EXCEPT ![p] = Tail(@)] /\ tx[p] = NoTx
  BY DEF Takes
<1>4. Tail(queue[p]) \in Seq(Nat \ {0})
  BY <1>2, <1>3
<1> QED
  BY <1>1, <1>2, <1>3, <1>4

(* A step that opens no transaction and makes no call keeps what is known  *)
(* of the open ones: either the tables stay, or the commit it makes leaves *)
(* every snapshot stale.                                                   *)
LEMMA TxKept ==
    ASSUME IInv,
           \/ live' = live /\ commits' = commits
           \/ commits' = commits + 1,
           issued' = issued,
           \A q \in Procs : tx'[q] # NoTx => tx'[q] = tx[q],
           \A c \in Callers : caller'[c] # "idle" => caller[c] # "idle"
    PROVE  EngagedHasOp' /\ TxAppends' /\ TxVersionFresh'
PROOF
<1>1. EngagedHasOp'
  BY DEF EngagedHasOp, IInv
<1>2. TxAppends'
  BY DEF TxAppends, IInv
<1>3. ASSUME NEW q \in Procs, tx'[q] # NoTx
      PROVE  /\ tx'[q].at =< commits'
             /\ Fresh(tx[q])' => tx'[q].version =
                    LatestVersion(live', issued'[tx'[q].op].call.aggs[1]) + 1
  <2>1. tx'[q] = tx[q] /\ tx[q] \in Transactions /\ commits \in Nat
    BY <1>3 DEF IInv, TypeOK
  <2>2. tx[q].at \in Nat /\ tx[q].at =< commits
    BY <1>3, <2>1 DEF IInv, TxVersionFresh, Transactions
  <2>3. CASE live' = live /\ commits' = commits
    BY <1>3, <2>1, <2>2, <2>3 DEF IInv, TxVersionFresh, Fresh
  <2>4. CASE commits' = commits + 1
    BY <2>1, <2>2, <2>4 DEF Fresh
  <2> QED
    BY <2>3, <2>4
<1>4. TxVersionFresh'
  BY <1>3 DEF TxVersionFresh
<1> QED
  BY <1>1, <1>2, <1>4

(* The rows of a commit clash neither with the stored ones nor with each   *)
(* other: their sequence numbers were found free, their versions follow    *)
(* the latest one, which a fresh snapshot knows.                           *)
LEMMA CommitUnique ==
    ASSUME IInv, NEW p \in Procs, CommitAppend(p)
    PROVE  UniqueRows'
PROOF
<1> DEFINE t == tx[p]
           aggs == issued[t.op].call.aggs
           Apart(e, f) == /\ e.seq # f.seq
                          /\ e.agg = f.agg => e.version # f.version
<1>1. /\ t # NoTx /\ Fresh(t) /\ Collisions(t) = {}
      /\ live' = live \cup NewRows(t)
  BY DEF CommitAppend, Commit
<1>2. t \in Transactions /\ t.first \in Nat \ {0} /\ aggs \in Seq(Aggregates)
  BY <1>1, TxCall DEF IInv, Transactions
<1>3. \A i \in DOMAIN aggs : i \in Nat \ {0}
  BY <1>2, SeqPlaces, Zenon
<1>4. ASSUME NEW i \in DOMAIN aggs
      PROVE  /\ NewRow(t, i).seq = t.first + i - 1
             /\ NewRow(t, i).agg = aggs[i]
             /\ NewRow(t, i).version = LatestVersion(live, aggs[i]) + 1
                                       + Cardinality(Earlier(aggs, i))
  BY <1>1, NewRowShape
<1>5. /\ IsFiniteSet(live)
      /\ \A e \in live : e.seq \in Nat /\ e.version \in Nat
  BY DEF IInv, TypeOK, Rows
<1>6. ASSUME NEW i \in DOMAIN aggs
      PROVE  /\ Cardinality(Earlier(aggs, i)) \in Nat
             /\ LatestVersion(live, aggs[i]) \in Nat
             /\ \A e \in live : e.agg = aggs[i] =>
                    e.version =< LatestVersion(live, aggs[i])
  BY <1>2, <1>5, EarlierCounts, LatestVersionBounds
<1>7. ASSUME NEW i \in DOMAIN aggs, NEW e \in live
      PROVE  Apart(e, NewRow(t, i)) /\ Apart(NewRow(t, i), e)
  <2>1. e.seq # t.first + i - 1
    BY <1>1 DEF Collisions, SeqTaken
  <2>2. e.agg = aggs[i] => e.version < LatestVersion(live, aggs[i]) + 1
                                       + Cardinality(Earlier(aggs, i))
    BY <1>5, <1>6
  <2>3. e.agg = aggs[i] => e.version # NewRow(t, i).version
    <3>1. PICK v \in Nat : NewRow(t, i).version = v
                           /\ v = LatestVersion(live, aggs[i]) + 1
                                  + Cardinality(Earlier(aggs, i))
      BY <1>4, <1>6
    <3>2. v \in Nat /\ e.version \in Nat /\ (e.agg = aggs[i] => e.version < v)
      BY <1>5, <2>2, <3>1, Zenon
    <3>3. e.agg = aggs[i] => e.version # v
      BY <3>2
    <3> QED
      BY <3>1, <3>3, Zenon
  <2> QED
    BY <1>4, <2>1, <2>3
<1>8. ASSUME NEW i \in DOMAIN aggs, NEW j \in DOMAIN aggs, i < j
      PROVE  /\ Apart(NewRow(t, i), NewRow(t, j))
             /\ Apart(NewRow(t, j), NewRow(t, i))
  <2>1. t.first + i - 1 # t.first + j - 1
    BY <1>2, <1>3, <1>8
  <2>2. ASSUME aggs[i] = aggs[j]
        PROVE  NewRow(t, i).version # NewRow(t, j).version
    <3>1. Cardinality(Earlier(aggs, i)) < Cardinality(Earlier(aggs, j))
      BY <1>2, <1>8, <2>2, EarlierCounts
    <3>2. PICK n \in Nat : n = LatestVersion(live, aggs[i])
      BY <1>6
    <3>3. PICK k \in Nat, m \in Nat :
              k = Cardinality(Earlier(aggs, i)) /\ m = Cardinality(Earlier(aggs, j))
      BY <1>6
    <3>4. NewRow(t, i).version = n + 1 + k /\ NewRow(t, j).version = n + 1 + m /\ k < m
      <4> HIDE DEF aggs, t
      <4> QED
        BY <1>4, <2>2, <3>1, <3>2, <3>3
    <3> QED
      BY <3>3, <3>4
  <2> QED
    BY <1>4, <2>1, <2>2
<1>9. \A e, f \in live : e # f => Apart(e, f)
  BY DEF IInv, UniqueRows
<1> HIDE DEF t, aggs, Apart
<1>10. \A f \in NewRows(t) : \E i \in DOMAIN aggs : f = NewRow(t, i)
  BY DEF NewRows, aggs
<1>11. ASSUME NEW e \in live', NEW f \in live', e # f
       PROVE  Apart(e, f)
  <2>1. CASE e \in live /\ f \in live
    BY <1>9, <1>11, <2>1
  <2>2. CASE e \in live /\ f \in NewRows(t)
    BY <1>7, <1>10, <2>2
  <2>3. CASE e \in NewRows(t) /\ f \in live
    BY <1>7, <1>10, <2>3
  <2>4. CASE e \in NewRows(t) /\ f \in NewRows(t)
    <3>1. PICK i, j \in DOMAIN aggs : e = NewRow(t, i) /\ f = NewRow(t, j)
      BY <1>10, <2>4
    <3>2. i # j
      BY <1>11, <3>1
    <3>3. i < j \/ j < i
      BY <1>3, <3>2
    <3> QED
      BY <1>8, <3>1, <3>3
  <2> QED
    BY <1>1, <2>1, <2>2, <2>3, <2>4
<1> QED
  BY <1>11 DEF UniqueRows, Apart
-----------------------------------------------------------------------------
(* An empty store satisfies the invariant.                                 *)
LEMMA InitIInv == Init => IInv
PROOF
<1> SUFFICES ASSUME Init PROVE IInv
  OBVIOUS
<1>1. TypeOK
  BY DEF Init, TypeOK
<1>2. IsFiniteSet(live)
  BY FS_EmptySet DEF Init
<1>3. EngagedHasOp /\ TxAppends /\ TxVersionFresh
  BY ProcsAssumption DEF Init, EngagedHasOp, TxAppends, TxVersionFresh
<1>4. UniqueRows
  BY DEF Init, UniqueRows
<1> QED
  BY <1>1, <1>2, <1>3, <1>4 DEF IInv

(* The steps of callers and of the operating system.                       *)
LEMMA CallerStepIInv ==
    ASSUME IInv,
           \/ \E p \in Procs : Open(p) \/ Close(p) \/ Crash(p) \/ Joined(p)
           \/ \E c \in Callers :
                \/ \E call \in Calls : Call(c, call)
                \/ Send(c) \/ Timeout(c)
    PROVE  IInv'
PROOF
<1>1. TypeOK /\ EngagedHasOp /\ \A e \in live : e.seq \in Nat
  BY DEF IInv, TypeOK, Rows
<1>2. ASSUME NEW p \in Procs, Open(p) PROVE IInv'
  <2>1. FirstSeq \in Nat \ {0}
    BY <1>1, MaxSeqBounds DEF IInv, FirstSeq
  <2>2. TypeOK'
    BY <1>1, <1>2, <2>1 DEF TypeOK, Open, tables
  <2>3. EngagedHasOp' /\ TxAppends' /\ TxVersionFresh'
    BY <1>2, TxKept DEF Open, tables
  <2> QED
    BY <1>2, <2>2, <2>3 DEF Open, tables, IInv, UniqueRows
<1>3. ASSUME NEW p \in Procs, Close(p) \/ Joined(p) PROVE IInv'
  <2>1. TypeOK'
    BY <1>1, <1>3 DEF TypeOK, Close, Joined, tables, ghosts
  <2>2. EngagedHasOp' /\ TxAppends' /\ TxVersionFresh'
    BY <1>3, TxKept DEF Close, Joined, tables, ghosts
  <2> QED
    BY <1>3, <2>1, <2>2 DEF Close, Joined, tables, ghosts, IInv, UniqueRows
<1>4. ASSUME NEW p \in Procs, Crash(p) PROVE IInv'
  <2>1. TypeOK'
    BY <1>1, <1>4 DEF TypeOK, Crash, tables, ghosts
  <2>2. /\ \A q \in Procs : tx'[q] # NoTx => tx'[q] = tx[q]
        /\ \A c \in Callers : caller'[c] # "idle" => caller[c] # "idle"
    BY <1>1, <1>4 DEF TypeOK, Crash
  <2>3. EngagedHasOp' /\ TxAppends' /\ TxVersionFresh'
    BY <1>4, <2>2, TxKept DEF Crash, tables, ghosts
  <2> QED
    BY <1>4, <2>1, <2>3 DEF Crash, tables, ghosts, IInv, UniqueRows
<1>5. ASSUME NEW c \in Callers, NEW call \in Calls, Call(c, call) PROVE IInv'
  <2> DEFINE n == Len(issued) + 1
             o == [by |-> c, call |-> call]
  <2>1. /\ issued \in Seq([by : Callers, call : Calls])
        /\ issued' = Append(issued, o) /\ o \in [by : Callers, call : Calls]
    BY <1>1, <1>5 DEF TypeOK, Call
  <2>2. issued' \in Seq([by : Callers, call : Calls])
    BY <2>1
  <2>3. /\ n \in DOMAIN issued' /\ issued'[n] = o
        /\ \A m \in DOMAIN issued : m \in DOMAIN issued' /\ issued'[m] = issued[m]
    <3>1. ASSUME NEW S, NEW s \in Seq(S), NEW x
          PROVE  /\ Len(s) + 1 \in DOMAIN Append(s, x)
                 /\ Append(s, x)[Len(s) + 1] = x
                 /\ \A m \in DOMAIN s : m \in DOMAIN Append(s, x)
                                        /\ Append(s, x)[m] = s[m]
      OBVIOUS
    <3> QED
      BY <2>1, <3>1
  <2>4. TypeOK'
    BY <1>1, <1>5, <2>2 DEF TypeOK, Call, tables, threads
  <2>5. EngagedHasOp'
    BY <1>1, <1>5, <2>3 DEF TypeOK, EngagedHasOp, Call
  <2>6. TxAppends'
    BY <1>5, <2>3 DEF IInv, TxAppends, Call, threads
  <2>7. TxVersionFresh'
    BY <1>5, <2>3 DEF IInv, TxAppends, TxVersionFresh, Fresh, Call, threads, tables
  <2> QED
    BY <1>5, <2>4, <2>5, <2>6, <2>7 DEF Call, tables, IInv, UniqueRows
<1>6. ASSUME NEW c \in Callers, Send(c) PROVE IInv'
  <2>1. LastOpOf(c) \in Nat \ {0}
    BY <1>1, <1>6, LastOpType DEF Send
  <2>2. /\ queue[Home[c]] \in Seq(Nat \ {0})
        /\ queue' = [queue EXCEPT ![Home[c]] = Append(@, LastOpOf(c))]
    BY <1>1, <1>6, ProcsAssumption DEF TypeOK, Send
  <2>3. queue' \in [Procs -> Seq(Nat \ {0})]
    <3>1. Append(queue[Home[c]], LastOpOf(c)) \in Seq(Nat \ {0})
      BY <2>1, <2>2
    <3> QED
      BY <1>1, <2>2, <3>1 DEF TypeOK
  <2>4. TypeOK'
    BY <1>1, <1>6, <2>3 DEF TypeOK, Send, tables, ghosts
  <2>5. \A d \in Callers : caller'[d] # "idle" => caller[d] # "idle"
    BY <1>1, <1>6 DEF TypeOK, Send
  <2>6. EngagedHasOp' /\ TxAppends' /\ TxVersionFresh'
    BY <1>6, <2>5, TxKept DEF Send, tables, ghosts
  <2> QED
    BY <1>6, <2>4, <2>6 DEF Send, tables, ghosts, IInv, UniqueRows
<1>7. ASSUME NEW c \in Callers, Timeout(c) PROVE IInv'
  <2>1. TypeOK'
    BY <1>1, <1>7 DEF TypeOK, Timeout, tables, threads, ghosts
  <2>2. \A d \in Callers : caller'[d] # "idle" => caller[d] # "idle"
    BY <1>1, <1>7 DEF TypeOK, Timeout
  <2>3. EngagedHasOp' /\ TxAppends' /\ TxVersionFresh'
    BY <1>7, <2>2, TxKept DEF Timeout, tables, threads, ghosts
  <2> QED
    BY <1>7, <2>1, <2>3 DEF Timeout, tables, threads, ghosts, IInv, UniqueRows
<1> QED
  BY <1>2, <1>3, <1>4, <1>5, <1>6, <1>7

(* The steps of the writer thread.                                         *)
LEMMA WriterStepIInv ==
    ASSUME IInv, NEW p \in Procs, WriterStep(p)
    PROVE  IInv'
PROOF
<1>1. /\ TypeOK /\ IsFiniteSet(live) /\ commits \in Nat
      /\ \A q \in Procs : tx[q] \in Transactions \cup {NoTx}
  BY DEF IInv, TypeOK
<1>2. ASSUME AppendNothing(p) PROVE IInv'
  <2>1. PICK op \in DOMAIN issued :
            /\ Takes(p, op)
            /\ ReplyOk(op, {})
            /\ UNCHANGED <<tables, writer, nextSeq, tx, issued, opens>>
    BY <1>2 DEF AppendNothing
  <2>2. TypeOK'
    BY <1>1, <2>1, AnsweredType, TakesType DEF TypeOK, ReplyOk, tables
  <2>3. EngagedHasOp' /\ TxAppends' /\ TxVersionFresh'
    BY <1>1, <2>1, AnsweredType, TxKept DEF ReplyOk, tables
  <2> QED
    BY <2>1, <2>2, <2>3 DEF tables, IInv, UniqueRows
<1>3. ASSUME Conflict(p) PROVE IInv'
  <2>1. PICK op \in DOMAIN issued :
            /\ Takes(p, op)
            /\ ReplyErr(op, "conflict")
            /\ UNCHANGED <<tables, writer, nextSeq, tx, issued, opens>>
    BY <1>3 DEF Conflict
  <2>2. TypeOK'
    BY <1>1, <2>1, AnsweredType, TakesType DEF TypeOK, ReplyErr, tables
  <2>3. EngagedHasOp' /\ TxAppends' /\ TxVersionFresh'
    BY <1>1, <2>1, AnsweredType, TxKept DEF ReplyErr, tables
  <2> QED
    BY <2>1, <2>2, <2>3 DEF tables, IInv, UniqueRows
<1>4. ASSUME BeginAppend(p) PROVE IInv'
  <2>1. PICK op \in DOMAIN issued :
            Takes(p, op) /\ issued[op].call.aggs # <<>> /\ Begin(p, op)
    BY <1>4 DEF BeginAppend
  <2> DEFINE t == [op |-> op, first |-> nextSeq[p], at |-> commits,
                   version |-> LatestVersion(live, issued[op].call.aggs[1]) + 1]
  <2>2. LatestVersion(live, issued[op].call.aggs[1]) \in Nat
    <3>1. \A e \in live : e.version \in Nat
      BY <1>1 DEF TypeOK, Rows
    <3> QED
      BY <1>1, <3>1, LatestVersionBounds
  <2>3. /\ nextSeq \in [Procs -> Nat \ {0}]
        /\ tx \in [Procs -> Transactions \cup {NoTx}]
    BY <1>1 DEF TypeOK
  <2>4. /\ UNCHANGED <<live, archived, commits, writer, caller, issued,
                       acked, failed, opens>>
        /\ tx' = [tx EXCEPT ![p] = t]
        /\ nextSeq' = [nextSeq EXCEPT ![p] = @ + 1]
    BY <2>1 DEF Begin, tables, ghosts
  <2>5. t \in Transactions
    BY <1>1, <2>1, <2>2, <2>3, TakesType DEF Transactions
  <2>6. nextSeq' \in [Procs -> Nat \ {0}] /\ tx' \in [Procs -> Transactions \cup {NoTx}]
    BY <2>3, <2>4, <2>5
  <2>7. TypeOK'
    BY <1>1, <2>1, <2>4, <2>6, TakesType DEF TypeOK
  <2>8. EngagedHasOp'
    BY <2>4 DEF IInv, EngagedHasOp
  <2>9. tx'[p] = t /\ \A q \in Procs : q # p => tx'[q] = tx[q]
    BY <2>3, <2>4
  <2>10. TxAppends'
    BY <2>1, <2>4, <2>9 DEF IInv, TxAppends
  <2>11. TxVersionFresh'
    BY <1>1, <2>4, <2>9 DEF IInv, TxVersionFresh, Fresh
  <2> QED
    BY <2>4, <2>7, <2>8, <2>10, <2>11 DEF IInv, UniqueRows
<1>5. ASSUME CommitAppend(p) PROVE IInv'
  <2> DEFINE rows == NewRows(tx[p])
  <2>1. /\ tx[p] # NoTx /\ tx[p] \in Transactions
        /\ tx[p].op \in DOMAIN issued /\ tx[p].first \in Nat \ {0}
    BY <1>1, <1>5, TxCall DEF CommitAppend, IInv, Transactions
  <2>2. rows \subseteq Rows /\ IsFiniteSet(rows) /\ Cardinality(rows) \in Nat
    BY <2>1, NewRowsShape
  <2>3. /\ live' = live \cup rows
        /\ commits' = commits + 1
        /\ nextSeq' = [nextSeq EXCEPT ![p] = tx[p].first + Cardinality(rows)]
        /\ ReplyOk(tx[p].op, rows)
        /\ tx' = [tx EXCEPT ![p] = NoTx]
        /\ UNCHANGED <<archived, writer, queue, issued, opens>>
    BY <1>5 DEF CommitAppend, Commit
  <2> HIDE DEF rows
  <2>4. tx[p].first + Cardinality(rows) \in Nat \ {0}
    BY <2>1, <2>2
  <2>5. TypeOK'
    <3>1. /\ live' \subseteq Rows /\ archived' \subseteq Rows /\ commits' \in Nat
          /\ opens' \in Nat
      BY <1>1, <2>2, <2>3 DEF TypeOK
    <3>2. /\ nextSeq' \in [Procs -> Nat \ {0}] /\ tx' \in [Procs -> Transactions \cup {NoTx}]
      BY <1>1, <2>3, <2>4 DEF TypeOK
    <3>3. /\ writer' \in [Procs -> {"down", "up", "closing"}]
          /\ queue' \in [Procs -> Seq(Nat \ {0})]
          /\ issued' \in Seq([by : Callers, call : Calls])
      BY <1>1, <2>3 DEF TypeOK
    <3>4. /\ caller' \in [Callers -> {"idle", "sending", "waiting"}]
          /\ acked' \subseteq Rows
          /\ failed' \subseteq [op : Nat \ {0}, why : {"conflict", "busy", "collision"}]
      BY <1>1, <2>1, <2>2, <2>3, AnsweredType DEF TypeOK, ReplyOk
    <3> QED
      BY <3>1, <3>2, <3>3, <3>4 DEF TypeOK
  <2>6. IsFiniteSet(live')
    BY <1>1, <2>2, <2>3, FS_Union
  <2>7. \A q \in Procs : tx'[q] # NoTx => tx'[q] = tx[q]
    BY <1>1, <2>3 DEF TypeOK
  <2>8. EngagedHasOp' /\ TxAppends' /\ TxVersionFresh'
    BY <1>1, <2>1, <2>3, <2>7, AnsweredType, TxKept DEF ReplyOk
  <2>9. UniqueRows'
    BY <1>5, CommitUnique
  <2> QED
    BY <2>5, <2>6, <2>8, <2>9 DEF IInv
<1>6. ASSUME AbortStale(p) \/ AbortCollision(p) PROVE IInv'
  <2>1. /\ tx[p] # NoTx /\ tx[p].op \in DOMAIN issued
        /\ tx[p].op \in Nat \ {0} /\ tx[p].first \in Nat \ {0}
    BY <1>1, <1>6, TxCall DEF AbortStale, AbortCollision, IInv, Transactions
  <2>2. PICK why \in {"busy", "collision"} : ReplyErr(tx[p].op, why)
    BY <1>6 DEF AbortStale, AbortCollision
  <2>3. /\ tx' = [tx EXCEPT ![p] = NoTx]
        /\ UNCHANGED <<live, archived, commits, writer, queue, issued, opens>>
    BY <1>6 DEF AbortStale, AbortCollision, tables
  <2>4. nextSeq' \in [Procs -> Nat \ {0}]
    <3>1. CASE AbortStale(p)
      BY <1>1, <3>1 DEF AbortStale, TypeOK
    <3>2. CASE AbortCollision(p)
      <4>1. issued[tx[p].op].call.aggs \in Seq(Aggregates)
        BY <2>1, TxCall DEF IInv
      <4>2. \A i \in DOMAIN issued[tx[p].op].call.aggs : i \in Nat
        BY <4>1, SeqPlaces
      <4>3. PICK i \in Collisions(tx[p]) :
                nextSeq' = [nextSeq EXCEPT ![p] = tx[p].first + i]
        BY <3>2 DEF AbortCollision
      <4>4. tx[p].first + i \in Nat \ {0}
        BY <2>1, <4>2 DEF Collisions
      <4> QED
        BY <1>1, <4>3, <4>4 DEF TypeOK
    <3> QED
      BY <1>6, <3>1, <3>2
  <2>5. TypeOK'
    <3>1. /\ caller' \in [Callers -> {"idle", "sending", "waiting"}]
          /\ acked' = acked
          /\ failed' = failed \cup {[op |-> tx[p].op, why |-> why]}
      BY <1>1, <2>1, <2>2, AnsweredType DEF ReplyErr
    <3>2. failed' \subseteq [op : Nat \ {0}, why : {"conflict", "busy", "collision"}]
      BY <1>1, <2>1, <2>2, <3>1 DEF TypeOK
    <3>3. tx' \in [Procs -> Transactions \cup {NoTx}]
      BY <1>1, <2>3 DEF TypeOK
    <3> QED
      BY <1>1, <2>3, <2>4, <3>1, <3>2, <3>3 DEF TypeOK
  <2>6. \A q \in Procs : tx'[q] # NoTx => tx'[q] = tx[q]
    BY <1>1, <2>3 DEF TypeOK
  <2>7. EngagedHasOp' /\ TxAppends' /\ TxVersionFresh'
    BY <1>1, <2>1, <2>2, <2>3, <2>6, AnsweredType, TxKept DEF ReplyErr
  <2> QED
    BY <2>3, <2>5, <2>7 DEF IInv, UniqueRows
<1>7. ASSUME ArchiveThrough(p) PROVE IInv'
  <2>1. PICK op \in DOMAIN issued :
            /\ Takes(p, op)
            /\ archived' = archived \cup CopiedRows(issued[op].call.through)
            /\ live' = live \ DeletedRows(issued[op].call.through)
            /\ commits' = commits + 1
            /\ ReplyOk(op, {})
            /\ UNCHANGED <<writer, nextSeq, tx, issued, opens>>
    BY <1>7 DEF ArchiveThrough
  <2>2. CopiedRows(issued[op].call.through) \subseteq live /\ live' \subseteq live
    BY <2>1 DEF CopiedRows, RowsThrough
  <2>3. TypeOK'
    BY <1>1, <2>1, <2>2, AnsweredType, TakesType DEF TypeOK, ReplyOk
  <2>4. IsFiniteSet(live')
    BY <1>1, <2>2, FS_Subset
  <2>5. EngagedHasOp' /\ TxAppends' /\ TxVersionFresh'
    BY <1>1, <2>1, AnsweredType, TxKept DEF ReplyOk
  <2>6. UniqueRows'
    BY <2>2 DEF IInv, UniqueRows
  <2> QED
    BY <2>3, <2>4, <2>5, <2>6 DEF IInv
<1>8. ASSUME Compact(p) PROVE IInv'
  <2>1. PICK op \in DOMAIN issued :
            /\ Takes(p, op)
            /\ commits' = commits + 1
            /\ ReplyOk(op, {})
            /\ UNCHANGED <<live, archived, writer, nextSeq, tx, issued, opens>>
    BY <1>8 DEF Compact
  <2>2. TypeOK'
    BY <1>1, <2>1, AnsweredType, TakesType DEF TypeOK, ReplyOk
  <2>3. EngagedHasOp' /\ TxAppends' /\ TxVersionFresh'
    BY <1>1, <2>1, AnsweredType, TxKept DEF ReplyOk
  <2> QED
    BY <2>1, <2>2, <2>3 DEF IInv, UniqueRows
<1>9. ASSUME Joined(p) PROVE IInv'
  BY <1>9, CallerStepIInv
<1> QED
  BY <1>2, <1>3, <1>4, <1>5, <1>6, <1>7, <1>8, <1>9 DEF WriterStep

(* Every step of callers, writer threads and processes keeps the           *)
(* invariant.                                                              *)
LEMMA StepIInv == IInv /\ [Next]_vars => IInv'
PROOF
<1> SUFFICES ASSUME IInv, [Next]_vars PROVE IInv'
  OBVIOUS
<1>1. CASE Next
  <2>1. \/ \E p \in Procs : WriterStep(p)
        \/ \E p \in Procs : Open(p) \/ Close(p) \/ Crash(p)
        \/ \E c \in Callers :
            \/ \E call \in Calls : Call(c, call)
            \/ Send(c) \/ Timeout(c)
    BY <1>1 DEF Next
  <2> QED
    BY <2>1, WriterStepIInv, CallerStepIInv
<1>2. CASE UNCHANGED vars
  BY <1>2 DEF vars, IInv, TypeOK, EngagedHasOp, TxAppends, TxVersionFresh,
              Fresh, UniqueRows
<1> QED
  BY <1>1, <1>2

(* The inductive invariant holds in every behaviour of the store.          *)
THEOREM Invariance == Spec => []IInv
PROOF
<1>1. Init => IInv
  BY InitIInv
<1>2. IInv /\ [Next]_vars => IInv'
  BY StepIInv
<1> QED
  BY <1>1, <1>2, PTL DEF Spec

(* Whatever the processes, callers, calls and queue capacity: every        *)
(* variable keeps its type, so no row the writer inserts has version or    *)
(* global_seq 0 (append_event, append_batch).                              *)
THEOREM TypeCorrect == Spec => []TypeOK
PROOF
<1>1. IInv => TypeOK
  BY DEF IInv
<1> QED
  BY <1>1, Invariance, PTL

(* However many processes have events.db open, each with an allocator of   *)
(* its own: no two live events share a global_seq, or a version of one     *)
(* aggregate (append_event, append_batch, archive_through).                *)
THEOREM RowsAreUnique == Spec => []UniqueRows
PROOF
<1>1. IInv => UniqueRows
  BY DEF IInv
<1> QED
  BY <1>1, Invariance, PTL

(* An event whose caller was told Ok stays in events or archived_events,   *)
(* through timeouts, crashes, reopening, compaction and archiving          *)
(* (append_event, append_batch, archive_through, EventWriter::drop).       *)
THEOREM AcknowledgedIsDurable == Spec => []AckedDurable
PROOF
<1>1. Init => AckedDurable
  BY DEF Init, AckedDurable
<1>2. ASSUME AckedDurable, [Next]_vars PROVE AckedDurable'
  <2>1. CASE UNCHANGED vars
    BY <1>2, <2>1 DEF vars, AckedDurable, Stored
  <2>2. ASSUME UNCHANGED <<tables, acked>> PROVE AckedDurable'
    BY <1>2, <2>2 DEF tables, AckedDurable, Stored
  <2>3. ASSUME NEW c \in Callers,
               \/ \E call \in Calls : Call(c, call)
               \/ Send(c) \/ Timeout(c)
        PROVE  AckedDurable'
    BY <2>2, <2>3 DEF Call, Send, Timeout, ghosts
  <2>4. ASSUME NEW p \in Procs,
               Open(p) \/ Close(p) \/ Crash(p) \/ Joined(p)
        PROVE  AckedDurable'
    BY <2>2, <2>4 DEF Open, Close, Crash, Joined, ghosts
  <2>5. ASSUME NEW p \in Procs,
               \/ Conflict(p) \/ BeginAppend(p)
               \/ AbortStale(p) \/ AbortCollision(p)
        PROVE  AckedDurable'
    BY <2>2, <2>5 DEF Conflict, BeginAppend, Begin, AbortStale, AbortCollision,
                      ReplyErr, ghosts
  <2>6. ASSUME NEW p \in Procs, AppendNothing(p) \/ Compact(p)
        PROVE  AckedDurable'
    BY <1>2, <2>6 DEF AppendNothing, Compact, ReplyOk, tables, AckedDurable, Stored
  <2>7. ASSUME NEW p \in Procs, CommitAppend(p) PROVE AckedDurable'
    BY <1>2, <2>7 DEF CommitAppend, Commit, ReplyOk, AckedDurable, Stored
  <2>8. ASSUME NEW p \in Procs, ArchiveThrough(p) PROVE AckedDurable'
    BY <1>2, <2>8 DEF ArchiveThrough, CopiedRows, DeletedRows, ReplyOk,
                      AckedDurable, Stored
  <2> QED
    BY <1>2, <2>1, <2>3, <2>4, <2>5, <2>6, <2>7, <2>8 DEF Next, WriterStep
<1> QED
  BY <1>1, <1>2, PTL DEF Spec
-----------------------------------------------------------------------------
(* What a transaction and a stored row say of the version their caller     *)
(* expected: what OptimisticLock rests on.                                 *)
ExpectedInv ==
    /\ \A p \in Procs : tx[p] # NoTx =>
          issued[tx[p].op].call.expected \in {NoVersion, tx[p].version - 1}
    /\ \A e \in live :
          e.op \in DOMAIN issued /\ issued[e.op].call.expected \in {NoVersion, e.version - 1}

(* A call that names a version appends one event.                          *)
LEMMA ExpectingAppendsOne ==
    ASSUME TypeOK, NEW op \in DOMAIN issued,
           issued[op].call.aggs # <<>>, issued[op].call.expected # NoVersion
    PROVE  issued[op].call.kind = "append" /\ DOMAIN issued[op].call.aggs = {1}
PROOF
<1>1. issued[op].call \in Calls /\ issued[op].call \in CallShapes
  <2>1. ASSUME NEW S, NEW s \in Seq(S), NEW n \in DOMAIN s PROVE s[n] \in S
    OBVIOUS
  <2>2. issued[op] \in [by : Callers, call : Calls]
    BY <2>1 DEF TypeOK
  <2> QED
    BY <2>2, CallsAssumption
<1>2. issued[op].call.kind = "append" /\ Len(issued[op].call.aggs) = 1
  BY <1>1, CallsAssumption DEF CallShapes
<1>3. issued[op].call.aggs \in Seq(Aggregates)
  BY <1>1 DEF CallShapes
<1>4. DOMAIN issued[op].call.aggs = 1..1
  BY <1>2, <1>3
<1> QED
  BY <1>2, <1>4

(* The rows a commit adds carry the version their caller expected, plus 1. *)
LEMMA CommitExpected ==
    ASSUME IInv, ExpectedInv, NEW p \in Procs, CommitAppend(p),
           NEW i \in DOMAIN issued[tx[p].op].call.aggs
    PROVE  /\ NewRow(tx[p], i).op = tx[p].op
           /\ issued[tx[p].op].call.expected \in {NoVersion, NewRow(tx[p], i).version - 1}
PROOF
<1> DEFINE t == tx[p]
           call == issued[t.op].call
<1>1. t # NoTx
  BY DEF CommitAppend
<1>2. t \in Transactions /\ t.op \in DOMAIN issued /\ call.aggs # <<>>
  BY <1>1, TxCall DEF IInv
<1>3. NewRow(t, i).op = t.op
  BY DEF NewRow, Row
<1>4. CASE call.expected # NoVersion
  <2>1. i = 1 /\ call.expected = t.version - 1
    BY <1>1, <1>2, <1>4, ExpectingAppendsOne DEF IInv, ExpectedInv
  <2>2. NewRow(t, i).version = t.version + Cardinality({j \in 1..(1 - 1) : call.aggs[j] = call.aggs[1]})
    BY <2>1 DEF NewRow, Row
  <2>3. {j \in 1..(1 - 1) : call.aggs[j] = call.aggs[1]} = {}
    OBVIOUS
  <2>4. t.version \in Nat /\ Cardinality({}) = 0
    BY <1>2, FS_EmptySet DEF Transactions
  <2>5. NewRow(t, i).version = t.version
    <3> HIDE DEF t, call
    <3> QED
      BY <2>2, <2>3, <2>4
  <2> QED
    BY <1>3, <2>1, <2>5
<1> QED
  BY <1>3, <1>4

(* A row is only ever added by a transaction that read the version it adds *)
(* to, and whose expected version, if the call has one, is that version.   *)
LEMMA ExpectedStep == ASSUME IInv, ExpectedInv, [Next]_vars PROVE ExpectedInv'
PROOF
<1>1. TypeOK /\ TxAppends /\ tx \in [Procs -> Transactions \cup {NoTx}]
  BY DEF IInv, TypeOK
(* A step that opens no transaction and adds no row.                       *)
<1>2. ASSUME live' \subseteq live, issued' = issued,
             \A q \in Procs : tx'[q] # NoTx => tx'[q] = tx[q]
      PROVE  ExpectedInv'
  BY <1>2 DEF ExpectedInv
<1>3. ASSUME NEW p \in Procs, NEW new, tx' = [tx EXCEPT ![p] = new]
      PROVE  /\ tx'[p] = new
             /\ \A q \in Procs \ {p} : tx'[q] = tx[q]
  BY <1>1, <1>3
<1>4. ASSUME NEW p \in Procs, Open(p) \/ Close(p) \/ Joined(p) PROVE ExpectedInv'
  BY <1>2, <1>4 DEF Open, Close, Joined, tables, ghosts
<1>5. ASSUME NEW p \in Procs, Crash(p) PROVE ExpectedInv'
  <2>1. /\ tx' = [tx EXCEPT ![p] = NoTx] /\ UNCHANGED <<live, issued>>
    BY <1>5 DEF Crash, tables, ghosts
  <2> QED
    BY <1>2, <1>3, <2>1
<1>6. ASSUME NEW c \in Callers, NEW call \in Calls, Call(c, call) PROVE ExpectedInv'
  <2>1. issued' = Append(issued, [by |-> c, call |-> call]) /\ UNCHANGED <<live, tx>>
    BY <1>6 DEF Call, tables, threads
  <2>2. \A n \in DOMAIN issued : n \in DOMAIN issued' /\ issued'[n] = issued[n]
    BY <1>1, <2>1 DEF TypeOK
  <2> QED
    BY <1>1, <2>1, <2>2 DEF ExpectedInv, TxAppends
<1>7. ASSUME NEW c \in Callers, Send(c) \/ Timeout(c) PROVE ExpectedInv'
  BY <1>2, <1>7 DEF Send, Timeout, tables, threads, ghosts
<1>8. ASSUME NEW p \in Procs,
             AppendNothing(p) \/ Conflict(p) \/ ArchiveThrough(p) \/ Compact(p)
      PROVE  ExpectedInv'
  <2>1. live' \subseteq live /\ issued' = issued /\ tx' = tx
    BY <1>8 DEF AppendNothing, Conflict, ArchiveThrough, Compact, tables, DeletedRows
  <2> QED
    BY <1>2, <2>1
<1>9. ASSUME NEW p \in Procs, AbortStale(p) \/ AbortCollision(p) PROVE ExpectedInv'
  <2>1. tx' = [tx EXCEPT ![p] = NoTx] /\ UNCHANGED <<live, issued>>
    BY <1>9 DEF AbortStale, AbortCollision, tables
  <2> QED
    BY <1>2, <1>3, <2>1
<1>10. ASSUME NEW p \in Procs, BeginAppend(p) PROVE ExpectedInv'
  <2>1. PICK op \in DOMAIN issued :
            Takes(p, op) /\ issued[op].call.aggs # <<>> /\ Accepts(op) /\ Begin(p, op)
    BY <1>10 DEF BeginAppend
  <2> DEFINE v == LatestVersion(live, issued[op].call.aggs[1])
             new == [op |-> op, first |-> nextSeq[p], at |-> commits, version |-> v + 1]
  <2>2. tx' = [tx EXCEPT ![p] = new] /\ UNCHANGED <<live, issued>>
    BY <2>1 DEF Begin, tables, ghosts
  <2>3. issued[op].call.expected \in {NoVersion, v}
    BY <2>1 DEF Accepts
  <2>4. v \in Nat
    BY LatestVersionBounds DEF IInv, TypeOK, Rows
  <2>5. new.op = op /\ new.version - 1 = v
    BY <2>4
  <2> HIDE DEF new, v
  <2> QED
    BY <1>3, <2>2, <2>3, <2>5 DEF ExpectedInv
<1>11. ASSUME NEW p \in Procs, CommitAppend(p) PROVE ExpectedInv'
  <2>1. /\ live' = live \cup NewRows(tx[p]) /\ tx' = [tx EXCEPT ![p] = NoTx]
        /\ issued' = issued /\ tx[p] # NoTx
    BY <1>11 DEF CommitAppend, Commit
  <2>2. tx[p].op \in DOMAIN issued
    BY <2>1, TxCall DEF IInv
  <2>3. \A e \in NewRows(tx[p]) :
            e.op \in DOMAIN issued /\ issued[e.op].call.expected \in {NoVersion, e.version - 1}
    BY <1>11, <2>2, CommitExpected DEF NewRows
  <2> QED
    BY <1>3, <2>1, <2>3 DEF ExpectedInv
<1>12. CASE UNCHANGED vars
  BY <1>2, <1>12 DEF vars
<1> QED
  BY <1>4, <1>5, <1>6, <1>7, <1>8, <1>9, <1>10, <1>11, <1>12 DEF Next, WriterStep

(* The row a commit adds for a call that expects a version: it is the next *)
(* version of the aggregate at that moment.                                *)
LEMMA CommitMeetsExpectation ==
    ASSUME IInv, ExpectedInv, NEW p \in Procs, CommitAppend(p),
           NEW f \in NewRows(tx[p]), issued[f.op].call.expected # NoVersion
    PROVE  LatestVersion(live, f.agg) = issued[f.op].call.expected
PROOF
<1> DEFINE t == tx[p]
           call == issued[t.op].call
<1>1. t # NoTx /\ Fresh(t)
  BY DEF CommitAppend
<1>2. t \in Transactions /\ t.op \in DOMAIN issued /\ call.aggs # <<>>
  BY <1>1, TxCall DEF IInv
<1>3. PICK i \in DOMAIN call.aggs : f = NewRow(t, i)
  BY DEF NewRows
<1>4. f.op = t.op /\ f.agg = call.aggs[i]
  BY <1>3 DEF NewRow, Row
<1>5. call.expected # NoVersion
  BY <1>4
<1>6. i = 1 /\ call.expected = t.version - 1
  BY <1>1, <1>2, <1>3, <1>5, ExpectingAppendsOne DEF IInv, ExpectedInv
<1>7. t.version = LatestVersion(live, call.aggs[1]) + 1
  BY <1>1 DEF IInv, TxVersionFresh
<1>8. LatestVersion(live, call.aggs[1]) \in Nat
  BY LatestVersionBounds DEF IInv, TypeOK, Rows
<1> HIDE DEF t, call
<1>9. call.expected = LatestVersion(live, f.agg)
  BY <1>4, <1>6, <1>7, <1>8
<1> QED
  BY <1>4, <1>9 DEF t, call

(* An event is written only while its caller's expectation is true, in     *)
(* whatever processes the calls are made: append_event checks and inserts  *)
(* in one transaction.  So no live row is of a call that expected the same *)
(* version, and only archiving lets a second such call win.                *)
THEOREM ExpectationHoldsWhenWritten == Spec => OptimisticLock
PROOF
<1>1. Init => ExpectedInv
  BY DEF Init, ExpectedInv
<1>2. IInv /\ ExpectedInv /\ [Next]_vars => ExpectedInv'
  BY ExpectedStep
<1> DEFINE Meets(f) ==
             issued[f.op].call.expected # NoVersion =>
                /\ LatestVersion(live, f.agg) = issued[f.op].call.expected
                /\ \A e \in live : e.agg = f.agg =>
                      issued[e.op].call.expected # issued[f.op].call.expected
<1>3. ASSUME IInv, ExpectedInv, [Next]_vars, NEW f \in live' \ live PROVE Meets(f)
  <2>1. PICK p \in Procs : CommitAppend(p)
    BY <1>3 DEF Next, WriterStep, vars, tables, Open, Close, Joined, Crash, Call, Send,
                Timeout, AppendNothing, Conflict, BeginAppend, Begin, AbortStale,
                AbortCollision, ArchiveThrough, Compact
  <2>2. f \in NewRows(tx[p])
    BY <1>3, <2>1 DEF CommitAppend, Commit
  <2>3. SUFFICES ASSUME issued[f.op].call.expected # NoVersion,
                        NEW e \in live, e.agg = f.agg,
                        issued[e.op].call.expected = issued[f.op].call.expected
                 PROVE  FALSE
    BY <1>3, <2>1, <2>2, CommitMeetsExpectation
  <2>4. LatestVersion(live, f.agg) = issued[f.op].call.expected
    BY <1>3, <2>1, <2>2, <2>3, CommitMeetsExpectation
  <2>5. e.version - 1 = issued[f.op].call.expected /\ e.version \in Nat
    BY <1>3, <2>3 DEF ExpectedInv, IInv, TypeOK, Rows
  <2>6. e.version =< LatestVersion(live, f.agg) /\ LatestVersion(live, f.agg) \in Nat
    BY <1>3, <2>3, LatestVersionBounds DEF IInv, TypeOK, Rows
  <2> QED
    BY <2>4, <2>5, <2>6
<1>4. IInv /\ ExpectedInv /\ [Next]_vars =>
        [\A f \in live' \ live :
            LET v == issued[f.op].call.expected
            IN  v # NoVersion =>
                  /\ LatestVersion(live, f.agg) = v
                  /\ \A e \in live : e.agg = f.agg => issued[e.op].call.expected # v]_vars
  BY <1>3
<1> QED
  BY <1>1, <1>2, <1>4, Invariance, PTL DEF Spec, OptimisticLock
-----------------------------------------------------------------------------
(* Where a call that is not answered yet can be: with a caller blocked on  *)
(* the channel, in the queue of its process, or in its open transaction.   *)
Queued(p) == {queue[p][i] : i \in DOMAIN queue[p]}
Writing(p, n) == tx[p] # NoTx /\ tx[p].op = n
Sending(n) == caller[issued[n].by] = "sending" /\ IsLast(issued[n].by, n)
Pending(n) == Sending(n) \/ \E p \in Procs : n \in Queued(p) \/ Writing(p, n)

(* A call is in one of these places only, once, in the process of its      *)
(* caller; and of two calls of one caller the first is ahead.              *)
Ahead(m, n) == m # n /\ (issued[m].by = issued[n].by => m < n)
InOrder(p) ==
    /\ \A i, j \in DOMAIN queue[p] : i < j => Ahead(queue[p][i], queue[p][j])
    /\ \A n \in Queued(p) : n \in DOMAIN issued /\ (tx[p] # NoTx => Ahead(tx[p].op, n))
InPlace(p, n) == n \in Queued(p) \/ Writing(p, n) => Home[issued[n].by] = p /\ ~Sending(n)
PlaceInv ==
    \A p \in Procs : InOrder(p) /\ \A n \in DOMAIN issued : InPlace(p, n)

(* The rows and errors there are belong to calls that are over.            *)
FailedOps == {x.op : x \in failed}
LedgerInv ==
    /\ \A e \in Stored : e.op \in DOMAIN issued
    /\ FailedOps \subseteq DOMAIN issued
    /\ \A n \in DOMAIN issued : Pending(n) => RowsOf(n) = {} /\ n \notin FailedOps
-----------------------------------------------------------------------------
(* Taking the head of a queue leaves the others in their order.            *)
LEMMA HeadAndTail ==
    ASSUME NEW S, NEW s \in Seq(S), s # <<>>
    PROVE  /\ 1 \in DOMAIN s /\ Head(s) = s[1]
           /\ Tail(s) \in Seq(S)
           /\ \A i \in DOMAIN Tail(s) : i \in Nat \ {0} /\ i + 1 \in DOMAIN s /\ Tail(s)[i] = s[i + 1]
PROOF
  OBVIOUS

(* A caller has one last call.                                             *)
LEMMA LastIsUnique ==
    ASSUME TypeOK, NEW c, NEW m \in DOMAIN issued, NEW n \in DOMAIN issued,
           IsLast(c, m), IsLast(c, n)
    PROVE  m = n
PROOF
<1>1. m \in Nat /\ n \in Nat
  BY IssuedType
<1>2. m =< n /\ n =< m
  BY DEF IsLast
<1> QED
  BY <1>1, <1>2

(* A call is pending in one place.                                         *)
LEMMA HeadIsAlone ==
    ASSUME TypeOK, TxAppends, PlaceInv, NEW p \in Procs, NEW op \in DOMAIN issued, Takes(p, op)
    PROVE  /\ op \in Queued(p) /\ queue'[p] = Tail(queue[p])
           /\ \A q \in Procs \ {p} : queue'[q] = queue[q]
           /\ \A q \in Procs : op \notin Queued(q)'
           /\ \A n \in Queued(p)' : n \in Queued(p) /\ Ahead(op, n)
           /\ ~Sending(op) /\ \A q \in Procs : ~Writing(q, op)
PROOF
<1>1. /\ queue \in [Procs -> Seq(Nat \ {0})] /\ queue[p] # <<>> /\ op = Head(queue[p])
      /\ queue' = [queue EXCEPT ![p] = Tail(@)] /\ tx[p] = NoTx
  BY DEF TypeOK, Takes
<1>2. /\ 1 \in DOMAIN queue[p] /\ Head(queue[p]) = queue[p][1]
      /\ \A i \in DOMAIN Tail(queue[p]) : i \in Nat \ {0} /\ i + 1 \in DOMAIN queue[p]
                                          /\ Tail(queue[p])[i] = queue[p][i + 1]
  BY <1>1, HeadAndTail
<1>3. op \in Queued(p)
  BY <1>1, <1>2 DEF Queued
<1>4. queue'[p] = Tail(queue[p]) /\ \A q \in Procs \ {p} : queue'[q] = queue[q]
  BY <1>1
<1>5. Home[issued[op].by] = p /\ ~Sending(op)
  BY <1>3 DEF PlaceInv, InPlace
<1>6. ASSUME NEW n \in Queued(p)' PROVE n \in Queued(p) /\ Ahead(op, n)
  <2>1. PICK i \in DOMAIN Tail(queue[p]) : n = Tail(queue[p])[i]
    BY <1>4, <1>6 DEF Queued
  <2>2. i + 1 \in DOMAIN queue[p] /\ n = queue[p][i + 1] /\ 1 < i + 1
    BY <1>2, <2>1
  <2> QED
    BY <1>1, <1>2, <2>2 DEF PlaceInv, InOrder, Queued
<1>7. \A q \in Procs : op \notin Queued(q)'
  <2>1. op \notin Queued(p)'
    BY <1>6 DEF Ahead
  <2>2. \A q \in Procs \ {p} : op \notin Queued(q)'
    BY <1>4, <1>5 DEF Queued, PlaceInv, InPlace
  <2> QED
    BY <2>1, <2>2
<1>8. \A q \in Procs : ~Writing(q, op)
  BY <1>1, <1>5 DEF PlaceInv, InPlace, Writing
<1> QED
  BY <1>3, <1>4, <1>5, <1>6, <1>7, <1>8

(* A queue that is kept, emptied or loses its first call keeps its order.  *)
LEMMA QueueShrinks ==
    ASSUME TypeOK, PlaceInv, NEW p \in Procs,
           \/ queue'[p] = queue[p] \/ queue'[p] = <<>>
           \/ queue[p] # <<>> /\ queue'[p] = Tail(queue[p])
    PROVE  /\ Queued(p)' \subseteq Queued(p)
           /\ \A i, j \in DOMAIN queue'[p] : i < j => Ahead(queue'[p][i], queue'[p][j])
PROOF
<1>1. queue[p] \in Seq(Nat \ {0})
  BY DEF TypeOK
<1>2. CASE queue'[p] = queue[p]
  BY <1>2 DEF Queued, PlaceInv, InOrder
<1>3. CASE queue'[p] = <<>>
  BY <1>3 DEF Queued
<1>4. CASE queue[p] # <<>> /\ queue'[p] = Tail(queue[p])
  <2>1. \A i \in DOMAIN Tail(queue[p]) : i \in Nat \ {0} /\ i + 1 \in DOMAIN queue[p]
                                         /\ Tail(queue[p])[i] = queue[p][i + 1]
    BY <1>1, <1>4, HeadAndTail
  <2>2. Queued(p)' \subseteq Queued(p)
    BY <1>4, <2>1 DEF Queued
  <2>3. ASSUME NEW i \in DOMAIN queue'[p], NEW j \in DOMAIN queue'[p], i < j
        PROVE  Ahead(queue'[p][i], queue'[p][j])
    <3>1. /\ i + 1 \in DOMAIN queue[p] /\ j + 1 \in DOMAIN queue[p] /\ i + 1 < j + 1
          /\ queue'[p][i] = queue[p][i + 1] /\ queue'[p][j] = queue[p][j + 1]
      BY <1>4, <2>1, <2>3
    <3> QED
      BY <3>1 DEF PlaceInv, InOrder
  <2> QED
    BY <2>2, <2>3
<1> QED
  BY <1>2, <1>3, <1>4

(* A step in which calls only leave their places: a queue keeps its order, *)
(* loses its first or all, transactions end.                               *)
LEMMA PlaceShrinks ==
    ASSUME TypeOK, PlaceInv, issued' = issued,
           \A c \in Callers : caller'[c] = "sending" => caller[c] = "sending",
           \A p \in Procs : queue'[p] = queue[p] \/ queue'[p] = <<>>
                            \/ (queue[p] # <<>> /\ queue'[p] = Tail(queue[p])),
           \A p \in Procs : tx'[p] # NoTx => tx'[p] = tx[p]
    PROVE  /\ PlaceInv'
           /\ \A n \in DOMAIN issued : Pending(n)' => Pending(n)
PROOF
<1>1. ASSUME NEW p \in Procs
      PROVE  /\ Queued(p)' \subseteq Queued(p)
             /\ \A i, j \in DOMAIN queue'[p] : i < j => Ahead(queue'[p][i], queue'[p][j])
  BY QueueShrinks
<1>2. \A p \in Procs, n \in DOMAIN issued : Writing(p, n)' => Writing(p, n)
  BY DEF Writing
<1>3. \A n \in DOMAIN issued : Sending(n)' => Sending(n)
  BY IssuedType DEF Sending, IsLast
<1>4. \A p \in Procs, n \in DOMAIN issued : InPlace(p, n)'
  BY <1>1, <1>2, <1>3 DEF PlaceInv, InPlace
<1>5. ASSUME NEW p \in Procs PROVE InOrder(p)'
  <2>2. \A n \in Queued(p)' : n \in DOMAIN issued /\ (tx'[p] # NoTx => Ahead(tx[p].op, n)')
    BY <1>1 DEF PlaceInv, InOrder, Ahead
  <2> QED
    BY <1>1, <2>2 DEF InOrder, Ahead
<1>6. \A n \in DOMAIN issued : Pending(n)' => Pending(n)
  BY <1>1, <1>2, <1>3 DEF Pending
<1> QED
  BY <1>4, <1>5, <1>6 DEF PlaceInv

(* The three steps that move a call on: it is made, sent, begun.           *)
LEMMA CallPlaces ==
    ASSUME IInv, PlaceInv, NEW c \in Callers, NEW call \in Calls, Call(c, call)
    PROVE  /\ PlaceInv'
           /\ DOMAIN issued \subseteq DOMAIN issued'
           /\ \A n \in DOMAIN issued : issued'[n] = issued[n]
           /\ \A n \in DOMAIN issued : Pending(n)' => Pending(n)
PROOF
<1> DEFINE new == Len(issued) + 1
<1>1. /\ issued \in Seq([by : Callers, call : Calls]) /\ issued' = Append(issued, [by |-> c, call |-> call])
      /\ caller \in [Callers -> {"idle", "sending", "waiting"}]
      /\ caller' = [caller EXCEPT ![c] = "sending"] /\ queue' = queue /\ tx' = tx
  BY DEF IInv, TypeOK, Call, threads
<1>2. /\ new \in Nat /\ DOMAIN issued = 1..Len(issued) /\ DOMAIN issued' = DOMAIN issued \cup {new}
      /\ issued'[new] = [by |-> c, call |-> call]
      /\ \A n \in DOMAIN issued : n \in Nat /\ n < new /\ issued'[n] = issued[n]
      /\ new \notin DOMAIN issued
  BY <1>1
<1> HIDE DEF new
<1>3. ASSUME NEW n \in DOMAIN issued, Sending(n)' PROVE Sending(n)
  <2>1. caller'[issued[n].by] = "sending" /\ issued'[new].by = c /\ IsLast(issued[n].by, n)'
    BY <1>2, <1>3 DEF Sending
  <2>2. issued[n].by # c
    BY <1>2, <2>1 DEF IsLast
  <2>3. caller[issued[n].by] = "sending"
    BY <1>1, <2>1, <2>2
  <2>4. IsLast(issued[n].by, n)
    BY <1>2, <2>1 DEF IsLast
  <2> QED
    BY <2>3, <2>4 DEF Sending
<1>4. ASSUME NEW p \in Procs
      PROVE  /\ Queued(p)' = Queued(p) /\ Queued(p) \subseteq DOMAIN issued
             /\ \A n \in DOMAIN issued' : Writing(p, n)' => n \in DOMAIN issued /\ Writing(p, n)
             /\ tx[p] # NoTx => tx[p].op \in DOMAIN issued
  BY <1>1 DEF Queued, PlaceInv, InOrder, Writing, IInv, TxAppends
<1>5. \A p \in Procs, n \in DOMAIN issued' : InPlace(p, n)'
  BY <1>2, <1>3, <1>4 DEF InPlace, PlaceInv
<1>6. \A p \in Procs : InOrder(p)'
  <2>1. \A m, n \in DOMAIN issued : Ahead(m, n) => Ahead(m, n)'
    BY <1>2 DEF Ahead
  <2>2. \A p \in Procs : \A i \in DOMAIN queue[p] : queue[p][i] \in DOMAIN issued
    BY <1>4 DEF Queued
  <2> QED
    BY <1>1, <1>2, <1>4, <2>1, <2>2 DEF InOrder, PlaceInv, Ahead
<1>7. \A n \in DOMAIN issued : Pending(n)' => Pending(n)
  BY <1>3, <1>4, <1>2 DEF Pending
<1> QED
  BY <1>2, <1>5, <1>6, <1>7 DEF PlaceInv

(* A call that is sent goes to the end of its process' queue, where every  *)
(* op before it was called earlier.                                        *)
LEMMA SendPlaces ==
    ASSUME IInv, PlaceInv, NEW c \in Callers, Send(c)
    PROVE  PlaceInv' /\ \A n \in DOMAIN issued : Pending(n)' => Pending(n)
PROOF
<1>1. PICK p \in Procs : p = Home[c]
  BY ProcsAssumption
<1>2. /\ caller \in [Callers -> {"idle", "sending", "waiting"}] /\ caller[c] = "sending"
      /\ queue \in [Procs -> Seq(Nat \ {0})]
      /\ queue' = [queue EXCEPT ![p] = Append(@, LastOpOf(c))]
      /\ caller' = [caller EXCEPT ![c] = "waiting"] /\ issued' = issued /\ tx' = tx
  BY <1>1 DEF IInv, TypeOK, Send, ghosts
<1>3. PICK op \in DOMAIN issued : op = LastOpOf(c) /\ IsLast(c, op)
  BY <1>2, LastOpIsLast DEF IInv
<1>4. /\ op \in DOMAIN issued /\ IsLast(c, op) /\ issued[op].by = c /\ Sending(op)
      /\ op \in Nat \ {0} /\ Home[issued[op].by] = p
  BY <1>1, <1>3, <1>2, IssuedType DEF IsLast, Sending, IInv
<1>5. issued' = issued /\ tx' = tx
  BY <1>2
<1>6. ASSUME NEW n \in DOMAIN issued, Sending(n)' PROVE Sending(n) /\ n # op
  <2>1. caller'[issued[n].by] = "sending"
    BY <1>2, <1>6 DEF Sending
  <2>2. issued[n].by # c
    BY <1>2, <2>1
  <2>3. caller[issued[n].by] = "sending"
    BY <1>2, <2>1, <2>2
  <2> QED
    BY <1>2, <1>4, <1>6, <2>2, <2>3 DEF Sending, IsLast
<1>7. /\ queue'[p] = Append(queue[p], op) /\ \A q \in Procs \ {p} : queue'[q] = queue[q]
      /\ queue[p] \in Seq(Nat \ {0})
  BY <1>2, <1>3
<1>8. /\ DOMAIN queue'[p] = DOMAIN queue[p] \cup {Len(queue[p]) + 1}
      /\ \A i \in DOMAIN queue[p] : i \in Nat /\ i < Len(queue[p]) + 1 /\ queue'[p][i] = queue[p][i]
      /\ queue'[p][Len(queue[p]) + 1] = op /\ Len(queue[p]) \in Nat
  BY <1>4, <1>7
<1>9. /\ Queued(p)' = Queued(p) \cup {op}
      /\ \A q \in Procs \ {p} : Queued(q)' = Queued(q)
  BY <1>7, <1>8 DEF Queued
<1>10. \A q \in Procs : \A n : Writing(q, n)' <=> Writing(q, n)
  BY <1>2 DEF Writing
(* What is in the process already is ahead of the new command.             *)
<1>11. ASSUME NEW n \in DOMAIN issued, n \in Queued(p) \/ Writing(p, n)
      PROVE  Ahead(n, op)
  <2>1. n # op
    BY <1>2, <1>4, <1>11 DEF PlaceInv, InPlace
  <2>2. issued[n].by = c => n =< op
    BY <1>4 DEF IsLast
  <2>3. n \in Nat /\ op \in Nat
    BY <1>4, IssuedType DEF IInv
  <2> QED
    BY <1>4, <2>1, <2>2, <2>3 DEF Ahead
<1>12. \A q \in Procs, n \in DOMAIN issued : InPlace(q, n)'
  <2>1. ~Sending(op)' /\ Home[issued[op].by] = p
    BY <1>4, <1>6
  <2> QED
    BY <1>4, <1>5, <1>6, <1>9, <1>10, <2>1 DEF InPlace, PlaceInv
<1>13. ASSUME NEW q \in Procs PROVE InOrder(q)'
  <2>1. CASE q # p
    BY <1>2, <1>7, <1>9, <2>1 DEF InOrder, PlaceInv, Ahead
  <2>2. CASE q = p
    <3>1. ASSUME NEW i \in DOMAIN queue'[p], NEW j \in DOMAIN queue'[p], i < j
          PROVE  Ahead(queue'[p][i], queue'[p][j])
      <4>1. i \in DOMAIN queue[p]
        BY <1>8, <3>1
      <4>2. CASE j \in DOMAIN queue[p]
        BY <1>2, <1>8, <3>1, <4>1, <4>2 DEF InOrder, PlaceInv
      <4>3. CASE j = Len(queue[p]) + 1
        <5>1. queue[p][i] \in Queued(p) /\ queue[p][i] \in DOMAIN issued
          BY <1>2, <4>1 DEF InOrder, PlaceInv, Queued
        <5> QED
          BY <1>8, <1>11, <4>1, <4>3, <5>1
      <4> QED
        BY <1>8, <4>2, <4>3
    <3>2. \A n \in Queued(p)' : n \in DOMAIN issued
      BY <1>2, <1>4, <1>9 DEF InOrder, PlaceInv
    <3>3. ASSUME NEW n \in Queued(p)', tx[p] # NoTx PROVE Ahead(tx[p].op, n)
      <4>1. tx[p].op \in DOMAIN issued /\ Writing(p, tx[p].op)
        BY <1>2, <3>3 DEF IInv, TxAppends, Writing
      <4> QED
        BY <1>2, <1>9, <1>11, <3>3, <4>1 DEF InOrder, PlaceInv
    <3>4. InOrder(p)'
      <4>1. \A i, j \in DOMAIN queue'[p] : i < j => Ahead(queue'[p][i], queue'[p][j])
        BY <3>1
      <4>2. \A n \in Queued(p)' : tx'[p] # NoTx => Ahead(tx'[p].op, n)
        BY <1>2, <3>3
      <4> QED
        BY <1>5, <3>2, <4>1, <4>2 DEF InOrder, Ahead
    <3> QED
      BY <2>2, <3>4
  <2> QED
    BY <2>1, <2>2
<1>14. \A n \in DOMAIN issued : Pending(n)' => Pending(n)
  BY <1>2, <1>4, <1>6, <1>9, <1>10 DEF Pending
<1> QED
  BY <1>2, <1>12, <1>13, <1>14 DEF PlaceInv

(* A transaction takes its op from the head of the queue, and so no op     *)
(* that is older waits in it.                                              *)
LEMMA BeginPlaces ==
    ASSUME IInv, PlaceInv, NEW p \in Procs, BeginAppend(p)
    PROVE  PlaceInv' /\ \A n \in DOMAIN issued : Pending(n)' => Pending(n)
PROOF
<1>1. PICK op \in DOMAIN issued : Takes(p, op) /\ Begin(p, op)
  BY DEF BeginAppend
<1>2. /\ op \in Queued(p) /\ queue'[p] = Tail(queue[p])
      /\ \A q \in Procs \ {p} : queue'[q] = queue[q]
      /\ \A q \in Procs : op \notin Queued(q)'
      /\ \A n \in Queued(p)' : n \in Queued(p) /\ Ahead(op, n)
      /\ ~Sending(op) /\ \A q \in Procs : ~Writing(q, op)
  BY <1>1, HeadIsAlone DEF IInv
<1> DEFINE new == [op |-> op, first |-> nextSeq[p], at |-> commits,
                   version |-> LatestVersion(live, issued[op].call.aggs[1]) + 1]
<1>3. tx \in [Procs -> Transactions \cup {NoTx}] /\ tx' = [tx EXCEPT ![p] = new]
      /\ new.op = op /\ issued' = issued /\ caller' = caller /\ queue[p] # <<>>
  BY <1>1 DEF IInv, TypeOK, Begin, ghosts, Takes
<1> HIDE DEF new
<1>4. tx'[p] = new /\ \A q \in Procs \ {p} : tx'[q] = tx[q]
  BY <1>3
<1>5. \A q \in Procs : /\ Queued(q)' \subseteq Queued(q)
                       /\ \A i, j \in DOMAIN queue'[q] : i < j => Ahead(queue'[q][i], queue'[q][j])
  BY <1>2, <1>3, QueueShrinks DEF IInv
<1>6. \A n \in DOMAIN issued : Sending(n)' <=> Sending(n)
  BY <1>3 DEF Sending, IsLast
<1>7. \A q \in Procs, n \in DOMAIN issued : Writing(q, n)' => Writing(q, n) \/ (q = p /\ n = op)
  BY <1>3, <1>4 DEF Writing
<1>8. \A q \in Procs, n \in DOMAIN issued : InPlace(q, n)'
  BY <1>2, <1>3, <1>5, <1>6, <1>7 DEF InPlace, PlaceInv
<1>9. \A q \in Procs : InOrder(q)'
  <2>1. \A q \in Procs \ {p} : Queued(q)' = Queued(q)
    BY <1>2 DEF Queued
  <2> QED
    BY <1>2, <1>3, <1>4, <1>5, <2>1 DEF InOrder, PlaceInv, Ahead
<1>10. \A n \in DOMAIN issued : Pending(n)' => Pending(n)
  BY <1>2, <1>5, <1>6, <1>7 DEF Pending
<1> QED
  BY <1>3, <1>8, <1>9, <1>10 DEF PlaceInv
-----------------------------------------------------------------------------
(* The rows a commit adds: one for each event of the call, in the order of *)
(* their sequence numbers.                                                 *)
LEMMA CommitCounts ==
    ASSUME IInv, NEW p \in Procs, tx[p] # NoTx
    PROVE  /\ Cardinality(NewRows(tx[p])) = Len(issued[tx[p].op].call.aggs)
           /\ \A e \in NewRows(tx[p]) : e.op = tx[p].op
PROOF
<1>1. PICK aggs \in Seq(Aggregates) : aggs = issued[tx[p].op].call.aggs
  BY TxCall DEF IInv
<1>2. PICK n \in Nat : n = Len(aggs) /\ DOMAIN aggs = 1..n
  BY <1>1
<1> DEFINE f == [i \in 1..n |-> NewRow(tx[p], i)]
<1>3. tx[p].first \in Nat /\ \A i \in 1..n : NewRow(tx[p], i).seq = tx[p].first + i - 1
  BY <1>1, <1>2, TxCall, NewRowShape DEF IInv, Transactions
<1>4. /\ f \in [1..n -> NewRows(tx[p])] /\ \A i \in 1..n : f[i] = NewRow(tx[p], i)
      /\ \A e \in NewRows(tx[p]) : \E i \in 1..n : f[i] = e
  BY <1>1, <1>2 DEF NewRows
<1> HIDE DEF f
<1>5. ASSUME NEW i \in 1..n, NEW j \in 1..n, f[i] = f[j] PROVE i = j
  <2>1. NewRow(tx[p], i) = NewRow(tx[p], j)
    BY <1>4, <1>5
  <2>2. tx[p].first + i - 1 = tx[p].first + j - 1
    BY <1>3, <2>1
  <2> QED
    BY <1>3, <2>2
<1>6. DOMAIN f = 1..n
  BY <1>4
<1>7. IsInjective(f)
  BY <1>5, <1>6 DEF IsInjective
<1>8. f \in Bijection(1..n, NewRows(tx[p]))
  BY <1>4, <1>7 DEF Bijection, Injection, Surjection
<1>9. IsFiniteSet(1..n) /\ Cardinality(1..n) = n
  <2>1. n \in Int /\ 1 \in Int /\ (IF 1 > n THEN 0 ELSE n - 1 + 1) = n
    OBVIOUS
  <2> QED
    BY <2>1, FS_Interval
<1>10. Cardinality(NewRows(tx[p])) = Cardinality(1..n)
  <2>1. ExistsBijection(1..n, NewRows(tx[p]))
    BY <1>8 DEF ExistsBijection
  <2> QED
    BY <1>9, <2>1, FS_Bijection
<1>11. \A i : NewRow(tx[p], i).op = tx[p].op
  BY DEF NewRow, Row
<1>12. \A e \in NewRows(tx[p]) : e.op = tx[p].op
  BY <1>11 DEF NewRows
<1> QED
  BY <1>1, <1>2, <1>9, <1>10, <1>12

(* A step that leaves the rows and the errors as they are.                 *)
LEMMA LedgerKept ==
    ASSUME LedgerInv, AllOrNothing, Stored' = Stored, failed' = failed, issued' = issued,
           \A n \in DOMAIN issued : Pending(n)' => Pending(n)
    PROVE  LedgerInv' /\ AllOrNothing'
PROOF
<1>1. (\A n : RowsOf(n)' = RowsOf(n)) /\ FailedOps' = FailedOps
  BY DEF RowsOf, FailedOps
<1>2. LedgerInv'
  BY <1>1 DEF LedgerInv
<1>3. \A op \in DOMAIN issued :
          /\ Cardinality(RowsOf(op)) \in {0, Len(issued[op].call.aggs)}
          /\ op \in FailedOps => RowsOf(op) = {}
  BY DEF AllOrNothing, FailedOps
<1>4. AllOrNothing'
  BY <1>1, <1>3 DEF AllOrNothing, FailedOps
<1> QED
  BY <1>2, <1>4

(* The writer is done with the call op: it wrote rows, or answered an error*)
LEMMA LedgerSettles ==
    ASSUME LedgerInv, AllOrNothing, issued' = issued,
           NEW op \in DOMAIN issued, Pending(op), ~Pending(op)',
           \A n \in DOMAIN issued : Pending(n)' => Pending(n),
           NEW rows, \A e \in rows : e.op = op, Stored' = Stored \cup rows,
           \/ failed' = failed /\ Cardinality(rows) \in {0, Len(issued[op].call.aggs)}
           \/ rows = {} /\ \E why : failed' = failed \cup {[op |-> op, why |-> why]}
    PROVE  LedgerInv' /\ AllOrNothing'
PROOF
<1>1. RowsOf(op) = {} /\ op \notin FailedOps
  BY DEF LedgerInv
<1>2. RowsOf(op)' = rows /\ \A n \in DOMAIN issued \ {op} : RowsOf(n)' = RowsOf(n)
  BY <1>1 DEF RowsOf
<1>3. FailedOps' = FailedOps \/ (rows = {} /\ FailedOps' = FailedOps \cup {op})
  BY DEF FailedOps
<1>4. LedgerInv'
  BY <1>2, <1>3 DEF LedgerInv
<1>5. \A n \in DOMAIN issued :
          /\ Cardinality(RowsOf(n)) \in {0, Len(issued[n].call.aggs)}
          /\ n \in FailedOps => RowsOf(n) = {}
  BY DEF AllOrNothing, FailedOps
<1>6. /\ Cardinality(rows) \in {0, Len(issued[op].call.aggs)}
      /\ op \in FailedOps' => rows = {}
  BY <1>1, <1>3, FS_EmptySet DEF FailedOps
<1>7. \A n \in DOMAIN issued :
          /\ Cardinality(RowsOf(n)') \in {0, Len(issued[n].call.aggs)}
          /\ n \in FailedOps' => RowsOf(n)' = {}
  BY <1>2, <1>3, <1>5, <1>6
<1>8. AllOrNothing'
  BY <1>7 DEF AllOrNothing, FailedOps
<1> QED
  BY <1>4, <1>8

(* The writer takes a command and answers it at once.                      *)
LEMMA TakenSettles ==
    ASSUME IInv, PlaceInv, NEW p \in Procs, NEW op \in DOMAIN issued,
           Takes(p, op), issued' = issued, tx' = tx, caller' = Answered(op)
    PROVE  /\ PlaceInv' /\ Pending(op) /\ ~Pending(op)'
           /\ \A n \in DOMAIN issued : Pending(n)' => Pending(n)
PROOF
<1>1. /\ op \in Queued(p) /\ queue'[p] = Tail(queue[p]) /\ queue[p] # <<>>
      /\ \A q \in Procs \ {p} : queue'[q] = queue[q]
      /\ \A q \in Procs : op \notin Queued(q)'
      /\ ~Sending(op) /\ \A q \in Procs : ~Writing(q, op)
  BY HeadIsAlone DEF IInv, Takes
<1>2. \A c \in Callers : caller'[c] = "sending" => caller[c] = "sending"
  BY IssuedType DEF IInv, TypeOK, Answered
<1>3. PlaceInv' /\ \A n \in DOMAIN issued : Pending(n)' => Pending(n)
  BY <1>1, <1>2, PlaceShrinks DEF IInv
<1>4. ~Sending(op)'
  BY <1>1, <1>2, IssuedType DEF Sending, IsLast, IInv
<1>5. \A q \in Procs : ~Writing(q, op)'
  BY <1>1 DEF Writing
<1> QED
  BY <1>1, <1>3, <1>4, <1>5 DEF Pending

(* The writer ends its transaction, with a commit or an error.             *)
LEMMA TransactionSettles ==
    ASSUME IInv, PlaceInv, NEW p \in Procs, tx[p] # NoTx, issued' = issued, queue' = queue,
           tx' = [tx EXCEPT ![p] = NoTx],
           NEW op \in DOMAIN issued, op = tx[p].op, caller' = Answered(op)
    PROVE  /\ PlaceInv' /\ Pending(op) /\ ~Pending(op)'
           /\ \A n \in DOMAIN issued : Pending(n)' => Pending(n)
PROOF
<1>1. tx'[p] = NoTx /\ \A q \in Procs \ {p} : tx'[q] = tx[q]
  BY DEF IInv, TypeOK
<1>2. \A c \in Callers : caller'[c] = "sending" => caller[c] = "sending"
  BY IssuedType DEF IInv, TypeOK, Answered
<1>3. PlaceInv' /\ \A n \in DOMAIN issued : Pending(n)' => Pending(n)
  BY <1>1, <1>2, PlaceShrinks DEF IInv
<1>4. Writing(p, op) /\ Home[issued[op].by] = p /\ ~Sending(op)
  BY DEF Writing, PlaceInv, InPlace
<1>5. ~Sending(op)'
  BY <1>2, <1>4, IssuedType DEF Sending, IsLast, IInv
<1>6. \A q \in Procs : ~Writing(q, op)'
  BY <1>1, <1>4 DEF Writing, PlaceInv, InPlace
<1>7. \A q \in Procs : op \notin Queued(q)'
  BY <1>4 DEF Queued, PlaceInv, InPlace, InOrder, Ahead
<1>8. Pending(op) /\ ~Pending(op)'
  BY <1>4, <1>5, <1>6, <1>7 DEF Pending
<1> QED
  BY <1>3, <1>8

(* Every step keeps the places, the ledger and that calls are atomic.      *)
AtomicInv == PlaceInv /\ LedgerInv /\ AllOrNothing

(* No call has been made at first.                                         *)
LEMMA InitAtomic == Init => AtomicInv
PROOF
<1> SUFFICES ASSUME Init PROVE AtomicInv
  OBVIOUS
<1>1. PlaceInv
  BY DEF Init, PlaceInv, InOrder, InPlace, Queued, Writing
<1> QED
  BY <1>1 DEF Init, AtomicInv, LedgerInv, AllOrNothing, Stored, FailedOps

(* Every step keeps the ops in their places, the ledger and the calls      *)
(* atomic.                                                                 *)
LEMMA AtomicStep == ASSUME IInv, AtomicInv, [Next]_vars PROVE AtomicInv'
PROOF
<1>1. TypeOK /\ PlaceInv /\ LedgerInv /\ AllOrNothing
  BY DEF AtomicInv, IInv
<1>2. ASSUME Stored' = Stored, failed' = failed, issued' = issued, PlaceInv',
             \A n \in DOMAIN issued : Pending(n)' => Pending(n)
      PROVE  AtomicInv'
  BY <1>1, <1>2, LedgerKept DEF AtomicInv
<1>3. ASSUME NEW p \in Procs, Open(p) \/ Close(p) \/ Joined(p) \/ Crash(p) PROVE AtomicInv'
  <2>1. /\ issued' = issued /\ failed' = failed /\ live' = live /\ archived' = archived
        /\ \A c \in Callers : caller'[c] = "sending" => caller[c] = "sending"
        /\ \A q \in Procs : queue'[q] = queue[q] \/ queue'[q] = <<>>
        /\ \A q \in Procs : tx'[q] # NoTx => tx'[q] = tx[q]
    BY <1>1, <1>3 DEF Open, Close, Joined, Crash, tables, ghosts, TypeOK
  <2>2. Stored' = Stored
    BY <2>1 DEF Stored
  <2> QED
    BY <1>1, <1>2, <2>1, <2>2, PlaceShrinks
<1>4. ASSUME NEW c \in Callers, Timeout(c) PROVE AtomicInv'
  <2>1. /\ issued' = issued /\ failed' = failed /\ live' = live /\ archived' = archived
        /\ queue' = queue /\ tx' = tx
        /\ \A d \in Callers : caller'[d] = "sending" => caller[d] = "sending"
    BY <1>1, <1>4 DEF Timeout, tables, threads, ghosts, TypeOK
  <2>2. Stored' = Stored
    BY <2>1 DEF Stored
  <2> QED
    BY <1>1, <1>2, <2>1, <2>2, PlaceShrinks
<1>5. ASSUME NEW c \in Callers, Send(c) PROVE AtomicInv'
  <2>1. Stored' = Stored /\ failed' = failed /\ issued' = issued
    BY <1>5 DEF Send, tables, ghosts, Stored
  <2> QED
    BY <1>1, <1>2, <1>5, <2>1, SendPlaces
<1>6. ASSUME NEW p \in Procs, BeginAppend(p) PROVE AtomicInv'
  <2>1. Stored' = Stored /\ failed' = failed /\ issued' = issued
    BY <1>6 DEF BeginAppend, Begin, tables, ghosts, Stored
  <2> QED
    BY <1>1, <1>2, <1>6, <2>1, BeginPlaces
(* The new call has no row and no error yet.                               *)
<1>7. ASSUME NEW c \in Callers, NEW call \in Calls, Call(c, call) PROVE AtomicInv'
  <2>1. /\ PlaceInv' /\ DOMAIN issued \subseteq DOMAIN issued'
        /\ \A n \in DOMAIN issued : issued'[n] = issued[n]
        /\ \A n \in DOMAIN issued : Pending(n)' => Pending(n)
    BY <1>1, <1>7, CallPlaces
  <2>2. Stored' = Stored /\ failed' = failed
    BY <1>7 DEF Call, tables, Stored
  <2>3. \A n : RowsOf(n)' = RowsOf(n)
    BY <2>2 DEF RowsOf
  <2>4. FailedOps' = FailedOps
    BY <2>2 DEF FailedOps
  <2>5. \A n \in DOMAIN issued' \ DOMAIN issued : RowsOf(n) = {} /\ n \notin FailedOps
    BY <1>1 DEF LedgerInv, RowsOf
  <2>6. LedgerInv'
    BY <1>1, <2>1, <2>2, <2>3, <2>4, <2>5 DEF LedgerInv
  <2>7. AllOrNothing'
    <3>1. \A n \in DOMAIN issued :
              /\ Cardinality(RowsOf(n)) \in {0, Len(issued[n].call.aggs)}
              /\ n \in FailedOps => RowsOf(n) = {}
      BY <1>1 DEF AllOrNothing, FailedOps
    <3>2. \A n \in DOMAIN issued' :
              /\ Cardinality(RowsOf(n)') \in {0, Len(issued'[n].call.aggs)}
              /\ n \in FailedOps' => RowsOf(n)' = {}
      BY <2>1, <2>3, <2>4, <2>5, <3>1, FS_EmptySet
    <3> QED
      BY <3>2 DEF AllOrNothing, FailedOps
  <2> QED
    BY <2>1, <2>6, <2>7 DEF AtomicInv
<1>8. ASSUME NEW p \in Procs, AppendNothing(p) \/ ArchiveThrough(p) \/ Compact(p) PROVE AtomicInv'
  <2>1. PICK op \in DOMAIN issued :
            /\ Takes(p, op) /\ caller' = Answered(op) /\ failed' = failed
            /\ issued' = issued /\ tx' = tx
    BY <1>8 DEF AppendNothing, ArchiveThrough, Compact, ReplyOk
  <2>2. Stored' = Stored
    BY <1>8 DEF AppendNothing, ArchiveThrough, Compact, tables, Stored, CopiedRows, DeletedRows,
                RowsThrough
  <2> QED
    BY <1>1, <1>2, <2>1, <2>2, TakenSettles
<1>9. ASSUME NEW op \in DOMAIN issued, NEW why, Pending(op), ~Pending(op)', PlaceInv',
             \A n \in DOMAIN issued : Pending(n)' => Pending(n),
             issued' = issued, Stored' = Stored, ReplyErr(op, why)
      PROVE  AtomicInv'
  <2>1. PICK rows : rows = {}
    OBVIOUS
  <2>2. /\ \A e \in rows : e.op = op
        /\ Stored' = Stored \cup rows
        /\ \E w : failed' = failed \cup {[op |-> op, why |-> w]}
    BY <1>9, <2>1 DEF ReplyErr
  <2>3. LedgerInv' /\ AllOrNothing'
    BY <1>1, <1>9, <2>1, <2>2, LedgerSettles
  <2> QED
    BY <1>9, <2>3 DEF AtomicInv
<1>10. ASSUME NEW p \in Procs, Conflict(p) PROVE AtomicInv'
  <2>1. PICK op \in DOMAIN issued :
            Takes(p, op) /\ ReplyErr(op, "conflict") /\ issued' = issued /\ tx' = tx
    BY <1>10 DEF Conflict
  <2>2. Stored' = Stored /\ caller' = Answered(op)
    BY <1>10, <2>1 DEF Conflict, tables, Stored, ReplyErr
  <2> QED
    BY <1>1, <1>9, <2>1, <2>2, TakenSettles
<1>11. ASSUME NEW p \in Procs, AbortStale(p) \/ AbortCollision(p) PROVE AtomicInv'
  <2>1. PICK why : ReplyErr(tx[p].op, why)
    BY <1>11 DEF AbortStale, AbortCollision
  <2>2. PICK op \in DOMAIN issued : op = tx[p].op
    BY <1>11 DEF AbortStale, AbortCollision, IInv, TxAppends
  <2>3. /\ tx[p] # NoTx /\ issued' = issued /\ queue' = queue /\ Stored' = Stored
        /\ tx' = [tx EXCEPT ![p] = NoTx] /\ ReplyErr(op, why) /\ caller' = Answered(op)
    BY <1>11, <2>1, <2>2 DEF AbortStale, AbortCollision, ReplyErr, tables, Stored
  <2> QED
    BY <1>1, <1>9, <2>2, <2>3, TransactionSettles
<1>12. ASSUME NEW p \in Procs, CommitAppend(p) PROVE AtomicInv'
  <2>1. PICK op \in DOMAIN issued : op = tx[p].op
    BY <1>12 DEF CommitAppend, IInv, TxAppends
  <2>2. PICK rows : rows = NewRows(tx[p])
    OBVIOUS
  <2>3. /\ tx[p] # NoTx /\ issued' = issued /\ queue' = queue /\ Stored' = Stored \cup rows
        /\ tx' = [tx EXCEPT ![p] = NoTx] /\ caller' = Answered(op) /\ failed' = failed
    BY <1>12, <2>1, <2>2 DEF CommitAppend, Commit, ReplyOk, Stored
  <2>4. /\ PlaceInv' /\ Pending(op) /\ ~Pending(op)'
        /\ \A n \in DOMAIN issued : Pending(n)' => Pending(n)
    BY <1>1, <2>1, <2>3, TransactionSettles
  <2>5. Cardinality(rows) = Len(issued[op].call.aggs) /\ \A e \in rows : e.op = op
    BY <2>1, <2>2, <2>3, CommitCounts
  <2>6. LedgerInv' /\ AllOrNothing'
    BY <1>1, <2>1, <2>3, <2>4, <2>5, LedgerSettles
  <2> QED
    BY <2>4, <2>6 DEF AtomicInv
<1>13. CASE UNCHANGED vars
  <2>1. /\ issued' = issued /\ failed' = failed /\ Stored' = Stored
        /\ caller' = caller /\ queue' = queue /\ tx' = tx
    BY <1>13 DEF vars, Stored
  <2> QED
    BY <1>1, <1>2, <2>1, PlaceShrinks
<1> QED
  BY <1>3, <1>4, <1>5, <1>6, <1>7, <1>8, <1>10, <1>11, <1>12, <1>13 DEF Next, WriterStep

(* Whatever the processes and calls, and whatever crashes, times out or is *)
(* refused: a call writes all its events or none, and none when its caller *)
(* was answered with an error (append_batch's transaction, send_write).    *)
THEOREM CallsAreAtomic == Spec => []AllOrNothing
PROOF
<1>1. Init => AtomicInv
  BY InitAtomic
<1>2. IInv /\ AtomicInv /\ [Next]_vars => AtomicInv'
  BY AtomicStep
<1>3. AtomicInv => AllOrNothing
  BY DEF AtomicInv
<1> QED
  BY <1>1, <1>2, <1>3, Invariance, PTL DEF Spec
-----------------------------------------------------------------------------
(* One process at a time has the database open, as the runs on one process *)
(* have it; and nothing is archived.                                       *)
OneProcess == \A p, q \in Procs : p = q
NothingArchived == \A call \in Calls : call.kind # "archive"

(* A writer on its own knows every number in table events: its snapshots   *)
(* are never stale and the numbers it takes are free.                      *)
AloneInv ==
    \A p \in Procs :
        /\ writer[p] = "down" => tx[p] = NoTx
        /\ writer[p] # "down" => \A e \in live : e.seq < nextSeq[p]
        /\ tx[p] # NoTx => tx[p].at = commits /\ \A e \in live : e.seq < tx[p].first

(* The rows a commit adds follow those there are and precede what the      *)
(* allocator hands out next.                                               *)
LEMMA CommitNumbers ==
    ASSUME IInv, AloneInv, NEW p \in Procs, CommitAppend(p)
    PROVE  /\ live' = live \cup NewRows(tx[p]) /\ nextSeq'[p] \in Nat
           /\ \A e \in NewRows(tx[p]) : tx[p].first =< e.seq /\ e.seq < nextSeq'[p]
           /\ \A e \in live, f \in NewRows(tx[p]) : e.seq < f.seq
PROOF
<1>1. /\ tx[p] # NoTx /\ live' = live \cup NewRows(tx[p])
      /\ nextSeq' = [nextSeq EXCEPT ![p] = tx[p].first + Cardinality(NewRows(tx[p]))]
  BY DEF CommitAppend, Commit
<1>2. PICK first \in Nat : first = tx[p].first
  BY <1>1, TxCall DEF IInv, Transactions
<1>3. PICK n \in Nat : n = Cardinality(NewRows(tx[p])) /\ DOMAIN issued[tx[p].op].call.aggs = 1..n
  BY <1>1, TxCall, CommitCounts DEF IInv
<1>4. nextSeq'[p] = first + n
  BY <1>1, <1>2, <1>3 DEF IInv, TypeOK
<1>5. ASSUME NEW e \in NewRows(tx[p]) PROVE e.seq \in Nat /\ first =< e.seq /\ e.seq < first + n
  <2>1. PICK i \in 1..n : e = NewRow(tx[p], i)
    BY <1>3 DEF NewRows
  <2>2. e.seq = first + i - 1
    BY <1>1, <1>2, <1>3, <2>1, NewRowShape
  <2> QED
    BY <1>2, <1>3, <2>2
<1>6. \A e \in live : e.seq \in Nat /\ e.seq < first
  BY <1>1, <1>2 DEF AloneInv, IInv, TypeOK, Rows
<1>7. \A e \in live, f \in NewRows(tx[p]) : e.seq < f.seq
  BY <1>2, <1>5, <1>6
<1> QED
  BY <1>1, <1>2, <1>3, <1>4, <1>5, <1>7

(* On its own a writer finds no stale snapshot and no number taken.        *)
LEMMA AloneNoAbort ==
    ASSUME IInv, AloneInv, NEW p \in Procs
    PROVE  ~AbortStale(p) /\ ~AbortCollision(p)
PROOF
<1>1. ASSUME tx[p] # NoTx PROVE Fresh(tx[p]) /\ Collisions(tx[p]) = {}
  <2>1. tx[p].at = commits /\ tx[p].first \in Nat /\ \A e \in live : e.seq \in Nat /\ e.seq < tx[p].first
    BY <1>1, TxCall DEF AloneInv, IInv, TypeOK, Rows, Transactions
  <2>2. issued[tx[p].op].call.aggs \in Seq(Aggregates)
    BY <1>1, TxCall DEF IInv
  <2>3. \A i \in DOMAIN issued[tx[p].op].call.aggs : i \in Nat \ {0}
    BY <2>2
  <2>4. \A i \in DOMAIN issued[tx[p].op].call.aggs : ~SeqTaken(live, tx[p].first + i - 1)
    BY <2>1, <2>3 DEF SeqTaken
  <2> QED
    BY <2>1, <2>4 DEF Fresh, Collisions
<1> QED
  BY <1>1 DEF AbortStale, AbortCollision

(* With one process, allocator and table agree outside transactions, so    *)
(* that an insert never meets a row with its number, and only a conflict   *)
(* of versions fails an append.                                            *)
LEMMA AloneStep ==
    ASSUME OneProcess, IInv, AloneInv, [Next]_vars
    PROVE  AloneInv' /\ (OnlyConflictsFail => OnlyConflictsFail')
PROOF
<1>1. /\ nextSeq \in [Procs -> Nat \ {0}] /\ tx \in [Procs -> Transactions \cup {NoTx}]
      /\ writer \in [Procs -> {"down", "up", "closing"}] /\ IsFiniteSet(live)
      /\ \A e \in live : e.seq \in Nat
  BY DEF IInv, TypeOK, Rows
<1>2. ASSUME UNCHANGED <<live, commits, failed>>,
             \A p \in Procs : /\ writer'[p] = "down" => tx'[p] = NoTx
                              /\ writer'[p] # "down" => writer[p] # "down" /\ nextSeq'[p] = nextSeq[p]
                              /\ tx'[p] # NoTx => tx'[p] = tx[p]
      PROVE  AloneInv' /\ (OnlyConflictsFail => OnlyConflictsFail')
  BY <1>2 DEF AloneInv, OnlyConflictsFail
<1>3. ASSUME NEW p \in Procs, Open(p) PROVE AloneInv' /\ (OnlyConflictsFail => OnlyConflictsFail')
  <2>1. FirstSeq \in Nat /\ \A e \in live : e.seq < FirstSeq
    BY <1>1, MaxSeqBounds DEF FirstSeq
  <2>2. /\ UNCHANGED <<live, commits, failed, tx>> /\ writer[p] = "down"
        /\ nextSeq' = [nextSeq EXCEPT ![p] = FirstSeq] /\ writer' = [writer EXCEPT ![p] = "up"]
    BY <1>3 DEF Open, tables
  <2> HIDE DEF FirstSeq
  <2>3. nextSeq'[p] = FirstSeq /\ \A q \in Procs : q = p
    BY <1>1, <2>2 DEF OneProcess
  <2> QED
    BY <1>1, <2>1, <2>2, <2>3 DEF AloneInv, OnlyConflictsFail
<1>4. ASSUME NEW p \in Procs, Close(p) \/ Joined(p) \/ Crash(p)
      PROVE  AloneInv' /\ (OnlyConflictsFail => OnlyConflictsFail')
  <2>1. /\ UNCHANGED <<live, commits, failed, nextSeq>>
        /\ \A q \in Procs : /\ writer'[q] = "down" => tx'[q] = NoTx
                            /\ writer'[q] # "down" => writer[q] # "down"
                            /\ tx'[q] # NoTx => tx'[q] = tx[q]
    BY <1>1, <1>4 DEF Close, Joined, Crash, tables, ghosts, AloneInv
  <2> QED
    BY <1>2, <2>1
<1>5. ASSUME NEW c \in Callers, \/ \E call \in Calls : Call(c, call)
                                \/ Send(c) \/ Timeout(c)
      PROVE  AloneInv' /\ (OnlyConflictsFail => OnlyConflictsFail')
  <2>1. UNCHANGED <<live, commits, failed, nextSeq, writer, tx>>
    BY <1>5 DEF Call, Send, Timeout, tables, threads, ghosts
  <2> QED
    BY <1>2, <2>1 DEF AloneInv
<1>6. ASSUME NEW p \in Procs, AppendNothing(p) \/ Conflict(p)
      PROVE  AloneInv' /\ (OnlyConflictsFail => OnlyConflictsFail')
  <2>1. /\ UNCHANGED <<live, commits, nextSeq, writer, tx>>
        /\ failed' = failed \/ \E op : failed' = failed \cup {[op |-> op, why |-> "conflict"]}
    BY <1>6 DEF AppendNothing, Conflict, ReplyOk, ReplyErr, tables
  <2> QED
    BY <2>1 DEF AloneInv, OnlyConflictsFail
<1>7. ASSUME NEW p \in Procs, ArchiveThrough(p) \/ Compact(p)
      PROVE  AloneInv' /\ (OnlyConflictsFail => OnlyConflictsFail')
  <2>1. /\ live' \subseteq live /\ tx[p] = NoTx /\ UNCHANGED <<nextSeq, writer, tx, failed>>
        /\ \A q \in Procs : q = p
    BY <1>7 DEF ArchiveThrough, Compact, Takes, ReplyOk, DeletedRows, OneProcess
  <2> QED
    BY <2>1 DEF AloneInv, OnlyConflictsFail
<1>8. ASSUME NEW p \in Procs, BeginAppend(p)
      PROVE  AloneInv' /\ (OnlyConflictsFail => OnlyConflictsFail')
  <2>1. PICK op \in DOMAIN issued : Takes(p, op) /\ Begin(p, op)
    BY <1>8 DEF BeginAppend
  <2> DEFINE new == [op |-> op, first |-> nextSeq[p], at |-> commits,
                     version |-> LatestVersion(live, issued[op].call.aggs[1]) + 1]
  <2>2. /\ tx' = [tx EXCEPT ![p] = new] /\ nextSeq' = [nextSeq EXCEPT ![p] = @ + 1]
        /\ UNCHANGED <<live, commits, writer, failed>> /\ writer[p] # "down"
        /\ \A q \in Procs : q = p
    BY <2>1 DEF Begin, Takes, tables, ghosts, OneProcess
  <2>3. new.first = nextSeq[p] /\ new.at = commits
    OBVIOUS
  <2> HIDE DEF new
  <2>4. tx'[p] = new /\ nextSeq'[p] = nextSeq[p] + 1 /\ nextSeq[p] \in Nat
    BY <1>1, <2>2
  <2>5. \A e \in live : e.seq < nextSeq[p] /\ e.seq < nextSeq[p] + 1
    BY <1>1, <2>2, <2>4 DEF AloneInv
  <2> QED
    BY <2>2, <2>3, <2>4, <2>5 DEF AloneInv, OnlyConflictsFail
<1>9. ASSUME NEW p \in Procs, CommitAppend(p)
      PROVE  AloneInv' /\ (OnlyConflictsFail => OnlyConflictsFail')
  <2>1. /\ tx' = [tx EXCEPT ![p] = NoTx] /\ UNCHANGED <<writer, failed>> /\ tx[p] # NoTx
        /\ \A q \in Procs : q = p
    BY <1>9 DEF CommitAppend, Commit, ReplyOk, OneProcess
  <2>2. tx'[p] = NoTx /\ writer[p] # "down"
    BY <1>1, <2>1 DEF AloneInv
  <2>3. \A e \in live' : e.seq < nextSeq'[p]
    <3>1. /\ live' = live \cup NewRows(tx[p]) /\ nextSeq'[p] \in Nat
          /\ \A e \in NewRows(tx[p]) : tx[p].first =< e.seq /\ e.seq < nextSeq'[p]
      BY <1>9, CommitNumbers
    <3>2. \A e \in NewRows(tx[p]) : e.seq \in Nat
      BY <2>1, NewRowsShape DEF Rows
    <3>3. \A e \in live : e.seq < tx[p].first
      BY <2>1 DEF AloneInv
    <3>4. tx[p].first \in Nat /\ NewRows(tx[p]) # {}
      <4>1. /\ tx[p].first \in Nat /\ issued[tx[p].op].call.aggs \in Seq(Aggregates)
            /\ issued[tx[p].op].call.aggs # <<>>
        BY <2>1, TxCall DEF IInv, Transactions
      <4>2. 1 \in DOMAIN issued[tx[p].op].call.aggs
        BY <4>1
      <4> QED
        BY <4>1, <4>2 DEF NewRows
    <3> QED
      BY <1>1, <3>1, <3>2, <3>3, <3>4
  <2> QED
    BY <2>1, <2>2, <2>3 DEF AloneInv, OnlyConflictsFail
<1>10. CASE UNCHANGED vars
  BY <1>2, <1>10 DEF vars, AloneInv
<1> QED
  BY <1>3, <1>4, <1>5, <1>6, <1>7, <1>8, <1>9, <1>10, AloneNoAbort DEF Next, WriterStep

(* While one process has events.db open an append is refused for its       *)
(* expected version only, whatever is archived, times out or crashes       *)
(* (append_event, SequenceAllocator).                                      *)
THEOREM AloneOnlyConflictsFail ==
    ASSUME OneProcess PROVE Spec => []OnlyConflictsFail
PROOF
<1>1. Init => AloneInv /\ OnlyConflictsFail
  BY DEF Init, AloneInv, OnlyConflictsFail
<1>2. IInv /\ AloneInv /\ OnlyConflictsFail /\ [Next]_vars => AloneInv' /\ OnlyConflictsFail'
  BY AloneStep
<1> QED
  BY <1>1, <1>2, Invariance, PTL DEF Spec

(* What a caller has in the log is older than what it still waits for.     *)
OrderInv ==
    \A e \in Stored : \A n \in DOMAIN issued :
        Pending(n) /\ issued[n].by = issued[e.op].by => e.op < n
OrderedInv == archived = {} /\ OrderInv /\ CallOrder

(* With one process and nothing archived, the rows of a later call have    *)
(* higher numbers.                                                         *)
LEMMA OrderedStep ==
    ASSUME NothingArchived, IInv, AtomicInv, AloneInv, OrderedInv, [Next]_vars
    PROVE  OrderedInv'
PROOF
<1>1. /\ archived = {} /\ OrderInv /\ CallOrder /\ PlaceInv /\ LedgerInv
      /\ \A e \in Stored : e.op \in DOMAIN issued
  BY DEF OrderedInv, AtomicInv, LedgerInv
(* No row is added and no call is made.                                    *)
<1>3. ASSUME archived' = {}, Stored' = Stored, issued' = issued,
             \A n \in DOMAIN issued : Pending(n)' => Pending(n)
      PROVE  OrderedInv'
  <2>1. OrderInv'
    BY <1>1, <1>3 DEF OrderInv
  <2>2. CallOrder'
    BY <1>1, <1>3 DEF CallOrder
  <2> QED
    BY <1>3, <2>1, <2>2 DEF OrderedInv
<1>4. ASSUME NEW p \in Procs, Open(p) \/ Close(p) \/ Joined(p) \/ Crash(p) PROVE OrderedInv'
  <2>1. /\ issued' = issued /\ archived' = archived /\ live' = live
        /\ \A c \in Callers : caller'[c] = "sending" => caller[c] = "sending"
        /\ \A q \in Procs : queue'[q] = queue[q] \/ queue'[q] = <<>>
        /\ \A q \in Procs : tx'[q] # NoTx => tx'[q] = tx[q]
    BY <1>4 DEF Open, Close, Joined, Crash, tables, ghosts, IInv, TypeOK
  <2>2. Stored' = Stored /\ archived' = {}
    BY <1>1, <2>1 DEF Stored
  <2> QED
    BY <1>1, <1>3, <2>1, <2>2, PlaceShrinks DEF IInv
<1>5. ASSUME NEW c \in Callers, Timeout(c) PROVE OrderedInv'
  <2>1. /\ issued' = issued /\ archived' = archived /\ live' = live /\ queue' = queue /\ tx' = tx
        /\ \A d \in Callers : caller'[d] = "sending" => caller[d] = "sending"
    BY <1>5 DEF Timeout, tables, threads, ghosts, IInv, TypeOK
  <2>2. Stored' = Stored /\ archived' = {}
    BY <1>1, <2>1 DEF Stored
  <2> QED
    BY <1>1, <1>3, <2>1, <2>2, PlaceShrinks DEF IInv
<1>6. ASSUME NEW c \in Callers, Send(c) PROVE OrderedInv'
  <2>1. Stored' = Stored /\ archived' = {} /\ issued' = issued
    BY <1>1, <1>6 DEF Send, tables, ghosts, Stored
  <2> QED
    BY <1>1, <1>3, <1>6, <2>1, SendPlaces
<1>7. ASSUME NEW p \in Procs, BeginAppend(p) PROVE OrderedInv'
  <2>1. Stored' = Stored /\ archived' = {} /\ issued' = issued
    BY <1>1, <1>7 DEF BeginAppend, Begin, tables, ghosts, Stored
  <2> QED
    BY <1>1, <1>3, <1>7, <2>1, BeginPlaces
<1>8. ASSUME NEW p \in Procs, AppendNothing(p) \/ Conflict(p) \/ Compact(p) PROVE OrderedInv'
  <2>1. PICK op \in DOMAIN issued :
            Takes(p, op) /\ caller' = Answered(op) /\ issued' = issued /\ tx' = tx
    BY <1>8 DEF AppendNothing, Conflict, Compact, ReplyOk, ReplyErr
  <2>2. Stored' = Stored /\ archived' = {}
    BY <1>1, <1>8 DEF AppendNothing, Conflict, Compact, tables, Stored
  <2> QED
    BY <1>1, <1>3, <2>1, <2>2, TakenSettles
<1>9. ASSUME NEW p \in Procs, ArchiveThrough(p) PROVE FALSE
  <2>1. PICK op \in DOMAIN issued : issued[op].call.kind = "archive"
    BY <1>9 DEF ArchiveThrough
  <2>2. issued[op] \in [by : Callers, call : Calls]
    <3>1. ASSUME NEW S, NEW s \in Seq(S), NEW n \in DOMAIN s PROVE s[n] \in S
      OBVIOUS
    <3> QED
      BY <3>1 DEF IInv, TypeOK
  <2> QED
    BY <2>1, <2>2 DEF NothingArchived
<1>10. ASSUME NEW c \in Callers, NEW call \in Calls, Call(c, call) PROVE OrderedInv'
  <2>1. /\ DOMAIN issued \subseteq DOMAIN issued'
        /\ \A n \in DOMAIN issued : issued'[n] = issued[n]
        /\ \A n \in DOMAIN issued : Pending(n)' => Pending(n)
    BY <1>1, <1>10, CallPlaces
  <2>2. Stored' = Stored /\ archived' = {}
    BY <1>1, <1>10 DEF Call, tables, Stored
  <2>3. \A n \in DOMAIN issued' \ DOMAIN issued : \A m \in DOMAIN issued : m < n
    BY <1>10 DEF Call, IInv, TypeOK
  <2>4. OrderInv'
    BY <1>1, <2>1, <2>2, <2>3 DEF OrderInv
  <2>5. CallOrder'
    BY <1>1, <2>1, <2>2 DEF CallOrder
  <2> QED
    BY <2>2, <2>4, <2>5 DEF OrderedInv
(* The rows of a commit come after all others, and so does their call      *)
(* after the calls of the same caller that are over.                       *)
<1>11. ASSUME NEW p \in Procs, AbortStale(p) \/ AbortCollision(p) PROVE FALSE
  BY <1>11, AloneNoAbort
<1>12. ASSUME NEW p \in Procs, CommitAppend(p) PROVE OrderedInv'
  <2>1. PICK op \in DOMAIN issued : op = tx[p].op
    BY <1>12 DEF CommitAppend, IInv, TxAppends
  <2>2. PICK rows : rows = NewRows(tx[p])
    OBVIOUS
  <2>3. /\ tx[p] # NoTx /\ issued' = issued /\ queue' = queue /\ archived' = {}
        /\ tx' = [tx EXCEPT ![p] = NoTx] /\ caller' = Answered(op)
        /\ Stored = live /\ Stored' = live \cup rows
    BY <1>1, <1>12, <2>1, <2>2 DEF CommitAppend, Commit, ReplyOk, Stored
  <2>4. /\ Pending(op) /\ ~Pending(op)'
        /\ \A n \in DOMAIN issued : Pending(n)' => Pending(n)
    BY <1>1, <2>1, <2>3, TransactionSettles
  <2>5. (\A e \in rows : e.op = op) /\ \A e \in live, f \in rows : e.seq < f.seq
    BY <1>12, <2>1, <2>2, <2>3, CommitCounts, CommitNumbers
  <2>6. ASSUME NEW n \in DOMAIN issued, Pending(n), n # op, issued[n].by = issued[op].by
        PROVE  op < n
    <3>1. Writing(p, op) /\ Home[issued[op].by] = p /\ ~Sending(op) /\ op \in Nat /\ n \in Nat
      BY <1>1, <2>1, <2>3, IssuedType DEF Writing, PlaceInv, InPlace, IInv
    <3>2. CASE Sending(n)
      BY <2>6, <3>1, <3>2 DEF Sending, IsLast
    <3>3. ASSUME NEW q \in Procs, n \in Queued(q) \/ Writing(q, n) PROVE op < n
      <4>1. q = p
        BY <1>1, <2>6, <3>1, <3>3 DEF PlaceInv, InPlace
      <4>2. n \in Queued(p)
        BY <2>1, <2>6, <3>3, <4>1 DEF Writing
      <4> QED
        BY <1>1, <2>1, <2>3, <2>6, <4>2 DEF PlaceInv, InOrder, Ahead
    <3> QED
      BY <2>6, <3>2, <3>3 DEF Pending
  <2>7. \A e \in live : issued[e.op].by = issued[op].by => e.op < op
    BY <1>1, <2>3, <2>4 DEF OrderInv
  <2>8. OrderInv'
    BY <1>1, <2>1, <2>3, <2>4, <2>5, <2>6 DEF OrderInv
  <2>9. CallOrder'
    <3>1. \A e \in live : e.op \in Nat /\ op \in Nat
      BY <1>1, <2>3, IssuedType DEF IInv
    <3>2. \A e, f \in live : issued[e.op].by = issued[f.op].by /\ e.op < f.op => e.seq < f.seq
      BY <1>1, <2>3 DEF CallOrder
    <3>3. ASSUME NEW e \in live \cup rows, NEW f \in live \cup rows,
                 issued[e.op].by = issued[f.op].by, e.op < f.op
          PROVE  e.seq < f.seq
      <4>1. CASE e \in live /\ f \in live
        BY <3>2, <3>3, <4>1
      <4>2. CASE e \in live /\ f \in rows
        BY <2>5, <4>2
      <4>3. CASE e \in rows /\ f \in live
        BY <2>5, <2>7, <3>1, <3>3, <4>3
      <4>4. CASE e \in rows /\ f \in rows
        BY <2>1, <2>5, <3>1, <3>3, <4>4, IssuedType DEF IInv
      <4> QED
        BY <4>1, <4>2, <4>3, <4>4
    <3> QED
      BY <2>3, <3>3 DEF CallOrder
  <2> QED
    BY <2>3, <2>8, <2>9 DEF OrderedInv
<1>13. CASE UNCHANGED vars
  <2>1. /\ issued' = issued /\ archived' = {} /\ Stored' = Stored
        /\ caller' = caller /\ queue' = queue /\ tx' = tx
    BY <1>1, <1>13 DEF vars, Stored
  <2> QED
    BY <1>1, <1>3, <2>1, PlaceShrinks DEF IInv
<1> QED
  BY <1>4, <1>5, <1>6, <1>7, <1>8, <1>9, <1>10, <1>11, <1>12, <1>13 DEF Next, WriterStep

(* While one process has events.db open and archives nothing, the events   *)
(* of a caller stand in the log in the order of its calls, even if it gave *)
(* up waiting for the earlier ones (send_write, the writer's channel).     *)
THEOREM AloneKeepsCallOrder ==
    ASSUME OneProcess, NothingArchived PROVE Spec => []CallOrder
PROOF
<1>1. Init => AloneInv /\ AtomicInv /\ OrderedInv
  <2> SUFFICES ASSUME Init PROVE AloneInv /\ AtomicInv /\ OrderedInv
    OBVIOUS
  <2>1. AtomicInv
    BY InitAtomic
  <2>2. AloneInv
    BY DEF Init, AloneInv
  <2>3. OrderedInv
    BY DEF Init, OrderedInv, OrderInv, CallOrder, Stored
  <2> QED
    BY <2>1, <2>2, <2>3
<1>2. IInv /\ AloneInv /\ [Next]_vars => AloneInv'
  BY AloneStep
<1>3. IInv /\ AtomicInv /\ [Next]_vars => AtomicInv'
  BY AtomicStep
<1>4. IInv /\ AtomicInv /\ AloneInv /\ OrderedInv /\ [Next]_vars => OrderedInv'
  BY OrderedStep
<1>5. OrderedInv => CallOrder
  BY DEF OrderedInv
<1> QED
  BY <1>1, <1>2, <1>3, <1>4, <1>5, Invariance, PTL DEF Spec
-----------------------------------------------------------------------------
(* One process that archives nothing numbers its rows without gaps, and    *)
(* gives the events of an aggregate the versions 1, 2, 3, ... in order.    *)
Counted(db, a, s) == {f \in db : f.agg = a /\ f.seq =< s}
Numbered(db) ==
    /\ db \subseteq Rows /\ IsFiniteSet(db)
    /\ \A e \in db : e.seq =< Cardinality(db)
    /\ \A e, f \in db : e.seq = f.seq => e = f
    /\ \A e \in db : e.version = Cardinality(Counted(db, e.agg, e.seq))
HistoryInv ==
    /\ archived = {} /\ Numbered(live)
    /\ \A p \in Procs :
          /\ tx[p] # NoTx => tx[p].first = Cardinality(live) + 1
          /\ writer[p] # "down" /\ tx[p] = NoTx => nextSeq[p] = Cardinality(live) + 1

(* As many different numbers between 1 and N as there are: each is used.   *)
LEMMA NumbersCover ==
    ASSUME NEW db, Numbered(db)
    PROVE  /\ Cardinality(db) \in Nat
           /\ \A e \in db : e.seq \in 1..Cardinality(db)
           /\ \A n \in 1..Cardinality(db) : \E e \in db : e.seq = n
PROOF
<1>1. PICK N : N = Cardinality(db) /\ N \in Nat
  BY FS_CardinalityType DEF Numbered
<1>2. \A e \in db : e.seq \in Nat \ {0} /\ e.seq =< N
  BY <1>1 DEF Numbered, Rows
<1>3. \A e \in db : e.seq \in 1..N
  BY <1>1, <1>2
<1> DEFINE f == [e \in db |-> e.seq]
<1>4. f \in [db -> 1..N] /\ \A e \in db : f[e] = e.seq
  BY <1>3
<1>5. IsInjective(f)
  <2>1. \A e, g \in db : f[e] = f[g] => e = g
    BY <1>4 DEF Numbered
  <2> QED
    BY <2>1 DEF IsInjective
<1>6. f \in Injection(db, 1..N)
  BY <1>4, <1>5 DEF Injection
<1>7. IsFiniteSet(1..N) /\ Cardinality(1..N) = N
  <2>1. N \in Int /\ 1 \in Int /\ (IF 1 > N THEN 0 ELSE N - 1 + 1) = N
    BY <1>1
  <2> QED
    BY <2>1, FS_Interval
<1> HIDE DEF f
<1>8. f \in Surjection(db, 1..N)
  BY <1>1, <1>6, <1>7, FS_Injection
<1>9. \A n \in 1..N : \E e \in db : f[e] = n
  BY <1>8 DEF Surjection
<1> QED
  BY <1>1, <1>3, <1>4, <1>9

(* The log has every row at the place its number says.                     *)
LEMMA LogIs ==
    ASSUME NEW db, Numbered(db)
    PROVE  /\ Cardinality(db) \in Nat
           /\ DOMAIN Log(db) = 1..Cardinality(db) /\ Len(Log(db)) = Cardinality(db)
           /\ \A e \in db :
                 /\ e.seq \in 1..Cardinality(db)
                 /\ Log(db)[e.seq].agg = e.agg /\ Log(db)[e.seq].version = e.version
                 /\ Log(db)[e.seq].op = e.op
                 /\ RowAt(db, e.seq) = e
           /\ \A n \in 1..Cardinality(db) : \E e \in db : e.seq = n
PROOF
<1>1. /\ Cardinality(db) \in Nat /\ \A e \in db : e.seq \in 1..Cardinality(db)
      /\ \A n \in 1..Cardinality(db) : \E e \in db : e.seq = n
  BY NumbersCover
<1>2. \A e \in db : RowAt(db, e.seq) = e
  <2> TAKE e \in db
  <2>1. \A f \in db : f.seq = e.seq => f = e
    BY DEF Numbered
  <2> QED
    BY <2>1 DEF RowAt
<1>3. PICK N \in Nat : N = Cardinality(db)
  BY <1>1
<1>4. DOMAIN Log(db) = 1..N /\ Len(Log(db)) = N
  BY <1>3 DEF Log
<1>5. \A n \in 1..N : /\ Log(db)[n].agg = RowAt(db, n).agg
                     /\ Log(db)[n].version = RowAt(db, n).version
                     /\ Log(db)[n].op = RowAt(db, n).op
  BY <1>3 DEF Log
<1> QED
  BY <1>1, <1>2, <1>3, <1>4, <1>5

(* The place of an event in its aggregate's stream is its version.         *)
LEMMA LogPlaces ==
    ASSUME NEW db, Numbered(db), NEW e \in db
    PROVE  Cardinality({m \in 1..e.seq : Log(db)[m].agg = Log(db)[e.seq].agg}) = e.version
PROOF
<1>1. PICK log : log = Log(db)
  OBVIOUS
<1>2. PICK N : N = Cardinality(db) /\ N \in Nat
  BY LogIs
<1>3. /\ \A f \in db : f.seq \in 1..N /\ log[f.seq].agg = f.agg
      /\ \A n \in 1..N : \E f \in db : f.seq = n
  <2>1. /\ \A f \in db : f.seq \in 1..Cardinality(db) /\ Log(db)[f.seq].agg = f.agg
        /\ \A n \in 1..Cardinality(db) : \E f \in db : f.seq = n
    BY LogIs
  <2> QED
    BY <1>1, <1>2, <2>1
<1>4. PICK here : here = {m \in 1..e.seq : log[m].agg = e.agg}
  OBVIOUS
<1>5. PICK rows : rows = Counted(db, e.agg, e.seq)
  OBVIOUS
<1> DEFINE g == [f \in rows |-> f.seq]
<1>6. rows \in SUBSET db /\ IsFiniteSet(rows)
  BY <1>5, FS_Subset DEF Counted, Numbered
<1>7. \A f \in rows : f.seq \in here
  BY <1>3, <1>4, <1>5 DEF Counted
<1>8. \A m \in here : \E f \in rows : f.seq = m
  <2> TAKE m \in here
  <2>1. m \in 1..N /\ m =< e.seq /\ log[m].agg = e.agg
    BY <1>2, <1>3, <1>4
  <2>2. PICK f \in db : f.seq = m
    BY <1>3, <2>1
  <2>3. f.agg = e.agg
    BY <1>3, <2>1, <2>2
  <2> QED
    BY <1>5, <2>1, <2>2, <2>3 DEF Counted
<1>9. g \in [rows -> here] /\ \A f \in rows : g[f] = f.seq
  BY <1>7
<1>10. IsInjective(g)
  <2>1. \A f, h \in rows : g[f] = g[h] => f = h
    BY <1>6, <1>9 DEF Numbered
  <2> QED
    BY <2>1 DEF IsInjective
<1>11. g \in Bijection(rows, here)
  BY <1>8, <1>9, <1>10 DEF Bijection, Injection, Surjection
<1>12. Cardinality(here) = Cardinality(rows)
  <2>1. ExistsBijection(rows, here)
    BY <1>11 DEF ExistsBijection
  <2> QED
    BY <1>6, <2>1, FS_Bijection
<1>13. e.version = Cardinality(rows)
  BY <1>5 DEF Numbered
<1>14. log[e.seq].agg = e.agg
  BY <1>3
<1> QED
  BY <1>1, <1>4, <1>12, <1>13, <1>14

(* big is log with the events of one more call at the end.                 *)
AddsCall(log, big) ==
    /\ (Len(log) + 1)..Len(big) # {}
    /\ \A n \in DOMAIN log : big[n] = log[n]
    /\ \A n \in (Len(log) + 1)..Len(big), m \in DOMAIN big :
          big[m].op = big[n].op <=> m \in (Len(log) + 1)..Len(big)
    /\ \A n \in (Len(log) + 1)..Len(big) :
          big[n].version = Cardinality({m \in 1..n : big[m].agg = big[n].agg})

(* What a call adds to the log are the events after those there are.       *)
LEMMA LogGrows ==
    ASSUME NEW db, Numbered(db), NEW rows, Numbered(db \cup rows), rows # {},
           \A e \in db, f \in rows : e.seq < f.seq /\ e.op # f.op,
           \A e, f \in rows : e.op = f.op
    PROVE  AddsCall(Log(db), Log(db \cup rows))
PROOF
<1>1. PICK log, big : log = Log(db) /\ big = Log(db \cup rows)
  OBVIOUS
<1>2. PICK all : all = db \cup rows
  OBVIOUS
<1>3. PICK N : N = Cardinality(db) /\ N \in Nat
  BY LogIs
<1>4. PICK M : M = Cardinality(all) /\ M \in Nat
  BY <1>2, LogIs
<1>5. /\ DOMAIN log = 1..N /\ Len(log) = N
      /\ \A e \in db : e.seq \in 1..N
      /\ \A e \in db : RowAt(db, e.seq) = e
      /\ \A n \in 1..N : \E e \in db : e.seq = n
  <2>1. DOMAIN Log(db) = 1..Cardinality(db) /\ Len(Log(db)) = Cardinality(db)
    BY LogIs
  <2>2. \A e \in db : e.seq \in 1..Cardinality(db)
    BY LogIs
  <2>3. \A e \in db : RowAt(db, e.seq) = e
    BY LogIs
  <2>4. \A n \in 1..Cardinality(db) : \E e \in db : e.seq = n
    BY LogIs
  <2> QED
    BY <1>1, <1>3, <2>1, <2>2, <2>3, <2>4
<1>6. /\ DOMAIN big = 1..M /\ Len(big) = M
      /\ \A e \in all : e.seq \in 1..M
      /\ \A e \in all : RowAt(all, e.seq) = e
      /\ \A e \in all : big[e.seq].op = e.op /\ big[e.seq].version = e.version
      /\ \A n \in 1..M : \E e \in all : e.seq = n
  <2>1. Numbered(all)
    BY <1>2
  <2>2. DOMAIN Log(all) = 1..Cardinality(all) /\ Len(Log(all)) = Cardinality(all)
    BY <2>1, LogIs
  <2>3. \A e \in all : e.seq \in 1..Cardinality(all)
    BY <2>1, LogIs
  <2>4. \A e \in all : RowAt(all, e.seq) = e
    BY <2>1, LogIs
  <2>5. \A e \in all : Log(all)[e.seq].op = e.op /\ Log(all)[e.seq].version = e.version
    BY <2>1, LogIs
  <2>6. \A n \in 1..Cardinality(all) : \E e \in all : e.seq = n
    BY <2>1, LogIs
  <2>7. Log(all) = big
    BY <1>1, <1>2
  <2> QED
    BY <1>4, <2>2, <2>3, <2>4, <2>5, <2>6, <2>7
(* The old rows have the numbers up to N, the new ones those beyond.       *)
<1>7. \A f \in rows : f.seq > N /\ f.seq \in 1..M
  <2> TAKE f \in rows
  <2>1. f.seq \in 1..M
    BY <1>2, <1>6
  <2>2. CASE N = 0
    BY <2>1, <2>2, <1>4
  <2>3. CASE N # 0
    <3>1. N \in 1..N
      BY <1>3, <2>3
    <3>2. PICK e \in db : e.seq = N
      BY <1>5, <3>1
    <3> QED
      BY <1>3, <2>1, <3>2
  <2> QED
    BY <2>1, <2>2, <2>3
<1>8. N < M
  <2>1. PICK f \in rows : TRUE
    OBVIOUS
  <2> QED
    BY <1>3, <1>4, <1>7, <2>1
<1>9. \A n \in 1..N : big[n] = log[n]
  <2> TAKE n \in 1..N
  <2>1. PICK e \in db : e.seq = n
    BY <1>5
  <2>2. e \in all
    BY <1>2, <2>1
  <2>3. RowAt(db, n) = e /\ RowAt(all, n) = e
    BY <1>5, <1>6, <2>1, <2>2
  <2>4. log[n] = [agg |-> RowAt(db, n).agg, version |-> RowAt(db, n).version, op |-> RowAt(db, n).op]
    BY <1>1, <1>3 DEF Log
  <2>5. n \in 1..M
    BY <1>3, <1>4, <1>8
  <2>6. big[n] = [agg |-> RowAt(all, n).agg, version |-> RowAt(all, n).version, op |-> RowAt(all, n).op]
    BY <1>1, <1>2, <1>4, <2>5 DEF Log
  <2> QED
    BY <2>3, <2>4, <2>6
<1>10. \A n \in (N + 1)..M : \E f \in rows : f.seq = n
  <2> TAKE n \in (N + 1)..M
  <2>1. n \in 1..M /\ n \notin 1..N
    BY <1>3, <1>4
  <2>2. PICK e \in all : e.seq = n
    BY <1>6, <2>1
  <2>3. e \notin db
    BY <1>5, <2>1, <2>2
  <2> QED
    BY <1>2, <2>2, <2>3
<1>11. \A n \in (N + 1)..M, m \in 1..M : big[m].op = big[n].op <=> m \in (N + 1)..M
  <2> TAKE n \in (N + 1)..M, m \in 1..M
  <2>1. PICK f \in rows : f.seq = n
    BY <1>10
  <2>2. f \in all
    BY <1>2, <2>1
  <2>3. big[n].op = f.op
    BY <1>6, <2>1, <2>2
  <2>4. CASE m \in (N + 1)..M
    <3>1. PICK h \in rows : h.seq = m
      BY <1>10, <2>4
    <3>2. h \in all
      BY <1>2, <3>1
    <3>3. big[m].op = h.op
      BY <1>6, <3>1, <3>2
    <3>4. h.op = f.op
      BY <2>1, <3>1
    <3> QED
      BY <2>3, <2>4, <3>3, <3>4
  <2>5. CASE m \notin (N + 1)..M
    <3>1. m \in 1..N
      BY <1>3, <1>4, <2>5
    <3>2. PICK e \in db : e.seq = m
      BY <1>5, <3>1
    <3>3. e \in all
      BY <1>2, <3>2
    <3>4. big[m].op = e.op
      BY <1>6, <3>2, <3>3
    <3>5. e.op # f.op
      BY <2>1, <3>2
    <3> QED
      BY <2>3, <2>5, <3>4, <3>5
  <2> QED
    BY <2>4, <2>5
<1>12. \A n \in (N + 1)..M :
          big[n].version = Cardinality({m \in 1..n : big[m].agg = big[n].agg})
  <2> TAKE n \in (N + 1)..M
  <2>1. PICK f \in rows : f.seq = n
    BY <1>10
  <2>2. f \in all /\ Numbered(all)
    BY <1>2, <2>1
  <2>3. Cardinality({m \in 1..f.seq : Log(all)[m].agg = Log(all)[f.seq].agg}) = f.version
    BY <2>2, LogPlaces
  <2>4. Log(all) = big
    BY <1>1, <1>2
  <2>5. big[f.seq].version = f.version
    BY <1>6, <2>2
  <2> QED
    BY <2>1, <2>3, <2>4, <2>5
<1>13. (Len(log) + 1)..Len(big) = (N + 1)..M /\ DOMAIN log = 1..N /\ DOMAIN big = 1..M
  BY <1>5, <1>6
<1>14. (N + 1)..M # {}
  <2>1. M \in (N + 1)..M
    BY <1>3, <1>4, <1>8
  <2> QED
    BY <2>1
<1>15. AddsCall(log, big)
  BY <1>9, <1>11, <1>12, <1>13, <1>14 DEF AddsCall
<1> QED
  BY <1>1, <1>15

(* The version append_event reads is the number of the aggregate's events. *)
LEMMA LatestIsCount ==
    ASSUME NEW db, Numbered(db), NEW a
    PROVE  LatestVersion(db, a) = Cardinality(EventsOf(db, a))
PROOF
<1>1. /\ IsFiniteSet(db) /\ \A e \in db : e.version \in Nat /\ e.seq \in Nat
      /\ \A e \in db : e.version = Cardinality(Counted(db, e.agg, e.seq))
  BY DEF Numbered, Rows
<1>2. PICK E : E = EventsOf(db, a)
  OBVIOUS
<1>3. E \in SUBSET db /\ IsFiniteSet(E) /\ \A e \in E : e.agg = a
  BY <1>1, <1>2, FS_Subset DEF EventsOf
<1>4. CASE E = {}
  BY <1>2, <1>4, FS_EmptySet DEF LatestVersion
<1>5. CASE E # {}
  <2>1. PICK v : v = LatestVersion(db, a) /\ v \in Nat
    BY <1>1, LatestVersionBounds
  <2>2. (\A e \in E : e.version =< v) /\ \E e \in E : e.version = v
    BY <1>1, <1>2, <1>3, <1>5, <2>1, LatestVersionBounds
  <2>3. PICK newest \in E : \A f \in E : f.seq =< newest.seq
    <3>1. \A e \in E : e.seq \in Nat
      BY <1>1, <1>3
    <3>2. PICK e \in E : e.seq = MaxSeq(E) /\ \A f \in E : f.seq =< MaxSeq(E)
      BY <1>3, <1>5, <3>1, MaxSeqBounds
    <3> QED
      BY <3>2
  <2>4. Counted(db, a, newest.seq) = E
    BY <1>2, <1>3, <2>3 DEF Counted, EventsOf
  <2>5. newest.version = Cardinality(E)
    BY <1>1, <1>3, <2>3, <2>4
  <2>6. PICK last \in E : last.version = v
    BY <2>2
  <2>7. Counted(db, a, last.seq) \in SUBSET E
    BY <1>2 DEF Counted, EventsOf
  <2>8. Cardinality(Counted(db, a, last.seq)) =< Cardinality(E)
    BY <1>3, <2>7, FS_Subset
  <2>9. v =< Cardinality(E)
    BY <1>1, <1>3, <2>6, <2>8
  <2>10. Cardinality(E) =< v
    BY <2>2, <2>3, <2>5
  <2>11. Cardinality(E) \in Nat
    BY <1>3, FS_CardinalityType
  <2> QED
    BY <1>2, <2>1, <2>9, <2>10, <2>11
<1> QED
  BY <1>4, <1>5

(* The numbers taken from a gapless table go on without a gap.             *)
LEMMA FirstIsNext ==
    ASSUME NEW db, Numbered(db)
    PROVE  MaxSeq(db) = Cardinality(db)
PROOF
<1>1. IsFiniteSet(db) /\ \A e \in db : e.seq \in Nat
  BY DEF Numbered, Rows
<1>2. PICK N : N = Cardinality(db) /\ N \in Nat
  BY NumbersCover
<1>3. PICK m : m = MaxSeq(db) /\ m \in Nat
  BY <1>1, MaxSeqBounds
<1>4. (\A e \in db : e.seq =< m) /\ (db # {} => \E e \in db : e.seq = m)
  BY <1>1, <1>3, MaxSeqBounds
<1>5. /\ \A e \in db : e.seq \in 1..N
      /\ \A n \in 1..N : \E e \in db : e.seq = n
  BY <1>2, NumbersCover
<1>6. CASE db = {}
  BY <1>6, FS_EmptySet DEF MaxSeq
<1>7. CASE db # {}
  <2>1. m =< N /\ N >= 1
    BY <1>2, <1>3, <1>4, <1>5, <1>7
  <2>2. PICK e \in db : e.seq = N
    <3>1. N \in 1..N
      BY <1>2, <2>1
    <3> QED
      BY <1>5, <3>1
  <2> QED
    BY <1>2, <1>3, <1>4, <2>1, <2>2
<1> QED
  BY <1>6, <1>7

(* The events of the aggregate of the i-th event of a batch, up to it: the *)
(* stored ones and those of the batch.                                     *)
LEMMA BatchCounts ==
    ASSUME IInv, HistoryInv, NEW p \in Procs, tx[p] # NoTx, Fresh(tx[p]),
           NEW i \in DOMAIN issued[tx[p].op].call.aggs
    PROVE  NewRow(tx[p], i).version =
             Cardinality(Counted(live \cup NewRows(tx[p]), NewRow(tx[p], i).agg, NewRow(tx[p], i).seq))
PROOF
<1>1. PICK aggs \in Seq(Aggregates) : aggs = issued[tx[p].op].call.aggs
  BY TxCall DEF IInv
<1>2. PICK n : n \in Nat /\ n = Len(aggs) /\ DOMAIN aggs = 1..n
  BY <1>1
<1>3. PICK N : N = Cardinality(live) /\ N \in Nat /\ \A e \in live : e.seq \in Nat /\ e.seq =< N
  BY NumbersCover DEF HistoryInv, Numbered, Rows
<1>4. tx[p].first = N + 1
  BY <1>3 DEF HistoryInv
<1>5. PICK row : row = [j \in 1..n |-> NewRow(tx[p], j)]
  OBVIOUS
<1>6. \A j \in 1..n : row[j] = NewRow(tx[p], j) /\ row[j].seq = N + j /\ row[j].agg = aggs[j]
  <2> TAKE j \in 1..n
  <2>1. NewRow(tx[p], j).seq = tx[p].first + j - 1 /\ NewRow(tx[p], j).agg = aggs[j]
    BY <1>1, <1>2, NewRowShape
  <2> QED
    BY <1>3, <1>4, <1>5, <2>1
<1>7. i \in 1..n
  BY <1>1, <1>2
<1>8. PICK old : old = EventsOf(live, aggs[i])
  OBVIOUS
<1>9. PICK before : before = Earlier(aggs, i)
  OBVIOUS
<1>10. PICK own : own = {row[j] : j \in before \cup {i}}
  OBVIOUS
<1>11. /\ before \in SUBSET (1..n) /\ i \notin before
       /\ \A j \in 1..n : j \in before \cup {i} <=> j =< i /\ aggs[j] = aggs[i]
  BY <1>2, <1>7, <1>9 DEF Earlier
<1>12. Counted(live \cup NewRows(tx[p]), aggs[i], N + i) = old \cup own
  <2>1. NewRows(tx[p]) = {row[j] : j \in 1..n}
    BY <1>1, <1>2, <1>6 DEF NewRows
  <2>2. \A e \in live : e.seq =< N + i
    BY <1>3, <1>7
  <2>3. \A j \in 1..n : row[j].seq =< N + i <=> j =< i
    BY <1>3, <1>6, <1>7
  <2>4. ASSUME NEW e \in Counted(live \cup NewRows(tx[p]), aggs[i], N + i)
        PROVE  e \in old \cup own
    <3>1. e.agg = aggs[i] /\ e.seq =< N + i /\ (e \in live \/ e \in NewRows(tx[p]))
      BY <2>4 DEF Counted
    <3>2. CASE e \in live
      BY <1>8, <3>1, <3>2 DEF EventsOf
    <3>3. CASE e \in NewRows(tx[p])
      <4>1. PICK j \in 1..n : e = row[j]
        BY <2>1, <3>3
      <4>2. j \in before \cup {i}
        BY <1>6, <1>11, <2>3, <3>1, <4>1
      <4> QED
        BY <1>10, <4>1, <4>2
    <3> QED
      BY <3>1, <3>2, <3>3
  <2>5. ASSUME NEW e \in old \cup own
        PROVE  e \in Counted(live \cup NewRows(tx[p]), aggs[i], N + i)
    <3>1. CASE e \in old
      BY <1>8, <2>2, <3>1 DEF EventsOf, Counted
    <3>2. CASE e \in own
      <4>1. PICK j \in before \cup {i} : e = row[j]
        BY <1>10, <3>2
      <4>2. j \in 1..n /\ j =< i /\ aggs[j] = aggs[i]
        BY <1>7, <1>11, <4>1
      <4>3. e.agg = aggs[i] /\ e.seq =< N + i /\ e \in NewRows(tx[p])
        BY <1>6, <2>1, <2>3, <4>1, <4>2
      <4> QED
        BY <4>3 DEF Counted
    <3> QED
      BY <2>5, <3>1, <3>2
  <2> QED
    BY <2>4, <2>5
<1>13. IsFiniteSet(before) /\ Cardinality(before) \in Nat
  <2>1. IsFiniteSet(1..n)
    BY <1>2, FS_Interval
  <2> QED
    BY <1>11, <2>1, FS_Subset, FS_CardinalityType
<1>14. IsFiniteSet(before \cup {i}) /\ Cardinality(before \cup {i}) = Cardinality(before) + 1
  <2>1. /\ IsFiniteSet(before \cup {i})
        /\ Cardinality(before \cup {i}) =
             IF i \in before THEN Cardinality(before) ELSE Cardinality(before) + 1
    BY <1>13, FS_AddElement
  <2> QED
    BY <1>11, <2>1
<1>15. IsFiniteSet(own) /\ Cardinality(own) = Cardinality(before) + 1
  <2> DEFINE g == [j \in before \cup {i} |-> row[j]]
  <2>1. g \in [before \cup {i} -> own] /\ \A j \in before \cup {i} : g[j] = row[j]
    BY <1>10
  <2>2. \A j, k \in before \cup {i} : row[j] = row[k] => j = k
    <3>1. \A j \in before \cup {i} : j \in Nat /\ row[j].seq = N + j
      BY <1>6, <1>7, <1>11
    <3> QED
      BY <1>3, <3>1
  <2> HIDE DEF g
  <2>3. IsInjective(g)
    <3>1. \A j, k \in before \cup {i} : g[j] = g[k] => j = k
      BY <2>1, <2>2
    <3> QED
      BY <2>1, <3>1 DEF IsInjective
  <2>4. g \in Bijection(before \cup {i}, own)
    BY <1>10, <2>1, <2>3 DEF Bijection, Injection, Surjection
  <2>5. ExistsBijection(before \cup {i}, own)
    BY <2>4 DEF ExistsBijection
  <2> QED
    BY <1>14, <2>5, FS_Bijection
<1>16. IsFiniteSet(old) /\ Cardinality(old) \in Nat
  BY <1>8, FS_Subset, FS_CardinalityType DEF EventsOf, IInv
<1>17. Cardinality(old \cup own) = Cardinality(old) + (Cardinality(before) + 1)
  <2>1. old \cap own = {}
    <3>1. \A e \in own : e.seq > N
      BY <1>3, <1>6, <1>7, <1>10, <1>11
    <3>2. \A e \in old : e.seq \in Nat /\ e.seq =< N
      BY <1>3, <1>8 DEF EventsOf
    <3> QED
      BY <1>3, <3>1, <3>2
  <2>2. Cardinality(old \cup own) = Cardinality(old) + Cardinality(own) - Cardinality(old \cap own)
    BY <1>15, <1>16, FS_Union
  <2>3. Cardinality(old \cap own) = 0
    BY <2>1, FS_EmptySet
  <2> QED
    BY <1>13, <1>15, <1>16, <2>2, <2>3
<1>18. LatestVersion(live, aggs[i]) = Cardinality(old)
  BY <1>8, LatestIsCount DEF HistoryInv
<1>19. row[i].version = LatestVersion(live, aggs[i]) + 1 + Cardinality(before)
  BY <1>1, <1>6, <1>7, <1>9, NewRowShape
<1>20. row[i].version = Cardinality(Counted(live \cup NewRows(tx[p]), aggs[i], N + i))
  <2>1. PICK c : c = Cardinality(old) /\ c \in Nat
    BY <1>16
  <2>2. PICK b : b = Cardinality(before) /\ b \in Nat
    BY <1>13
  <2>3. row[i].version = c + 1 + b /\ Cardinality(old \cup own) = c + (b + 1)
    BY <1>17, <1>18, <1>19, <2>1, <2>2
  <2>4. row[i].version = Cardinality(old \cup own)
    BY <2>1, <2>2, <2>3
  <2> QED
    BY <1>12, <2>4
<1> QED
  BY <1>6, <1>7, <1>20

(* A commit numbers its rows where the table ends.                         *)
LEMMA CommitNumbered ==
    ASSUME IInv, HistoryInv, NEW p \in Procs, CommitAppend(p)
    PROVE  /\ Numbered(live \cup NewRows(tx[p])) /\ NewRows(tx[p]) # {}
           /\ nextSeq'[p] = Cardinality(live \cup NewRows(tx[p])) + 1
           /\ \A e \in live, f \in NewRows(tx[p]) : e.seq < f.seq
PROOF
<1>1. /\ tx[p] # NoTx /\ Fresh(tx[p]) /\ live' = live \cup NewRows(tx[p])
      /\ nextSeq'[p] = tx[p].first + Cardinality(NewRows(tx[p]))
  BY DEF CommitAppend, Commit, IInv, TypeOK
<1>2. PICK n : n \in Nat /\ n = Cardinality(NewRows(tx[p]))
                /\ n = Len(issued[tx[p].op].call.aggs) /\ n # 0
                /\ DOMAIN issued[tx[p].op].call.aggs = 1..n
  BY <1>1, CommitCounts, TxCall DEF IInv
<1>3. PICK N : N = Cardinality(live) /\ N \in Nat /\ \A e \in live : e.seq \in Nat /\ e.seq =< N
  BY NumbersCover DEF HistoryInv, Numbered, Rows
<1>4. tx[p].first = N + 1
  BY <1>1, <1>3 DEF HistoryInv
<1>5. PICK rows : rows = NewRows(tx[p])
  OBVIOUS
<1>6. \A f \in rows : \E i \in 1..n : f = NewRow(tx[p], i) /\ f.seq = N + i
  <2> TAKE f \in rows
  <2>1. PICK i \in 1..n : f = NewRow(tx[p], i)
    BY <1>2, <1>5 DEF NewRows
  <2>2. f.seq = tx[p].first + i - 1
    BY <1>1, <1>2, <2>1, NewRowShape
  <2> QED
    BY <1>3, <1>4, <2>1, <2>2
<1>7. \A f \in rows : f.seq \in Nat /\ f.seq > N /\ f.seq =< N + n
  BY <1>2, <1>3, <1>6
<1>8. rows \subseteq Rows /\ IsFiniteSet(rows) /\ live \subseteq Rows /\ IsFiniteSet(live)
  BY <1>1, <1>5, NewRowsShape DEF IInv, TypeOK
<1>9. IsFiniteSet(live \cup rows) /\ Cardinality(live \cup rows) = N + n
  <2>1. /\ IsFiniteSet(live \cup rows)
        /\ Cardinality(live \cup rows) = Cardinality(live) + Cardinality(rows) - Cardinality(live \cap rows)
    BY <1>8, FS_Union
  <2>2. live \cap rows = {}
    BY <1>3, <1>7
  <2>3. Cardinality(live \cap rows) = 0
    BY <2>2, FS_EmptySet
  <2>4. Cardinality(live) = N /\ Cardinality(rows) = n
    BY <1>2, <1>3, <1>5
  <2>5. Cardinality(live \cup rows) = N + n - 0
    BY <2>1, <2>3, <2>4
  <2> QED
    BY <1>2, <1>3, <2>1, <2>5
<1>10. \A e, f \in live \cup rows : e.seq = f.seq => e = f
  <2>1. UniqueRows'
    BY CommitUnique
  <2> QED
    BY <1>1, <1>5, <2>1 DEF UniqueRows
<1>11. ASSUME NEW e \in live \cup rows
       PROVE  e.version = Cardinality(Counted(live \cup rows, e.agg, e.seq))
  <2>1. CASE e \in live
    <3>1. Counted(live \cup rows, e.agg, e.seq) = Counted(live, e.agg, e.seq)
      BY <1>3, <1>7, <2>1 DEF Counted
    <3>2. e.version = Cardinality(Counted(live, e.agg, e.seq))
      BY <2>1 DEF HistoryInv, Numbered
    <3> QED
      BY <3>1, <3>2
  <2>2. CASE e \in rows
    <3>1. PICK i \in 1..n : e = NewRow(tx[p], i)
      BY <1>6, <2>2
    <3>2. i \in DOMAIN issued[tx[p].op].call.aggs
      BY <1>2, <3>1
    <3>3. NewRow(tx[p], i).version =
            Cardinality(Counted(live \cup NewRows(tx[p]), NewRow(tx[p], i).agg, NewRow(tx[p], i).seq))
      BY <1>1, <3>2, BatchCounts
    <3> QED
      BY <1>5, <3>1, <3>3
  <2> QED
    BY <1>11, <2>1, <2>2
<1>12. \A e \in live \cup rows : e.seq =< Cardinality(live \cup rows)
  BY <1>2, <1>3, <1>7, <1>9
<1>13. Numbered(live \cup rows)
  BY <1>8, <1>9, <1>10, <1>11, <1>12 DEF Numbered
<1>14. rows # {}
  BY <1>2, <1>5, FS_EmptySet
<1>15. \A e \in live, f \in rows : e.seq < f.seq
  BY <1>3, <1>7
<1>16. nextSeq'[p] = Cardinality(live \cup rows) + 1
  <2>1. nextSeq'[p] = tx[p].first + n
    BY <1>1, <1>2
  <2>2. nextSeq'[p] = N + 1 + n
    BY <1>4, <2>1
  <2>3. Cardinality(live \cup rows) = N + n
    BY <1>9
  <2>4. n \in Nat /\ N \in Nat
    BY <1>2, <1>3
  <2>5. N + 1 + n = (N + n) + 1
    BY <2>4
  <2> QED
    BY <2>2, <2>3, <2>5
<1> QED
  BY <1>5, <1>13, <1>14, <1>15, <1>16

(* The writer carries out calls that were made, and none is an archiving   *)
(* one.                                                                    *)
LEMMA NoArchiving ==
    ASSUME NothingArchived, IInv, NEW p \in Procs
    PROVE  ~ArchiveThrough(p)
PROOF
<1> SUFFICES ASSUME ArchiveThrough(p) PROVE FALSE
  OBVIOUS
<1>1. PICK op \in DOMAIN issued : issued[op].call.kind = "archive"
  BY DEF ArchiveThrough
<1>2. issued[op] \in [by : Callers, call : Calls]
  <2>1. ASSUME NEW S, NEW s \in Seq(S), NEW n \in DOMAIN s PROVE s[n] \in S
    OBVIOUS
  <2> QED
    BY <1>1, <2>1 DEF IInv, TypeOK
<1> QED
  BY <1>1, <1>2 DEF NothingArchived

(* Nothing but a commit changes the tables when nothing is archived.       *)
LEMMA OnlyCommitsWrite ==
    ASSUME NothingArchived, IInv, [Next]_vars, \A p \in Procs : ~CommitAppend(p)
    PROVE  UNCHANGED <<live, archived>>
PROOF
<1>1. \A p \in Procs : ~ArchiveThrough(p)
  BY NoArchiving
<1>2. ASSUME NEW p \in Procs, Open(p) \/ Close(p) \/ Crash(p) \/ Joined(p)
      PROVE  UNCHANGED <<live, archived>>
  BY <1>2 DEF Open, Close, Crash, Joined, tables
<1>3. ASSUME NEW p \in Procs, AppendNothing(p) \/ Conflict(p) \/ Compact(p) \/ BeginAppend(p)
      PROVE  UNCHANGED <<live, archived>>
  BY <1>3 DEF AppendNothing, Conflict, Compact, BeginAppend, Begin, tables
<1>4. ASSUME NEW p \in Procs, AbortStale(p) \/ AbortCollision(p)
      PROVE  UNCHANGED <<live, archived>>
  BY <1>4 DEF AbortStale, AbortCollision, tables
<1>5. ASSUME NEW c \in Callers, Send(c) \/ Timeout(c) \/ \E call \in Calls : Call(c, call)
      PROVE  UNCHANGED <<live, archived>>
  BY <1>5 DEF Call, Send, Timeout, tables
<1>6. CASE UNCHANGED vars
  BY <1>6 DEF vars
<1> QED
  BY <1>1, <1>2, <1>3, <1>4, <1>5, <1>6 DEF Next, WriterStep

(* Every step keeps the numbering without gaps.                            *)
LEMMA HistoryStep ==
    ASSUME OneProcess, NothingArchived, IInv, AloneInv, HistoryInv, [Next]_vars
    PROVE  HistoryInv'
PROOF
<1>1. /\ nextSeq \in [Procs -> Nat \ {0}] /\ tx \in [Procs -> Transactions \cup {NoTx}]
      /\ writer \in [Procs -> {"down", "up", "closing"}]
      /\ archived = {} /\ Numbered(live)
  BY DEF IInv, TypeOK, HistoryInv
<1>2. PICK N : N = Cardinality(live) /\ N \in Nat
  BY <1>1, NumbersCover
<1>3. \A p \in Procs : /\ tx[p] # NoTx => tx[p].first = N + 1
                       /\ writer[p] # "down" /\ tx[p] = NoTx => nextSeq[p] = N + 1
                       /\ writer[p] = "down" => tx[p] = NoTx
  BY <1>2 DEF HistoryInv, AloneInv
(* The tables stay, and so does what the writer knows of them.             *)
<1>4. ASSUME UNCHANGED <<live, archived>>,
             \A p \in Procs :
                /\ tx'[p] # NoTx => tx'[p].first = N + 1
                /\ writer'[p] # "down" /\ tx'[p] = NoTx => nextSeq'[p] = N + 1
      PROVE  HistoryInv'
  <2>1. Numbered(live)' /\ Cardinality(live)' = N /\ archived' = {}
    BY <1>1, <1>2, <1>4 DEF Numbered, Counted
  <2> QED
    BY <1>4, <2>1 DEF HistoryInv
<1>5. ASSUME UNCHANGED <<live, archived>>,
             \A p \in Procs :
                /\ tx'[p] # NoTx => tx'[p] = tx[p]
                /\ writer'[p] # "down" /\ tx'[p] = NoTx =>
                     writer[p] # "down" /\ tx[p] = NoTx /\ nextSeq'[p] = nextSeq[p]
      PROVE  HistoryInv'
  BY <1>3, <1>4, <1>5
<1>6. ASSUME NEW p \in Procs, Open(p) PROVE HistoryInv'
  <2>1. UNCHANGED <<live, archived, tx>> /\ writer[p] = "down"
    BY <1>6 DEF Open, tables
  <2>2. nextSeq'[p] = N + 1
    BY <1>1, <1>2, <1>6, FirstIsNext DEF Open, FirstSeq
  <2> QED
    BY <1>3, <1>4, <2>1, <2>2 DEF OneProcess
<1>7. ASSUME NEW p \in Procs, Close(p) \/ Joined(p) \/ Crash(p) PROVE HistoryInv'
  <2>1. /\ UNCHANGED <<live, archived, nextSeq>>
        /\ \A q \in Procs : /\ tx'[q] # NoTx => tx'[q] = tx[q]
                            /\ writer'[q] # "down" => writer[q] # "down" /\ tx'[q] = tx[q]
    BY <1>1, <1>7 DEF Close, Joined, Crash, tables, ghosts
  <2> QED
    BY <1>5, <2>1
<1>8. ASSUME UNCHANGED <<live, archived, nextSeq, writer, tx>> PROVE HistoryInv'
  BY <1>5, <1>8
<1>9. ASSUME NEW c \in Callers, \/ \E call \in Calls : Call(c, call)
                                \/ Send(c) \/ Timeout(c)
      PROVE  HistoryInv'
  BY <1>8, <1>9 DEF Call, Send, Timeout, tables, threads, ghosts
<1>10. ASSUME NEW p \in Procs, AppendNothing(p) \/ Conflict(p) \/ Compact(p) PROVE HistoryInv'
  BY <1>8, <1>10 DEF AppendNothing, Conflict, Compact, tables
<1>11. ASSUME NEW p \in Procs, BeginAppend(p) PROVE HistoryInv'
  <2>1. PICK op \in DOMAIN issued : Takes(p, op) /\ Begin(p, op)
    BY <1>11 DEF BeginAppend
  <2>2. PICK new : new = [op |-> op, first |-> nextSeq[p], at |-> commits,
                          version |-> LatestVersion(live, issued[op].call.aggs[1]) + 1]
    OBVIOUS
  <2>3. /\ tx' = [tx EXCEPT ![p] = new] /\ UNCHANGED <<live, archived, writer>>
        /\ writer[p] # "down" /\ tx[p] = NoTx
    BY <2>1, <2>2 DEF Begin, Takes, tables
  <2>4. new \in Transactions
    <3>1. op \in Nat \ {0} /\ commits \in Nat /\ nextSeq[p] \in Nat \ {0}
      BY <1>1, <2>1, IssuedType DEF IInv, TypeOK
    <3>2. LatestVersion(live, issued[op].call.aggs[1]) \in Nat
      BY LatestVersionBounds DEF IInv, TypeOK, Rows
    <3>3. LatestVersion(live, issued[op].call.aggs[1]) + 1 \in Nat \ {0}
      BY <3>2
    <3> QED
      BY <2>2, <3>1, <3>3 DEF Transactions
  <2>5. tx'[p] = new /\ new # NoTx /\ new.first = N + 1
    BY <1>1, <1>3, <2>2, <2>3, <2>4, NoTxAssumption
  <2> QED
    BY <1>4, <2>3, <2>5 DEF OneProcess
<1>12. ASSUME NEW p \in Procs, CommitAppend(p) PROVE HistoryInv'
  <2>1. /\ live' = live \cup NewRows(tx[p]) /\ archived' = {}
        /\ tx' = [tx EXCEPT ![p] = NoTx]
    BY <1>1, <1>12 DEF CommitAppend, Commit
  <2>2. Numbered(live \cup NewRows(tx[p])) /\ nextSeq'[p] = Cardinality(live \cup NewRows(tx[p])) + 1
    BY <1>12, CommitNumbered
  <2>3. Numbered(live)'
    BY <2>1, <2>2 DEF Numbered, Counted
  <2>4. nextSeq'[p] = Cardinality(live') + 1 /\ tx'[p] = NoTx /\ \A q \in Procs : q = p
    BY <1>1, <2>1, <2>2 DEF OneProcess
  <2> QED
    BY <2>1, <2>3, <2>4 DEF HistoryInv
<1>13. \A p \in Procs : ~ArchiveThrough(p)
  BY NoArchiving
<1>14. CASE UNCHANGED vars
  BY <1>8, <1>14 DEF vars
<1> QED
  BY <1>6, <1>7, <1>9, <1>10, <1>11, <1>12, <1>13, <1>14, AloneNoAbort DEF Next, WriterStep

(* Every step adds a call's events to the history or leaves it as it is.   *)
LEMMA StreamStep ==
    ASSUME NothingArchived, IInv, AtomicInv, HistoryInv, [Next]_vars
    PROVE  [Abstract!AppendToHistory]_(Log(Stored))
PROOF
<1>1. archived = {} /\ Numbered(live) /\ Stored = live
  BY DEF HistoryInv, Stored
<1>2. CASE \A p \in Procs : ~CommitAppend(p)
  <2>1. UNCHANGED <<live, archived>>
    BY <1>2, OnlyCommitsWrite
  <2>2. Log(Stored)' = Log(Stored)
    BY <2>1 DEF Log, RowAt, Stored
  <2> QED
    BY <2>2
<1>3. ASSUME NEW p \in Procs, CommitAppend(p) PROVE Abstract!AppendToHistory
  <2>1. PICK rows : rows = NewRows(tx[p])
    OBVIOUS
  <2>2. /\ tx[p] # NoTx /\ live' = live \cup rows /\ archived' = {}
        /\ tx[p].op \in DOMAIN issued
    BY <1>1, <1>3, <2>1 DEF CommitAppend, Commit, IInv, TxAppends
  <2>3. /\ Numbered(live \cup rows) /\ rows # {}
        /\ \A e \in live, f \in rows : e.seq < f.seq
    BY <1>3, <2>1, CommitNumbered
  <2>4. \A f \in rows : f.op = tx[p].op
    BY <2>1, <2>2, CommitCounts
  <2>5. RowsOf(tx[p].op) = {}
    <3>1. Pending(tx[p].op)
      BY <2>2 DEF Pending, Writing
    <3> QED
      BY <2>2, <3>1 DEF AtomicInv, LedgerInv
  <2>6. \A e \in live, f \in rows : e.op # f.op
    BY <1>1, <2>4, <2>5 DEF RowsOf
  <2>7. AddsCall(Log(live), Log(live \cup rows))
    BY <1>1, <2>3, <2>4, <2>6, LogGrows
  <2>8. Log(Stored) = Log(live)
    BY <1>1
  <2>9. Log(Stored)' = Log(live \cup rows)
    BY <2>2 DEF Log, RowAt, Stored
  <2>10. PICK log, big : log = Log(Stored) /\ big = Log(Stored)' /\ AddsCall(log, big)
    BY <2>7, <2>8, <2>9
  <2>11. \A S : Abstract!Cardinality(S) = Cardinality(S)
    BY DEF Abstract!Cardinality, Cardinality
  <2> QED
    BY <2>10, <2>11 DEF Abstract!AppendToHistory, Abstract!Place, AddsCall
<1> QED
  BY <1>2, <1>3

(* While one process has events.db open and archives nothing, the store is *)
(* the append-only history its users are promised: each commit adds the    *)
(* whole of a call at the end, and every event takes the next version of   *)
(* its aggregate (append_event, append_batch, SequenceAllocator).          *)
THEOREM AloneImplementsStream ==
    ASSUME OneProcess, NothingArchived PROVE Spec => ImplementsStream
PROOF
<1>1. Init => AloneInv /\ AtomicInv /\ HistoryInv
  <2> SUFFICES ASSUME Init PROVE AloneInv /\ AtomicInv /\ HistoryInv
    OBVIOUS
  <2>1. AtomicInv
    BY InitAtomic
  <2>2. AloneInv
    BY DEF Init, AloneInv
  <2>3. IsFiniteSet({}) /\ Cardinality({}) = 0
    BY FS_EmptySet
  <2>4. Numbered({})
    BY <2>3 DEF Numbered
  <2>5. HistoryInv
    BY <2>3, <2>4 DEF Init, HistoryInv
  <2> QED
    BY <2>1, <2>2, <2>5
<1>2. Init => Abstract!StreamInit
  <2> SUFFICES ASSUME Init PROVE Log(Stored) = <<>>
    BY DEF Abstract!StreamInit
  <2>1. Stored = {} /\ Cardinality({}) = 0
    BY FS_EmptySet DEF Init, Stored
  <2>2. Log(Stored) = [n \in 1..0 |->
          [agg |-> RowAt({}, n).agg, version |-> RowAt({}, n).version, op |-> RowAt({}, n).op]]
    BY <2>1 DEF Log
  <2> QED
    BY <2>2
<1>3. IInv /\ AloneInv /\ AtomicInv /\ HistoryInv /\ [Next]_vars =>
        AloneInv' /\ AtomicInv' /\ HistoryInv' /\ [Abstract!AppendToHistory]_(Log(Stored))
  BY AloneStep, AtomicStep, HistoryStep, StreamStep
<1> QED
  BY <1>1, <1>2, <1>3, Invariance, PTL DEF Spec, ImplementsStream, Abstract!StreamSpec
=============================================================================
