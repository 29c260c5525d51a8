-------------------------- MODULE ConvergentProofs --------------------------
(***************************************************************************)
(* Theorems about ConvergentVerification: what it says of the rounds it    *)
(* counted, of the fixes it spent and of the regressions it saw holds for  *)
(* any issues, thresholds and bounds.                                      *)
(***************************************************************************)
EXTENDS ConvergentVerification, FiniteSetTheorems, TLAPS

Entries == [times : 0..Patience, attempts : 0..StrategyCount, resolved : BOOLEAN]

(* Every variable in its range.  The rounds granted make the limit, and    *)
(* what rounds are counted for is at most their number.                    *)
TypeInv ==
    /\ at \in {"head", "judge", "fix", "assess", "tail"} \cup Ends
    /\ extensions \in 0..MaxExtensions /\ limit = MaxRounds + extensions * ExtensionRounds
    /\ limit \in Nat /\ round \in 0..limit
    /\ maxFix \in FixAttempts
    /\ clean \in 0..round /\ streak \in 0..round /\ critics \in 0..round
    /\ oscillation \in 0..round /\ worse \in 0..round
    /\ unresolved \in SUBSET Issues /\ previous \in SUBSET Issues
    /\ sizes \in Seq(0..Cardinality(Issues)) /\ Len(sizes) \in 1..DriftWindow + 1
    /\ reports \in [Issues -> 0..2 * MaxReports] /\ spent \in [Issues -> Nat]
    /\ room \in 0..MaxIssuesPerBatch /\ fixedOne \in BOOLEAN
    /\ DOMAIN registry \in SUBSET Issues
    /\ registry \in [DOMAIN registry -> Entries]

(* What the rounds counted: the history and the code agree, and fixes only *)
(* follow a dirty round.                                                   *)
CleanInv ==
    /\ streak = clean
    /\ clean > 0 => critics >= clean - 1
    /\ at = "judge" /\ Of(reports) # {} => clean = 0
    /\ at = "fix" => clean = 0
    /\ at = "converged" => clean >= RequiredClean

(* What the fixes spent is on the entry of the issue, whatever has become  *)
(* of the issue since; what the last round reported is there and open.     *)
BudgetInv ==
    /\ \A i \in DOMAIN registry :
           registry[i].attempts <= maxFix /\ registry[i].attempts <= StrategyCount
    /\ \A i \in Issues : spent[i] > 0 =>
           i \in DOMAIN registry /\ spent[i] <= registry[i].attempts
    /\ \A i \in previous : i \in DOMAIN registry /\ ~registry[i].resolved
    /\ at \in {"judge", "fix"} => Of(reports) \subseteq previous

(* No issue the count of oscillations waits for can come back: the two     *)
(* sets record_round compares are always the same.                         *)
SameIssues == unresolved = previous

WorseInv ==
    /\ SameIssues
    /\ oscillation <= worse
    /\ at = "oscillating" => oscillation >= OscillationThreshold

(* The limits of the configuration are numbers.                            *)
LEMMA Limits ==
    /\ MaxReports \in Nat /\ StrategyCount \in Nat /\ StatisticalAttempts \in Nat
    /\ OscillationThreshold \in Nat /\ DriftWindow \in Nat /\ MaxRegistryEntries \in Nat
    /\ ExtensionRounds \in Nat /\ MaxExtensions \in Nat /\ MaxRounds \in Nat
    /\ \A n \in FixAttempts : n \in Nat
BY ConvergentAssumption

(* What is counted are numbers.                                            *)
LEMMA Numbers ==
    ASSUME TypeInv
    PROVE  /\ round \in Nat /\ limit \in Nat /\ maxFix \in Nat
           /\ clean \in Nat /\ streak \in Nat /\ critics \in Nat
           /\ oscillation \in Nat /\ worse \in Nat /\ oscillation <= round
           /\ \A i \in DOMAIN registry : registry[i].attempts \in Nat
<1>1. round \in Nat /\ limit \in Nat /\ maxFix \in Nat
  BY Limits DEF TypeInv
<1>2. \A i \in DOMAIN registry : registry[i].attempts \in Nat
  BY Limits DEF TypeInv, Entries
<1> QED
  BY <1>1, <1>2 DEF TypeInv

(* The smaller and the larger of two numbers.                              *)
LEMMA MinMaxType ==
    ASSUME NEW a \in Nat, NEW b \in Nat
    PROVE  /\ Min({a, b}) = IF a <= b THEN a ELSE b
           /\ Max({a, b}) = IF a >= b THEN a ELSE b
BY DEF Min, Max

(* The registry after a round: whoever is still reported keeps its entry,  *)
(* and only an issue without one starts anew.                              *)
LEMMA RegistryRound ==
    ASSUME TypeInv, NEW found \in [Issues -> Nat],
           NEW kept \in Kept(Resolved(Of(found))),
           registry' = Recorded(Resolved(Of(found)), kept, found)
    PROVE  /\ DOMAIN registry' \in SUBSET Issues
           /\ registry' \in [DOMAIN registry' -> Entries]
           /\ Of(found) \subseteq DOMAIN registry'
           /\ \A i \in Of(found) : ~registry'[i].resolved
           /\ \A i \in DOMAIN registry' : 
                  \/ registry'[i].attempts = 0
                  \/ i \in DOMAIN registry /\ registry'[i].attempts = registry[i].attempts
           /\ \A i \in kept : i \in DOMAIN registry \cap DOMAIN registry'
                              /\ registry'[i].attempts = registry[i].attempts
           /\ \A i \in Of(found) \cap DOMAIN registry : ~registry[i].resolved => i \in kept
           /\ Cardinality(DOMAIN registry) <= MaxRegistryEntries => kept = DOMAIN registry
<1> DEFINE r == Resolved(Of(found))
<1>1. /\ DOMAIN r = DOMAIN registry
      /\ r \in [DOMAIN registry -> Entries]
      /\ \A i \in DOMAIN registry : r[i].attempts = registry[i].attempts
      /\ \A i \in DOMAIN registry : i \in Of(found) => r[i].resolved = registry[i].resolved
  BY DEF TypeInv, Resolved, Entries
<1>2. kept \subseteq DOMAIN r /\ \A i \in DOMAIN r : ~r[i].resolved => i \in kept
  BY DEF Kept
<1>3. ASSUME NEW i \in kept
      PROVE  /\ registry'[i] \in Entries
             /\ registry'[i].attempts = registry[i].attempts
             /\ i \in Of(found) => ~registry'[i].resolved
  <2>1. registry'[i] = [r[i] EXCEPT !.times = Min({@ + found[i], Patience}),
                                    !.resolved = @ /\ found[i] = 0]
    BY DEF Recorded
  <2>2. found[i] \in Nat /\ r[i] \in Entries /\ Patience \in Nat
    BY <1>1, <1>2, ConvergentAssumption DEF TypeInv, Patience
  <2>3. Min({r[i].times + found[i], Patience}) \in 0..Patience
    BY <2>2, MinMaxType DEF Entries
  <2>4. registry'[i] = [times |-> Min({r[i].times + found[i], Patience}),
                        attempts |-> r[i].attempts,
                        resolved |-> r[i].resolved /\ found[i] = 0]
    BY <2>1, <2>2 DEF Entries
  <2>5. registry'[i] \in Entries /\ registry'[i].attempts = r[i].attempts
    BY <2>2, <2>3, <2>4 DEF Entries
  <2>6. ASSUME i \in Of(found) PROVE ~registry'[i].resolved
    <3>1. found[i] > 0 /\ found[i] \in Int
      BY <2>2, <2>6, ConvergentAssumption DEF Of
    <3>2. ~(found[i] = 0)
      BY <3>1
    <3>3. registry'[i].resolved = (r[i].resolved /\ found[i] = 0)
      BY <2>4
    <3> QED
      BY <3>2, <3>3
  <2> QED
    BY <1>1, <1>2, <2>5, <2>6
<1>4. ASSUME NEW i \in Of(found) \ kept
      PROVE  registry'[i] \in Entries /\ registry'[i].attempts = 0 /\ ~registry'[i].resolved
  <2>1. registry'[i] = [times |-> Min({found[i], Patience}), attempts |-> 0, resolved |-> FALSE]
    BY DEF Recorded
  <2>2. Min({found[i], Patience}) \in 0..Patience
    BY MinMaxType, ConvergentAssumption DEF Of, Patience
  <2> QED
    BY <2>1, <2>2, ConvergentAssumption DEF Entries
<1>5. DOMAIN registry' = kept \cup Of(found) /\ kept \cup Of(found) \subseteq Issues
  BY <1>1, <1>2 DEF Recorded, TypeInv, Of
<1>6. registry' = [i \in DOMAIN registry' |-> registry'[i]]
  BY <1>5 DEF Recorded
<1>7. \A i \in DOMAIN registry' : registry'[i] \in Entries
  BY <1>3, <1>4, <1>5
<1>8. registry' \in [DOMAIN registry' -> Entries]
  BY <1>6, <1>7
<1>9. \A i \in Of(found) : ~registry'[i].resolved
  BY <1>3, <1>4
<1>10. \A i \in DOMAIN registry' :
          \/ registry'[i].attempts = 0
          \/ i \in DOMAIN registry /\ registry'[i].attempts = registry[i].attempts
  BY <1>1, <1>2, <1>3, <1>4, <1>5
<1>11. ASSUME Cardinality(DOMAIN registry) <= MaxRegistryEntries
       PROVE  kept = DOMAIN registry
  <2> DEFINE open == {i \in DOMAIN r : ~r[i].resolved}
             n == Cardinality(DOMAIN r)
  <2>1. IsFiniteSet(DOMAIN registry) /\ DOMAIN registry = DOMAIN r /\ open \subseteq DOMAIN r
    BY <1>1, ConvergentAssumption, FS_Subset DEF TypeInv
  <2>2. n \in Nat /\ Cardinality(open) \in Nat /\ MaxRegistryEntries \in Nat
    BY <2>1, FS_Subset, FS_CardinalityType, ConvergentAssumption
  <2>3. Cardinality(kept) = Crowd(n, Cardinality(open))
    BY DEF Kept
  <2>4. Crowd(n, Cardinality(open)) = n
    <3> HIDE DEF n, open
    <3>1. /\ Max({MaxRegistryEntries, Cardinality(open)}) \in Nat
          /\ Max({MaxRegistryEntries, Cardinality(open)}) >= MaxRegistryEntries
      BY <2>2, MinMaxType
    <3>2. n <= MaxRegistryEntries
      BY <1>11, <2>1 DEF n
    <3> QED
      BY <2>2, <3>1, <3>2, MinMaxType DEF Crowd
  <2>5. kept \in SUBSET DOMAIN registry /\ Cardinality(DOMAIN registry) = Cardinality(kept)
    BY <1>1, <1>2, <2>3, <2>4
  <2> QED
    BY <2>1, <2>5, FS_Subset
<1>12. \A i \in Of(found) \cap DOMAIN registry : ~registry[i].resolved => i \in kept
  BY <1>1, <1>2
<1>13. \A i \in kept : i \in DOMAIN registry \cap DOMAIN registry'
                      /\ registry'[i].attempts = registry[i].attempts
  BY <1>1, <1>2, <1>3, <1>5
<1> QED
  BY <1>5, <1>8, <1>9, <1>10, <1>11, <1>12, <1>13

(* Whether its checks or its review find the issues, a round ends by       *)
(* recording one set of reports.                                           *)
LEMMA RoundFinds ==
    Round => \E found \in [Issues -> 0..2 * MaxReports] :
                 \E kept \in Kept(Resolved(Of(found))) :
                     /\ RecordRound(found, kept) /\ Remembered(Of(found), kept)
                     /\ reports' = found
<1> SUFFICES ASSUME Round
             PROVE  \E found \in [Issues -> 0..2 * MaxReports] : Finish(found)
  BY DEF Finish
<1>1. PICK checks \in CheckReports, diagnostics \in Diagnostics :
          LET both == Both(checks, diagnostics) IN
          \/ Of(both) # {} /\ Finish(both)
          \/ Of(both) = {} /\ \E review \in ReviewReports : Finish(review)
  BY DEF Round
<1>2. /\ Both(checks, diagnostics) \in [Issues -> 0..2 * MaxReports]
      /\ ReviewReports \subseteq [Issues -> 0..2 * MaxReports]
  BY ConvergentAssumption DEF Both, CheckReports, Diagnostics, ReviewReports
<1> QED
  BY <1>1, <1>2

(* What a round may report are numbers of reports.                         *)
LEMMA FoundType == [Issues -> 0..2 * MaxReports] \subseteq [Issues -> Nat]
BY ConvergentAssumption

(* A round counts one oscillation at most.                                 *)
LEMMA CountedType ==
    ASSUME TypeInv, NEW current PROVE Counted(current) \in 0..oscillation + 1
BY DEF TypeInv, Counted

(* Types hold at the start.                                                *)
LEMMA TypeInit == Init => TypeInv
<1> SUFFICES ASSUME Init PROVE TypeInv
  OBVIOUS
<1>1. Cardinality(Issues) \in Nat
  BY ConvergentAssumption, FS_CardinalityType
<1>2. sizes = <<0>> /\ sizes \in Seq(0..Cardinality(Issues)) /\ Len(sizes) = 1
  BY <1>1 DEF Init
<1>3. limit = MaxRounds + extensions * ExtensionRounds /\ limit \in Nat
  BY Limits DEF Init
<1>4. DOMAIN registry = {} /\ registry \in [DOMAIN registry -> Entries]
  BY DEF Init
<1>5. 0 \in 0..2 * MaxReports /\ 0 \in 0..MaxIssuesPerBatch /\ 0 \in 0..MaxExtensions
      /\ 0 \in 0..limit /\ 1 \in 1..DriftWindow + 1
  BY <1>3, Limits, ConvergentAssumption
<1>6. reports \in [Issues -> 0..2 * MaxReports] /\ spent \in [Issues -> Nat]
  BY <1>5 DEF Init, Nothing
<1>7. /\ at \in {"head", "judge", "fix", "assess", "tail"} \cup Ends
      /\ extensions = 0 /\ round = 0 /\ maxFix \in FixAttempts
      /\ clean = 0 /\ streak = 0 /\ critics = 0 /\ oscillation = 0 /\ worse = 0
      /\ room = 0 /\ fixedOne \in BOOLEAN /\ unresolved = {} /\ previous = {}
  BY DEF Init
<1>8. Len(sizes) \in 1..DriftWindow + 1 /\ 0 \in 0..round
  BY <1>2, <1>5, <1>7
<1> QED
  BY <1>2, <1>3, <1>4, <1>5, <1>6, <1>7, <1>8 DEF TypeInv

(* The sizes of the last rounds fill a window.                             *)
LEMMA SizesType ==
    ASSUME TypeInv, NEW found \in [Issues -> Nat], NEW kept, RecordRound(found, kept)
    PROVE  sizes' \in Seq(0..Cardinality(Issues)) /\ Len(sizes') \in 1..DriftWindow + 1
<1> DEFINE S == 0..Cardinality(Issues)
           x == Cardinality(Of(found))
           seen == Append(sizes, x)
<1>1. x \in S
  BY ConvergentAssumption, FS_Subset, FS_CardinalityType DEF Of
<1>2. sizes \in Seq(S) /\ Len(sizes) \in 1..DriftWindow + 1 /\ DriftWindow \in Nat
  BY ConvergentAssumption DEF TypeInv
<1>3. sizes' = IF Len(seen) > DriftWindow + 1 THEN Tail(seen) ELSE seen
  BY DEF RecordRound
<1> HIDE DEF S, x
<1>4. seen \in Seq(S) /\ Len(seen) = Len(sizes) + 1
  BY <1>1, <1>2
<1> HIDE DEF seen
<1>5. Tail(seen) \in Seq(S) /\ Len(Tail(seen)) = Len(seen) - 1
  <2>1. seen # <<>>
    BY <1>2, <1>4
  <2> QED
    BY <1>4, <2>1
<1>6. sizes' \in Seq(S)
  BY <1>3, <1>4, <1>5
<1>7. Len(sizes') \in 1..DriftWindow + 1
  <2>1. Len(sizes) + 1 \in 2..DriftWindow + 2
    BY <1>2
  <2>2. CASE Len(seen) > DriftWindow + 1
    <3>1. Len(sizes') = Len(seen) - 1
      BY <1>3, <1>5, <2>2
    <3> QED
      BY <1>2, <1>4, <2>1, <2>2, <3>1
  <2>3. CASE ~(Len(seen) > DriftWindow + 1)
    BY <1>2, <1>3, <1>4, <2>1, <2>3
  <2> QED
    BY <2>2, <2>3
<1> QED
  BY <1>6, <1>7 DEF S

(* A round keeps the types.                                                *)
LEMMA RoundType == TypeInv /\ Round => TypeInv'
<1> SUFFICES ASSUME TypeInv, Round PROVE TypeInv'
  OBVIOUS
<1>0. PICK found \in [Issues -> 0..2 * MaxReports] : \E kept \in Kept(Resolved(Of(found))) :
          RecordRound(found, kept) /\ Remembered(Of(found), kept) /\ reports' = found
  BY RoundFinds
<1>1. PICK kept \in Kept(Resolved(Of(found))) :
          RecordRound(found, kept) /\ Remembered(Of(found), kept) /\ reports' = found
  BY <1>0
<1>2. found \in [Issues -> Nat] /\ registry' = Recorded(Resolved(Of(found)), kept, found)
  BY <1>1, FoundType DEF RecordRound
<1>3. DOMAIN registry' \in SUBSET Issues /\ registry' \in [DOMAIN registry' -> Entries]
  BY <1>2, RegistryRound
<1>4. sizes' \in Seq(0..Cardinality(Issues)) /\ Len(sizes') \in 1..DriftWindow + 1
  BY <1>1, <1>2, SizesType
<1>5. /\ at' = "judge" /\ round' = round + 1 /\ round < limit
      /\ UNCHANGED <<limit, extensions, room, fixedOne>>
  BY DEF Round, Goes
<1>6. /\ round \in Nat /\ limit \in Nat /\ round' \in 0..limit'
      /\ \A n \in 0..round : n \in 0..round' /\ n + 1 \in 0..round' /\ 0 \in 0..round'
  BY <1>5 DEF TypeInv
<1>7. clean' \in 0..round' /\ streak' \in 0..round' /\ critics' \in 0..round'
      /\ worse' \in 0..round'
  BY <1>1, <1>6 DEF RecordRound, CleanRound, DirtyRound, Remembered, TypeInv
<1>8. oscillation' \in 0..round'
  <2>1. Counted(Of(found)) \in 0..round'
    <3>1. Counted(Of(found)) \in 0..oscillation + 1 /\ oscillation \in Nat /\ oscillation <= round
      BY CountedType, Numbers
    <3> QED
      BY <1>5, <1>6, <3>1
  <2> QED
    BY <1>1, <1>6, <2>1 DEF RecordRound, CleanRound, DirtyRound
<1>9. /\ unresolved' \in SUBSET Issues /\ previous' \in SUBSET Issues /\ maxFix' = maxFix
  BY <1>1 DEF RecordRound, CleanRound, DirtyRound, Of
<1>10. spent' \in [Issues -> Nat]
  BY <1>1 DEF Remembered, TypeInv
<1> QED
  BY <1>1, <1>3, <1>4, <1>5, <1>6, <1>7, <1>8, <1>9, <1>10 DEF TypeInv

(* A fix keeps the types.                                                  *)
LEMMA FixType == TypeInv /\ (\E i \in Issues : Skip(i) \/ Fix(i)) => TypeInv'
<1> SUFFICES ASSUME TypeInv, NEW i \in Issues, Skip(i) \/ Fix(i) PROVE TypeInv'
  OBVIOUS
<1>1. /\ reports' \in [Issues -> 0..2 * MaxReports] /\ room' \in 0..MaxIssuesPerBatch
      /\ UNCHANGED <<at, round, limit, extensions>>
      /\ UNCHANGED <<maxFix, clean, oscillation, unresolved, previous, sizes>>
  <2>1. Takes(i)
    BY DEF Skip, Fix
  <2>2. reports[i] \in 0..2 * MaxReports /\ reports[i] > 0 /\ room \in 0..MaxIssuesPerBatch
        /\ room > 0 /\ MaxReports \in Nat /\ MaxIssuesPerBatch \in Nat
    BY <2>1, ConvergentAssumption DEF TypeInv, Takes
  <2>3. reports[i] - 1 \in 0..2 * MaxReports /\ room - 1 \in 0..MaxIssuesPerBatch
    BY <2>2
  <2> QED
    BY <2>1, <2>3 DEF TypeInv, Takes
<1>2. CASE Skip(i)
  BY <1>1, <1>2 DEF TypeInv, Skip, history
<1>3. CASE Fix(i)
  <2>1. DOMAIN registry' = DOMAIN registry /\ registry' \in [DOMAIN registry -> Entries]
    <3>1. registry' = [registry EXCEPT ![i].attempts = @ + 1]
      BY <1>3 DEF Fix
    <3>2. DOMAIN registry' = DOMAIN registry
      BY <3>1
    <3>3. ASSUME NEW j \in DOMAIN registry PROVE registry'[j] \in Entries
      <4>1. registry[j] \in Entries
        BY DEF TypeInv
      <4>2. j = i => registry'[j] = [registry[j] EXCEPT !.attempts = @ + 1]
        BY <3>1
      <4>3. j # i => registry'[j] = registry[j]
        BY <3>1
      <4>4. j = i => registry[j].attempts < StrategyCount
        BY <1>3, <4>1, ConvergentAssumption DEF Fix, Exhausted, Entries
      <4> QED
        BY <4>1, <4>2, <4>3, <4>4, ConvergentAssumption DEF Entries
    <3>4. registry' = [j \in DOMAIN registry |-> registry'[j]]
      BY <3>1
    <3> QED
      BY <3>2, <3>3, <3>4
  <2>2. streak' = 0 /\ critics' = 0 /\ spent' \in [Issues -> Nat] /\ fixedOne' \in BOOLEAN
        /\ worse' = worse /\ 0 \in 0..round
    BY <1>3 DEF TypeInv, Fix
  <2> QED
    BY <1>1, <2>1, <2>2 DEF TypeInv
<1> QED
  BY <1>2, <1>3

(* Every step keeps the types.                                             *)
LEMMA TypeStep == TypeInv /\ [Next]_vars => TypeInv'
<1> SUFFICES ASSUME TypeInv, [Next]_vars PROVE TypeInv'
  OBVIOUS
<1> USE DEF Goes, Ends
<1>1. CASE Round
  BY <1>1, RoundType
<1>2. CASE \E i \in Issues : Skip(i) \/ Fix(i)
  BY <1>2, FixType
<1>3. CASE Dirty
  <2>1. room' \in 0..MaxIssuesPerBatch
    BY <1>3, ConvergentAssumption DEF Dirty
  <2> QED
    BY <1>3, <2>1 DEF TypeInv, Dirty, state, history
<1>4. CASE EndBatch
  <2>1. room' \in 0..MaxIssuesPerBatch
    BY <1>4, ConvergentAssumption DEF EndBatch, TypeInv
  <2> QED
    BY <1>4, <2>1 DEF TypeInv, EndBatch, state, history
<1>5. CASE GoOn
  <2>1. reports' \in [Issues -> 0..2 * MaxReports]
    <3>1. 0 \in 0..2 * MaxReports
      BY Limits
    <3> QED
      BY <1>5, <3>1 DEF GoOn, Nothing
  <2> QED
    BY <1>5, <2>1 DEF TypeInv, GoOn, state, history
<1>6. CASE ReviewFails \/ Timeout
  <2>1. round' \in 0..limit /\ round' = round + 1 /\ \A n \in 0..round : n \in 0..round'
    BY <1>6 DEF ReviewFails, Timeout, TypeInv
  <2>2. UNCHANGED <<limit, extensions, state, work, history>> /\ at' \in Ends
    BY <1>6 DEF ReviewFails, Timeout
  <2> QED
    BY <2>1, <2>2 DEF TypeInv, state, work, history
<1>7. CASE Proceed
  <2>1. at' = "head" /\ UNCHANGED <<state, work, history>>
    BY <1>7 DEF Proceed
  <2>2. /\ extensions' \in 0..MaxExtensions
        /\ limit' = MaxRounds + extensions' * ExtensionRounds
        /\ limit' \in Nat /\ round' = round /\ round \in 0..limit'
    <3>1. MaxExtensions \in Nat /\ ExtensionRounds \in Nat
      BY ConvergentAssumption
    <3>2. CASE Extends
      <4>1. limit' = limit + ExtensionRounds /\ extensions' = extensions + 1
            /\ round' = round /\ extensions < MaxExtensions
        BY <1>7, <3>2 DEF Proceed, Grant, Extends
      <4>2. \A e, r \in Nat : (e + 1) * r = e * r + r
        OBVIOUS
      <4>3. extensions \in Nat /\ limit \in Nat /\ round \in 0..limit
            /\ limit = MaxRounds + extensions * ExtensionRounds
        BY <3>1 DEF TypeInv
      <4>4. (extensions + 1) * ExtensionRounds = extensions * ExtensionRounds + ExtensionRounds
        BY <3>1, <4>2, <4>3
      <4>5. extensions * ExtensionRounds \in Nat /\ MaxRounds \in Nat
        BY <3>1, <4>3, ConvergentAssumption
      <4> QED
        BY <3>1, <4>1, <4>3, <4>4, <4>5
    <3>3. CASE ~Extends
      BY <1>7, <3>3 DEF Proceed, TypeInv
    <3> QED
      BY <3>2, <3>3
  <2> QED
    BY <2>1, <2>2 DEF TypeInv, state, work, history
<1>8. CASE OutOfRounds \/ Stop \/ Clean \/ GiveUp
  <2>1. /\ UNCHANGED <<round, limit, extensions, state, work, history>>
        /\ at' \in {"tail"} \cup Ends
    BY <1>8 DEF OutOfRounds, Stop, Clean, GiveUp
  <2> QED
    BY <2>1 DEF TypeInv, state, work, history
<1>9. CASE UNCHANGED vars
  BY <1>9 DEF TypeInv, vars, state, work, history
<1> QED
  BY <1>1, <1>2, <1>3, <1>4, <1>5, <1>6, <1>7, <1>8, <1>9 DEF Next, Over

(* Every variable of a convergent verification keeps its type, and every   *)
(* counter its range, for any issues, limits and configuration the code    *)
(* accepts; what is spent on an issue is bounded by FixBudget.             *)
THEOREM TypeCorrect == Spec => []TypeInv
BY TypeInit, TypeStep, PTL DEF Spec

(* A verification converges only on code nobody touched since enough clean *)
(* rounds: streak and consecutive_clean are the same number because fixes  *)
(* only follow a dirty round, which sets both to 0.                        *)
LEMMA CleanInit == Init => CleanInv
BY DEF Init, CleanInv

(* Every step keeps the streak and the count of clean rounds together.     *)
LEMMA CleanStep == TypeInv /\ CleanInv /\ [Next]_vars => CleanInv'
<1> SUFFICES ASSUME TypeInv, CleanInv, [Next]_vars PROVE CleanInv'
  OBVIOUS
<1> USE DEF CleanInv, Goes
<1>1. CASE Round
  <2>0. PICK found \in [Issues -> 0..2 * MaxReports] : \E kept \in Kept(Resolved(Of(found))) :
            RecordRound(found, kept) /\ Remembered(Of(found), kept) /\ reports' = found
    BY <1>1, RoundFinds
  <2>1. PICK kept \in Kept(Resolved(Of(found))) :
            RecordRound(found, kept) /\ Remembered(Of(found), kept) /\ reports' = found
    BY <2>0
  <2>2. Of(reports)' = Of(found)
    BY <2>1 DEF Of
  <2>3. clean' = IF Of(found) = {} THEN clean + 1 ELSE 0
    BY <2>1 DEF RecordRound, CleanRound, DirtyRound
  <2>4. /\ streak' = IF Of(found) = {} THEN streak + 1 ELSE 0
        /\ Of(found) = {} => critics' = IF clean > 0 THEN critics + 1 ELSE critics
        /\ Of(found) # {} => critics' = 0
    BY <2>1 DEF Remembered, Adversarial
  <2> QED
    BY <1>1, <2>2, <2>3, <2>4 DEF Round, TypeInv
<1>2. CASE \E i \in Issues : Skip(i) \/ Fix(i)
  BY <1>2 DEF Skip, Fix, Takes, history, TypeInv
<1>3. CASE Dirty
  BY <1>3 DEF Dirty, state, history, Of
<1>4. CASE EndBatch
  BY <1>4 DEF EndBatch, state, history
<1>5. CASE GoOn
  BY <1>5 DEF GoOn, state, history
<1>6. CASE Clean
  BY <1>6 DEF Clean, state, history
<1>7. CASE ReviewFails \/ Timeout \/ OutOfRounds \/ Stop \/ GiveUp \/ Proceed
  BY <1>7 DEF ReviewFails, Timeout, OutOfRounds, Stop, GiveUp, Proceed, state, history
<1>8. CASE UNCHANGED vars
  BY <1>8 DEF vars, state, work, history, Of
<1> QED
  BY <1>1, <1>2, <1>3, <1>4, <1>5, <1>6, <1>7, <1>8 DEF Next, Over

(* Success is only reported for code in which nothing changed since the    *)
(* first of the required clean rounds.                                     *)
THEOREM ConvergesOnReviewedCode == Spec => []ConvergedOnReviewedCode
<1>1. TypeInv /\ CleanInv => ConvergedOnReviewedCode
  BY ConvergentAssumption DEF TypeInv, CleanInv, ConvergedOnReviewedCode
<1> QED
  BY <1>1, TypeInit, TypeStep, CleanInit, CleanStep, PTL DEF Spec

(* However issues come, go and come back, the agent is not set on one more *)
(* often than the configuration and the strategies allow until the         *)
(* registry, too full, forgets it.                                         *)
LEMMA BudgetInit == Init => BudgetInv
BY DEF Init, BudgetInv, Nothing

(* A round starts entries anew only for issues that had none, and keeps    *)
(* the attempts of the others, of those that were resolved too.            *)
LEMMA BudgetRound == TypeInv /\ BudgetInv /\ Round => BudgetInv'
<1> SUFFICES ASSUME TypeInv, BudgetInv, Round PROVE BudgetInv'
  OBVIOUS
<1>0. PICK found \in [Issues -> 0..2 * MaxReports] : \E kept \in Kept(Resolved(Of(found))) :
          RecordRound(found, kept) /\ Remembered(Of(found), kept) /\ reports' = found
  BY RoundFinds
<1>1. PICK kept \in Kept(Resolved(Of(found))) :
          RecordRound(found, kept) /\ Remembered(Of(found), kept) /\ reports' = found
  BY <1>0
<1>2. /\ found \in [Issues -> Nat] /\ registry' = Recorded(Resolved(Of(found)), kept, found)
      /\ previous' = Of(found) /\ maxFix' = maxFix
  BY <1>1, FoundType DEF RecordRound
<1>3. /\ Of(found) \subseteq DOMAIN registry'
      /\ \A i \in Of(found) : ~registry'[i].resolved
      /\ \A i \in DOMAIN registry' :
             \/ registry'[i].attempts = 0
             \/ i \in DOMAIN registry /\ registry'[i].attempts = registry[i].attempts
      /\ \A i \in kept : i \in DOMAIN registry \cap DOMAIN registry'
                         /\ registry'[i].attempts = registry[i].attempts
      /\ \A i \in Of(found) \cap DOMAIN registry : ~registry[i].resolved => i \in kept
      /\ Cardinality(DOMAIN registry) <= MaxRegistryEntries => kept = DOMAIN registry
  BY <1>2, RegistryRound
<1>4. \A i \in DOMAIN registry' :
          registry'[i].attempts <= maxFix' /\ registry'[i].attempts <= StrategyCount
  BY <1>2, <1>3, Limits, Numbers DEF BudgetInv
<1>5. ASSUME NEW i \in Issues, spent'[i] > 0
      PROVE  i \in DOMAIN registry' /\ spent'[i] <= registry'[i].attempts
  <2>1. spent'[i] = spent[i] /\ (i \in kept \/ ~MayForget(i, Of(found)))
    BY <1>1, <1>5 DEF Remembered
  <2>2. i \in DOMAIN registry /\ spent[i] <= registry[i].attempts
    BY <1>5, <2>1 DEF BudgetInv
  <2>3. i \in kept
    <3>1. CASE i \in previous \cap Of(found)
      BY <1>3, <2>2, <3>1 DEF BudgetInv
    <3>2. CASE ~(Cardinality(DOMAIN registry) > MaxRegistryEntries)
      <4>1. Cardinality(DOMAIN registry) \in Nat /\ MaxRegistryEntries \in Nat
        BY ConvergentAssumption, FS_Subset, FS_CardinalityType DEF TypeInv
      <4> QED
        BY <1>3, <2>2, <3>2, <4>1
    <3> QED
      BY <2>1, <3>1, <3>2 DEF MayForget
  <2> QED
    BY <1>3, <2>1, <2>2, <2>3
<1>6. Of(reports)' = previous'
  BY <1>1, <1>2 DEF Of
<1>7. \A i \in previous' : i \in DOMAIN registry' /\ ~registry'[i].resolved
  BY <1>2, <1>3
<1> QED
  BY <1>4, <1>5, <1>6, <1>7 DEF BudgetInv

(* A fix costs an attempt of each issue it is for, and no issue without    *)
(* one left is fixed.                                                      *)
LEMMA BudgetFix == TypeInv /\ BudgetInv /\ (\E i \in Issues : Fix(i)) => BudgetInv'
<1> SUFFICES ASSUME TypeInv, BudgetInv, NEW i \in Issues, Fix(i) PROVE BudgetInv'
  OBVIOUS
<1>1. /\ at = "fix" /\ at' = "fix" /\ i \in Of(reports)
      /\ registry' = [registry EXCEPT ![i].attempts = @ + 1]
      /\ spent' = [spent EXCEPT ![i] = @ + 1]
      /\ previous' = previous /\ maxFix' = maxFix
  BY DEF Fix, Takes, Of
<1>2. i \in DOMAIN registry /\ ~registry[i].resolved /\ registry[i] \in Entries
  BY <1>1 DEF BudgetInv, TypeInv
<1>3. /\ DOMAIN registry' = DOMAIN registry
      /\ \A j \in DOMAIN registry \ {i} : registry'[j] = registry[j]
  BY <1>1
<1>4. registry'[i].attempts = registry[i].attempts + 1 /\ ~registry'[i].resolved
  BY <1>1, <1>2 DEF Entries
<1>5. ~(registry[i].attempts >= maxFix) /\ ~(registry[i].attempts >= StrategyCount)
      /\ registry[i].attempts \in Nat /\ maxFix \in Nat /\ StrategyCount \in Nat
  BY <1>2, Limits, Numbers DEF Fix, Exhausted
<1>6. spent'[i] = spent[i] + 1 /\ spent[i] \in Nat /\ \A j \in Issues \ {i} : spent'[j] = spent[j]
  BY <1>1 DEF TypeInv
<1>7. \A j \in DOMAIN registry' :
          registry'[j].attempts <= maxFix' /\ registry'[j].attempts <= StrategyCount
  BY <1>1, <1>2, <1>3, <1>4, <1>5 DEF BudgetInv
<1>8. ASSUME NEW j \in Issues, spent'[j] > 0
      PROVE  j \in DOMAIN registry' /\ spent'[j] <= registry'[j].attempts
  <2>1. CASE j = i
    BY <1>2, <1>3, <1>4, <1>5, <1>6, <2>1 DEF BudgetInv
  <2>2. CASE j # i
    BY <1>3, <1>6, <1>8, <2>2 DEF BudgetInv
  <2> QED
    BY <2>1, <2>2
<1>9. \A j \in previous' : j \in DOMAIN registry' /\ ~registry'[j].resolved
  BY <1>1, <1>2, <1>3, <1>4 DEF BudgetInv
<1>10. Of(reports)' \subseteq previous'
  <2>1. Of(reports)' \subseteq Of(reports)
    BY ConvergentAssumption DEF Fix, Takes, Of, TypeInv
  <2> QED
    BY <1>1, <2>1 DEF BudgetInv
<1> QED
  BY <1>7, <1>8, <1>9, <1>10 DEF BudgetInv

(* Every step keeps the attempts within their budget.                      *)
LEMMA BudgetStep == TypeInv /\ BudgetInv /\ [Next]_vars => BudgetInv'
<1> SUFFICES ASSUME TypeInv, BudgetInv, [Next]_vars PROVE BudgetInv'
  OBVIOUS
<1>1. CASE Round
  BY <1>1, BudgetRound
<1>2. CASE \E i \in Issues : Fix(i)
  BY <1>2, BudgetFix
<1>3. CASE \E i \in Issues : Skip(i)
  <2>1. PICK i \in Issues : Skip(i)
    BY <1>3
  <2>2. Of(reports)' \subseteq Of(reports)
    BY <2>1, ConvergentAssumption DEF Skip, Takes, Of, TypeInv
  <2> QED
    BY <2>1, <2>2 DEF Skip, Takes, history, BudgetInv
<1>4. CASE Dirty
  <2>1. Of(reports) \subseteq previous
    BY <1>4 DEF Dirty, Goes, BudgetInv
  <2> QED
    BY <1>4, <2>1 DEF Dirty, Goes, state, history, Of, BudgetInv
<1>5. CASE EndBatch
  BY <1>5 DEF EndBatch, state, history, Of, BudgetInv
<1>6. CASE GoOn \/ Clean \/ ReviewFails \/ Timeout \/ OutOfRounds \/ Stop \/ GiveUp \/ Proceed
  BY <1>6 DEF GoOn, Clean, ReviewFails, Timeout, OutOfRounds, Stop, GiveUp, Proceed, Goes,
              state, history, BudgetInv
<1>7. CASE UNCHANGED vars
  BY <1>7 DEF vars, state, work, history, Of, BudgetInv
<1> QED
  BY <1>1, <1>2, <1>3, <1>4, <1>5, <1>6, <1>7 DEF Next, Over

(* No issue costs more fixes than max_fix_attempts_per_issue, or than      *)
(* there are strategies, from when it is first reported until a registry   *)
(* that holds too many issues forgets it after a round without it, however *)
(* often it is resolved and comes back in between.                         *)
THEOREM FixesWithinBudget == Spec => []FixBudget
<1>1. TypeInv /\ BudgetInv => FixBudget
  <2> SUFFICES ASSUME TypeInv, BudgetInv, NEW i \in Issues
               PROVE  spent[i] <= maxFix /\ spent[i] <= StrategyCount
    BY DEF FixBudget
  <2>1. spent[i] \in Nat /\ maxFix \in Nat /\ StrategyCount \in Nat
    BY Limits, Numbers DEF TypeInv
  <2>2. spent[i] > 0 => /\ i \in DOMAIN registry /\ spent[i] <= registry[i].attempts
                        /\ registry[i].attempts \in Nat
                        /\ registry[i].attempts <= maxFix /\ registry[i].attempts <= StrategyCount
    BY Numbers DEF BudgetInv
  <2> QED
    BY <2>1, <2>2
<1> QED
  BY <1>1, TypeInit, TypeStep, BudgetInit, BudgetStep, PTL DEF Spec

(* A verification ends as oscillating only after that many rounds without  *)
(* progress; that issues come back is never among the reasons.             *)
LEMMA WorseInit == Init => WorseInv
BY DEF Init, WorseInv, SameIssues

(* A round that raises the oscillation count had new issues and solved     *)
(* none.                                                                   *)
LEMMA WorseRound == TypeInv /\ WorseInv /\ Round => WorseInv'
<1> SUFFICES ASSUME TypeInv, WorseInv, Round PROVE WorseInv'
  OBVIOUS
<1>0. PICK found \in [Issues -> 0..2 * MaxReports] : \E kept \in Kept(Resolved(Of(found))) :
          RecordRound(found, kept) /\ Remembered(Of(found), kept) /\ reports' = found
  BY RoundFinds
<1>1. PICK kept \in Kept(Resolved(Of(found))) :
          RecordRound(found, kept) /\ Remembered(Of(found), kept) /\ reports' = found
  BY <1>0
<1> DEFINE current == Of(found)
<1>2. SameIssues'
  BY <1>1 DEF RecordRound, CleanRound, DirtyRound, SameIssues
<1>3. current \subseteq Issues /\ IsFiniteSet(current) /\ IsFiniteSet(unresolved)
  BY ConvergentAssumption, FS_Subset DEF Of, TypeInv
<1>4. CASE current = {}
  BY <1>1, <1>2, <1>4 DEF RecordRound, CleanRound, Remembered, WorseInv, Round, Goes
<1>5. CASE current # {}
  <2>1. oscillation' = Counted(current)
    BY <1>1, <1>5 DEF RecordRound, DirtyRound
  <2>2. worse' = IF previous \subseteq current /\ current # previous THEN worse + 1 ELSE worse
    BY <1>1, <1>5 DEF Remembered
  <2>3. IsFiniteSet(unresolved \ current) /\ IsFiniteSet(current \ unresolved)
    BY <1>3, FS_Difference
  <2>4. Cardinality(unresolved \ current) = 0 => unresolved \subseteq current
    BY <2>3, FS_EmptySet
  <2>5. Cardinality(current \ unresolved) > 0 => current # unresolved
    BY FS_EmptySet
  <2>6. (current \cap previous) \ unresolved = {}
    BY DEF WorseInv, SameIssues
  <2>7. oscillation' > oscillation => worse' = worse + 1
    BY <2>1, <2>2, <2>4, <2>5, <2>6 DEF Counted, WorseInv, SameIssues, TypeInv
  <2>8. /\ oscillation' \in Nat /\ oscillation' <= oscillation + 1
        /\ worse' >= worse /\ worse' \in Nat
    BY <2>1, <2>2, Numbers, CountedType
  <2>9. oscillation' <= worse'
    BY <2>7, <2>8, Numbers DEF WorseInv
  <2> QED
    BY <1>2, <2>9 DEF WorseInv, Round, Goes
<1> QED
  BY <1>4, <1>5

(* Every step keeps the oscillations behind the rounds that were worse.    *)
LEMMA WorseStep == TypeInv /\ WorseInv /\ [Next]_vars => WorseInv'
<1> SUFFICES ASSUME TypeInv, WorseInv, [Next]_vars PROVE WorseInv'
  OBVIOUS
<1>1. CASE Round
  BY <1>1, WorseRound
<1>2. CASE \E i \in Issues : Skip(i) \/ Fix(i)
  BY <1>2 DEF Skip, Fix, Takes, history, WorseInv, SameIssues
<1>3. CASE Stop
  BY <1>3 DEF Stop, MayStop, Oscillating, state, history, WorseInv, SameIssues
<1>4. CASE EndBatch
  BY <1>4 DEF EndBatch, state, history, WorseInv, SameIssues
<1>5. CASE Dirty \/ GoOn \/ Clean \/ ReviewFails \/ Timeout \/ OutOfRounds \/ GiveUp \/ Proceed
  BY <1>5 DEF Dirty, GoOn, Clean, ReviewFails, Timeout, OutOfRounds, GiveUp, Proceed, Goes,
              state, history, WorseInv, SameIssues
<1>6. CASE UNCHANGED vars
  BY <1>6 DEF vars, state, history, WorseInv, SameIssues
<1> QED
  BY <1>1, <1>2, <1>3, <1>4, <1>5, <1>6 DEF Next, Over

(* oscillation_count never exceeds the number of rounds that really were   *)
(* worse than the one before.                                              *)
THEOREM OscillationsAreReal == Spec => []OscillationReal
<1>1. TypeInv /\ WorseInv => OscillationReal
  BY Limits, Numbers DEF WorseInv, OscillationReal
<1> QED
  BY <1>1, TypeInit, TypeStep, WorseInit, WorseStep, PTL DEF Spec

(* The branch of record_round for issues that were resolved and came back  *)
(* is never taken.                                                         *)
THEOREM NothingComesBack == Spec => []SameIssues
<1>1. WorseInv => SameIssues
  BY DEF WorseInv
<1> QED
  BY <1>1, TypeInit, TypeStep, WorseInit, WorseStep, PTL DEF Spec
=============================================================================
