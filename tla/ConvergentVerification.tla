----------------------- MODULE ConvergentVerification -----------------------
(***************************************************************************)
(* ConvergentVerifier (src/verification/convergent): rounds of checks and  *)
(* review, with fixes after the dirty ones, until enough rounds in a row   *)
(* are clean, the rounds or the time are over, the issues go round in      *)
(* circles or nobody can solve them.                                       *)
(***************************************************************************)
EXTENDS Integers, Sequences, FiniteSetsExt

CONSTANTS
    Issues,          \* Issue::signature
    Hopeless,        \* those whose signature holds 401, 403 or 404
    MaxReports,      \* bound: how often one round reports one issue
    StrategyCount,   \* FixStrategy::all_strategies().len()
    StatisticalAttempts,   \* fix attempts that mark an issue unsolvable
    \* ConvergentVerificationConfig; MaxExtensions is 0 where not allowed
    RequiredClean, MaxRounds, MaxIssuesPerBatch, AutoFix,
    FixAttempts,     \* values of max_fix_attempts_per_issue
    OscillationThreshold, OscillationGrace, RegressionBuffer,
    DriftWindow, MaxRegistryEntries, PersistentThreshold,
    ExtensionRounds, MaxExtensions

ASSUME ConvergentAssumption ==
    /\ IsFiniteSet(Issues) /\ Hopeless \subseteq Issues
    /\ RequiredClean \in Nat \ {0, 1} /\ MaxRounds \in Nat \ {0} /\ AutoFix \in BOOLEAN
    /\ MaxIssuesPerBatch \in Nat \ {0} /\ PersistentThreshold \in Nat \ {0}
    /\ {MaxReports, StrategyCount, StatisticalAttempts, OscillationThreshold,
        OscillationGrace, RegressionBuffer, DriftWindow, MaxRegistryEntries,
        ExtensionRounds, MaxExtensions} \cup FixAttempts \subseteq Nat

VARIABLES
    at,           \* "head", "judge", "fix", "assess", "tail" or how it ended
    round, limit, extensions,   \* round, effective_max_rounds, extensions_granted
    maxFix,       \* max_fix_attempts_per_issue, of the configuration
    clean,        \* consecutive_clean
    oscillation,  \* oscillation_count
    unresolved, previous,       \* signatures, of ConvergenceState
    sizes,        \* drift_history, as the issue counts its scores lie between
    registry,     \* issue_registry: issue -> [times, attempts, resolved]
    reports,      \* the issues of the round still to fix: issue -> how often
    room,         \* what is left of the batch
    fixedOne,     \* a fix of this round succeeded
    streak, critics, spent, worse   \* history, see Init

state == <<maxFix, clean, oscillation, unresolved, previous, sizes, registry>>
work == <<reports, room, fixedOne>>
history == <<streak, critics, spent, worse>>
vars == <<at, round, limit, extensions, state, work, history>>

Goes(from, to) == at = from /\ at' = to
Ends == {"converged", "not_converged", "oscillating", "early_terminated", "error"}
Nothing == [i \in Issues |-> 0]
Of(found) == {i \in Issues : found[i] > 0}

(* streak counts the clean rounds since an agent last touched the code,    *)
(* critics the adversarial reviews among them; spent the agent runs on an  *)
(* issue since it was last forgotten with good reason; worse the rounds    *)
(* since the last clean one that brought issues and resolved none.         *)
Init ==
    /\ at = "head" /\ round = 0 /\ limit = MaxRounds /\ extensions = 0
    /\ maxFix \in FixAttempts
    /\ clean = 0 /\ oscillation = 0 /\ unresolved = {} /\ previous = {}
    /\ sizes = <<0>> /\ registry = <<>>
    /\ reports = Nothing /\ room = 0 /\ fixedOne = FALSE
    /\ streak = 0 /\ critics = 0 /\ spent = Nothing /\ worse = 0

(* update_from_signatures: issues that are gone become resolved, and       *)
(* resolved ones are forgotten, in any order, while there are too many.    *)
Resolved(current) ==
    [i \in DOMAIN registry |->
        [registry[i] EXCEPT !.resolved = @ \/ i \in previous \ current]]

Crowd(n, least) == Min({n, Max({MaxRegistryEntries, least})})
FaultKept(r) == {kept \in SUBSET DOMAIN r : Cardinality(kept) = Crowd(Cardinality(DOMAIN r), 0)}
Kept(r) ==
    LET open == {i \in DOMAIN r : ~r[i].resolved} IN
    {kept \in SUBSET DOMAIN r :
        /\ open \subseteq kept
        /\ Cardinality(kept) = Crowd(Cardinality(DOMAIN r), Cardinality(open))}

(* record_issue, once for every report; occurrences count as far as        *)
(* check_early_termination looks.                                          *)
Patience == PersistentThreshold + 2
FaultRecorded(r, kept, found) ==
    [i \in kept \cup Of(found) |->
        IF i \in kept /\ (r[i].resolved => found[i] = 0)
        THEN [r[i] EXCEPT !.times = Min({@ + found[i], Patience})]
        ELSE [times |-> Min({found[i], Patience}), attempts |-> 0, resolved |-> FALSE]]
Recorded(r, kept, found) ==
    [i \in kept \cup Of(found) |->
        IF i \in kept
        THEN [r[i] EXCEPT !.times = Min({@ + found[i], Patience}), !.resolved = @ /\ found[i] = 0]
        ELSE [times |-> Min({found[i], Patience}), attempts |-> 0, resolved |-> FALSE]]

(* The oscillation count after a dirty round.                              *)
Counted(current) ==
    LET gone == Cardinality(unresolved \ current)
        fresh == Cardinality(current \ unresolved)
        back == (current \cap previous) \ unresolved
    IN IF \/ back # {} /\ round' > OscillationGrace
          \/ fresh > 0 /\ gone = 0 /\ round' > OscillationGrace + RegressionBuffer
       THEN oscillation + 1
       ELSE IF gone > fresh /\ oscillation > 0 THEN oscillation - 1 ELSE oscillation

FaultCleanRound == clean' = clean + 1 /\ unresolved' = {} /\ UNCHANGED oscillation
CleanRound == clean' = clean + 1 /\ unresolved' = {} /\ oscillation' = 0

FaultDirtyRound(current) ==
    unresolved' = current /\ oscillation' = Counted(current) /\ UNCHANGED clean
DirtyRound(current) == unresolved' = current /\ oscillation' = Counted(current) /\ clean' = 0

(* ConvergenceState::record_round; kept is what the registry remembers.    *)
RecordRound(found, kept) ==
    LET current == Of(found)
        seen == Append(sizes, Cardinality(current))
    IN /\ registry' = Recorded(Resolved(current), kept, found)
       /\ sizes' = IF Len(seen) > DriftWindow + 1 THEN Tail(seen) ELSE seen
       /\ previous' = current
       /\ IF current = {} THEN CleanRound ELSE DirtyRound(current)
       /\ UNCHANGED maxFix

(* The registry has good reason to forget an issue only while it holds too *)
(* many and after a round has missed it.                                   *)
MayForget(i, current) ==
    Cardinality(DOMAIN registry) > MaxRegistryEntries /\ i \notin previous \cap current

Adversarial == clean > 0
Remembered(current, kept) ==
    /\ streak' = IF current = {} THEN streak + 1 ELSE 0
    /\ critics' = IF current # {} THEN 0 ELSE IF Adversarial THEN critics + 1 ELSE critics
    /\ spent' = [i \in Issues |->
                    IF i \notin kept /\ MayForget(i, current) THEN 0 ELSE spent[i]]
    /\ worse' = IF current = {} THEN 0
                ELSE IF previous \subseteq current /\ current # previous THEN worse + 1 ELSE worse

(* What a source may report: a failed check at least one issue, a language *)
(* server the diagnostics of the changed files, the review what it objects *)
(* to, each dimension of its checklist that failed included.               *)
CheckReports == [Issues -> 0..MaxReports]
Diagnostics == [Issues -> 0..MaxReports]
ReviewReports == [Issues -> 0..MaxReports]
Both(checks, diagnostics) == [i \in Issues |-> checks[i] + diagnostics[i]]

Finish(found) ==
    /\ \E kept \in Kept(Resolved(Of(found))) :
           RecordRound(found, kept) /\ Remembered(Of(found), kept)
    /\ reports' = found

(* A round: the review only looks at code without other issues.            *)
Round ==
    /\ round < limit /\ Goes("head", "judge") /\ round' = round + 1
    /\ \E checks \in CheckReports, diagnostics \in Diagnostics :
           LET both == Both(checks, diagnostics) IN
           \/ Of(both) # {} /\ Finish(both)
           \/ Of(both) = {} /\ \E review \in ReviewReports : Finish(review)
    /\ UNCHANGED <<limit, extensions, room, fixedOne>>

(* run_ai_review fails: the error ends the verification.                   *)
ReviewFails ==
    /\ round < limit /\ Goes("head", "error") /\ round' = round + 1
    /\ UNCHANGED <<limit, extensions, state, work, history>>

Timeout ==
    /\ round < limit /\ Goes("head", "not_converged") /\ round' = round + 1
    /\ UNCHANGED <<limit, extensions, state, work, history>>

OutOfRounds ==
    /\ round >= limit /\ Goes("head", "not_converged")
    /\ UNCHANGED <<round, limit, extensions, state, work, history>>

(* should_terminate_oscillation: the model decides where the drift of the  *)
(* last rounds does not.                                                   *)
Net == sizes[1] - sizes[Len(sizes)]
Trend ==
    IF Len(sizes) <= 2 THEN 0
    ELSE sizes[Max({1, Len(sizes) - 3})] - sizes[Len(sizes)]
Oscillating == oscillation >= OscillationThreshold
MayStop == Oscillating /\ ~(Trend > 0 /\ Net > 0)
MayGoOn == ~(Oscillating /\ Trend < -1 /\ oscillation >= OscillationThreshold + 2)

Stop ==
    /\ MayStop /\ Goes("judge", "oscillating")
    /\ UNCHANGED <<round, limit, extensions, state, work, history>>

Clean ==
    /\ MayGoOn /\ Of(reports) = {}
    /\ Goes("judge", IF clean >= RequiredClean THEN "converged" ELSE "tail")
    /\ UNCHANGED <<round, limit, extensions, state, work, history>>

Dirty ==
    /\ MayGoOn /\ Of(reports) # {}
    /\ Goes("judge", IF AutoFix THEN "fix" ELSE "tail")
    /\ room' = MaxIssuesPerBatch /\ fixedOne' = FALSE
    /\ UNCHANGED <<round, limit, extensions, state, reports, history>>

(* fix_batch skips an issue once its attempts are used up or, as every     *)
(* strategy taken was untried, once there are as many as strategies.       *)
FaultExhausted(i) == registry[i].attempts >= maxFix
Exhausted(i) ==
    registry[i].attempts >= maxFix \/ registry[i].attempts >= StrategyCount

Takes(i) ==
    /\ at = "fix" /\ reports[i] > 0 /\ room > 0
    /\ reports' = [reports EXCEPT ![i] = @ - 1] /\ room' = room - 1
    /\ UNCHANGED <<at, round, limit, extensions>>
    /\ UNCHANGED <<maxFix, clean, oscillation, unresolved, previous, sizes>>

Skip(i) == Takes(i) /\ Exhausted(i) /\ UNCHANGED <<registry, fixedOne, history>>

Fix(i) ==
    /\ Takes(i) /\ ~Exhausted(i)
    /\ registry' = [registry EXCEPT ![i].attempts = @ + 1]
    /\ \E success \in BOOLEAN : fixedOne' = (fixedOne \/ success)
    /\ streak' = 0 /\ critics' = 0 /\ spent' = [spent EXCEPT ![i] = @ + 1]
    /\ UNCHANGED worse

(* fix_issues_batched: after a batch with a fix, passing checks are enough.*)
EndBatch ==
    /\ at = "fix" /\ (room = 0 \/ Of(reports) = {})
    /\ \/ Of(reports) = {} /\ at' = "assess" /\ UNCHANGED room
       \/ Of(reports) # {} /\ fixedOne /\ at' = "assess" /\ UNCHANGED room
       \/ Of(reports) # {} /\ at' = "fix" /\ room' = MaxIssuesPerBatch
    /\ UNCHANGED <<round, limit, extensions, state, reports, fixedOne, history>>

(* check_early_termination: of the issues seen too often, signals settle   *)
(* some and the model the others.                                          *)
Candidates == {i \in DOMAIN registry : registry[i].times >= Patience /\ ~registry[i].resolved}
Unsolvable(i) == i \in Hopeless \/ registry[i].attempts >= StatisticalAttempts

GiveUp ==
    /\ Candidates # {} /\ Goes("assess", "early_terminated")
    /\ UNCHANGED <<round, limit, extensions, state, work, history>>

GoOn ==
    /\ Candidates = {} \/ \E i \in Candidates : ~Unsolvable(i)
    /\ Goes("assess", "tail") /\ reports' = Nothing
    /\ UNCHANGED <<round, limit, extensions, state, room, fixedOne, history>>

(* The end of a round: more rounds, while there is progress.               *)
Extends ==
    round = limit /\ extensions < MaxExtensions /\ ~Oscillating /\ Net > 0

FaultGrant == limit' = limit /\ round' = round - ExtensionRounds /\ UNCHANGED extensions
Grant == limit' = limit + ExtensionRounds /\ extensions' = extensions + 1 /\ UNCHANGED round

Proceed ==
    /\ Goes("tail", "head")
    /\ IF Extends THEN Grant ELSE UNCHANGED <<round, limit, extensions>>
    /\ UNCHANGED <<state, work, history>>

Over == at \in Ends /\ UNCHANGED vars

Next ==
    \/ Round \/ ReviewFails \/ Timeout \/ OutOfRounds
    \/ Stop \/ Clean \/ Dirty
    \/ \E i \in Issues : Skip(i) \/ Fix(i)
    \/ EndBatch \/ GiveUp \/ GoOn \/ Proceed \/ Over

Spec == Init /\ [][Next]_vars

(* Every step is bounded by a timeout of its own: of the check commands,   *)
(* of the agent run or of the fix.                                         *)
FairSpec == Spec /\ WF_vars(Next)
-----------------------------------------------------------------------------
(* A verification converges only on code nobody touched since the last     *)
(* RequiredClean clean rounds, all of whose reviews but the first were     *)
(* adversarial.                                                            *)
ConvergedOnReviewedCode ==
    at = "converged" => streak >= RequiredClean /\ critics >= RequiredClean - 1

(* However often an issue is reported, resolved and reported again, the    *)
(* agent is set on it at most max_fix_attempts_per_issue times, and once   *)
(* per strategy: strategies are used up, they do not cycle.  Only an issue *)
(* that a round has missed, in a registry that holds too many, gets a new  *)
(* budget.                                                                 *)
FixBudget ==
    \A i \in Issues : spent[i] <= maxFix /\ spent[i] <= StrategyCount

(* A verification given up as oscillating really got worse, in the count   *)
(* of the threshold, since its last clean round.                           *)
OscillationReal == at = "oscillating" => worse >= OscillationThreshold

(* With rounds granted for progress and fixes that break other things,     *)
(* every verification still comes to an end.                               *)
VerificationEnds == <>(at \in Ends)
=============================================================================
