---------------------------- MODULE CleanRounds ----------------------------
(***************************************************************************)
(* The verification loop of a coordinator's mission                        *)
(* (src/agent/multi/coordinator/verification.rs): rounds of reviews and    *)
(* fixes until enough of them in a row reported no issue.  An issue is the *)
(* key its text is reduced to (normalize_issue_key).                       *)
(***************************************************************************)
EXTENDS Naturals, Sequences, FiniteSets, SequencesExt

CONSTANTS
    Issues,
    Reviewers,    \* the agents a round asks, in order; the verifier last
    Required,     \* required_clean_rounds
    MaxRounds,    \* max_rounds
    MaxFix        \* max_fix_attempts_per_issue

ASSUME CleanRoundsAssumption ==
    /\ IsFiniteSet(Issues)
    /\ Required \in Nat \ {0, 1} /\ MaxRounds \in Nat \ {0} /\ MaxFix \in Nat
    /\ Reviewers \in Seq(STRING) \ {<<>>}
    /\ Range(Reviewers) \cap {"idle", "round", "judge", "fix", "over", "error"} = {}

VARIABLES
    review,      \* "idle", "round", a reviewer, "judge", "fix", "over" or "error"
    total,       \* total_rounds
    clean,       \* consecutive_clean
    found,       \* round_issues, in order
    attempts,    \* fix_attempts
    passed,      \* every agent asked in this round answered that all is well
    unanimous,   \* rounds in a row in which that was so
    unchanged    \* rounds in a row since a fix was attempted

rounds == <<review, total, clean, found, attempts, passed, unanimous, unchanged>>

(* The verifier is asked last.                                             *)
Verifier == Last(Reviewers)
After(r) ==
    IF r = Verifier THEN "judge"
    ELSE Reviewers[1 + CHOOSE k \in DOMAIN Reviewers : Reviewers[k] = r]

InitRounds ==
    /\ review = "idle" /\ total = 0 /\ clean = 0
    /\ found = <<>> /\ attempts = [i \in Issues |-> 0]
    /\ passed = TRUE /\ unanimous = 0 /\ unchanged = 0

BeginRounds == review = "idle" /\ review' = "round"
            /\ UNCHANGED <<total, clean, found, attempts, passed, unanimous, unchanged>>

Going == clean < Required /\ total < MaxRounds

(* Every third round asks for the health of the agents first, and a        *)
(* critical one ends the loop.                                             *)
NextRound ==
    /\ review = "round" /\ Going
    /\ total' = total + 1
    /\ \/ review' = Head(Reviewers)
       \/ total' % 3 = 0 /\ review' = "over"
    /\ found' = <<>> /\ passed' = TRUE
    /\ UNCHANGED <<clean, attempts, unanimous, unchanged>>

EndRounds ==
    /\ review = "round" /\ ~Going
    /\ review' = "over"
    /\ UNCHANGED <<total, clean, found, attempts, passed, unanimous, unchanged>>

(* A review that passes has no issues; one that fails may not name any; an *)
(* error of an agent is no review, but ends the mission if it is the       *)
(* verifier's.                                                             *)
Review ==
    /\ review \in Range(Reviewers)
    /\ \/ review' = After(review) /\ UNCHANGED <<found, passed>>
       \/ \E issues \in SUBSET Issues :
            /\ review' = After(review)
            /\ found' = found \o SetToSeq(issues)
            /\ passed' = FALSE
       \/ /\ review' = IF review = Verifier THEN "error" ELSE After(review)
          /\ passed' = FALSE
          /\ UNCHANGED found
    /\ UNCHANGED <<total, clean, attempts, unanimous, unchanged>>

FaultJudge ==
    /\ review = "judge"
    /\ \/ found = <<>> /\ clean' = clean + 1 /\ review' = "round"
       \/ found # <<>> /\ review' = "fix" /\ UNCHANGED clean
    /\ unanimous' = IF passed THEN unanimous + 1 ELSE 0
    /\ unchanged' = unchanged + 1
    /\ UNCHANGED <<total, found, attempts, passed>>
Judge ==
    /\ review = "judge"
    /\ \/ found = <<>> /\ clean' = clean + 1 /\ review' = "round"
       \/ found # <<>> /\ clean' = 0 /\ review' = "fix"
    /\ unanimous' = IF passed THEN unanimous + 1 ELSE 0
    /\ unchanged' = unchanged + 1
    /\ UNCHANGED <<total, found, attempts, passed>>

(* The same issue reported twice in a round is tried, and counted, twice.  *)
Fix ==
    /\ review = "fix" /\ found # <<>>
    /\ found' = Tail(found)
    /\ attempts' = [attempts EXCEPT ![Head(found)] = @ + 1]
    /\ unchanged' = IF attempts'[Head(found)] <= MaxFix THEN 0 ELSE unchanged
    /\ UNCHANGED <<review, total, clean, passed, unanimous>>

EndFixes ==
    /\ review = "fix" /\ found = <<>>
    /\ review' = "round"
    /\ UNCHANGED <<total, clean, found, attempts, passed, unanimous, unchanged>>

NextRounds == NextRound \/ EndRounds \/ Review \/ Judge \/ Fix \/ EndFixes

Converged == clean >= Required
Verdict ==
    IF Converged THEN "Passed"
    ELSE IF clean > 0 THEN "PartialPass"
    ELSE IF total >= MaxRounds THEN "Timeout" ELSE "Failed"
=============================================================================
