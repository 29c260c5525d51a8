---------------------------- MODULE Coordinator ----------------------------
(***************************************************************************)
(* One mission of the multi-agent coordinator                              *)
(* (src/agent/multi/coordinator/execution.rs): research, consensus or      *)
(* planning, implementation, verification, under a timeout that drops      *)
(* whatever is going on.  The consensus is a module of its own; here it is *)
(* an outcome and a list of tasks.                                         *)
(***************************************************************************)
EXTENDS Implementation, CleanRounds

CONSTANTS
    Agreed,        \* task lists a consensus may agree on
    Extracted,     \* task lists made of the findings of the research
    MaxAttempts    \* HumanEscalationConfig::max_retries_per_level

ASSUME CoordinatorAssumption ==
    MaxAttempts \in Nat \ {0} /\ Agreed \cup Extracted \subseteq TaskLists

VARIABLES
    at,           \* where the mission is
    adaptive,     \* dynamic_mode, with an executor and a workspace
    escalations,  \* EscalationHistory: how often the mission was escalated
    report        \* "none", or what execute_mission returned

vars == <<work, rounds, at, adaptive, escalations, report>>

Goes(from, to) == at = from /\ at' = to
Ends(result) == at' = "done" /\ report' = result

(* determine_level.  The coordinator's conflict is always a critical one,  *)
(* so that the first level, a retry with other agents, is never taken.     *)
Levels == <<"ScopeReduction", "ArchitecturalMediation", "SplitAndConquer",
            "HumanEscalation">>
Level ==
    LET k == 1 + escalations \div MaxAttempts IN
    IF k <= Len(Levels) THEN Levels[k] ELSE "HumanEscalation"

Init ==
    /\ InitWork /\ InitRounds
    /\ at = "health" /\ report = "none"
    /\ adaptive \in BOOLEAN
    /\ escalations \in 0..Len(Levels) * MaxAttempts

UnchangedWork == UNCHANGED <<work, rounds, adaptive, escalations>>

(* execute_adaptive_mission asks for the health of the agents first.       *)
CheckHealth ==
    /\ at = "health"
    /\ \/ at' = "research" /\ UNCHANGED report
       \/ adaptive /\ Ends("error")
    /\ UnchangedWork

(* A research that fails is a blocker; its error ends the mission.         *)
Research ==
    /\ at = "research"
    /\ \/ at' = (IF adaptive THEN "consensus" ELSE "planning") /\ UNCHANGED report
       \/ \E r \in {"failure", "error"} : Ends(r)
    /\ UnchangedWork

(* A planning that fails adds a blocker too, but nothing looks at it.      *)
Implement(list) == BeginWork(list) /\ at' = "implementation"
                /\ UNCHANGED <<rounds, adaptive, report>>
Plan ==
    /\ at = "planning"
    /\ \/ \E list \in Extracted : Implement(list) /\ UNCHANGED escalations
       \/ Ends("error") /\ UnchangedWork

(* run_adaptive_consensus and process_hierarchical_result.                 *)
Consensus ==
    /\ at = "consensus"
    /\ \/ \E list \in Agreed \cup Extracted : Implement(list) /\ UNCHANGED escalations
       \/ at' = "escalation" /\ UnchangedWork /\ UNCHANGED report
       \/ Ends("error") /\ UnchangedWork

(* Scope reduction implements the tasks of a failed consensus that do not  *)
(* conflict, and it has none; mediation and ordering implement the tasks   *)
(* extracted from the findings.                                            *)
Escalate ==
    /\ at = "escalation"
    /\ \/ Level = "HumanEscalation" /\ Ends("human") /\ UNCHANGED <<work, rounds, adaptive>>
       \/ Level = "ScopeReduction" /\ Implement(<<>>)
       \/ /\ Level \in {"ArchitecturalMediation", "SplitAndConquer"}
          /\ \E list \in Extracted : Implement(list)
    /\ escalations' = escalations + 1

WorkStep == at = "implementation" /\ NextWork
         /\ UNCHANGED <<rounds, at, adaptive, escalations, report>>

Verify ==
    /\ Goes("implementation", "verification")
    /\ ForgetWork /\ BeginRounds
    /\ UNCHANGED <<adaptive, escalations, report>>

VerifyStep == at = "verification" /\ NextRounds
           /\ UNCHANGED <<work, at, adaptive, escalations, report>>

(* run_verification_and_finalize: the mission succeeded if the rounds      *)
(* converged, whatever became of its tasks.                                *)
Finalize ==
    /\ at = "verification"
    /\ \/ review = "over" /\ Ends(IF Converged THEN "success" ELSE "failure")
       \/ review = "error" /\ Ends("error")
    /\ UnchangedWork

(* The timeout of execute_mission.                                         *)
Timeout ==
    /\ at # "done" /\ Ends("timeout")
    /\ DropWork
    /\ UNCHANGED <<rounds, adaptive, escalations>>

Progress ==
    \/ CheckHealth \/ Research \/ Plan \/ Consensus \/ Escalate
    \/ WorkStep \/ Verify \/ VerifyStep \/ Finalize
Next == Progress \/ Timeout

Spec == Init /\ [][Next]_vars
(* The coordinator goes on, and every agent answers: each call of an agent *)
(* has a timeout of its own.  Nothing is assumed of the mission's timeout. *)
FairSpec == Spec /\ WF_vars(Progress)

-----------------------------------------------------------------------------
TypeOK ==
    /\ tasks \in TaskLists /\ missing \subseteq NewFiles /\ parallel \in BOOLEAN
    /\ leases \in [Paths -> Tasks \cup {Unleased}]
    /\ stage \in {"idle", "partition", "independent", "dependent", "over"}
    /\ step \in {"acquire", "batch", "sequence"}
    /\ order \in Seq(Tasks) /\ queue \in Seq(Tasks) /\ Range(queue) \subseteq Range(order)
    /\ held \subseteq Range(order) /\ running \subseteq Range(order)
    /\ out \in [Tasks -> Results] \cup {<<>>}
    /\ retry \in 0..MaxDeferred
    /\ settled \in [Tasks -> Seq(Results)]
    /\ review \in Range(Reviewers) \cup {"idle", "round", "judge", "fix", "over", "error"}
    /\ total \in 0..MaxRounds /\ clean \in 0..total
    /\ found \in Seq(Issues) /\ attempts \in [Issues -> Nat] /\ passed \in BOOLEAN
    /\ unanimous \in 0..total /\ unchanged \in 0..total
    /\ at \in {"health", "research", "planning", "consensus", "escalation",
               "implementation", "verification", "done"}
    /\ adaptive \in BOOLEAN
    /\ escalations \in 0..Len(Levels) * MaxAttempts + 1
    /\ report \in {"none", "success", "failure", "human", "error", "timeout"}

(* File ownership prevents conflicts: agents that work at the same time    *)
(* never have a path in common, nor a file under two spellings unless it   *)
(* did not exist when the tasks were partitioned; and no more of them work *)
(* than the permits allow.                                                 *)
ExclusiveFiles ==
    /\ \A t, u \in running : t # u =>
        \A p \in Range(tasks[t].files), q \in Range(tasks[u].files) :
            p # q /\ (Resolved[p] = Resolved[q] => Resolved[p] \in missing)
    /\ Cardinality(running) <= Permits

(* A dependent task waits until everything it depends on was tried, in     *)
(* this round or an earlier one.                                           *)
DependenciesFirst ==
    \A t \in running : stage = "dependent" /\ retry = 0 /\ ~CyclicTasks =>
        \A d \in tasks[t].deps \cap Tasks : settled[d] # <<>> \/ out[d] # "none"

(* Whatever was deferred and retried, the verification starts with exactly *)
(* one final result for every task.                                        *)
SettledOnce ==
    at = "implementation" /\ stage = "over" => \A t \in Tasks : Len(settled[t]) = 1

(* Leases are held by the tasks of the batch, from its acquisition on and  *)
(* until it is over, and a mission that is timed out leaves none behind.   *)
NoLeaseLeft ==
    \A p \in Paths : leases[p] # Unleased =>
        /\ at = "implementation" /\ step # "sequence"
        /\ leases[p] \in held

(* A mission that succeeds ends with as many reviews of its final code as  *)
(* are required: nothing was changed after the first of the clean rounds.  *)
ReviewedFinalCode ==
    report = "success" => unchanged >= Required

(* Deferrals and fixes do not go on forever: a mission ends even if it is  *)
(* never timed out.                                                        *)
MissionEnds == <>(at = "done")

(* The rounds that made a mission a success were clean: build, tests, lint *)
(* and reviews passed in each of them.                                     *)
CleanMeansPassed == report = "success" => unanimous >= Required
=============================================================================
