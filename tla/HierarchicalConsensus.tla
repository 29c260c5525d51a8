----------------------- MODULE HierarchicalConsensus -----------------------
(***************************************************************************)
(* One consensus of the adaptive executor                                  *)
(* (src/agent/multi/adaptive_consensus): a flat one, or tier after tier    *)
(* from the modules up, each with the results of the tiers below.  When a  *)
(* direction phase gave constraints, a tier that ends in conflict sends    *)
(* the consensus back to a tier it conflicts with, a bounded number of     *)
(* times.                                                                  *)
(***************************************************************************)
EXTENDS ConsensusRounds

CONSTANTS
    Workspaces,     \* workspaces a mission may be about
    MaxBacktracks   \* ConsensusConfig::max_backtracks

ASSUME ConsensusAssumption == MaxBacktracks \in Nat

VARIABLES
    at,            \* "select", "tier", "units", "done"
    strategy,      \* ConsensusStrategy
    constrained,   \* the direction phase gave constraints
    tier,          \* tier_idx + 1
    table,         \* all_tier_results: unit -> result
    attempts,      \* how often each unit was run
    backtracks,    \* backtrack_count
    outcome        \* ConsensusOutcome

vars == <<units, at, strategy, constrained, tier, table, attempts, backtracks, outcome>>

Current == strategy.tiers[tier]
AllUnits == UNION {strategy.tiers[k] : k \in DOMAIN strategy.tiers}
Below(k) == UNION {strategy.tiers[j] : j \in 1..k - 1}
TierOf(u) == CHOOSE k \in DOMAIN strategy.tiers : u \in strategy.tiers[k]
Results(us) == {<<u, table[u].attempt>> : u \in us}
Keep(us) == [u \in us |-> table[u]]

Init ==
    /\ units = <<>> /\ table = <<>> /\ attempts = <<>>
    /\ at = "select" /\ outcome = "running"
    /\ strategy = [kind |-> "none", tiers |-> <<>>]
    /\ constrained \in BOOLEAN
    /\ tier = 1 /\ backtracks = 0

(* execute and execute_with_constraints: too many files of no module end   *)
(* the consensus at once, otherwise the strategy follows from who is       *)
(* affected.                                                               *)
Select ==
    /\ at = "select"
    /\ \/ /\ at' = "done" /\ outcome' = "Escalated"
          /\ UNCHANGED <<strategy, attempts>>
       \/ \E ws \in Workspaces : \E modules \in SUBSET DOMAIN ws.group :
              /\ strategy' = Strategy(ws, modules)
              /\ attempts' = [u \in UNION {strategy'.tiers[k] : k \in DOMAIN strategy'.tiers} |-> 0]
              /\ at' = "tier" /\ UNCHANGED outcome
    /\ UNCHANGED <<units, constrained, tier, table, backtracks>>

(* execute_tier_internal starts the units of the tier together, with the   *)
(* results of all_tier_results among their findings.                       *)
BeginTier ==
    /\ at = "tier" /\ tier <= Len(strategy.tiers)
    /\ at' = "units"
    /\ units' = [u \in Current |-> Opened(u)]
    /\ attempts' = [u \in DOMAIN attempts |->
                        IF u \in Current THEN attempts[u] + 1 ELSE attempts[u]]
    /\ UNCHANGED <<strategy, constrained, tier, table, backtracks, outcome>>

UnitStep ==
    /\ at = "units"
    /\ \E u \in Current : StepOf(u) \/ TimeOut(u) \/ Deadline(u)
    /\ UNCHANGED <<at, strategy, constrained, tier, table, attempts, backtracks, outcome>>

(* detect_cross_tier_conflicts: a unit that did not converge and names a   *)
(* conflict.                                                               *)
TierResult(u) ==
    [agreed |-> units[u].result = "agreed", attempt |-> attempts[u],
     voices |-> Cardinality(units[u].proposals), below |-> Results(DOMAIN table)]
InConflict ==
    \E u \in DOMAIN units : units[u].result # "agreed" /\ units[u].conflict

TierEnds == at = "units" /\ strategy.kind = "hierarchical" /\ AllOver
MayBacktrack ==
    constrained /\ InConflict /\ tier > 1 /\ backtracks < MaxBacktracks

(* find_earliest_affected_tier: the first tier whose results the texts of  *)
(* the conflicts match, or the tier itself.  Its own results are dropped.  *)
FaultBacktrack ==
    /\ TierEnds /\ MayBacktrack
    /\ \E start \in 1..tier : tier' = start
    /\ UNCHANGED table
    /\ backtracks' = backtracks + 1 /\ at' = "tier" /\ units' = <<>>
    /\ UNCHANGED <<strategy, constrained, attempts, outcome>>
FaultStay ==
    /\ TierEnds /\ MayBacktrack
    /\ \E start \in 1..tier : table' = Keep(DOMAIN table \cap Below(start))
    /\ UNCHANGED tier
    /\ backtracks' = backtracks + 1 /\ at' = "tier" /\ units' = <<>>
    /\ UNCHANGED <<strategy, constrained, attempts, outcome>>
Backtrack ==
    /\ TierEnds /\ MayBacktrack
    /\ \E start \in 1..tier :
          /\ tier' = start
          /\ table' = Keep(DOMAIN table \cap Below(start))
    /\ backtracks' = backtracks + 1 /\ at' = "tier" /\ units' = <<>>
    /\ UNCHANGED <<strategy, constrained, attempts, outcome>>

Advance ==
    /\ TierEnds /\ ~MayBacktrack
    /\ table' = [u \in DOMAIN table \cup Current |->
                    IF u \in Current THEN TierResult(u) ELSE table[u]]
    /\ tier' = tier + 1 /\ at' = "tier" /\ units' = <<>>
    /\ UNCHANGED <<strategy, constrained, attempts, backtracks, outcome>>

(* determine_outcome.                                                      *)
Outcome ==
    IF \A u \in DOMAIN table : table[u].agreed THEN "Converged"
    ELSE IF \A u \in DOMAIN table \cap strategy.tiers[Len(strategy.tiers)] : table[u].agreed
    THEN "PartialConvergence" ELSE "Failed"
Conclude ==
    /\ at = "tier" /\ tier > Len(strategy.tiers)
    /\ at' = "done" /\ outcome' = Outcome
    /\ UNCHANGED <<units, strategy, constrained, tier, table, attempts, backtracks>>

(* execute_direct and execute_flat: unpack_consensus_result.               *)
Unpacked(result) ==
    CASE result = "agreed" -> "Converged"
      [] result = "partial" -> "PartialConvergence"
      [] result = "none" -> "Failed"
      [] result = "error" -> "error"
Unpack ==
    /\ at = "units" /\ strategy.kind # "hierarchical" /\ AllOver
    /\ at' = "done"
    /\ \E u \in Current : outcome' = Unpacked(units[u].result)
    /\ UNCHANGED <<units, strategy, constrained, tier, table, attempts, backtracks>>

Next ==
    \/ Select \/ BeginTier \/ UnitStep
    \/ Backtrack \/ Advance \/ Conclude \/ Unpack

Spec == Init /\ [][Next]_vars

(* Agents answer or run into per_agent_timeout_secs and the loops are      *)
(* driven by one task: what can go on goes on.  Neither timeout has to     *)
(* come.                                                                   *)
Progress == Next /\ (at = "units" => AllOver \/ \E u \in Current : StepOf(u))
FairSpec == Spec /\ WF_vars(Progress)
-----------------------------------------------------------------------------
(* The type of the variables.                                              *)
TypeOK ==
    /\ at \in {"select", "tier", "units", "done"}
    /\ strategy.kind \in {"none", "direct", "flat", "hierarchical"}
    /\ constrained \in BOOLEAN
    /\ tier \in 1..Len(strategy.tiers) + 1 /\ backtracks \in 0..MaxBacktracks
    /\ DOMAIN table \subseteq DOMAIN attempts
    /\ \A u \in DOMAIN attempts : attempts[u] \in 0..MaxBacktracks + 1
    /\ outcome \in {"running", "Escalated", "Converged", "PartialConvergence", "Failed",
                    "error"}
    /\ DOMAIN units \subseteq DOMAIN attempts
    /\ \A u \in DOMAIN units :
          /\ units[u].phase \in {"round", "synthesis", "over"}
          /\ units[u].round \in 1..MaxRounds
          /\ units[u].proposals \subseteq units[u].members \cap Pool
          /\ units[u].result \in {"running", "agreed", "partial", "none", "error",
                                  "timeout"}
          /\ units[u].phase = "over" <=> units[u].result # "running"

(* A result that counts was made from the results of the tiers below that  *)
(* count: a backtrack leaves none that was made from a dropped one.        *)
ResultsCurrent ==
    \A u \in DOMAIN table :
        LET below == Below(TierOf(u)) IN
        below \subseteq DOMAIN table /\ table[u].below = Results(below)

(* A hierarchical consensus that reports an outcome has a result of the    *)
(* last run of every unit of every tier.                                   *)
TableComplete ==
    at = "done" /\ strategy.kind = "hierarchical" =>
        Results(DOMAIN table) = {<<u, attempts[u]>> : u \in AllUnits}

(* No unit agrees unheard: in a unit that converged an agent of the pool   *)
(* answered, and in one that exchanges no proposals min_participants did.  *)
Heard(u, n) == n >= IF Collective(u) THEN 1 ELSE MinParticipants
AgreementHeard ==
    /\ \A u \in DOMAIN units :
          units[u].result = "agreed" => Heard(u, Cardinality(units[u].proposals))
    /\ \A u \in DOMAIN table : table[u].agreed => Heard(u, table[u].voices)

(* A consensus comes to an outcome, however often its tiers conflict.      *)
ConsensusEnds == <>(at = "done")
=============================================================================
