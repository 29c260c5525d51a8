-------------------------- MODULE ConsensusRounds --------------------------
(***************************************************************************)
(* The rounds of the consensus units of one tier                           *)
(* (src/agent/multi/consensus/rounds.rs, proposals.rs): the units run side *)
(* by side, each asks its members again until the synthesis of their       *)
(* answers agrees, blocks, or the rounds or the time are over.             *)
(***************************************************************************)
EXTENDS ConsensusTiers

CONSTANTS
    Pool,             \* agents the pool finds
    MaxRounds,        \* ConsensusConfig::max_rounds
    MinParticipants,  \* ConsensusConfig::min_participants
    Statuses          \* what a synthesis may say in "consensus"

ASSUME RoundsAssumption ==
    MaxRounds \in Nat \ {0} /\ MinParticipants \in Nat \ {0} /\ IsFiniteSet(Pool)

VARIABLE units   \* the units that run: unit -> session

(* ConsensusSession and, at its end, the ConsensusResult as the tier sees  *)
(* it: "agreed", "partial" or "none", "error" or "timeout", with or        *)
(* without conflicts.                                                      *)
Opened(u) ==
    [phase |-> "round", round |-> 1, members |-> u.members, proposals |-> {},
     late |-> FALSE, said |-> "nothing", result |-> "running", conflict |-> FALSE]

Going(u, phase) == u \in DOMAIN units /\ units[u].phase = phase
AllOver == \A u \in DOMAIN units : units[u].phase = "over"

Closed(session, result, conflict) ==
    [session EXCEPT !.phase = "over", !.result = result, !.conflict = conflict]
Becomes(u, session) == units' = [units EXCEPT ![u] = session]

(* The agents a unit asks: those of its members the pool knows.            *)
Asked(u) == units[u].members \cap Pool

(* consensus_timeout_secs passes; tier_timeout_secs drops a unit of a tier.*)
Deadline(u) ==
    /\ u \in DOMAIN units /\ ~Collective(u)
    /\ units[u].phase # "over" /\ ~units[u].late
    /\ Becomes(u, [units[u] EXCEPT !.late = TRUE])

TimeOut(u) ==
    /\ u \in DOMAIN units /\ u.tier # "flat" /\ units[u].phase # "over"
    /\ Becomes(u, Closed(units[u], "timeout", TRUE))

(* The checks before a round and before its synthesis.                     *)
GiveUp(u) ==
    /\ Going(u, "round") \/ Going(u, "synthesis")
    /\ ~Collective(u) /\ units[u].late
    /\ Becomes(u, Closed(units[u], "none", FALSE))

(* collect_scored_proposals: who fails or is late does not count.          *)
Collect(u) ==
    /\ Going(u, "round") /\ ~Collective(u) /\ ~units[u].late
    /\ \E answers \in SUBSET Asked(u) :
           LET asked == [units[u] EXCEPT !.proposals = answers] IN
           Becomes(u, IF Cardinality(answers) < MinParticipants
                      THEN Closed(asked, "none", FALSE)
                      ELSE [asked EXCEPT !.phase = "synthesis"])

(* execute_round after the synthesis.  An agreement comes before the       *)
(* blocking conflicts; the last round may leave a partial one.  The agents *)
(* the synthesis asked for have joined before that.                        *)
Agrees(said) == said = "agreed"
FaultUncounted(session, said, some, blocked) ==
    IF Agrees(said) THEN Closed(session, "agreed", FALSE)
    ELSE IF blocked THEN Closed(session, "none", TRUE)
    ELSE [session EXCEPT !.phase = "round"]
Judged(session, said, some, blocked) ==
    IF Agrees(said) THEN Closed(session, "agreed", FALSE)
    ELSE IF blocked THEN Closed(session, "none", TRUE)
    ELSE IF session.round < MaxRounds
    THEN [session EXCEPT !.phase = "round", !.round = @ + 1]
    ELSE Closed(session, IF said = "partial_agreement" THEN "partial" ELSE "none", some)

Joinable(u) == IF u.tier = "flat" /\ Cardinality(u.members) = 1 THEN {} ELSE Pool

Synthesize(u) ==
    /\ Going(u, "synthesis") /\ ~Collective(u) /\ ~units[u].late
    /\ \/ Becomes(u, Closed(units[u], "error", TRUE))
       \/ \E said \in Statuses, some \in BOOLEAN, blocked \in BOOLEAN,
             joined \in SUBSET Joinable(u) :
              /\ blocked => some
              /\ Becomes(u, Judged([units[u] EXCEPT !.members = @ \cup joined,
                                                    !.said = said],
                                   said, some, blocked))

(* collect_with_cross_visibility: the proposals are kept from round to     *)
(* round, and at most one of them is no disagreement.                      *)
Exchange(u) ==
    /\ Going(u, "round") /\ Collective(u)
    /\ \E answers \in SUBSET Asked(u), alike \in BOOLEAN :
           LET all == units[u].proposals \cup answers
               ends == alike \/ Cardinality(all) <= 1 \/ units[u].round = MaxRounds
           IN Becomes(u, [units[u] EXCEPT
                              !.proposals = all,
                              !.round = IF ends THEN @ ELSE @ + 1,
                              !.phase = IF ends THEN "synthesis" ELSE @])

(* synthesize_from_enhanced_proposals: check_convergence compares the      *)
(* proposals, and one alone converges.                                     *)
FaultCompare(u) ==
    /\ Going(u, "synthesis") /\ Collective(u)
    /\ IF Cardinality(units[u].proposals) <= 1
       THEN Becomes(u, Closed(units[u], "agreed", FALSE))
       ELSE \/ Becomes(u, Closed(units[u], "agreed", FALSE))
            \/ Becomes(u, Closed(units[u], "none", TRUE))
Compare(u) ==
    /\ Going(u, "synthesis") /\ Collective(u)
    /\ \/ units[u].proposals = {} /\ Becomes(u, Closed(units[u], "none", FALSE))
       \/ units[u].proposals # {} /\ Becomes(u, Closed(units[u], "agreed", FALSE))
       \/ /\ Cardinality(units[u].proposals) > 1
          /\ \/ Becomes(u, Closed(units[u], "none", TRUE))
             \/ \E some \in BOOLEAN : Becomes(u, Closed(units[u], "partial", some))

StepOf(u) == GiveUp(u) \/ Collect(u) \/ Synthesize(u) \/ Exchange(u) \/ Compare(u)
=============================================================================
