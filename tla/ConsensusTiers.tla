--------------------------- MODULE ConsensusTiers ---------------------------
(***************************************************************************)
(* Who takes part in a consensus and in which units                        *)
(* (src/agent/multi/hierarchy): the modules of the affected files, the     *)
(* coordinators of their groups and domains, and from them one flat unit   *)
(* or a hierarchy of tiers.                                                *)
(*                                                                         *)
(* A workspace is [group, domain]: the group of each module, the domain of *)
(* each group, or None.  Ids are values of their own, so that an agent is  *)
(* its id: AgentId::module, group_coordinator and domain_coordinator.      *)
(***************************************************************************)
EXTENDS Naturals, FiniteSets, Sequences

CONSTANTS
    None,            \* a module without group, a group without domain
    FlatThreshold,   \* flat_threshold
    DeepThreshold,   \* hierarchical_threshold
    Visible          \* tiers of tier_cross_visibility

ASSUME TiersAssumption == FlatThreshold \in Nat /\ DeepThreshold \in Nat

(* ParticipantSelector::select.                                            *)
Groups(ws, modules) == {ws.group[m] : m \in modules} \ {None}
Domains(ws, modules) == {ws.domain[g] : g \in Groups(ws, modules)} \ {None}

GroupCoordinators(ws, modules) ==
    IF Cardinality(modules) > 1 THEN Groups(ws, modules) ELSE {}
DomainCoordinators(ws, modules) ==
    IF Cardinality(Groups(ws, modules)) > 1 THEN Domains(ws, modules) ELSE {}

Participants(ws, modules) ==
    modules \cup GroupCoordinators(ws, modules) \cup DomainCoordinators(ws, modules)

(* ConsensusUnit: a unit is its tier, the id it is made for and who is     *)
(* asked.  is_collective: its members see each other's proposals.          *)
Unit(tier, id, members) == [tier |-> tier, id |-> id, members |-> members]
Collective(u) == u.tier \in Visible /\ Cardinality(u.members) > 1

ModuleUnits(ws, modules) ==
    {Unit("module", g, {m \in modules : ws.group[m] = g}) :
        g \in {ws.group[m] : m \in modules}}
GroupUnits(ws, modules) ==
    {Unit("group", g, {m \in modules : ws.group[m] = g}) :
        g \in GroupCoordinators(ws, modules)}
DomainUnits(ws, modules) ==
    {Unit("domain", d, {g \in GroupCoordinators(ws, modules) : ws.domain[g] = d}) :
        d \in DomainCoordinators(ws, modules)}
WorkspaceUnits(ws, modules) ==
    IF DomainCoordinators(ws, modules) = {} THEN {}
    ELSE {Unit("workspace", None, DomainCoordinators(ws, modules))}

(* build_hierarchical for a workspace: the tiers that have units.          *)
Tier(units) == IF units = {} THEN <<>> ELSE <<units>>
Tiers(ws, modules) ==
    Tier(ModuleUnits(ws, modules)) \o Tier(GroupUnits(ws, modules)) \o
    Tier(DomainUnits(ws, modules)) \o Tier(WorkspaceUnits(ws, modules))

FlatUnit(ws, modules) == Unit("flat", None, Participants(ws, modules))

(* StrategySelector::select.  Direct is a flat unit with one participant   *)
(* that nobody may join.                                                   *)
Strategy(ws, modules) ==
    LET count == Cardinality(Participants(ws, modules))
        deep == \/ count > DeepThreshold
                \/ Cardinality(Groups(ws, modules)) > 2
                \/ Cardinality(DomainCoordinators(ws, modules)) > 1
    IN IF count > 1 /\ count > FlatThreshold /\ deep
       THEN [kind |-> "hierarchical", tiers |-> Tiers(ws, modules)]
       ELSE [kind |-> IF count = 1 THEN "direct" ELSE "flat",
             tiers |-> <<{FlatUnit(ws, modules)}>>]
=============================================================================
