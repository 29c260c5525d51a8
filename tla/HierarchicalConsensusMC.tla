---------------------- MODULE HierarchicalConsensusMC ----------------------
(***************************************************************************)
(* Instances of HierarchicalConsensus for TLC: two modules without a       *)
(* group, two in one group, so that every unit can converge, and three in  *)
(* two groups of a domain, whose coordinators no pool knows.               *)
(***************************************************************************)
EXTENDS HierarchicalConsensus, TLC
CONSTANTS m1, m2, m3, g1, g2, d1

Loose == [group |-> (m1 :> None) @@ (m2 :> None), domain |-> <<>>]
OneGroup == [group |-> (m1 :> g1) @@ (m2 :> g1), domain |-> (g1 :> None)]
OneDomain == [group |-> (m1 :> g1) @@ (m2 :> g1) @@ (m3 :> g2),
              domain |-> (g1 :> d1) @@ (g2 :> d1)]
All == {Loose, OneGroup, OneDomain}
Seeing == {"module", "workspace"}
Registered == {m1, m2, m3}
Answers == {"agreed", "partial_agreement", "no_agreement"}
=============================================================================
