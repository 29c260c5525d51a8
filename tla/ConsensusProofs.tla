-------------------------- MODULE ConsensusProofs --------------------------
(***************************************************************************)
(* Theorems about HierarchicalConsensus for any workspaces, agents, tiers  *)
(* and bounds: its types; that the results a consensus keeps were made     *)
(* from results it keeps, and at its end are those of the last run of      *)
(* every unit; and that no unit agrees unheard.                            *)
(***************************************************************************)
EXTENDS HierarchicalConsensus, ProofLemmas

(* No unit is in two tiers.                                                *)
Apart(tiers) ==
    \A j, k \in DOMAIN tiers : j # k => tiers[j] \cap tiers[k] = {}

(* A strategy is either undecided, or has tiers that are apart; without a  *)
(* hierarchy it has one, of a flat unit.                                   *)
StrategyInv ==
    /\ strategy.kind \in {"none", "direct", "flat", "hierarchical"}
    /\ \E S : strategy.tiers \in Seq(SUBSET S)
    /\ Apart(strategy.tiers)
    /\ strategy.kind \in {"direct", "flat"} =>
           /\ Len(strategy.tiers) = 1
           /\ \E u : strategy.tiers[1] = {u} /\ u.tier = "flat"
    /\ strategy.kind = "none" => strategy.tiers = <<>>

(* Where the consensus is; the units that run are those of its tier.       *)
PhaseInv ==
    /\ at \in {"select", "tier", "units", "done"} /\ constrained \in BOOLEAN
    /\ tier \in 1..Len(strategy.tiers) + 1
    /\ outcome \in {"running", "Escalated", "Converged", "PartialConvergence", "Failed",
                    "error"}
    /\ at = "select" => strategy.kind = "none"
    /\ at \in {"tier", "units"} => strategy.kind # "none"
    /\ strategy.kind # "hierarchical" => tier = 1
    /\ at = "units" => tier <= Len(strategy.tiers)
    /\ at \in {"select", "tier"} => units = <<>>
    /\ DOMAIN units \subseteq AllUnits
    /\ at = "units" => DOMAIN units = Current
    /\ at = "done" /\ strategy.kind = "hierarchical" => tier = Len(strategy.tiers) + 1

(* The table holds the results of all tiers below the current one, each of *)
(* the last run of its unit and made from those of the tiers below it.     *)
TableInv ==
    /\ DOMAIN table = Below(tier)
    /\ \A u \in DOMAIN table : table[u].attempt = attempts[u]
    /\ ResultsCurrent

(* A unit is run once for each time the consensus came back below it: one  *)
(* that is still to run was run at most once per backtrack.                *)
AttemptsInv ==
    /\ DOMAIN attempts = AllUnits /\ backtracks \in 0..MaxBacktracks
    /\ \A u \in AllUnits :
          /\ attempts[u] \in Nat /\ attempts[u] <= backtracks + 1
          /\ at \in {"select", "tier"} /\ u \notin Below(tier) => attempts[u] <= backtracks
          /\ at = "units" /\ u \notin Below(tier) \cup Current => attempts[u] <= backtracks

(* The session of a unit: its proposals are those of members of the pool,  *)
(* a synthesis has enough of them, and only a unit of a tier times out.    *)
Sessions(u) ==
    [phase : {"round", "synthesis", "over"}, round : 1..MaxRounds,
     members : SUBSET (u.members \cup Pool), proposals : SUBSET Pool, late : BOOLEAN,
     said : Statuses \cup {"nothing"},
     result : {"running", "agreed", "partial", "none", "error", "timeout"},
     conflict : BOOLEAN]
SessionOK(u, s) ==
    /\ s \in Sessions(u) /\ s.proposals \subseteq s.members
    /\ s.phase = "over" <=> s.result # "running"
    /\ s.phase = "synthesis" /\ ~Collective(u) => Heard(u, Cardinality(s.proposals))
    /\ s.result = "agreed" => Heard(u, Cardinality(s.proposals))
    /\ u.tier = "flat" => s.result # "timeout"
UnitsInv == \A u \in DOMAIN units : SessionOK(u, units[u])
VoicesInv == \A u \in DOMAIN table : table[u].agreed => Heard(u, table[u].voices)

IInv ==
    /\ StrategyInv /\ PhaseInv /\ TableInv /\ AttemptsInv /\ UnitsInv /\ VoicesInv
-----------------------------------------------------------------------------
(* Two sequences of tiers that are apart, one after the other.             *)
LEMMA ApartConcat ==
    ASSUME NEW S, NEW s \in Seq(SUBSET S), NEW t \in Seq(SUBSET S), Apart(s), Apart(t),
           \A a \in Range(s), b \in Range(t) : a \cap b = {}
    PROVE  /\ s \o t \in Seq(SUBSET S) /\ Apart(s \o t)
           /\ Range(s \o t) = Range(s) \cup Range(t)
PROOF
<1>1. /\ s \o t \in Seq(SUBSET S) /\ Len(s) \in Nat /\ Len(t) \in Nat
      /\ DOMAIN s = 1..Len(s) /\ DOMAIN t = 1..Len(t)
      /\ DOMAIN (s \o t) = 1..(Len(s) + Len(t))
      /\ \A i \in 1..Len(s) : (s \o t)[i] = s[i]
      /\ \A i \in 1..Len(s) + Len(t) : i > Len(s) => (s \o t)[i] = t[i - Len(s)]
  OBVIOUS
<1> DEFINE c == s \o t
<1>2. \A i \in 1..Len(s) : c[i] = s[i] /\ s[i] \in Range(s)
  BY <1>1 DEF Range
<1>3. \A i \in 1..Len(s) + Len(t) : i > Len(s) =>
          /\ i - Len(s) \in 1..Len(t) /\ c[i] = t[i - Len(s)]
          /\ t[i - Len(s)] \in Range(t)
  BY <1>1 DEF Range
<1>4. Range(c) = Range(s) \cup Range(t)
  BY ConcatRange
<1> HIDE DEF c
<1>5. ASSUME NEW j \in 1..Len(s) + Len(t), NEW k \in 1..Len(s) + Len(t), j < k
      PROVE  c[j] \cap c[k] = {}
  <2>1. CASE k <= Len(s)
    BY <1>1, <1>2, <1>5, <2>1 DEF Apart
  <2>2. CASE j > Len(s)
    <3>1. j - Len(s) \in 1..Len(t) /\ k - Len(s) \in 1..Len(t) /\ j - Len(s) # k - Len(s)
      BY <1>1, <1>5, <2>2
    <3>2. c[j] = t[j - Len(s)] /\ c[k] = t[k - Len(s)]
      BY <1>1, <1>3, <1>5, <2>2
    <3>3. t[j - Len(s)] \cap t[k - Len(s)] = {}
      BY <1>1, <3>1, Zenon DEF Apart
    <3> QED
      BY <3>2, <3>3
  <2>3. CASE j <= Len(s) /\ k > Len(s)
    <3>1. c[j] \in Range(s) /\ c[k] \in Range(t)
      BY <1>1, <1>2, <1>3, <2>3
    <3> QED
      BY <3>1
  <2> QED
    BY <1>1, <2>1, <2>2, <2>3
<1>6. Apart(c)
  <2> SUFFICES ASSUME NEW j \in 1..Len(s) + Len(t), NEW k \in 1..Len(s) + Len(t), j # k
               PROVE  c[j] \cap c[k] = {}
    BY <1>1 DEF Apart, c
  <2>1. j < k \/ k < j
    BY <1>1
  <2> QED
    BY <1>5, <2>1
<1> QED
  BY <1>1, <1>4, <1>6 DEF c

(* The tiers of a workspace are apart: a unit knows its tier.              *)
LEMMA TiersApart ==
    ASSUME NEW ws, NEW modules
    PROVE  Apart(Tiers(ws, modules)) /\ \E S : Tiers(ws, modules) \in Seq(SUBSET S)
PROOF
<1> DEFINE M == ModuleUnits(ws, modules)
           G == GroupUnits(ws, modules)
           D == DomainUnits(ws, modules)
           W == WorkspaceUnits(ws, modules)
           S == M \cup G \cup D \cup W
<1>1. /\ \A u \in M : u.tier = "module"
      /\ \A u \in G : u.tier = "group"
      /\ \A u \in D : u.tier = "domain"
      /\ \A u \in W : u.tier = "workspace"
  BY DEF ModuleUnits, GroupUnits, DomainUnits, WorkspaceUnits, Unit
<1>2. M \cap G = {} /\ M \cap D = {} /\ M \cap W = {} /\ G \cap D = {} /\ G \cap W = {}
      /\ D \cap W = {}
  <2> HIDE DEF M, G, D, W
  <2> QED
    BY <1>1
<1>3. Tiers(ws, modules) = ((Tier(M) \o Tier(G)) \o Tier(D)) \o Tier(W)
  BY DEF Tiers
<1>4. ASSUME NEW X \in SUBSET S
      PROVE  Tier(X) \in Seq(SUBSET S) /\ Apart(Tier(X)) /\ \A a \in Range(Tier(X)) : a = X
  <2> HIDE DEF S
  <2>1. CASE X = {}
    BY <2>1 DEF Tier, Apart, Range
  <2>2. CASE X # {}
    <3>1. Tier(X) = <<X>> /\ DOMAIN <<X>> = 1..1 /\ <<X>>[1] = X /\ <<X>> \in Seq(SUBSET S)
      BY <2>2 DEF Tier
    <3> QED
      BY <3>1 DEF Apart, Range
  <2> QED
    BY <2>1, <2>2
<1>5. M \in SUBSET S /\ G \in SUBSET S /\ D \in SUBSET S /\ W \in SUBSET S
  OBVIOUS
<1> HIDE DEF M, G, D, W, S
<1>6. /\ Tier(M) \in Seq(SUBSET S) /\ Apart(Tier(M)) /\ \A a \in Range(Tier(M)) : a = M
      /\ Tier(G) \in Seq(SUBSET S) /\ Apart(Tier(G)) /\ \A a \in Range(Tier(G)) : a = G
      /\ Tier(D) \in Seq(SUBSET S) /\ Apart(Tier(D)) /\ \A a \in Range(Tier(D)) : a = D
      /\ Tier(W) \in Seq(SUBSET S) /\ Apart(Tier(W)) /\ \A a \in Range(Tier(W)) : a = W
  BY <1>4, <1>5
<1> DEFINE two == Tier(M) \o Tier(G)
           three == two \o Tier(D)
<1>7. two \in Seq(SUBSET S) /\ Apart(two) /\ \A a \in Range(two) : a \in {M, G}
  <2>1. \A a \in Range(Tier(M)), b \in Range(Tier(G)) : a \cap b = {}
    BY <1>2, <1>6
  <2>2. two \in Seq(SUBSET S) /\ Apart(two) /\ Range(two) = Range(Tier(M)) \cup Range(Tier(G))
    BY <1>6, <2>1, ApartConcat
  <2> QED
    BY <1>6, <2>2
<1> HIDE DEF two
<1>8. three \in Seq(SUBSET S) /\ Apart(three) /\ \A a \in Range(three) : a \in {M, G, D}
  <2>1. \A a \in Range(two), b \in Range(Tier(D)) : a \cap b = {}
    BY <1>2, <1>6, <1>7
  <2>2. /\ three \in Seq(SUBSET S) /\ Apart(three)
        /\ Range(three) = Range(two) \cup Range(Tier(D))
    BY <1>6, <1>7, <2>1, ApartConcat
  <2> QED
    BY <1>6, <1>7, <2>2
<1> HIDE DEF three
<1>9. three \o Tier(W) \in Seq(SUBSET S) /\ Apart(three \o Tier(W))
  <2>1. \A a \in Range(three), b \in Range(Tier(W)) : a \cap b = {}
    BY <1>2, <1>6, <1>8
  <2> QED
    BY <1>6, <1>8, <2>1, ApartConcat
<1> QED
  BY <1>3, <1>9 DEF two, three

(* What a mission's strategy may be.                                       *)
LEMMA StrategyIs ==
    ASSUME NEW ws, NEW modules, strategy' = Strategy(ws, modules)
    PROVE  StrategyInv' /\ strategy'.kind # "none"
PROOF
<1>1. CASE strategy' = [kind |-> "hierarchical", tiers |-> Tiers(ws, modules)]
  <2> DEFINE T == Tiers(ws, modules)
  <2>1. strategy'.kind = "hierarchical" /\ strategy'.tiers = T
    BY <1>1
  <2>2. Apart(T) /\ \E S : T \in Seq(SUBSET S)
    BY TiersApart
  <2> HIDE DEF T
  <2> QED
    BY <2>1, <2>2 DEF StrategyInv
<1>2. ASSUME NEW kind \in {"direct", "flat"},
             strategy' = [kind |-> kind, tiers |-> <<{FlatUnit(ws, modules)}>>]
      PROVE  StrategyInv' /\ strategy'.kind # "none"
  <2> DEFINE u == FlatUnit(ws, modules)
  <2>1. u.tier = "flat"
    BY DEF FlatUnit, Unit
  <2> HIDE DEF u
  <2>2. /\ <<{u}>> \in Seq(SUBSET {u}) /\ Len(<<{u}>>) = 1 /\ <<{u}>>[1] = {u}
        /\ DOMAIN <<{u}>> = 1..1
    OBVIOUS
  <2>3. strategy'.kind = kind /\ strategy'.tiers = <<{u}>>
    BY <1>2 DEF u
  <2>4. \E S : strategy'.tiers \in Seq(SUBSET S)
    BY <2>2, <2>3
  <2>5. Apart(strategy'.tiers)
    BY <2>2, <2>3 DEF Apart
  <2> QED
    BY <2>1, <2>2, <2>3, <2>4, <2>5 DEF StrategyInv
<1>3. \/ strategy' = [kind |-> "hierarchical", tiers |-> Tiers(ws, modules)]
      \/ \E kind \in {"direct", "flat"} :
            strategy' = [kind |-> kind, tiers |-> <<{FlatUnit(ws, modules)}>>]
  BY DEF Strategy
<1> QED
  BY <1>1, <1>2, <1>3

-----------------------------------------------------------------------------
(* What the sequence of tiers says of Below and TierOf.                    *)
LEMMA TierFacts ==
    ASSUME StrategyInv
    PROVE  /\ DOMAIN strategy.tiers = 1..Len(strategy.tiers) /\ Len(strategy.tiers) \in Nat
           /\ AllUnits = Below(Len(strategy.tiers) + 1)
           /\ Below(1) = {}
           /\ \A k \in 1..Len(strategy.tiers) :
                 /\ Below(k + 1) = Below(k) \cup strategy.tiers[k]
                 /\ strategy.tiers[k] \cap Below(k) = {}
                 /\ \A u \in strategy.tiers[k] : TierOf(u) = k
           /\ \A k \in 1..Len(strategy.tiers) + 1 :
                 /\ Below(k) \subseteq AllUnits
                 /\ \A j \in 1..k : Below(j) \subseteq Below(k)
                 /\ \A u \in Below(k) : TierOf(u) \in 1..k - 1 /\ u \in strategy.tiers[TierOf(u)]
PROOF
<1> DEFINE T == strategy.tiers
<1>1. PICK N : N \in Nat /\ N = Len(T) /\ DOMAIN T = 1..N
  BY DEF StrategyInv
<1>2. \A j, k \in 1..N : j # k => T[j] \cap T[k] = {}
  BY <1>1 DEF StrategyInv, Apart
<1>3. AllUnits = UNION {T[k] : k \in 1..N} /\ \A k : Below(k) = UNION {T[j] : j \in 1..k - 1}
  BY <1>1 DEF AllUnits, Below
<1>4. \A u : TierOf(u) = CHOOSE k \in 1..N : u \in T[k]
  BY <1>1 DEF TierOf
<1> HIDE DEF T
<1>5. AllUnits = Below(N + 1) /\ Below(1) = {}
  BY <1>1, <1>3
<1>6. \A k \in 1..N : \A u \in T[k] : TierOf(u) = k
  BY <1>2, <1>4
<1>7. ASSUME NEW k \in 1..N
      PROVE  Below(k + 1) = Below(k) \cup T[k] /\ T[k] \cap Below(k) = {}
  <2>1. 1..(k + 1) - 1 = 1..k /\ 1..k = 1..(k - 1) \cup {k} /\ k \notin 1..k - 1
        /\ 1..k \subseteq 1..N
    BY <1>1
  <2>2. Below(k + 1) = Below(k) \cup T[k]
    BY <1>3, <2>1
  <2>3. T[k] \cap Below(k) = {}
    BY <1>2, <1>3, <2>1
  <2> QED
    BY <2>2, <2>3
<1>8. ASSUME NEW k \in 1..N + 1
      PROVE  /\ Below(k) \subseteq AllUnits
             /\ \A j \in 1..k : Below(j) \subseteq Below(k)
             /\ \A u \in Below(k) : TierOf(u) \in 1..k - 1 /\ u \in T[TierOf(u)]
  <2>1. 1..k - 1 \subseteq 1..N /\ \A j \in 1..k : 1..j - 1 \subseteq 1..k - 1
    BY <1>1
  <2>2. Below(k) \subseteq AllUnits /\ \A j \in 1..k : Below(j) \subseteq Below(k)
    BY <1>3, <2>1
  <2>3. \A u \in Below(k) : \E j \in 1..k - 1 : u \in T[j]
    BY <1>3
  <2> QED
    BY <1>6, <2>1, <2>2, <2>3
<1> QED
  BY <1>1, <1>5, <1>6, <1>7, <1>8 DEF T

(* While the strategy stays, so do its tiers.                              *)
LEMMA SameTiers ==
    ASSUME strategy' = strategy
    PROVE  /\ AllUnits' = AllUnits /\ \A k : Below(k)' = Below(k)
           /\ \A u : TierOf(u)' = TierOf(u)
           /\ StrategyInv' = StrategyInv
           /\ tier' = tier => Current' = Current
PROOF
  BY DEF AllUnits, Below, TierOf, StrategyInv, Apart, Current

-----------------------------------------------------------------------------
(* The invariant holds before a session has a strategy, units or a table.  *)
LEMMA InitInv == Init => IInv
PROOF
<1> SUFFICES ASSUME Init PROVE IInv
  OBVIOUS
<1> USE DEF Init
<1>1. strategy.tiers = <<>> /\ strategy.kind = "none" /\ Len(<<>>) = 0 /\ DOMAIN <<>> = {}
  OBVIOUS
<1>2. StrategyInv
  <2>1. <<>> \in Seq(SUBSET {})
    OBVIOUS
  <2> QED
    BY <1>1, <2>1 DEF StrategyInv, Apart
<1>3. AllUnits = {} /\ Below(1) = {}
  BY <1>1 DEF AllUnits, Below
<1>4. PhaseInv
  BY <1>1, <1>3 DEF PhaseInv
<1>5. TableInv /\ VoicesInv /\ UnitsInv /\ AttemptsInv
  BY <1>1, <1>3, ConsensusAssumption
  DEF TableInv, VoicesInv, UnitsInv, AttemptsInv, ResultsCurrent
<1> QED
  BY <1>2, <1>4, <1>5 DEF IInv

(* Choosing the strategy: its tiers share no unit, and no result is there  *)
(* yet.                                                                    *)
LEMMA SelectKeeps == ASSUME IInv, Select PROVE IInv'
PROOF
<1> USE DEF Select
<1>1. /\ tier = 1 /\ strategy.tiers = <<>> /\ units = <<>> /\ strategy.kind = "none"
      /\ AllUnits = {} /\ Below(1) = {} /\ DOMAIN table = {} /\ DOMAIN units = {}
  BY TierFacts DEF IInv, PhaseInv, StrategyInv, TableInv, AllUnits
<1>2. CASE at' = "done" /\ outcome' = "Escalated" /\ UNCHANGED <<strategy, attempts>>
  <2>1. StrategyInv' /\ PhaseInv'
    BY <1>1, <1>2, SameTiers DEF IInv, PhaseInv
  <2>2. TableInv' /\ AttemptsInv' /\ UnitsInv' /\ VoicesInv'
    BY <1>1, <1>2, SameTiers
    DEF IInv, TableInv, AttemptsInv, UnitsInv, VoicesInv, ResultsCurrent
  <2> QED
    BY <2>1, <2>2 DEF IInv
<1>3. ASSUME NEW ws \in Workspaces, NEW modules \in SUBSET DOMAIN ws.group,
             strategy' = Strategy(ws, modules),
             attempts' = [u \in UNION {strategy'.tiers[k] : k \in DOMAIN strategy'.tiers} |-> 0],
             at' = "tier", UNCHANGED outcome
      PROVE  IInv'
  <2>1. StrategyInv' /\ strategy'.kind # "none"
    BY <1>3, StrategyIs
  <2>2. Len(strategy'.tiers) \in Nat /\ 1..(1 - 1) = {}
    BY <2>1 DEF StrategyInv
  <2>3. Below(1)' = {} /\ attempts' = [u \in AllUnits' |-> 0]
    BY <1>3, <2>2 DEF Below, AllUnits
  <2>4. PhaseInv'
    BY <1>1, <1>3, <2>1, <2>2 DEF IInv, PhaseInv
  <2>5. TableInv' /\ UnitsInv' /\ VoicesInv'
    BY <1>1, <2>3 DEF IInv, TableInv, UnitsInv, VoicesInv, ResultsCurrent
  <2>6. AttemptsInv'
    BY <1>3, <2>3 DEF IInv, AttemptsInv
  <2> QED
    BY <2>1, <2>4, <2>5, <2>6 DEF IInv
<1> QED
  BY <1>2, <1>3

(* Nothing the invariant says of the table changes with the units.         *)
LEMMA SameTable ==
    ASSUME TableInv, VoicesInv, UNCHANGED <<strategy, table, tier>>,
           \A u \in DOMAIN table : attempts'[u] = attempts[u]
    PROVE  TableInv' /\ VoicesInv'
PROOF
<1>1. ResultsCurrent'
  BY SameTiers DEF TableInv, ResultsCurrent, Results
<1> QED
  BY <1>1, SameTiers DEF TableInv, VoicesInv

(* A tier begins: its units get sessions of their own, and the tiers below *)
(* keep the results they have in the table.                                *)
LEMMA BeginTierKeeps == ASSUME IInv, BeginTier PROVE IInv'
PROOF
<1> USE DEF BeginTier
<1>1. strategy.kind # "none" /\ tier \in 1..Len(strategy.tiers)
  BY DEF IInv, PhaseInv
<1>2. /\ Current \cap Below(tier) = {} /\ Current \subseteq AllUnits
      /\ Below(tier + 1) = Below(tier) \cup Current
  BY <1>1, TierFacts DEF IInv, Current
<1>3. PhaseInv'
  BY <1>1, <1>2, SameTiers DEF IInv, PhaseInv
<1>4. TableInv' /\ VoicesInv'
  BY <1>2, SameTable, TierFacts DEF IInv, TableInv, PhaseInv, AttemptsInv
<1>5. AttemptsInv'
  BY <1>1, <1>2, SameTiers DEF IInv, AttemptsInv
<1>6. UnitsInv'
  <2> SUFFICES ASSUME NEW u \in Current PROVE SessionOK(u, Opened(u))
    BY DEF UnitsInv
  <2>1. 1 \in 1..MaxRounds
    BY RoundsAssumption
  <2> QED
    BY <2>1 DEF SessionOK, Opened, Sessions
<1> QED
  BY <1>3, <1>4, <1>5, <1>6, SameTiers DEF IInv

(* What a step of a unit makes of its session.                             *)
LEMMA CloseKeeps ==
    ASSUME NEW u, NEW s, SessionOK(u, s), NEW conflict \in BOOLEAN,
           NEW result \in {"agreed", "partial", "none", "error", "timeout"},
           result = "agreed" => Heard(u, Cardinality(s.proposals)),
           result = "timeout" => u.tier # "flat"
    PROVE  SessionOK(u, Closed(s, result, conflict))
PROOF
<1> DEFINE c == Closed(s, result, conflict)
<1>1. /\ c \in Sessions(u) /\ c.phase = "over" /\ c.result = result
      /\ c.proposals = s.proposals /\ c.members = s.members
  BY DEF SessionOK, Sessions, Closed
<1> HIDE DEF c
<1>2. SessionOK(u, c)
  BY <1>1 DEF SessionOK
<1> QED
  BY <1>2 DEF c

(* A round that collects proposals leaves a session for its synthesis, or  *)
(* closes it when too few agents answered.                                 *)
LEMMA CollectKeeps ==
    ASSUME NEW u, NEW s, SessionOK(u, s), s.phase = "round", ~Collective(u),
           NEW answers \in SUBSET (s.members \cap Pool)
    PROVE  LET asked == [s EXCEPT !.proposals = answers] IN
           SessionOK(u, IF Cardinality(answers) < MinParticipants
                        THEN Closed(asked, "none", FALSE)
                        ELSE [asked EXCEPT !.phase = "synthesis"])
PROOF
<1> DEFINE asked == [s EXCEPT !.proposals = answers]
           next == [asked EXCEPT !.phase = "synthesis"]
<1>1. /\ asked \in Sessions(u) /\ asked.proposals = answers /\ asked.members = s.members
      /\ asked.phase = "round" /\ asked.result = s.result
  BY DEF SessionOK, Sessions
<1>2. s.result = "running"
  BY DEF SessionOK, Sessions
<1>3. SessionOK(u, asked)
  BY <1>1, <1>2 DEF SessionOK
<1>4. /\ next \in Sessions(u) /\ next.proposals = answers /\ next.members = s.members
      /\ next.phase = "synthesis" /\ next.result = "running"
  BY <1>1, <1>2 DEF Sessions
<1> HIDE DEF asked, next
<1>5. CASE Cardinality(answers) < MinParticipants
  BY <1>3, <1>5, CloseKeeps DEF asked
<1>6. CASE ~(Cardinality(answers) < MinParticipants)
  <2>1. Cardinality(answers) \in Nat
    <3>1. IsFiniteSet(answers)
      BY FS_Subset, RoundsAssumption
    <3> QED
      BY <3>1, FS_CardinalityType
  <2>2. Heard(u, Cardinality(answers))
    BY <1>6, <2>1, RoundsAssumption DEF Heard
  <2>3. SessionOK(u, next)
    BY <1>4, <2>2 DEF SessionOK
  <2> QED
    BY <1>6, <2>3 DEF asked, next
<1> QED
  BY <1>5, <1>6

(* After the synthesis of a round a session is closed or goes on to its    *)
(* next round, which is within max_rounds.                                 *)
LEMMA JudgeKeeps ==
    ASSUME NEW u, NEW s, SessionOK(u, s), s.phase = "synthesis", ~Collective(u),
           NEW said \in Statuses, NEW some \in BOOLEAN, NEW blocked \in BOOLEAN,
           NEW joined \in SUBSET Pool
    PROVE  SessionOK(u, Judged([s EXCEPT !.members = @ \cup joined, !.said = said],
                               said, some, blocked))
PROOF
<1> DEFINE j == [s EXCEPT !.members = @ \cup joined, !.said = said]
           again == [j EXCEPT !.phase = "round", !.round = @ + 1]
<1>1. s.result = "running" /\ Heard(u, Cardinality(s.proposals))
  BY DEF SessionOK, Sessions
<1>2. /\ j \in Sessions(u) /\ j.proposals = s.proposals /\ j.members = s.members \cup joined
      /\ j.phase = "synthesis" /\ j.result = "running"
  BY <1>1 DEF SessionOK, Sessions
<1>3. SessionOK(u, j)
  BY <1>1, <1>2 DEF SessionOK
<1> HIDE DEF j
<1>4. SessionOK(u, Closed(j, "agreed", FALSE)) /\ SessionOK(u, Closed(j, "none", TRUE))
      /\ SessionOK(u, Closed(j, "partial", some)) /\ SessionOK(u, Closed(j, "none", some))
  BY <1>1, <1>2, <1>3, CloseKeeps
<1>5. ASSUME j.round < MaxRounds PROVE SessionOK(u, again)
  <2>1. j.round + 1 \in 1..MaxRounds
    BY <1>2, <1>5, RoundsAssumption DEF Sessions
  <2>2. /\ again \in Sessions(u) /\ again.phase = "round" /\ again.result = j.result
        /\ again.proposals = j.proposals /\ again.members = j.members
    BY <1>2, <2>1 DEF Sessions
  <2> HIDE DEF again
  <2> QED
    BY <1>2, <1>3, <2>2 DEF SessionOK
<1> HIDE DEF again
<1>6. Judged(j, said, some, blocked) \in
          {Closed(j, "agreed", FALSE), Closed(j, "none", TRUE), Closed(j, "partial", some),
           Closed(j, "none", some)} \cup (IF j.round < MaxRounds THEN {again} ELSE {})
  BY DEF Judged, again
<1>7. SessionOK(u, Judged(j, said, some, blocked))
  BY <1>4, <1>5, <1>6
<1> QED
  BY <1>7 DEF j

(* An exchange of a collective session keeps the proposals it had and its  *)
(* round within max_rounds.                                                *)
LEMMA ExchangeKeeps ==
    ASSUME NEW u, NEW s, SessionOK(u, s), s.phase = "round", Collective(u),
           NEW answers \in SUBSET (s.members \cap Pool), NEW ends \in BOOLEAN,
           s.round = MaxRounds => ends
    PROVE  SessionOK(u, [s EXCEPT !.proposals = s.proposals \cup answers,
                                  !.round = IF ends THEN @ ELSE @ + 1,
                                  !.phase = IF ends THEN "synthesis" ELSE @])
PROOF
<1> DEFINE n == [s EXCEPT !.proposals = s.proposals \cup answers,
                          !.round = IF ends THEN @ ELSE @ + 1,
                          !.phase = IF ends THEN "synthesis" ELSE @]
<1>1. s.result = "running" /\ s \in Sessions(u) /\ s.proposals \subseteq s.members
  BY DEF SessionOK, Sessions
<1>2. ~ends => s.round + 1 \in 1..MaxRounds
  BY <1>1, RoundsAssumption DEF Sessions
<1>3. /\ n \in Sessions(u) /\ n.proposals = s.proposals \cup answers /\ n.members = s.members
      /\ n.phase \in {"round", "synthesis"} /\ n.result = "running"
  BY <1>1, <1>2 DEF Sessions
<1> HIDE DEF n
<1>4. SessionOK(u, n)
  BY <1>1, <1>3 DEF SessionOK
<1> QED
  BY <1>4 DEF n

(* A step of one unit, its timeout or its deadline changes the session of  *)
(* that unit only.                                                         *)
LEMMA UnitStepKeeps == ASSUME IInv, UnitStep PROVE IInv'
PROOF
<1> USE DEF UnitStep
<1>1. PICK u \in Current : StepOf(u) \/ TimeOut(u) \/ Deadline(u)
  OBVIOUS
<1>2. DOMAIN units = Current /\ u \in DOMAIN units /\ SessionOK(u, units[u])
  BY <1>1 DEF IInv, PhaseInv, UnitsInv
<1>3. \E s : SessionOK(u, s) /\ units' = [units EXCEPT ![u] = s]
  <2> USE DEF Becomes
  <2>1. CASE GiveUp(u)
    BY <1>2, <2>1, CloseKeeps DEF GiveUp
  <2>2. CASE Collect(u)
    <3>1. units[u].phase = "round" /\ ~Collective(u)
      BY <2>2 DEF Collect, Going
    <3>2. PICK answers \in SUBSET (units[u].members \cap Pool) :
              Becomes(u, LET asked == [units[u] EXCEPT !.proposals = answers] IN
                         IF Cardinality(answers) < MinParticipants
                         THEN Closed(asked, "none", FALSE)
                         ELSE [asked EXCEPT !.phase = "synthesis"])
      BY <2>2 DEF Collect, Asked
    <3> QED
      BY <1>2, <3>1, <3>2, CollectKeeps
  <2>3. CASE Synthesize(u)
    <3>1. units[u].phase = "synthesis" /\ ~Collective(u)
      BY <2>3 DEF Synthesize, Going
    <3>2. CASE Becomes(u, Closed(units[u], "error", TRUE))
      BY <1>2, <3>2, CloseKeeps
    <3>3. ASSUME NEW said \in Statuses, NEW some \in BOOLEAN, NEW blocked \in BOOLEAN,
                 NEW joined \in SUBSET Joinable(u),
                 Becomes(u, Judged([units[u] EXCEPT !.members = @ \cup joined, !.said = said],
                                   said, some, blocked))
          PROVE  \E s : SessionOK(u, s) /\ units' = [units EXCEPT ![u] = s]
      <4>1. joined \in SUBSET Pool
        BY DEF Joinable
      <4> QED
        BY <1>2, <3>1, <3>3, <4>1, JudgeKeeps
    <3> QED
      BY <2>3, <3>2, <3>3 DEF Synthesize
  <2>4. CASE Exchange(u)
    <3>1. units[u].phase = "round" /\ Collective(u)
      BY <2>4 DEF Exchange, Going
    <3>2. PICK answers \in SUBSET (units[u].members \cap Pool), ends \in BOOLEAN :
              /\ units[u].round = MaxRounds => ends
              /\ Becomes(u, [units[u] EXCEPT
                              !.proposals = units[u].proposals \cup answers,
                              !.round = IF ends THEN @ ELSE @ + 1,
                              !.phase = IF ends THEN "synthesis" ELSE @])
      BY <2>4 DEF Exchange, Asked
    <3> QED
      BY <1>2, <3>1, <3>2, ExchangeKeeps
  <2>5. CASE Compare(u)
    <3>1. ASSUME units[u].proposals # {} PROVE Heard(u, Cardinality(units[u].proposals))
      <4>1. IsFiniteSet(units[u].proposals)
        BY <1>2, FS_Subset, RoundsAssumption DEF SessionOK, Sessions
      <4>2. Cardinality(units[u].proposals) \in Nat /\ Cardinality(units[u].proposals) # 0
        BY <3>1, <4>1, FS_CardinalityType, FS_EmptySet
      <4> QED
        BY <2>5, <4>2 DEF Heard, Compare
    <3> QED
      BY <1>2, <2>5, <3>1, CloseKeeps DEF Compare
  <2>6. CASE TimeOut(u)
    BY <1>2, <2>6, CloseKeeps DEF TimeOut
  <2>7. CASE Deadline(u)
    <3> DEFINE d == [units[u] EXCEPT !.late = TRUE]
    <3>1. /\ d \in Sessions(u) /\ d.proposals = units[u].proposals
          /\ d.members = units[u].members /\ d.phase = units[u].phase
          /\ d.result = units[u].result
      BY <1>2 DEF SessionOK, Sessions
    <3> HIDE DEF d
    <3>2. SessionOK(u, d)
      BY <1>2, <3>1 DEF SessionOK
    <3> QED
      BY <2>7, <3>2 DEF Deadline, d
  <2> QED
    BY <1>1, <2>1, <2>2, <2>3, <2>4, <2>5, <2>6, <2>7 DEF StepOf
<1>4. UnitsInv' /\ DOMAIN units' = DOMAIN units
  BY <1>2, <1>3 DEF IInv, UnitsInv
<1>5. PhaseInv' /\ AttemptsInv'
  BY <1>4, SameTiers DEF IInv, PhaseInv, AttemptsInv
<1>6. TableInv' /\ VoicesInv'
  BY SameTable DEF IInv
<1> QED
  BY <1>4, <1>5, <1>6, SameTiers DEF IInv

(* Going back a tier leaves in the table the results of the tiers that are *)
(* still below.                                                            *)
LEMMA BacktrackKeeps == ASSUME IInv, Backtrack PROVE IInv'
PROOF
<1> USE DEF Backtrack, TierEnds, MayBacktrack
<1>1. tier \in 1..Len(strategy.tiers) /\ DOMAIN table = Below(tier) /\ TableInv
      /\ DOMAIN units = Current
  BY DEF IInv, PhaseInv, TableInv
<1>2. PICK start \in 1..tier :
          tier' = start /\ table' = Keep(DOMAIN table \cap Below(start))
  OBVIOUS
<1>3. /\ Below(start) \subseteq Below(tier)
      /\ start \in 1..Len(strategy.tiers) + 1
      /\ \A u \in Below(start) : TierOf(u) \in 1..start - 1
  BY <1>1, <1>2, TierFacts DEF IInv
<1>4. /\ DOMAIN table' = Below(start) /\ \A u \in Below(start) : table'[u] = table[u]
  BY <1>1, <1>2, <1>3 DEF Keep
<1>5. TableInv' /\ VoicesInv'
  <2>1. ASSUME NEW u \in Below(start)
        PROVE  /\ Below(TierOf(u)) \subseteq Below(start)
               /\ table'[u].below = {<<v, table'[v].attempt>> : v \in Below(TierOf(u))}
    <3>1. Below(TierOf(u)) \subseteq Below(start)
      <4>1. TierOf(u) \in 1..start /\ \A j \in 1..start : Below(j) \subseteq Below(start)
        BY <1>3, TierFacts DEF IInv
      <4> QED
        BY <4>1
    <3>2. table[u].below = {<<v, table[v].attempt>> : v \in Below(TierOf(u))}
      BY <1>1, <1>3 DEF TableInv, ResultsCurrent, Results
    <3> QED
      BY <1>4, <3>1, <3>2
  <2>2. ResultsCurrent'
    BY <1>4, <2>1, SameTiers DEF ResultsCurrent, Results
  <2> QED
    BY <1>1, <1>2, <1>3, <1>4, <2>2, SameTiers DEF IInv, TableInv, VoicesInv
<1>6. PhaseInv'
  BY <1>1, <1>2, <1>3, SameTiers DEF IInv, PhaseInv
<1>7. AttemptsInv' /\ UnitsInv'
  <2>1. backtracks + 1 \in 0..MaxBacktracks
    BY ConsensusAssumption DEF IInv, AttemptsInv
  <2> QED
    BY <2>1, SameTiers DEF IInv, AttemptsInv, UnitsInv
<1> QED
  BY <1>5, <1>6, <1>7, SameTiers DEF IInv

(* Going on to the next tier: the results of this one are in the table,    *)
(* and so everything now below the tier is.                                *)
LEMMA AdvanceKeeps == ASSUME IInv, Advance PROVE IInv'
PROOF
<1> USE DEF Advance, TierEnds
<1>1. /\ tier \in 1..Len(strategy.tiers) /\ DOMAIN table = Below(tier) /\ TableInv
      /\ DOMAIN units = Current /\ Len(strategy.tiers) \in Nat
  BY TierFacts DEF IInv, PhaseInv, TableInv
<1>2. /\ Below(tier + 1) = Below(tier) \cup Current /\ Current \cap Below(tier) = {}
      /\ \A u \in Current : TierOf(u) = tier
      /\ \A u \in Below(tier) : TierOf(u) \in 1..tier - 1
  BY <1>1, TierFacts DEF IInv, Current
<1>3. /\ DOMAIN table' = Below(tier + 1)
      /\ \A u \in Below(tier) : table'[u] = table[u]
      /\ \A u \in Current : table'[u] = TierResult(u)
  BY <1>1, <1>2
<1>4. ASSUME NEW u \in Current
      PROVE  /\ table'[u].agreed => units[u].result = "agreed"
             /\ table'[u].attempt = attempts[u]
             /\ table'[u].voices = Cardinality(units[u].proposals)
             /\ table'[u].below = {<<v, table[v].attempt>> : v \in Below(tier)}
  BY <1>1, <1>3 DEF TierResult, Results
<1>5. ResultsCurrent'
  <2>1. ASSUME NEW u \in Current
        PROVE  /\ Below(TierOf(u)) \subseteq DOMAIN table'
               /\ table'[u].below = {<<v, table'[v].attempt>> : v \in Below(TierOf(u))}
    <3>1. {<<v, table'[v].attempt>> : v \in Below(tier)} =
          {<<v, table[v].attempt>> : v \in Below(tier)}
      BY <1>3
    <3> QED
      BY <1>2, <1>3, <1>4, <3>1
  <2>2. ASSUME NEW u \in Below(tier)
        PROVE  /\ Below(TierOf(u)) \subseteq DOMAIN table'
               /\ table'[u].below = {<<v, table'[v].attempt>> : v \in Below(TierOf(u))}
    <3>1. Below(TierOf(u)) \subseteq Below(tier)
          /\ table[u].below = {<<v, table[v].attempt>> : v \in Below(TierOf(u))}
      BY <1>1 DEF TableInv, ResultsCurrent, Results
    <3>2. {<<v, table'[v].attempt>> : v \in Below(TierOf(u))} =
          {<<v, table[v].attempt>> : v \in Below(TierOf(u))}
      <4>1. \A v \in Below(TierOf(u)) : table'[v] = table[v]
        BY <1>3, <3>1
      <4> HIDE DEF Advance, TierEnds
      <4> QED
        BY <4>1
    <3> QED
      BY <1>2, <1>3, <3>1, <3>2
  <2>3. ASSUME NEW u \in DOMAIN table'
        PROVE  /\ Below(TierOf(u)) \subseteq DOMAIN table'
               /\ table'[u].below = {<<v, table'[v].attempt>> : v \in Below(TierOf(u))}
    BY <1>2, <1>3, <2>1, <2>2
  <2> HIDE DEF Advance, TierEnds
  <2>4. strategy' = strategy
    BY DEF Advance
  <2> QED
    BY <2>3, <2>4, SameTiers DEF ResultsCurrent, Results
<1>6. TableInv'
  BY <1>1, <1>2, <1>3, <1>4, <1>5, SameTiers DEF TableInv
<1>7. VoicesInv'
  <2>1. ASSUME NEW u \in Current, table'[u].agreed PROVE Heard(u, table'[u].voices)
    BY <1>1, <1>4, <2>1 DEF IInv, UnitsInv, SessionOK
  <2>2. ASSUME NEW u \in Below(tier), table'[u].agreed PROVE Heard(u, table'[u].voices)
    BY <1>1, <1>3, <2>2 DEF IInv, VoicesInv
  <2> QED
    BY <1>2, <1>3, <2>1, <2>2 DEF VoicesInv
<1>8. PhaseInv'
  BY <1>1, SameTiers DEF IInv, PhaseInv
<1>9. AttemptsInv' /\ UnitsInv'
  BY <1>1, <1>2, SameTiers DEF IInv, AttemptsInv, UnitsInv
<1> QED
  BY <1>6, <1>7, <1>8, <1>9, SameTiers DEF IInv

(* Concluding changes nothing but the outcome, which follows from the      *)
(* table.                                                                  *)
LEMMA ConcludeKeeps == ASSUME IInv, Conclude PROVE IInv'
PROOF
<1> USE DEF Conclude
<1>1. tier = Len(strategy.tiers) + 1 /\ Len(strategy.tiers) \in Nat
  BY TierFacts DEF IInv, PhaseInv
<1>2. PhaseInv'
  BY <1>1, SameTiers DEF IInv, PhaseInv, Outcome
<1>3. TableInv' /\ VoicesInv'
  BY SameTable DEF IInv
<1>4. AttemptsInv' /\ UnitsInv'
  BY <1>1, TierFacts, SameTiers DEF IInv, AttemptsInv, UnitsInv
<1> QED
  BY <1>2, <1>3, <1>4, SameTiers DEF IInv

(* A consensus without tiers ends with what its only session says.         *)
LEMMA UnpackKeeps == ASSUME IInv, Unpack PROVE IInv'
PROOF
<1> USE DEF Unpack
<1>1. PICK u \in Current : outcome' = Unpacked(units[u].result)
  OBVIOUS
<1>2. tier = 1 /\ Len(strategy.tiers) = 1 /\ u.tier = "flat" /\ DOMAIN units = Current
  BY <1>1 DEF IInv, PhaseInv, StrategyInv, Current
<1>3. units[u].result \in {"agreed", "partial", "none", "error"}
  BY <1>1, <1>2 DEF IInv, UnitsInv, SessionOK, Sessions, AllOver
<1>4. PhaseInv'
  BY <1>1, <1>2, <1>3, SameTiers DEF IInv, PhaseInv, Unpacked
<1>5. TableInv' /\ VoicesInv'
  BY SameTable DEF IInv
<1>6. AttemptsInv' /\ UnitsInv'
  BY SameTiers DEF IInv, AttemptsInv, UnitsInv
<1> QED
  BY <1>4, <1>5, <1>6, SameTiers DEF IInv

(* Every step of a consensus keeps the invariant.                          *)
LEMMA NextInv == IInv /\ [Next]_vars => IInv'
PROOF
<1> SUFFICES ASSUME IInv, [Next]_vars PROVE IInv'
  OBVIOUS
<1>1. CASE UNCHANGED vars
  <2>1. TableInv' /\ VoicesInv'
    BY <1>1, SameTable DEF IInv, vars
  <2>2. PhaseInv' /\ AttemptsInv' /\ UnitsInv'
    BY <1>1, SameTiers DEF IInv, vars, PhaseInv, AttemptsInv, UnitsInv
  <2> QED
    BY <1>1, <2>1, <2>2, SameTiers DEF IInv, vars
<1> QED
  BY <1>1, SelectKeeps, BeginTierKeeps, UnitStepKeeps, BacktrackKeeps, AdvanceKeeps,
     ConcludeKeeps, UnpackKeeps DEF Next

(* The inductive invariant holds in every behaviour of                     *)
(* HierarchicalConsensusCoordinator, for any strategy the selector can     *)
(* build.                                                                  *)
THEOREM Invariance == Spec => []IInv
PROOF
  BY InitInv, NextInv, PTL DEF Spec
-----------------------------------------------------------------------------
(* Every variable stays in the range the code's types and bounds give it:  *)
(* no unit is run more often than there are backtracks, and no flat        *)
(* consensus ends with a result unpack_consensus_result does not know.     *)
THEOREM Types == Spec => []TypeOK
PROOF
<1>1. IInv => TypeOK
  <2> SUFFICES ASSUME IInv PROVE TypeOK
    OBVIOUS
  <2>1. DOMAIN table \subseteq DOMAIN attempts /\ DOMAIN units \subseteq DOMAIN attempts
    BY TierFacts DEF IInv, PhaseInv, TableInv, AttemptsInv
  <2>2. \A u \in DOMAIN attempts : attempts[u] \in 0..MaxBacktracks + 1
    BY ConsensusAssumption DEF IInv, AttemptsInv
  <2>3. ASSUME NEW u \in DOMAIN units
        PROVE  /\ units[u].phase \in {"round", "synthesis", "over"}
               /\ units[u].round \in 1..MaxRounds
               /\ units[u].proposals \subseteq units[u].members \cap Pool
               /\ units[u].result \in {"running", "agreed", "partial", "none", "error",
                                       "timeout"}
               /\ units[u].phase = "over" <=> units[u].result # "running"
    BY DEF IInv, UnitsInv, SessionOK, Sessions
  <2> QED
    BY <2>1, <2>2, <2>3 DEF IInv, StrategyInv, PhaseInv, AttemptsInv, TypeOK
<1> QED
  BY <1>1, Invariance, PTL

(* A result that counts was made from the results of the tiers below that  *)
(* count, however often the consensus went back.                           *)
THEOREM ResultsStayCurrent == Spec => []ResultsCurrent
PROOF
<1>1. IInv => ResultsCurrent
  BY DEF IInv, TableInv
<1> QED
  BY <1>1, Invariance, PTL

(* A hierarchical consensus ends with a result of the last run of every    *)
(* unit of every tier.                                                     *)
THEOREM TableIsComplete == Spec => []TableComplete
PROOF
<1>1. IInv => TableComplete
  <2> SUFFICES ASSUME IInv, at = "done", strategy.kind = "hierarchical"
               PROVE  Results(DOMAIN table) = {<<u, attempts[u]>> : u \in AllUnits}
    BY DEF TableComplete
  <2>1. DOMAIN table = AllUnits
    BY TierFacts DEF IInv, PhaseInv, TableInv
  <2> QED
    BY <2>1 DEF IInv, TableInv, Results
<1> QED
  BY <1>1, Invariance, PTL

(* No unit agrees unless an agent of the pool answered, and in a unit that *)
(* exchanges no proposals as many as the configuration asks for.           *)
THEOREM AgreementIsHeard == Spec => []AgreementHeard
PROOF
<1>1. IInv => AgreementHeard
  BY DEF IInv, UnitsInv, SessionOK, VoicesInv, AgreementHeard
<1> QED
  BY <1>1, Invariance, PTL
=============================================================================
