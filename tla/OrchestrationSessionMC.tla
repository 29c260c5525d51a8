----------------------- MODULE OrchestrationSessionMC -----------------------
(***************************************************************************)
(* An instance of OrchestrationSession for TLC: three tasks and two agents.*)
(***************************************************************************)
EXTENDS OrchestrationSession, TLC

CONSTANTS a, b, c, x, y   \* model values: the tasks and the agents

Same == Permutations({a, b, c}) \cup Permutations({x, y})
=============================================================================
