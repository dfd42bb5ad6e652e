-------------------------- MODULE MCOrchestration --------------------------
(***************************************************************************)
(* Two calls of one tenant, on services whose limits bind at different     *)
(* points: r1 is stopped by its depth, r2 by its budget, and both refuse   *)
(* plans that are too long.                                                *)
(***************************************************************************)
EXTENDS Orchestration, TLC
CONSTANTS n1, r1, r2
MCTenants == {n1}
MCCallers == {r1, r2}
MCTenantOf == [r \in Callers |-> n1]
MCDepth == (r1 :> 1) @@ (r2 :> 3)
MCAgents == (r1 :> 2) @@ (r2 :> 3)
MCBudget == (r1 :> 3) @@ (r2 :> 2)
MCSettings == {FaultKinds, {"executorError", "slow"}}
=============================================================================
