---------------------------- MODULE MCScheduler ----------------------------
(* One tenant with two schedules, two concurrent ticks; everything goes    *)
(* wrong, or runners only.                                                 *)
EXTENDS Scheduler, TLC
CONSTANTS n1, s1, s2, k1, k2
MCTenants == {n1}
MCSchedules == {s1, s2}
MCTenantOf == [s \in Schedules |-> n1]
MCCallers == {k1, k2}
MCSettings == {FaultKinds, {"runnerError"}}
=============================================================================
