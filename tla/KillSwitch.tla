----------------------------- MODULE KillSwitch -----------------------------
(***************************************************************************)
(* The autonomy kill switch of each tenant (src/server/killSwitch.ts): one *)
(* row that governance administrators set and that every autonomous entry  *)
(* point reads before it goes on.  A read is a transaction of its own, so  *)
(* what it returned may be outdated when the caller acts on it.            *)
(***************************************************************************)
EXTENDS Naturals

CONSTANTS
    Tenants,
    Callers,    \* the concurrent calls of autonomous entry points
    FlipBound   \* bound: how often the switches are set

ASSUME FlipAssumption == FlipBound \in Nat

VARIABLES
    halted,   \* kill_switches.enabled, by tenant; no row means not enabled
    flips,    \* how often a switch was set
    late      \* observation: work a caller started for a tenant since it was halted

kvars == <<halted, flips, late>>

NotLate == [a \in Callers |-> 0]

KInit ==
    /\ halted = [n \in Tenants |-> FALSE]
    /\ flips = 0
    /\ late = [n \in Tenants |-> NotLate]

\* A halt that begins has seen no late work.
SetEnabled(n, enabled) ==
    /\ flips < FlipBound
    /\ halted' = [halted EXCEPT ![n] = enabled]
    /\ flips' = flips + 1
    /\ late' = IF enabled /\ halted[n] THEN late ELSE [late EXCEPT ![n] = NotLate]

IsHalted(n) == halted[n]

\* Caller a starts a piece of autonomous work for tenant n.
StartsWork(a, n) ==
    /\ late' = IF halted[n] THEN [late EXCEPT ![n][a] = @ + 1] ELSE late
    /\ UNCHANGED <<halted, flips>>

KTypeOK ==
    /\ halted \in [Tenants -> BOOLEAN]
    /\ flips \in 0..FlipBound
    /\ late \in [Tenants -> [Callers -> Nat]]

\* After a tenant is halted, a caller starts at most the one piece of work
\* for which it had read the switch before (killSwitch.ts 34, scheduler.ts
\* 57-59, orchestration.ts 36).
LateWorkBounded == \A n \in Tenants, a \in Callers : late[n][a] <= 1
=============================================================================
