---------------------------- MODULE AutonomyGate ----------------------------
(***************************************************************************)
(* What the kill switch promises of every autonomous entry point: a piece  *)
(* of work is started only on a permit that was given while the tenant was *)
(* not halted, and a permit is good for one piece of work.  The scheduler  *)
(* and the orchestrator implement it; that a halt is overtaken by at most  *)
(* one start of each caller follows from it.                               *)
(***************************************************************************)
EXTENDS KillSwitch, TLAPS

VARIABLE permit   \* the tenants a caller may start one piece of work for

Init == KInit /\ permit = [a \in Callers |-> {}]

Switch(n, on) == SetEnabled(n, on) /\ UNCHANGED permit

Grant(a, n) ==
    /\ permit[a] = {}
    /\ ~IsHalted(n)
    /\ permit' = [permit EXCEPT ![a] = {n}]
    /\ UNCHANGED kvars

Use(a, n) ==
    /\ n \in permit[a]
    /\ permit' = [permit EXCEPT ![a] = {}]
    /\ StartsWork(a, n)

Drop(a) ==
    /\ permit' = [permit EXCEPT ![a] = {}]
    /\ UNCHANGED kvars

Next ==
    \/ \E n \in Tenants, on \in BOOLEAN : Switch(n, on)
    \/ \E a \in Callers : \/ Drop(a)
                          \/ \E n \in Tenants : Grant(a, n) \/ Use(a, n)

Spec == Init /\ [][Next]_<<kvars, permit>>

-----------------------------------------------------------------------------
(* Late work is only started on a permit, and a permit is only given while *)
(* there is no late work.                                                  *)

PermitOK == permit \in [Callers -> SUBSET Tenants]

Timely ==
    \A n \in Tenants, a \in Callers :
        ~halted[n] \/ n \in permit[a] => late[n][a] = 0

GateInv == KTypeOK /\ PermitOK /\ Timely /\ LateWorkBounded

\* The gate keeps its invariant, whoever is let through and whenever the
\* switches are set.
THEOREM GateInvariant == Spec => []GateInv
<1>1. Init => GateInv
  BY FlipAssumption DEF Init, KInit, NotLate, GateInv, KTypeOK, PermitOK, Timely, LateWorkBounded
<1>2. GateInv /\ [Next]_<<kvars, permit>> => GateInv'
  <2> SUFFICES ASSUME GateInv, [Next]_<<kvars, permit>> PROVE GateInv'
    OBVIOUS
  <2> USE FlipAssumption DEF GateInv, KTypeOK, PermitOK, Timely, LateWorkBounded
  <2>1. ASSUME NEW n \in Tenants, NEW on \in BOOLEAN, Switch(n, on) PROVE GateInv'
    BY <2>1 DEF Switch, SetEnabled, NotLate
  <2>2. ASSUME NEW a \in Callers, Drop(a) PROVE GateInv'
    BY <2>2 DEF Drop, kvars
  <2>3. ASSUME NEW a \in Callers, NEW n \in Tenants, Grant(a, n) PROVE GateInv'
    BY <2>3 DEF Grant, kvars, IsHalted
  <2>4. ASSUME NEW a \in Callers, NEW n \in Tenants, Use(a, n) PROVE GateInv'
    BY <2>4 DEF Use, StartsWork
  <2>5. CASE UNCHANGED <<kvars, permit>>
    BY <2>5 DEF kvars
  <2>. QED BY <2>1, <2>2, <2>3, <2>4, <2>5 DEF Next
<1>. QED BY <1>1, <1>2, PTL DEF Spec

\* A halt is overtaken by at most one piece of work of each caller
\* (killSwitch.ts 34), in every system that implements the gate.
THEOREM GateBoundsLateWork == Spec => []LateWorkBounded
<1>1. GateInv => LateWorkBounded BY DEF GateInv
<1>. QED BY GateInvariant, <1>1, PTL
=============================================================================
