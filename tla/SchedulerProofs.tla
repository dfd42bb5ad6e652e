--------------------------- MODULE SchedulerProofs ---------------------------
(***************************************************************************)
(* Proofs about the scheduler for any number of tenants, schedules and     *)
(* overlapping ticks, and any of the faults.  OccurrenceInv is the         *)
(* strengthening OncePerTicker needs: an occurrence that was run is not    *)
(* selectable again, and a ticker holds only rows it has not run yet.      *)
(***************************************************************************)
EXTENDS Scheduler, TLAPS

USE TenantAssumption, NoScheduleAssumption, FlipAssumption

\* A row a ticker selected and has not run: still to do, or about to be claimed.
Pending(s, k) == s \in todo[k] \/ (pc[k] = "claim" /\ current[k] = s)

OccurrenceInv ==
    \A s \in Schedules, k \in Tickers :
        /\ fired[s][k] <= 1
        /\ fired[s][k] > 0 /\ due[s] => status[s] = "running"
        /\ Pending(s, k) => fired[s][k] = 0
        /\ pc[k] = "claim" /\ current[k] = s => s \notin todo[k]
        /\ status[s] = "absent" => fired[s][k] = 0

IInv == TypeOK /\ OccurrenceInv

USE DEF Tickers, IInv, TypeOK, OccurrenceInv, Pending, Phase, KTypeOK, rows, memory, kvars

-----------------------------------------------------------------------------
LEMMA InitInv == Init => IInv
BY DEF Init, KInit, NotLate

LEMMA SwitchInv ==
    ASSUME IInv, NEW n \in Tenants, NEW on \in BOOLEAN, Switch(n, on) PROVE IInv'
BY DEF Switch, SetEnabled, NotLate

LEMMA CreateInv == ASSUME IInv, NEW s \in Schedules, Create(s) PROVE IInv'
BY DEF Create

LEMMA SetScheduleEnabledInv ==
    ASSUME IInv, NEW s \in Schedules, NEW on \in BOOLEAN, SetScheduleEnabled(s, on) PROVE IInv'
BY DEF SetScheduleEnabled

LEMMA BecomesDueInv == ASSUME IInv, NEW s \in Schedules, BecomesDue(s) PROVE IInv'
BY DEF BecomesDue

LEMMA TickSelectInv == ASSUME IInv, NEW k \in Tickers, TickSelect(k) PROVE IInv'
BY DEF TickSelect

LEMMA ReadSwitchInv == ASSUME IInv, NEW k \in Tickers, ReadSwitch(k) PROVE IInv'
BY DEF ReadSwitch, IsHalted

LEMMA SkipInv == ASSUME IInv, NEW k \in Tickers, Skip(k) PROVE IInv'
<1>1. TypeOK'
  BY DEF Skip, GoOn
<1>2. OccurrenceInv'
  BY DEF Skip, GoOn
<1>. QED BY <1>1, <1>2

LEMMA ClaimInv == ASSUME IInv, NEW k \in Tickers, Claim(k) PROVE IInv'
<1>1. PICK s \in Schedules : s = current[k] /\ TenantOf[s] \in Tenants
  BY DEF Claim
<1>2. /\ status' = [status EXCEPT ![s] = "running"]
      /\ fired' = [fired EXCEPT ![s][k] = @ + 1]
      /\ pc' = [pc EXCEPT ![k] = "running"]
      /\ UNCHANGED <<enabled, due, todo, current, halted, flips, faults>>
  BY <1>1 DEF Claim, StartsWork
<1>3. late' \in [Tenants -> [Callers -> Nat]]
  BY <1>1 DEF Claim, StartsWork
<1>4. fired[s][k] = 0 /\ pc[k] = "claim"
  BY <1>1 DEF Claim
<1>5. TypeOK'
  BY <1>1, <1>2, <1>3, <1>4
<1>6. OccurrenceInv'
  <2> SUFFICES ASSUME NEW t \in Schedules, NEW j \in Tickers
               PROVE  /\ fired'[t][j] <= 1
                      /\ fired'[t][j] > 0 /\ due'[t] => status'[t] = "running"
                      /\ Pending(t, j)' => fired'[t][j] = 0
                      /\ pc'[j] = "claim" /\ current'[j] = t => t \notin todo'[j]
                      /\ status'[t] = "absent" => fired'[t][j] = 0
    OBVIOUS
  <2>1. CASE t = s /\ j = k
    BY <1>1, <1>2, <1>4, <2>1
  <2>2. CASE t = s /\ j # k
    BY <1>1, <1>2, <2>2
  <2>3. CASE t # s
    BY <1>1, <1>2, <2>3
  <2>. QED BY <2>1, <2>2, <2>3
<1>. QED BY <1>5, <1>6

LEMMA RunnerEndsInv == ASSUME IInv, NEW k \in Tickers, RunnerEnds(k) PROVE IInv'
BY DEF RunnerEnds

LEMMA RecordInv == ASSUME IInv, NEW k \in Tickers, Record(k) PROVE IInv'
BY DEF Record, GoOn

LEMMA RecordSuccessFailsInv == ASSUME IInv, NEW k \in Tickers, RecordSuccessFails(k) PROVE IInv'
BY DEF RecordSuccessFails

LEMMA ForgetInv ==
    ASSUME IInv, NEW k \in Tickers, Forget(k), UNCHANGED <<kvars, rows, fired, faults>> PROVE IInv'
BY DEF Forget

LEMMA NextInv == IInv /\ [Next]_vars => IInv'
<1> SUFFICES ASSUME IInv, [Next]_vars PROVE IInv'
  OBVIOUS
<1>1. ASSUME NEW k \in Tickers, Tick(k) PROVE IInv'
  <2>1. CASE TickFails(k) \/ Crash(k)
    BY <2>1, ForgetInv DEF TickFails, Crash
  <2>. QED BY <1>1, <2>1, TickSelectInv, ReadSwitchInv, SkipInv, ClaimInv, RunnerEndsInv,
              RecordInv, RecordSuccessFailsInv DEF Tick
<1>2. CASE UNCHANGED vars
  BY <1>2 DEF vars
<1>. QED BY <1>1, <1>2, SwitchInv, CreateInv, SetScheduleEnabledInv, BecomesDueInv DEF Next

THEOREM Inductive == Spec => []IInv
BY InitInv, NextInv, PTL DEF Spec

\* Every reachable state is well typed, and a ticker names a row exactly
\* while it handles one.
THEOREM TypeCorrect == Spec => []TypeOK
<1>1. IInv => TypeOK OBVIOUS
<1>. QED BY Inductive, <1>1, PTL

\* No tick runs an occurrence of a schedule twice, whatever fails and however
\* many ticks overlap (scheduler.ts 61-92).
THEOREM RunsOncePerTicker == Spec => []OncePerTicker
<1>1. IInv => OncePerTicker BY DEF OncePerTicker
<1>. QED BY Inductive, <1>1, PTL

-----------------------------------------------------------------------------
(* The scheduler implements the gate: a ticker's permit lasts from the     *)
(* read of the switch to the claim.                                        *)

Permits == [k \in Tickers |-> IF pc[k] = "claim" THEN {TenantOf[current[k]]} ELSE {}]

USE DEF Gate!kvars, Gate!IsHalted

LEMMA PermitsKept ==
    ASSUME UNCHANGED kvars,
           \A k \in Tickers : /\ pc'[k] = "claim" <=> pc[k] = "claim"
                              /\ pc[k] = "claim" => current'[k] = current[k]
    PROVE  UNCHANGED <<kvars, Permits>>
BY DEF Permits

LEMMA PermitDropped ==
    ASSUME IInv, NEW k \in Tickers, Forget(k), UNCHANGED kvars PROVE [Gate!Next]_<<kvars, Permits>>
<1>1. Permits' = [Permits EXCEPT ![k] = {}]
  BY DEF Forget, Permits
<1>. QED BY <1>1 DEF Gate!Next, Gate!Drop, Permits

LEMMA PermitGranted ==
    ASSUME IInv, NEW k \in Tickers, ReadSwitch(k) PROVE [Gate!Next]_<<kvars, Permits>>
<1>1. PICK s \in todo[k] : /\ current' = [current EXCEPT ![k] = s]
                           /\ pc' = [pc EXCEPT ![k] = IF IsHalted(TenantOf[s]) THEN "skip" ELSE "claim"]
  BY DEF ReadSwitch
<1>2. UNCHANGED kvars /\ pc[k] = "next" /\ TenantOf[s] \in Tenants
  BY DEF ReadSwitch
<1>3. CASE IsHalted(TenantOf[s])
  BY <1>1, <1>2, <1>3, PermitsKept
<1>4. CASE ~IsHalted(TenantOf[s])
  <2>1. Permits[k] = {} /\ Permits' = [Permits EXCEPT ![k] = {TenantOf[s]}]
    BY <1>1, <1>2, <1>4 DEF Permits
  <2>2. Gate!Grant(k, TenantOf[s])
    BY <1>2, <1>4, <2>1 DEF Gate!Grant, IsHalted, Permits
  <2>. QED BY <1>2, <2>2 DEF Gate!Next
<1>. QED BY <1>3, <1>4

LEMMA PermitUsed ==
    ASSUME IInv, NEW k \in Tickers, Claim(k) PROVE [Gate!Next]_<<kvars, Permits>>
<1>1. PICK s \in Schedules : s = current[k] /\ TenantOf[s] \in Tenants
  BY DEF Claim
<1>2. TenantOf[s] \in Permits[k]
  BY <1>1 DEF Claim, Permits
<1>3. Permits' = [Permits EXCEPT ![k] = {}]
  BY DEF Claim, Permits
<1>4. Gate!Use(k, TenantOf[s])
  BY <1>1, <1>2, <1>3 DEF Gate!Use, Gate!StartsWork, StartsWork, Claim, Permits
<1>. QED BY <1>1, <1>4 DEF Gate!Next

LEMMA StepImplementsGate == IInv /\ [Next]_vars => [Gate!Next]_<<kvars, Permits>>
<1> SUFFICES ASSUME IInv, [Next]_vars PROVE [Gate!Next]_<<kvars, Permits>>
  OBVIOUS
<1>1. ASSUME NEW n \in Tenants, NEW on \in BOOLEAN, Switch(n, on) PROVE [Gate!Next]_<<kvars, Permits>>
  <2>1. Permits' = Permits
    BY <1>1 DEF Switch, Permits
  <2>. QED BY <1>1, <2>1 DEF Switch, SetEnabled, NotLate, Gate!Next, Gate!Switch, Gate!SetEnabled, Gate!NotLate, Permits
<1>2. ASSUME NEW s \in Schedules, Create(s) \/ BecomesDue(s) \/ \E on \in BOOLEAN : SetScheduleEnabled(s, on)
      PROVE  [Gate!Next]_<<kvars, Permits>>
  BY <1>2, PermitsKept DEF Create, BecomesDue, SetScheduleEnabled
<1>3. ASSUME NEW k \in Tickers, Tick(k) PROVE [Gate!Next]_<<kvars, Permits>>
  <2>1. CASE TickSelect(k) \/ RunnerEnds(k) \/ RecordSuccessFails(k)
    BY <2>1, PermitsKept DEF TickSelect, RunnerEnds, RecordSuccessFails
  <2>2. CASE Skip(k) \/ Record(k)
    BY <2>2, PermitsKept DEF Skip, Record, GoOn
  <2>3. CASE TickFails(k) \/ Crash(k)
    BY <2>3, PermitDropped DEF TickFails, Crash
  <2>. QED BY <1>3, <2>1, <2>2, <2>3, PermitGranted, PermitUsed DEF Tick
<1>4. CASE UNCHANGED vars
  BY <1>4, PermitsKept DEF vars
<1>. QED BY <1>1, <1>2, <1>3, <1>4 DEF Next

\* The scheduler implements the gate: every run uses up a permit that was
\* given while its tenant was not halted.
THEOREM GateImplemented == Spec => ImplementsGate
<1>1. Init => Gate!Init
  BY DEF Init, KInit, NotLate, Gate!Init, Gate!KInit, Gate!NotLate
<1>2. IInv /\ [Next]_vars => [Gate!Next]_<<kvars, Permits>>
  BY StepImplementsGate
<1>. QED BY Inductive, <1>1, <1>2, PTL DEF Spec, ImplementsGate, Gate!Spec, Permits

\* After a halt each tick starts at most the run whose switch it had read
\* before: the gate's own theorem, carried over.
THEOREM HaltBoundsRuns == Spec => []LateWorkBounded
<1>1. Gate!Spec => []Gate!LateWorkBounded
  BY Gate!GateBoundsLateWork
<1>2. Gate!LateWorkBounded => LateWorkBounded
  BY DEF Gate!LateWorkBounded, LateWorkBounded
<1>. QED BY GateImplemented, <1>1, <1>2, PTL DEF ImplementsGate
=============================================================================
