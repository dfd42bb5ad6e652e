------------------------- MODULE OrchestrationProofs -------------------------
(***************************************************************************)
(* Proofs about the orchestrator for any limits, plans and number of       *)
(* overlapping calls, and any of the faults.  WorkInv ties the steps that  *)
(* were started to the call's own count, phase by phase; the limits and    *)
(* the truth of the record follow from it.                                 *)
(***************************************************************************)
EXTENDS Orchestration, FiniteSetTheorems, SequenceTheorems, TLAPS

USE TenantAssumption, LimitAssumption, PlanAssumption, FlipAssumption

\* How many steps call r has started: the ones that returned and the one
\* that is under way or that threw.
IsStarted(r, n) ==
    /\ n \in 0..PlanBound
    /\ executed[r] = [i \in 1..PlanBound |-> IF i <= n THEN 1 ELSE 0]

\* What the state of call r says of the n steps it has started.
Work(r, n) ==
    /\ IsStarted(r, n)
    /\ n = taken[r] \/ n = taken[r] + 1
    /\ n <= Len(plan[r])
    /\ n > 0 => n <= maxDepth[r] /\ n <= maxAgents[r] /\ n <= budget[r]
    /\ pc[r] \in {"idle", "admitted"} => n = 0 /\ status[r] = "absent" /\ verdict[r] = "completed"
    /\ pc[r] \in {"next", "executing", "checking"} =>
          /\ verdict[r] = "completed"
          /\ Len(plan[r]) <= maxAgents[r]
          /\ n = IF pc[r] = "executing" THEN taken[r] + 1 ELSE taken[r]
    /\ pc[r] \in {"next", "checking"} => taken[r] < budget[r] \/ taken[r] = Len(plan[r])
    /\ pc[r] = "executing" => taken[r] < budget[r]
    /\ pc[r] = "recording" =>
          /\ verdict[r] # "failed" => n = taken[r]
          /\ verdict[r] = "completed" => n = Len(plan[r])
          /\ verdict[r] = "budget_exceeded" => n < Len(plan[r])
    /\ Recorded(r) =>
          /\ pc[r] = "done" /\ depth[r] = taken[r]
          /\ status[r] # "failed" => n = taken[r]
          /\ status[r] = "completed" => n = Len(plan[r])
          /\ status[r] = "budget_exceeded" => n < Len(plan[r])

WorkInv == \A r \in Callers : \E n \in 0..PlanBound : Work(r, n)

IInv == TypeOK /\ WorkInv

USE DEF TypeOK, Statuses, Phases, KTypeOK, rows, call, kvars

-----------------------------------------------------------------------------
LEMMA PlanLength ==
    ASSUME NEW p \in Plans
    PROVE  /\ Len(p) \in 0..PlanBound
           /\ \A i \in 1..Len(p) : p[i] \in BOOLEAN
<1>1. PICK n \in 0..PlanBound : p \in [1..n -> BOOLEAN]
  BY DEF Plans
<1>2. Len(p) = n
  BY <1>1
<1>. QED BY <1>1, <1>2

\* A step of the system that leaves call q alone leaves what holds of it.
LEMMA WorkKept ==
    ASSUME IInv, NEW q \in Callers,
           pc'[q] = pc[q], status'[q] = status[q], depth'[q] = depth[q], plan'[q] = plan[q],
           taken'[q] = taken[q], verdict'[q] = verdict[q], executed'[q] = executed[q]
    PROVE  (\E n \in 0..PlanBound : Work(q, n))'
<1>1. PICK n \in 0..PlanBound : Work(q, n)
  BY DEF IInv, WorkInv
<1>2. Work(q, n)'
  BY <1>1 DEF Work, IsStarted, Recorded
<1>. QED BY <1>2

LEMMA InitInv == Init => IInv
<1> SUFFICES ASSUME Init PROVE IInv
  OBVIOUS
<1>1. TypeOK
  BY DEF Init, KInit, NotLate
<1>2. ASSUME NEW r \in Callers PROVE Work(r, 0)
  <2>1. Len(plan[r]) \in 0..PlanBound
    BY PlanLength DEF Init
  <2>2. IsStarted(r, 0)
    BY DEF Init, IsStarted
  <2>. QED BY <2>1, <2>2 DEF Init, Work, Recorded
<1>. QED BY <1>1, <1>2 DEF IInv, WorkInv

LEMMA SwitchInv ==
    ASSUME IInv, NEW m \in Tenants, NEW on \in BOOLEAN, Switch(m, on) PROVE IInv'
<1>1. TypeOK'
  <2>1. KTypeOK'
    BY DEF IInv, Switch, SetEnabled, NotLate
  <2>. QED BY <2>1 DEF IInv, Switch
<1>. QED BY <1>1, WorkKept DEF IInv, WorkInv, Switch

LEMMA AssertAllowedInv == ASSUME IInv, NEW r \in Callers, AssertAllowed(r) PROVE IInv'
<1>0. Len(plan[r]) \in 0..PlanBound /\ taken[r] \in Nat
  BY PlanLength DEF IInv
<1>1. PICK n \in 0..PlanBound : Work(r, n)
  BY DEF IInv, WorkInv
<1>2. TypeOK'
  BY <1>1 DEF IInv, AssertAllowed, GoTo
<1>3. ASSUME NEW q \in Callers, q # r PROVE (\E m \in 0..PlanBound : Work(q, m))'
  BY <1>3, WorkKept DEF IInv, AssertAllowed, GoTo
<1>4. (\E m \in 0..PlanBound : Work(r, m))'
  BY <1>1, <1>0 DEF IInv, Work, IsStarted, Recorded, AssertAllowed, GoTo
<1>. QED BY <1>2, <1>3, <1>4 DEF IInv, WorkInv

LEMMA RefuseInv == ASSUME IInv, NEW r \in Callers, Refuse(r) PROVE IInv'
<1>0. Len(plan[r]) \in 0..PlanBound /\ taken[r] \in Nat
  BY PlanLength DEF IInv
<1>1. PICK n \in 0..PlanBound : Work(r, n)
  BY DEF IInv, WorkInv
<1>2. TypeOK'
  BY <1>1 DEF IInv, Refuse, GoTo
<1>3. ASSUME NEW q \in Callers, q # r PROVE (\E m \in 0..PlanBound : Work(q, m))'
  BY <1>3, WorkKept DEF IInv, Refuse, GoTo
<1>4. (\E m \in 0..PlanBound : Work(r, m))'
  BY <1>1, <1>0 DEF IInv, Work, IsStarted, Recorded, Refuse, GoTo
<1>. QED BY <1>2, <1>3, <1>4 DEF IInv, WorkInv

LEMMA InsertRunInv == ASSUME IInv, NEW r \in Callers, InsertRun(r) PROVE IInv'
<1>0. Len(plan[r]) \in 0..PlanBound /\ taken[r] \in Nat
  BY PlanLength DEF IInv
<1>1. PICK n \in 0..PlanBound : Work(r, n)
  BY DEF IInv, WorkInv
<1>2. TypeOK'
  BY <1>1 DEF IInv, InsertRun, GoTo
<1>3. ASSUME NEW q \in Callers, q # r PROVE (\E m \in 0..PlanBound : Work(q, m))'
  BY <1>3, WorkKept DEF IInv, InsertRun, GoTo
<1>4. (\E m \in 0..PlanBound : Work(r, m))'
  <2>1. Work(r, n)'
    BY <1>1, <1>0 DEF IInv, Work, IsStarted, Recorded, InsertRun, GoTo
  <2>. QED BY <2>1
<1>. QED BY <1>2, <1>3, <1>4 DEF IInv, WorkInv

LEMMA TimePassesInv == ASSUME IInv, NEW r \in Callers, TimePasses(r) PROVE IInv'
<1>0. Len(plan[r]) \in 0..PlanBound /\ taken[r] \in Nat
  BY PlanLength DEF IInv
<1>1. PICK n \in 0..PlanBound : Work(r, n)
  BY DEF IInv, WorkInv
<1>2. TypeOK'
  BY <1>1 DEF IInv, TimePasses
<1>3. ASSUME NEW q \in Callers, q # r PROVE (\E m \in 0..PlanBound : Work(q, m))'
  BY <1>3, WorkKept DEF IInv, TimePasses
<1>4. (\E m \in 0..PlanBound : Work(r, m))'
  BY <1>1, <1>0 DEF IInv, Work, IsStarted, Recorded, TimePasses
<1>. QED BY <1>2, <1>3, <1>4 DEF IInv, WorkInv

LEMMA FinishInv == ASSUME IInv, NEW r \in Callers, Finish(r) PROVE IInv'
<1>0. Len(plan[r]) \in 0..PlanBound /\ taken[r] \in Nat
  BY PlanLength DEF IInv
<1>1. PICK n \in 0..PlanBound : Work(r, n)
  BY DEF IInv, WorkInv
<1>2. TypeOK'
  BY <1>1 DEF IInv, Finish, Conclude, GoTo
<1>3. ASSUME NEW q \in Callers, q # r PROVE (\E m \in 0..PlanBound : Work(q, m))'
  BY <1>3, WorkKept DEF IInv, Finish, Conclude, GoTo
<1>4. (\E m \in 0..PlanBound : Work(r, m))'
  BY <1>1, <1>0 DEF IInv, Work, IsStarted, Recorded, Finish, Conclude, GoTo
<1>. QED BY <1>2, <1>3, <1>4 DEF IInv, WorkInv

LEMMA StopInv == ASSUME IInv, NEW r \in Callers, Stop(r) PROVE IInv'
<1>0. Len(plan[r]) \in 0..PlanBound /\ taken[r] \in Nat
  BY PlanLength DEF IInv
<1>1. PICK n \in 0..PlanBound : Work(r, n)
  BY DEF IInv, WorkInv
<1>2. TypeOK'
  BY <1>1 DEF IInv, Stop, Conclude, GoTo
<1>3. ASSUME NEW q \in Callers, q # r PROVE (\E m \in 0..PlanBound : Work(q, m))'
  BY <1>3, WorkKept DEF IInv, Stop, Conclude, GoTo
<1>4. (\E m \in 0..PlanBound : Work(r, m))'
  <2>1. PICK v \in {"timed_out", "budget_exceeded", "failed"} :
            pc' = [pc EXCEPT ![r] = "recording"] /\ verdict' = [verdict EXCEPT ![r] = v]
    BY DEF Stop, Conclude, GoTo
  <2>2. /\ pc[r] = "next" /\ taken[r] < Len(plan[r])
        /\ UNCHANGED <<status, depth, plan, taken, executed>>
    BY DEF Stop
  <2>3. Work(r, n)'
    BY <1>1, <1>0, <2>1, <2>2 DEF IInv, Work, IsStarted, Recorded
  <2>. QED BY <2>3
<1>. QED BY <1>2, <1>3, <1>4 DEF IInv, WorkInv

LEMMA ExecuteInv == ASSUME IInv, NEW r \in Callers, Execute(r) PROVE IInv'
<1>0. Len(plan[r]) \in 0..PlanBound /\ taken[r] \in Nat
  BY PlanLength DEF IInv
<1>1. PICK n \in 0..PlanBound : Work(r, n)
  BY DEF IInv, WorkInv
<1>2. TypeOK'
  <2>1. late' \in [Tenants -> [Callers -> Nat]]
    <3>1. late \in [Tenants -> [Callers -> Nat]] /\ TenantOf[r] \in Tenants
      BY DEF IInv
    <3>2. late[TenantOf[r]] \in [Callers -> Nat]
      BY <3>1
    <3>. QED BY <3>1, <3>2 DEF Execute, StartsWork
  <2>2. executed' \in [Callers -> [1..PlanBound -> Nat]]
    <3>0. taken[r] < Len(plan[r])
      BY DEF Execute
    <3>1. executed \in [Callers -> [1..PlanBound -> Nat]]
      BY DEF IInv
    <3>3. NextStep(r) \in 1..PlanBound
      BY <3>0, <1>0 DEF NextStep
    <3>2. executed[r] \in [1..PlanBound -> Nat] /\ executed[r][NextStep(r)] + 1 \in Nat
      BY <3>1, <3>3
    <3>. QED BY <3>1, <3>2, <3>3 DEF Execute
  <2>. QED BY <2>1, <2>2 DEF IInv, Execute, StartsWork, GoTo
<1>3. ASSUME NEW q \in Callers, q # r PROVE (\E m \in 0..PlanBound : Work(q, m))'
  BY <1>3, WorkKept DEF IInv, Execute, StartsWork, NextStep, GoTo
<1>4. (\E m \in 0..PlanBound : Work(r, m))'
  <2>1. /\ n = taken[r] /\ n < Len(plan[r]) /\ n < maxDepth[r] /\ n < maxAgents[r] /\ n < budget[r]
        /\ n + 1 \in 1..PlanBound /\ status[r] = "running" /\ verdict[r] = "completed"
        /\ Len(plan[r]) <= maxAgents[r]
    BY <1>1, <1>0 DEF IInv, Execute, Work
  <2>2. executed'[r] = [i \in 1..PlanBound |-> IF i <= n + 1 THEN 1 ELSE 0]
    <3>1. executed[r] = [i \in 1..PlanBound |-> IF i <= n THEN 1 ELSE 0]
      BY <1>1 DEF Work, IsStarted
    <3>0. NextStep(r) = n + 1
      BY <2>1 DEF NextStep
    <3>3. executed \in [Callers -> [1..PlanBound -> Nat]]
      BY DEF IInv
    <3>4. executed' = [executed EXCEPT ![r][n + 1] = @ + 1]
      BY <3>0, Zenon DEF Execute
    <3>2. executed'[r] = [executed[r] EXCEPT ![n + 1] = @ + 1]
      BY <3>3, <3>4, Zenon
    <3>5. n + 1 \in 1..PlanBound /\ n \in Nat
      BY <2>1
    <3>6. DOMAIN executed'[r] = 1..PlanBound
      BY <3>1, <3>2
    <3>7. \A i \in 1..PlanBound : executed'[r][i] = IF i <= n + 1 THEN 1 ELSE 0
      BY <3>1, <3>2, <3>5
    <3>. QED BY <3>2, <3>6, <3>7
  <2>3. /\ pc'[r] = "executing"
        /\ UNCHANGED <<status, depth, plan, taken, verdict>>
    BY DEF IInv, Execute, GoTo
  <2>4. Work(r, n + 1)'
    BY <2>1, <2>2, <2>3 DEF Work, IsStarted, Recorded
  <2>. QED BY <2>1, <2>4
<1>. QED BY <1>2, <1>3, <1>4 DEF IInv, WorkInv

LEMMA StepReturnsInv == ASSUME IInv, NEW r \in Callers, StepReturns(r) PROVE IInv'
<1>0. Len(plan[r]) \in 0..PlanBound /\ taken[r] \in Nat
  BY PlanLength DEF IInv
<1>1. PICK n \in 0..PlanBound : Work(r, n)
  BY DEF IInv, WorkInv
<1>2. TypeOK'
  <2>1. taken' = [taken EXCEPT ![r] = @ + 1] /\ taken[r] + 1 \in 0..PlanBound
    BY <1>1 DEF IInv, StepReturns, Work, IsStarted
  <2>2. verdict' \in [Callers -> Statuses \ {"absent", "running"}] /\ pc' \in [Callers -> Phases]
    <3>1. verdict \in [Callers -> Statuses \ {"absent", "running"}] /\ pc \in [Callers -> Phases]
      BY DEF IInv
    <3>. QED BY <3>1 DEF StepReturns, Conclude, GoTo
  <2>3. \A q \in Callers : pc'[q] \in {"next", "executing", "checking", "recording"} => status[q] = "running"
    BY DEF IInv, StepReturns, Conclude, GoTo
  <2>4. taken' \in [Callers -> 0..PlanBound]
    BY <2>1 DEF IInv
  <2>. QED BY <2>2, <2>3, <2>4 DEF IInv, StepReturns
<1>3. ASSUME NEW q \in Callers, q # r PROVE (\E m \in 0..PlanBound : Work(q, m))'
  BY <1>3, WorkKept DEF IInv, StepReturns, Conclude, GoTo
<1>4. (\E m \in 0..PlanBound : Work(r, m))'
  <2>1. /\ n = taken[r] + 1 /\ taken'[r] = n
        /\ UNCHANGED <<status, depth, plan, executed>>
        /\ status[r] = "running" /\ verdict[r] = "completed" /\ Len(plan[r]) <= maxAgents[r]
    BY <1>1, <1>0 DEF IInv, StepReturns, Work
  <2>2. CASE n >= budget[r] /\ n < Len(plan[r])
    <3>1. pc'[r] = "recording" /\ verdict'[r] = "budget_exceeded"
      BY <2>1, <2>2 DEF IInv, StepReturns, Conclude, GoTo
    <3>2. Work(r, n)'
      BY <1>1, <1>0, <2>1, <2>2, <3>1 DEF Work, IsStarted, Recorded
    <3>. QED BY <3>2
  <2>3. CASE ~(n >= budget[r] /\ n < Len(plan[r]))
    <3>1. pc'[r] = "checking" /\ verdict'[r] = "completed"
      BY <2>1, <2>3 DEF IInv, StepReturns, Conclude, GoTo
    <3>2. Work(r, n)'
      BY <1>1, <1>0, <2>1, <2>3, <3>1 DEF Work, IsStarted, Recorded
    <3>. QED BY <3>2
  <2>. QED BY <2>2, <2>3
<1>. QED BY <1>2, <1>3, <1>4 DEF IInv, WorkInv

LEMMA RecheckInv == ASSUME IInv, NEW r \in Callers, Recheck(r) PROVE IInv'
<1>0. Len(plan[r]) \in 0..PlanBound /\ taken[r] \in Nat
  BY PlanLength DEF IInv
<1>1. PICK n \in 0..PlanBound : Work(r, n)
  BY DEF IInv, WorkInv
<1>2. TypeOK'
  <2>1. CASE IsHalted(TenantOf[r])
    <3>1. pc' = [pc EXCEPT ![r] = "recording"] /\ verdict' = [verdict EXCEPT ![r] = "cancelled"]
      BY <2>1 DEF Recheck, Conclude, GoTo
    <3>. QED BY <3>1 DEF IInv, Recheck
  <2>2. CASE ~IsHalted(TenantOf[r])
    BY <2>2 DEF IInv, Recheck, GoTo
  <2>. QED BY <2>1, <2>2
<1>3. ASSUME NEW q \in Callers, q # r PROVE (\E m \in 0..PlanBound : Work(q, m))'
  BY <1>3, WorkKept DEF IInv, Recheck, Conclude, GoTo
<1>4. (\E m \in 0..PlanBound : Work(r, m))'
  <2>1. pc[r] = "checking" /\ UNCHANGED <<status, depth, plan, taken, executed>>
    BY DEF Recheck
  <2>2. CASE IsHalted(TenantOf[r])
    <3>1. pc' = [pc EXCEPT ![r] = "recording"] /\ verdict' = [verdict EXCEPT ![r] = "cancelled"]
      BY <2>2 DEF Recheck, Conclude, GoTo
    <3>2. Work(r, n)'
      BY <1>1, <1>0, <2>1, <3>1 DEF IInv, Work, IsStarted, Recorded
    <3>. QED BY <3>2
  <2>3. CASE ~IsHalted(TenantOf[r])
    <3>1. pc' = [pc EXCEPT ![r] = "next"] /\ UNCHANGED verdict
      BY <2>3 DEF Recheck, GoTo
    <3>2. Work(r, n)'
      BY <1>1, <1>0, <2>1, <3>1 DEF IInv, Work, IsStarted, Recorded
    <3>. QED BY <3>2
  <2>. QED BY <2>2, <2>3
<1>. QED BY <1>2, <1>3, <1>4 DEF IInv, WorkInv

LEMMA StepThrowsInv == ASSUME IInv, NEW r \in Callers, StepThrows(r) PROVE IInv'
<1>0. Len(plan[r]) \in 0..PlanBound /\ taken[r] \in Nat
  BY PlanLength DEF IInv
<1>1. PICK n \in 0..PlanBound : Work(r, n)
  BY DEF IInv, WorkInv
<1>2. TypeOK'
  BY <1>1 DEF IInv, StepThrows, Conclude, GoTo
<1>3. ASSUME NEW q \in Callers, q # r PROVE (\E m \in 0..PlanBound : Work(q, m))'
  BY <1>3, WorkKept DEF IInv, StepThrows, Conclude, GoTo
<1>4. (\E m \in 0..PlanBound : Work(r, m))'
  BY <1>1, <1>0 DEF IInv, Work, IsStarted, Recorded, StepThrows, Conclude, GoTo
<1>. QED BY <1>2, <1>3, <1>4 DEF IInv, WorkInv

LEMMA RecordInv == ASSUME IInv, NEW r \in Callers, Record(r) PROVE IInv'
<1>0. Len(plan[r]) \in 0..PlanBound /\ taken[r] \in Nat
  BY PlanLength DEF IInv
<1>1. PICK n \in 0..PlanBound : Work(r, n)
  BY DEF IInv, WorkInv
<1>2. TypeOK'
  BY <1>1 DEF IInv, Record, GoTo
<1>3. ASSUME NEW q \in Callers, q # r PROVE (\E m \in 0..PlanBound : Work(q, m))'
  BY <1>3, WorkKept DEF IInv, Record, GoTo
<1>4. (\E m \in 0..PlanBound : Work(r, m))'
  BY <1>1, <1>0 DEF IInv, Work, IsStarted, Recorded, Record, GoTo
<1>. QED BY <1>2, <1>3, <1>4 DEF IInv, WorkInv

LEMMA AbandonInv == ASSUME IInv, NEW r \in Callers, Abandon(r) PROVE IInv'
<1>0. Len(plan[r]) \in 0..PlanBound /\ taken[r] \in Nat
  BY PlanLength DEF IInv
<1>1. PICK n \in 0..PlanBound : Work(r, n)
  BY DEF IInv, WorkInv
<1>2. TypeOK'
  BY <1>1 DEF IInv, Abandon, GoTo
<1>3. ASSUME NEW q \in Callers, q # r PROVE (\E m \in 0..PlanBound : Work(q, m))'
  BY <1>3, WorkKept DEF IInv, Abandon, GoTo
<1>4. (\E m \in 0..PlanBound : Work(r, m))'
  BY <1>1, <1>0 DEF IInv, Work, IsStarted, Recorded, Abandon, GoTo
<1>. QED BY <1>2, <1>3, <1>4 DEF IInv, WorkInv

LEMMA NextInv == IInv /\ [Next]_vars => IInv'
<1> SUFFICES ASSUME IInv, [Next]_vars PROVE IInv'
  OBVIOUS
<1>1. ASSUME NEW r \in Callers, Run(r) PROVE IInv'
  BY <1>1, AssertAllowedInv, RefuseInv, InsertRunInv, FinishInv, StopInv, ExecuteInv,
     StepReturnsInv, RecheckInv, StepThrowsInv, RecordInv DEF Run
<1>2. CASE UNCHANGED vars
  <2>1. TypeOK'
    BY <1>2 DEF vars, IInv
  <2>. QED BY <1>2, <2>1, WorkKept DEF vars, IInv, WorkInv
<1>. QED BY <1>1, <1>2, SwitchInv, TimePassesInv, AbandonInv DEF Next

THEOREM Inductive == Spec => []IInv
BY InitInv, NextInv, PTL DEF Spec

-----------------------------------------------------------------------------
\* Every reachable state is well typed, and a call that is under way has a
\* row that says running.
THEOREM TypeCorrect == Spec => []TypeOK
<1>1. IInv => TypeOK BY DEF IInv
<1>. QED BY Inductive, <1>1, PTL

LEMMA StartedIsPrefix ==
    ASSUME TypeOK, NEW r \in Callers, NEW n \in 0..PlanBound, Work(r, n)
    PROVE  Started(r) = 1..n /\ Cardinality(Started(r)) = n
<1>1. Started(r) = 1..n
  BY DEF Started, Work, IsStarted
<1>2. Cardinality(1..n) = n
  BY FS_Interval
<1>. QED BY <1>1, <1>2

\* No call starts a step twice, out of turn, or beyond one of its limits,
\* whatever the limits are (orchestration.ts 35-36).
THEOREM LimitsHold == Spec => []StepsWithinLimits
<1>1. IInv => StepsWithinLimits
  <2> SUFFICES ASSUME IInv, NEW r \in Callers
               PROVE  /\ \A i \in 1..PlanBound : executed[r][i] <= 1
                      /\ \E n \in 0..PlanBound : Started(r) = 1..n
                      /\ \A limit \in {maxDepth[r], maxAgents[r], budget[r]} : Cardinality(Started(r)) <= limit
    BY DEF StepsWithinLimits
  <2>1. PICK n \in 0..PlanBound : Work(r, n)
    BY DEF IInv, WorkInv
  <2>2. Started(r) = 1..n /\ Cardinality(Started(r)) = n
    BY <2>1, StartedIsPrefix DEF IInv
  <2>3. \A i \in 1..PlanBound : executed[r][i] <= 1
    BY <2>1 DEF Work, IsStarted
  <2>4. n <= maxDepth[r] /\ n <= maxAgents[r] /\ n <= budget[r]
    BY <2>1 DEF Work
  <2>. QED BY <2>2, <2>3, <2>4
<1>. QED BY Inductive, <1>1, PTL

\* The row of a run tells how many steps were started, but for the one that
\* threw, and completed means all of them (orchestration.ts 37).
THEOREM RecordIsTrue == Spec => []RecordTellsTheRun
<1>1. IInv => RecordTellsTheRun
  <2> SUFFICES ASSUME IInv, NEW r \in Callers, Recorded(r)
               PROVE  LET n == Cardinality(Started(r)) IN
                      /\ \/ depth[r] = n
                         \/ depth[r] + 1 = n /\ status[r] = "failed"
                      /\ status[r] = "completed" => n = Len(plan[r])
                      /\ status[r] = "budget_exceeded" => n < Len(plan[r])
    BY DEF RecordTellsTheRun
  <2>1. PICK n \in 0..PlanBound : Work(r, n)
    BY DEF IInv, WorkInv
  <2>2. Cardinality(Started(r)) = n
    BY <2>1, StartedIsPrefix DEF IInv
  <2>. QED BY <2>1, <2>2 DEF Work, IInv
<1>. QED BY Inductive, <1>1, PTL

-----------------------------------------------------------------------------
(* The orchestrator implements the gate: a call's permit lasts from a read *)
(* of the switch to the start of the next step.                            *)

Permits == [r \in Callers |-> IF pc[r] \in {"admitted", "next"} THEN {TenantOf[r]} ELSE {}]

USE DEF Gate!kvars, Gate!IsHalted, IsHalted, GoTo, Conclude

\* A step of call r that starts no work grants, keeps or drops its permit.
LEMMA PermitMoves ==
    ASSUME TypeOK, NEW r \in Callers, NEW p \in Phases, pc' = [pc EXCEPT ![r] = p], UNCHANGED kvars,
           p \in {"admitted", "next"} => pc[r] \in {"admitted", "next"} \/ ~IsHalted(TenantOf[r])
    PROVE  [Gate!Next]_<<kvars, Permits>>
<1>1. TenantOf[r] \in Tenants
  OBVIOUS
<1>2. CASE p \notin {"admitted", "next"}
  <2>1. Permits' = [Permits EXCEPT ![r] = {}]
    BY <1>2 DEF Permits
  <2>. QED BY <2>1 DEF Gate!Next, Gate!Drop, Permits
<1>3. CASE p \in {"admitted", "next"} /\ pc[r] \in {"admitted", "next"}
  <2>1. Permits' = Permits
    BY <1>3 DEF Permits
  <2>. QED BY <2>1
<1>4. CASE p \in {"admitted", "next"} /\ pc[r] \notin {"admitted", "next"}
  <2>1. Permits[r] = {} /\ Permits' = [Permits EXCEPT ![r] = {TenantOf[r]}]
    BY <1>4 DEF Permits
  <2>2. Gate!Grant(r, TenantOf[r])
    BY <1>4, <2>1 DEF Gate!Grant, Permits
  <2>. QED BY <1>1, <2>2 DEF Gate!Next
<1>. QED BY <1>2, <1>3, <1>4

LEMMA PermitUsed ==
    ASSUME TypeOK, NEW r \in Callers, Execute(r) PROVE [Gate!Next]_<<kvars, Permits>>
<1>1. TenantOf[r] \in Tenants /\ TenantOf[r] \in Permits[r]
  BY DEF Execute, Permits
<1>2. Permits' = [Permits EXCEPT ![r] = {}]
  BY DEF Execute, Permits
<1>3. Gate!Use(r, TenantOf[r])
  BY <1>1, <1>2 DEF Gate!Use, Gate!StartsWork, StartsWork, Execute, Permits
<1>. QED BY <1>1, <1>3 DEF Gate!Next

LEMMA StepImplementsGate == TypeOK /\ [Next]_vars => [Gate!Next]_<<kvars, Permits>>
<1> SUFFICES ASSUME TypeOK, [Next]_vars PROVE [Gate!Next]_<<kvars, Permits>>
  OBVIOUS
<1>1. ASSUME NEW n \in Tenants, NEW on \in BOOLEAN, Switch(n, on) PROVE [Gate!Next]_<<kvars, Permits>>
  <2>1. Permits' = Permits
    BY <1>1 DEF Switch, Permits
  <2>. QED BY <1>1, <2>1 DEF Switch, SetEnabled, NotLate, Gate!Next, Gate!Switch, Gate!SetEnabled, Gate!NotLate, Permits
<1>2. ASSUME NEW r \in Callers, Run(r) PROVE [Gate!Next]_<<kvars, Permits>>
  <2>1. CASE AssertAllowed(r)
    BY <2>1, PermitMoves DEF AssertAllowed
  <2>2. CASE InsertRun(r) \/ Refuse(r)
    BY <2>2, PermitMoves DEF InsertRun, Refuse
  <2>3. CASE Finish(r) \/ Stop(r) \/ StepThrows(r) \/ Record(r)
    BY <2>3, PermitMoves DEF Finish, Stop, StepThrows, Record
  <2>4. CASE StepReturns(r)
    BY <2>4, PermitMoves DEF StepReturns
  <2>5. CASE Recheck(r)
    BY <2>5, PermitMoves DEF Recheck
  <2>. QED BY <1>2, <2>1, <2>2, <2>3, <2>4, <2>5, PermitUsed DEF Run
<1>3. ASSUME NEW r \in Callers, Abandon(r) PROVE [Gate!Next]_<<kvars, Permits>>
  BY <1>3, PermitMoves DEF Abandon
<1>4. CASE UNCHANGED vars \/ \E r \in Callers : TimePasses(r)
  <2>1. Permits' = Permits /\ UNCHANGED kvars
    BY <1>4 DEF vars, TimePasses, Permits
  <2>. QED BY <2>1
<1>. QED BY <1>1, <1>2, <1>3, <1>4 DEF Next

\* The orchestrator implements the gate: every step uses up a permit that
\* was given while the tenant was not halted (orchestration.ts 36-37).
THEOREM GateImplemented == Spec => ImplementsGate
<1>1. Init => Gate!Init
  BY DEF Init, KInit, NotLate, Gate!Init, Gate!KInit, Gate!NotLate
<1>2. TypeOK /\ [Next]_vars => [Gate!Next]_<<kvars, Permits>>
  BY StepImplementsGate
<1>. QED BY TypeCorrect, <1>1, <1>2, PTL DEF Spec, ImplementsGate, Gate!Spec, Permits

\* After a halt each call starts at most the one step that was let through
\* before: the gate's own theorem, carried over.
THEOREM HaltBoundsSteps == Spec => []LateWorkBounded
<1>1. Gate!Spec => []Gate!LateWorkBounded
  BY Gate!GateBoundsLateWork
<1>2. Gate!LateWorkBounded => LateWorkBounded
  BY DEF Gate!LateWorkBounded, LateWorkBounded
<1>. QED BY GateImplemented, <1>1, <1>2, PTL DEF ImplementsGate
=============================================================================
