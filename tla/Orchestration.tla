--------------------------- MODULE Orchestration ---------------------------
(***************************************************************************)
(* Bounded multi-agent orchestration (src/server/orchestration.ts),        *)
(* composed with the kill switch.  A caller runs one plan: it checks the   *)
(* switch and the size of the plan, inserts the run, executes the steps in *)
(* order within the limits, reads the switch after each, and records the   *)
(* outcome.  Calls overlap; each keeps its own count of what it has used.  *)
(***************************************************************************)
EXTENDS KillSwitch, Sequences, FiniteSets

CONSTANTS
    TenantOf,        \* the tenant of each call
    maxDepth, maxAgents, budget,   \* OrchestrationLimits of the service a call is made on
    PlanBound,       \* bound: the longest plan a caller sends
    Settings         \* the combinations of FaultKinds considered

FaultKinds == {"crash", "dbError", "executorError", "slow"}

ASSUME TenantAssumption == TenantOf \in [Callers -> Tenants]
ASSUME LimitAssumption ==
    /\ maxDepth \in [Callers -> Nat] /\ maxAgents \in [Callers -> Nat]
    /\ budget \in [Callers -> Nat \ {0}]
ASSUME PlanAssumption == PlanBound \in Nat
ASSUME SettingAssumption == Settings \subseteq SUBSET FaultKinds

VARIABLES
    (* row of orchestration_runs, by call *)
    status,
    depth,       \* as recorded: depth and budget_used, which are always equal
    (* the call *)
    pc,
    plan,        \* for each step, whether an executor is registered for its agent
    taken,       \* steps that returned a result: steps.length and budgetUsed
    overdue,     \* more than timeoutMs has passed
    verdict,     \* the local variable status
    (* observation only *)
    executed,    \* how often each step of the plan was started
    (* the environment *)
    faults       \* what may go wrong in this behaviour

rows == <<status, depth>>
call == <<pc, plan, taken, overdue, verdict>>
vars == <<kvars, status, depth, pc, plan, taken, overdue, verdict, executed, faults>>

Statuses == {"absent", "running", "completed", "failed", "cancelled", "timed_out", "budget_exceeded"}
Phases == {"idle", "admitted", "next", "executing", "checking", "recording", "done"}
Plans == UNION {[1..n -> BOOLEAN] : n \in 0..PlanBound}

Init ==
    /\ KInit
    /\ status = [r \in Callers |-> "absent"]
    /\ depth = [r \in Callers |-> 0]
    /\ pc = [r \in Callers |-> "idle"]
    /\ plan \in [Callers -> Plans]
    /\ taken = [r \in Callers |-> 0]
    /\ overdue = [r \in Callers |-> FALSE]
    /\ verdict = [r \in Callers |-> "completed"]
    /\ executed = [r \in Callers |-> [i \in 1..PlanBound |-> 0]]
    /\ faults \in Settings

-----------------------------------------------------------------------------
Switch(n, on) == SetEnabled(n, on) /\ UNCHANGED <<rows, call, executed, faults>>

GoTo(r, p) == pc' = [pc EXCEPT ![r] = p]
Conclude(r, v) == GoTo(r, "recording") /\ verdict' = [verdict EXCEPT ![r] = v]

\* assertAutonomyAllowed; a call that is refused has no effect.
AssertAllowed(r) ==
    /\ pc[r] = "idle"
    /\ GoTo(r, IF IsHalted(TenantOf[r]) THEN "done" ELSE "admitted")
    /\ UNCHANGED <<kvars, rows, plan, taken, overdue, verdict, executed, faults>>

Refuse(r) ==
    /\ pc[r] = "admitted"
    /\ Len(plan[r]) \notin 1..maxAgents[r]
    /\ GoTo(r, "done")
    /\ UNCHANGED <<kvars, rows, plan, taken, overdue, verdict, executed, faults>>

InsertRun(r) ==
    /\ pc[r] = "admitted"
    /\ Len(plan[r]) \in 1..maxAgents[r]
    /\ status' = [status EXCEPT ![r] = "running"]
    /\ GoTo(r, "next")
    /\ UNCHANGED <<kvars, depth, plan, taken, overdue, verdict, executed, faults>>

TimePasses(r) ==
    /\ "slow" \in faults
    /\ pc[r] \in {"next", "executing", "checking"} /\ ~overdue[r]
    /\ overdue' = [overdue EXCEPT ![r] = TRUE]
    /\ UNCHANGED <<kvars, rows, pc, plan, taken, verdict, executed, faults>>

-----------------------------------------------------------------------------
(* The loop: the tests that come before a step, in their order             *)

NextStep(r) == taken[r] + 1

Finish(r) ==
    /\ pc[r] = "next" /\ taken[r] = Len(plan[r])
    /\ Conclude(r, "completed")
    /\ UNCHANGED <<kvars, rows, plan, taken, overdue, executed, faults>>

Stop(r) ==
    /\ pc[r] = "next" /\ taken[r] < Len(plan[r])
    /\ \/ overdue[r] /\ Conclude(r, "timed_out")
       \/ ~overdue[r] /\ taken[r] >= maxDepth[r] /\ Conclude(r, "budget_exceeded")
       \/ ~overdue[r] /\ taken[r] < maxDepth[r] /\ ~plan[r][NextStep(r)] /\ Conclude(r, "failed")
    /\ UNCHANGED <<kvars, rows, plan, taken, overdue, executed, faults>>

Execute(r) ==
    /\ pc[r] = "next" /\ taken[r] < Len(plan[r])
    /\ ~overdue[r] /\ taken[r] < maxDepth[r] /\ plan[r][NextStep(r)]
    /\ executed' = [executed EXCEPT ![r][NextStep(r)] = @ + 1]
    /\ StartsWork(r, TenantOf[r])
    /\ GoTo(r, "executing")
    /\ UNCHANGED <<rows, plan, taken, overdue, verdict, faults>>

\* Bug: budgetUsed > budget.
StepReturnsOverBudget(r) ==
    /\ pc[r] = "executing"
    /\ taken' = [taken EXCEPT ![r] = @ + 1]
    /\ IF taken'[r] > budget[r] /\ taken'[r] < Len(plan[r])
       THEN Conclude(r, "budget_exceeded")
       ELSE GoTo(r, "checking") /\ UNCHANGED verdict
    /\ UNCHANGED <<kvars, rows, plan, overdue, executed, faults>>

StepReturns(r) ==
    /\ pc[r] = "executing"
    /\ taken' = [taken EXCEPT ![r] = @ + 1]
    /\ IF taken'[r] >= budget[r] /\ taken'[r] < Len(plan[r])
       THEN Conclude(r, "budget_exceeded")
       ELSE GoTo(r, "checking") /\ UNCHANGED verdict
    /\ UNCHANGED <<kvars, rows, plan, overdue, executed, faults>>

Recheck(r) ==
    /\ pc[r] = "checking"
    /\ IF IsHalted(TenantOf[r])
       THEN Conclude(r, "cancelled")
       ELSE GoTo(r, "next") /\ UNCHANGED verdict
    /\ UNCHANGED <<kvars, rows, plan, taken, overdue, executed, faults>>

\* Bug: the catch block does not set the status.
StepThrowsUnnoticed(r) ==
    /\ \/ "executorError" \in faults /\ pc[r] = "executing"
       \/ "dbError" \in faults /\ pc[r] = "checking"
    /\ Conclude(r, verdict[r])
    /\ UNCHANGED <<kvars, rows, plan, taken, overdue, executed, faults>>

\* Bug: the error of a step leaves run.
StepThrowsOut(r) ==
    /\ \/ "executorError" \in faults /\ pc[r] = "executing"
       \/ "dbError" \in faults /\ pc[r] = "checking"
    /\ GoTo(r, "done")
    /\ UNCHANGED <<kvars, rows, plan, taken, overdue, verdict, executed, faults>>

\* The executor throws, or the read of the switch fails after the step.
StepThrows(r) ==
    /\ \/ "executorError" \in faults /\ pc[r] = "executing"
       \/ "dbError" \in faults /\ pc[r] = "checking"
    /\ Conclude(r, "failed")
    /\ UNCHANGED <<kvars, rows, plan, taken, overdue, executed, faults>>

Record(r) ==
    /\ pc[r] = "recording"
    /\ status' = [status EXCEPT ![r] = verdict[r]]
    /\ depth' = [depth EXCEPT ![r] = taken[r]]
    /\ GoTo(r, "done")
    /\ UNCHANGED <<kvars, plan, taken, overdue, verdict, executed, faults>>

\* A statement outside the try block fails, or the process ends: the row
\* stays as it is.
Abandon(r) ==
    /\ \/ "dbError" \in faults /\ pc[r] \in {"idle", "admitted", "recording"}
       \/ "crash" \in faults /\ pc[r] # "done"
    /\ GoTo(r, "done")
    /\ UNCHANGED <<kvars, rows, plan, taken, overdue, verdict, executed, faults>>

Run(r) ==
    \/ AssertAllowed(r) \/ Refuse(r) \/ InsertRun(r) \/ Finish(r) \/ Stop(r) \/ Execute(r)
    \/ StepReturns(r) \/ Recheck(r) \/ StepThrows(r) \/ Record(r)

Next ==
    \/ \E n \in Tenants, on \in BOOLEAN : Switch(n, on)
    \/ \E r \in Callers : Run(r) \/ TimePasses(r) \/ Abandon(r)

Spec == Init /\ [][Next]_vars

(* A call that has begun goes on: Node runs what is ready, and executors   *)
(* return or throw.                                                        *)
FairSpec == Spec /\ \A r \in Callers : WF_vars(pc[r] # "idle" /\ Run(r))

-----------------------------------------------------------------------------
Started(r) == {i \in 1..PlanBound : executed[r][i] > 0}
Recorded(r) == status[r] \notin {"absent", "running"}

\* The variables hold values of their columns and the phases are what the
\* row says: a call that is under way has inserted its row.
TypeOK ==
    /\ KTypeOK
    /\ status \in [Callers -> Statuses]
    /\ depth \in [Callers -> 0..PlanBound]
    /\ pc \in [Callers -> Phases]
    /\ plan \in [Callers -> Plans]
    /\ taken \in [Callers -> 0..PlanBound]
    /\ overdue \in [Callers -> BOOLEAN]
    /\ verdict \in [Callers -> Statuses \ {"absent", "running"}]
    /\ executed \in [Callers -> [1..PlanBound -> Nat]]
    /\ faults \in Settings
    /\ \A r \in Callers : pc[r] \in {"next", "executing", "checking", "recording"} => status[r] = "running"

\* A run starts no step twice and none out of turn, and never more steps
\* than each of the limits allows ("bounded ... budget-limited",
\* orchestration.ts 35-36).
StepsWithinLimits ==
    \A r \in Callers :
        /\ \A i \in 1..PlanBound : executed[r][i] <= 1
        /\ \E n \in 0..PlanBound : Started(r) = 1..n
        /\ \A limit \in {maxDepth[r], maxAgents[r], budget[r]} : Cardinality(Started(r)) <= limit

\* The row tells what was done: completed means every step of the plan, and
\* only a failed run may have started a step it does not count ("the whole
\* run is recorded", orchestration.ts 37).
RecordTellsTheRun ==
    \A r \in Callers : Recorded(r) =>
        LET n == Cardinality(Started(r)) IN
        /\ \/ depth[r] = n
           \/ depth[r] + 1 = n /\ status[r] = "failed"
        /\ status[r] = "completed" => n = Len(plan[r])
        /\ status[r] = "budget_exceeded" => n < Len(plan[r])

\* A run that was inserted is recorded with an outcome, unless its process
\* ends or a statement outside the try block fails.
RunsAreRecorded ==
    faults \subseteq {"executorError", "slow"} =>
        \A r \in Callers : (status[r] = "running") ~> Recorded(r)

\* A call holds a permit from a read of the switch that found no halt until
\* it starts a step or gives up.
Gate == INSTANCE AutonomyGate WITH
    permit <- [r \in Callers |-> IF pc[r] \in {"admitted", "next"} THEN {TenantOf[r]} ELSE {}]

\* Every step is started on a permit of its own: "every step ... re-checks
\* the kill switch" (orchestration.ts 36-37).
ImplementsGate == Gate!Spec
=============================================================================
