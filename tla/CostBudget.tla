----------------------------- MODULE CostBudget -----------------------------
(***************************************************************************)
(* The AI cost ledger of one tenant and its monthly budget                 *)
(* (src/server/cost.ts).  recordEstimated reads the budget, then the sum   *)
(* of the ledger, tests the two, and inserts its row in a later statement; *)
(* recordActual inserts without a test.  Requests overlap and end between  *)
(* their statements.  Costs are whole units.                               *)
(***************************************************************************)
EXTENDS Integers, FiniteSets

CONSTANTS
    Requests,   \* concurrent requests that record usage
    MaxCost,    \* bound: what one call of a model costs at most
    Budgets,    \* the budgets considered, of which NoBudget may be one
    ActualBound \* bound: the estimated cost of the rows of kind 'actual'

NoBudget == -1

ASSUME RequestAssumption == IsFiniteSet(Requests) /\ Requests # {}
ASSUME CostAssumption == MaxCost \in Nat /\ ActualBound \in Nat
ASSUME BudgetAssumption == Budgets \subseteq Nat \cup {NoBudget}

VARIABLES
    budget,     \* organization_settings.monthly_ai_budget_cents
    (* sums of estimated_cost_cents in ai_cost_ledger, by kind *)
    estimated,
    actual,
    (* the requests *)
    stage,
    cost        \* additionalCents

ledgerVars == <<budget, estimated, actual, stage, cost>>

Stages == {"idle", "limited", "admitted"}
Spent == estimated + actual

LedgerInit ==
    /\ budget \in Budgets
    /\ estimated = 0
    /\ actual = 0
    /\ stage = [r \in Requests |-> "idle"]
    /\ cost = [r \in Requests |-> 0]

\* The budget is read; without one the usage is not limited.
ReadBudget(r) ==
    /\ stage[r] = "idle"
    /\ \E n \in 0..MaxCost : cost' = [cost EXCEPT ![r] = n]
    /\ stage' = [stage EXCEPT ![r] = IF budget = NoBudget THEN "admitted" ELSE "limited"]
    /\ UNCHANGED <<budget, estimated, actual>>

\* Bug: the cost of the call itself is not counted.
ReadSpentOnly(r) ==
    /\ stage[r] = "limited"
    /\ Spent <= budget
    /\ stage' = [stage EXCEPT ![r] = "admitted"]
    /\ UNCHANGED <<budget, estimated, actual, cost>>

\* The sum is read and leaves room for the call.
ReadSpent(r) ==
    /\ stage[r] = "limited"
    /\ Spent + cost[r] <= budget
    /\ stage' = [stage EXCEPT ![r] = "admitted"]
    /\ UNCHANGED <<budget, estimated, actual, cost>>

Release(r) ==
    /\ stage' = [stage EXCEPT ![r] = "idle"]
    /\ cost' = [cost EXCEPT ![r] = 0]

Exceeded(r) ==
    /\ stage[r] = "limited"
    /\ Spent + cost[r] > budget
    /\ Release(r)
    /\ UNCHANGED <<budget, estimated, actual>>

\* The model stops when an unlimited ledger has outgrown every budget.
Insert(r) ==
    /\ stage[r] = "admitted"
    /\ budget = NoBudget => estimated <= MaxCost
    /\ estimated' = estimated + cost[r]
    /\ Release(r)
    /\ UNCHANGED <<budget, actual>>

RecordActual ==
    /\ \E n \in 0..MaxCost : actual + n <= ActualBound /\ actual' = actual + n
    /\ UNCHANGED <<budget, estimated, stage, cost>>

\* A statement fails or the process ends.
Interrupted(r) ==
    /\ stage[r] # "idle"
    /\ Release(r)
    /\ UNCHANGED <<budget, estimated, actual>>

LedgerNext ==
    \/ RecordActual
    \/ \E r \in Requests : ReadBudget(r) \/ ReadSpent(r) \/ Exceeded(r) \/ Insert(r) \/ Interrupted(r)

LedgerSpec == LedgerInit /\ [][LedgerNext]_ledgerVars

-----------------------------------------------------------------------------
\* Estimated usage stays within the budget but for the calls that can be in
\* flight beside one that is admitted: one caller never overspends, each
\* further one may by the cost of a call.  "a tenant's monthly budget ... is
\* enforced on new estimated usage" (cost.ts 38-40).
OverspendBounded ==
    budget # NoBudget => estimated <= budget + (Cardinality(Requests) - 1) * MaxCost
=============================================================================
