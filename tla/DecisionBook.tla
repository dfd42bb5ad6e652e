---------------------------- MODULE DecisionBook ----------------------------
(***************************************************************************)
(* A decision as the development store keeps it (DevelopmentStore in       *)
(* src/server/store.ts): an operation runs in one step of the event loop.  *)
(* It is what the PostgreSQL store promises of operations that do not      *)
(* overlap and do not fail half-way.                                       *)
(***************************************************************************)
EXTENDS Naturals

VARIABLES
    status,    \* "none" before the decision is created
    runs,      \* how many workflow executions were started
    results    \* how many outcomes were recorded

bookVars == <<status, runs, results>>

Actionable == {"approved", "action_pending", "completed"}

StatusAfter(outcome) == IF outcome = "measured" THEN "outcome_recorded" ELSE "completed"

BookInit == status = "none" /\ runs = 0 /\ results = 0

BookCreate == status = "none" /\ status' = "proposed" /\ UNCHANGED <<runs, results>>

BookApprove == status = "proposed" /\ status' = "approved" /\ UNCHANGED <<runs, results>>

BookAct ==
    /\ status = "approved"
    /\ status' = "action_pending"
    /\ runs' = runs + 1
    /\ UNCHANGED results

BookOutcome ==
    /\ status \in Actionable
    /\ \E outcome \in {"measured", "expected"} : status' = StatusAfter(outcome)
    /\ results' = results + 1
    /\ UNCHANGED runs

BookTool == runs' = runs + 1 /\ UNCHANGED <<status, results>>

BookNext == BookCreate \/ BookApprove \/ BookAct \/ BookOutcome \/ BookTool
=============================================================================
