------------------------------ MODULE Decisions ------------------------------
(***************************************************************************)
(* One decision of the PostgreSQL store, the workflow executions started   *)
(* for it, and the tools (PostgresStore in src/server/store.ts).  A call   *)
(* is a sequence of statements, each a transaction of its own; what a call *)
(* read is not tested again by its later statements.                       *)
(***************************************************************************)
EXTENDS FiniteSets, Integers, Sequences

CONSTANTS
    DeskCalls,    \* concurrent requests, each of one operation
    Workflows,
    Supervised,   \* the workflows with requires_approval
    RequestIds,   \* a client may send the same x-request-id again
    Settings      \* the combinations of FaultKinds considered

FaultKinds == {"overlap", "crash"}

ASSUME DeskAssumption ==
    /\ IsFiniteSet(DeskCalls) /\ "none" \notin DeskCalls
    /\ Settings \subseteq SUBSET FaultKinds

VARIABLES
    faults,
    row,       \* the rows of the decision, its executions and the tools
    step,      \* the next statement of each call
    request    \* its operation and parameters

dvars == <<faults, row, step, request>>

Book == INSTANCE DecisionBook WITH
    status <- row.status,
    runs <- Cardinality({c \in DeskCalls : row.execution[c] # "none" /\ step[c] = "done"}),
    results <- Cardinality({c \in DeskCalls : row.outcome[c] # "none" /\ step[c] \in {"remember", "done"}})

NoAction == [workflow |-> "none", run |-> "none"]

\* The statements of each operation, in their order.
Program ==
    [create      |-> <<"create", "remember">>,
     approve     |-> <<"approve">>,
     act         |-> <<"assert", "mayAct", "reassert", "execute", "attach", "finish">>,
     outcome     |-> <<"mayMeasure", "measure", "settle", "remember">>,
     tool        |-> <<"assert", "log", "reassert", "execute", "report">>,
     unconfirmed |-> <<"assert", "defer">>,
     gap         |-> <<"log", "gap", "report">>]

UnderWay(c) == step[c] \notin {"idle", "done"}
Fresh == [c \in DeskCalls |-> "none"]

DInit ==
    /\ faults \in Settings
    /\ row = [status |-> "none", maker |-> "none", action |-> NoAction, execution |-> Fresh, outcome |-> Fresh,
              tool |-> Fresh, gaps |-> {}, memories |-> {}, halted |-> FALSE]
    /\ step = [c \in DeskCalls |-> "idle"]
    /\ request = [c \in DeskCalls |-> [op |-> "none"]]

\* The identifier of a decision is new, so it is created once.
BeginOperation(c) ==
    /\ step[c] = "idle"
    /\ "overlap" \notin faults => \A d \in DeskCalls : ~UnderWay(d)
    /\ \E op \in DOMAIN Program, w \in Workflows, id \in RequestIds, o \in {"measured", "expected"} :
           /\ op = "create" => \A d \in DeskCalls : request[d].op # "create"
           /\ op \notin {"act", "tool"} => w = (CHOOSE x \in Workflows : TRUE) /\ id = (CHOOSE x \in RequestIds : TRUE)
           /\ op # "outcome" => o = "measured"
           /\ request' = [request EXCEPT ![c] = [op |-> op, workflow |-> w, id |-> id, outcome |-> o]]
           /\ step' = [step EXCEPT ![c] = Head(Program[op])]
    /\ UNCHANGED <<faults, row>>

\* Call c is about to run statement s and goes on with its program.
Run(c, s) ==
    LET code == Program[request[c].op]
        i == CHOOSE j \in DOMAIN code : code[j] = s
    IN /\ step[c] = s
       /\ step' = [step EXCEPT ![c] = IF i = Len(code) THEN "done" ELSE code[i + 1]]
       /\ UNCHANGED <<faults, request>>

\* It ends with an error instead.
Reject(c, s) == step[c] = s /\ step' = [step EXCEPT ![c] = "done"] /\ UNCHANGED <<faults, request, row>>

CreateDecision(c) == Run(c, "create") /\ row' = [row EXCEPT !.status = "proposed"]

\* The record in organizational_memory that goes with a decision or outcome.
Remember(c) == Run(c, "remember") /\ row' = [row EXCEPT !.memories = @ \cup {c}]

\* Bug: the UPDATE tests that the decision exists, and nothing else.
ProposedEver == row.status # "none"

\* UPDATE decision_records ... WHERE status = 'proposed'
Proposed == row.status = "proposed"

Approve(c) ==
    IF Proposed THEN Run(c, "approve") /\ row' = [row EXCEPT !.status = "approved", !.maker = c]
                ELSE Reject(c, "approve")

AssertAutonomyAllowed(c) ==
    \E s \in {"assert", "reassert"} : IF row.halted THEN Reject(c, s) ELSE Run(c, s) /\ UNCHANGED row

\* Bug: a workflow may be started for a decision nobody approved.
MayActEarly == row.status \in {"proposed", "approved"}

\* Bug: so may an outcome be recorded.
MayMeasureEarly == row.status # "none"

\* The tests that actOnDecision and recordOutcome start with.
MayAct == row.status = "approved"
MayMeasure == row.status \in {"completed", "action_pending", "approved"}

ReadDecision(c) ==
    \/ IF MayAct THEN Run(c, "mayAct") /\ UNCHANGED row ELSE Reject(c, "mayAct")
    \/ IF MayMeasure THEN Run(c, "mayMeasure") /\ UNCHANGED row ELSE Reject(c, "mayMeasure")

\* The key manual:<workflow>:<request id> is unique.
Duplicate(c) ==
    \E d \in DeskCalls : /\ row.execution[d] # "none"
                     /\ request[d].workflow = request[c].workflow
                     /\ request[d].id = request[c].id

\* A workflow that is not active gives no row, a key that exists an error.
ExecuteWorkflow(c) ==
    \/ /\ Run(c, "execute")
       /\ ~Duplicate(c)
       /\ row' = [row EXCEPT !.execution[c] =
              IF request[c].workflow \in Supervised THEN "awaiting_approval" ELSE "queued"]
    \/ Reject(c, "execute")

\* ON CONFLICT leaves workflow_id as it is.
Attach(c) ==
    /\ Run(c, "attach")
    /\ row' = [row EXCEPT !.action = [workflow |-> IF @ = NoAction THEN request[c].workflow ELSE @.workflow, run |-> c]]

\* executeWorkflow never returns 'completed'.
Finish(c) == Run(c, "finish") /\ row' = [row EXCEPT !.status = "action_pending"]

Measure(c) == Run(c, "measure") /\ row' = [row EXCEPT !.outcome[c] = request[c].outcome]

Settle(c) == Run(c, "settle") /\ row' = [row EXCEPT !.status = Book!StatusAfter(request[c].outcome)]

\* executeTool writes its row before the work, and once more after it.
LogTool(c) == Run(c, "log") /\ row' = [row EXCEPT !.tool[c] = "processing"]
DeferTool(c) == Run(c, "defer") /\ row' = [row EXCEPT !.tool[c] = "awaiting_confirmation"]
InsertGap(c) == Run(c, "gap") /\ row' = [row EXCEPT !.gaps = @ \cup {c}]

ReportTool(c) ==
    /\ Run(c, "report")
    /\ row' = [row EXCEPT !.tool[c] =
           IF row.execution[c] = "awaiting_approval" THEN "awaiting_approval" ELSE "completed"]

\* A statement fails, or the process ends.
Abandon(c) ==
    /\ "crash" \in faults
    /\ \E s \in {"remember", "approve", "mayAct", "reassert", "execute", "attach", "finish", "settle", "gap", "report"} :
           Reject(c, s)

Halt == ~row.halted /\ row' = [row EXCEPT !.halted = TRUE] /\ UNCHANGED <<faults, step, request>>

DNext ==
    \/ \E c \in DeskCalls :
           \/ BeginOperation(c) \/ CreateDecision(c) \/ Remember(c) \/ Approve(c) \/ AssertAutonomyAllowed(c)
           \/ ReadDecision(c) \/ ExecuteWorkflow(c) \/ Attach(c) \/ Finish(c) \/ Measure(c)
           \/ Settle(c) \/ LogTool(c) \/ DeferTool(c) \/ InsertGap(c) \/ ReportTool(c) \/ Abandon(c)
    \/ Halt

DSpec == DInit /\ [][DNext]_dvars
-----------------------------------------------------------------------------
\* What was done for a decision was done after a user approved it, a tool's
\* row reports no work that was not done, an unconfirmed one did none, and
\* a client that sends a request again starts a workflow once (store.ts
\* 972-978, 1067-1079, 1081-1098, 1121-1143).
WorkIsAuthorised ==
    /\ \A c \in DeskCalls :
           /\ row.execution[c] # "none" /\ request[c].op = "act" => row.maker # "none"
           /\ row.outcome[c] # "none" => row.maker # "none"
           /\ row.tool[c] = "completed" => row.execution[c] = "queued" \/ c \in row.gaps
           /\ row.tool[c] = "awaiting_confirmation" => row.execution[c] = "none"
    /\ row.action # NoAction => row.maker # "none" /\ row.execution[row.action.run] # "none"
    /\ row.action # NoAction /\ faults = {} => row.action.workflow = request[row.action.run].workflow
    /\ \A c, d \in DeskCalls : c # d /\ row.execution[c] # "none" /\ row.execution[d] # "none" =>
           request[c].workflow # request[d].workflow \/ request[c].id # request[d].id

\* However calls overlap and end, a decision is approved once and by one
\* user, and never goes back to a status before its approval (store.ts
\* 1057-1079).
ApprovedOnce ==
    [][row.maker # "none" => row'.maker = row.maker /\ (row.status # "approved" => row'.status \notin {"proposed", "approved"})]_dvars

\* DeskCalls that neither overlap nor end half-way do what the development
\* store does (store.ts 455-499 and 1047-1098).
ImplementsDecisionBook ==
    Book!BookInit /\ [][Book!BookNext \/ faults # {}]_Book!bookVars
=============================================================================
