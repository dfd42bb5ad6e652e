--------------------------- MODULE AgentLifecycle ---------------------------
(***************************************************************************)
(* One governed agent (src/server/agentGovernance.ts) and its deployments  *)
(* (src/server/agentRollback.ts).  A call of the registry reads the row of *)
(* the agent, tests it, and updates it in a later statement that does not  *)
(* test again; a deploy or rollback has a transaction of its own between   *)
(* the two, and the older routes run that transaction alone.  Calls        *)
(* overlap and end between their statements.                               *)
(***************************************************************************)
EXTENDS FiniteSets, Integers

CONSTANTS
    Calls,            \* concurrent requests about the agent
    Labels,           \* version labels
    Settings,         \* the combinations of FaultKinds considered
    DeployBound(_)    \* bound, by setting: how many deployments are begun

\* "overlap": deploys and rollbacks overlap; other calls always do.
FaultKinds == {"overlap", "crash"}

ASSUME SettingAssumption == Settings \subseteq SUBSET FaultKinds
ASSUME DeployAssumption == \A s \in Settings : DeployBound(s) \in Nat

Lifecycles == {"draft", "development", "testing", "evaluation", "security_review",
               "pending_approval", "approved", "deployed", "suspended", "rolled_back", "retired"}

Transitions ==
    [draft            |-> {"development", "retired"},
     development      |-> {"testing", "draft"},
     testing          |-> {"evaluation", "development"},
     evaluation       |-> {"security_review", "testing"},
     security_review  |-> {"pending_approval", "evaluation"},
     pending_approval |-> {"approved", "draft"},
     approved         |-> {"deployed", "retired"},
     deployed         |-> {"suspended", "rolled_back", "retired"},
     suspended        |-> {"deployed", "retired"},
     rolled_back      |-> {"deployed", "retired"},
     retired          |-> {}]

VARIABLES
    faults,      \* what may go wrong in this behaviour
    (* the row of ai_agents *)
    lifecycle,
    passed,      \* evaluation_status = 'pass'
    version,     \* version_label
    (* rows of agent_deployments, by the start of their transaction *)
    status,      \* "none" where there is no row
    label,
    started,     \* how many transactions of deploy have started
    (* observations of the deployments *)
    before,      \* what was active when a deployment replaced it
    withdrawn,   \* the deployments a rollback took back
    (* the calls *)
    pc,
    goal,        \* the lifecycle the last statement of the call writes
    wanted,      \* the label that is deployed
    rank,        \* the row the deployment inserts
    taken,       \* active rows the transaction withdraws
    restored     \* the row the rollback makes active again

agent == <<lifecycle, version>>
deployments == <<status, label>>
history == <<before, withdrawn>>
call == <<pc, goal, wanted, rank, taken, restored>>
vars == <<faults, lifecycle, passed, version, status, label, started, before, withdrawn,
          pc, goal, wanted, rank, taken, restored>>

Ranks == 1..DeployBound(faults)
Phases == {"idle", "update", "deploying", "replacing", "rollingBack", "reverting", "live"}
None == "none"

Active == {r \in Ranks : status[r] = "active"}
RolledBack == {r \in Ranks : status[r] = "rolled_back"}

\* register
Init ==
    /\ faults \in Settings
    /\ lifecycle = "draft"
    /\ passed = FALSE
    /\ version = None
    /\ status = [r \in Ranks |-> "none"]
    /\ label = [r \in Ranks |-> None]
    /\ started = 0
    /\ before = [r \in Ranks |-> {}]
    /\ withdrawn = {}
    /\ pc = [c \in Calls |-> "idle"]
    /\ goal = [c \in Calls |-> None]
    /\ wanted = [c \in Calls |-> None]
    /\ rank = [c \in Calls |-> 0]
    /\ taken = [c \in Calls |-> {}]
    /\ restored = [c \in Calls |-> {}]

\* The evaluation of the agent passes.
Evaluate ==
    /\ passed' = TRUE
    /\ UNCHANGED <<faults, agent, deployments, started, history, call>>

-----------------------------------------------------------------------------
(* The first statement: the row is read and tested                         *)

Start(c, phase, lc, v) ==
    /\ pc[c] = "idle"
    /\ pc' = [pc EXCEPT ![c] = phase]
    /\ goal' = [goal EXCEPT ![c] = lc]
    /\ wanted' = [wanted EXCEPT ![c] = v]
    /\ UNCHANGED <<faults, agent, passed, deployments, started, history, rank, taken, restored>>

Transition(c) ==
    \E lc \in Transitions[lifecycle] :
        /\ lc = "pending_approval" => passed
        /\ Start(c, "update", lc, None)

Approve(c) ==
    /\ lifecycle = "pending_approval" /\ passed
    /\ Start(c, "update", "approved", None)

Suspend(c) == Start(c, "update", "suspended", None)
Retire(c) == Start(c, "update", "retired", None)

\* Whether a deploy or a rollback may begin.
MayDeploy(c) ==
    "overlap" \in faults \/ \A d \in Calls \ {c} : pc[d] \in {"idle", "update"}

\* The registry's route, which tests the lifecycle, or the older one.
Deploy(c) ==
    /\ MayDeploy(c)
    /\ \E v \in Labels :
          \/ /\ lifecycle \in {"approved", "deployed", "rolled_back"} /\ passed
             /\ Start(c, "deploying", "deployed", v)
          \/ Start(c, "deploying", None, v)

Rollback(c) ==
    /\ MayDeploy(c)
    /\ \E lc \in {"rolled_back", None} : Start(c, "rollingBack", lc, None)

-----------------------------------------------------------------------------
(* The transactions of deploy and rollback                                 *)

DeploySelect(c) ==
    /\ pc[c] = "deploying" /\ started < DeployBound(faults)
    /\ started' = started + 1
    /\ rank' = [rank EXCEPT ![c] = started + 1]
    /\ taken' = [taken EXCEPT ![c] = Active]
    /\ pc' = [pc EXCEPT ![c] = "replacing"]
    /\ UNCHANGED <<faults, agent, passed, deployments, history, goal, wanted, restored>>

\* The transaction ends, and the call too unless the registry made it.
Committed(c) ==
    /\ pc' = [pc EXCEPT ![c] = IF goal[c] = None THEN "idle" ELSE "live"]
    /\ rank' = [rank EXCEPT ![c] = 0]
    /\ taken' = [taken EXCEPT ![c] = {}]
    /\ restored' = [restored EXCEPT ![c] = {}]
    /\ wanted' = [wanted EXCEPT ![c] = IF goal[c] = None THEN None ELSE @]
    /\ UNCHANGED goal

\* Bug: the deployment that is replaced stays active.
DeployCommitBeside(c) ==
    /\ pc[c] = "replacing"
    /\ status' = [status EXCEPT ![rank[c]] = "active"]
    /\ label' = [label EXCEPT ![rank[c]] = wanted[c]]
    /\ before' = [before EXCEPT ![rank[c]] = taken[c]]
    /\ version' = wanted[c]
    /\ Committed(c)
    /\ UNCHANGED <<faults, lifecycle, passed, started, withdrawn>>

DeployCommit(c) ==
    /\ pc[c] = "replacing"
    /\ status' = [r \in Ranks |-> CASE r = rank[c] -> "active"
                                    [] r \in taken[c] -> "rolled_back"
                                    [] OTHER -> status[r]]
    /\ label' = [label EXCEPT ![rank[c]] = wanted[c]]
    /\ before' = [before EXCEPT ![rank[c]] = taken[c]]
    /\ version' = wanted[c]
    /\ Committed(c)
    /\ UNCHANGED <<faults, lifecycle, passed, started, withdrawn>>

\* The newest element of a set of rows, as a set.
Newest(rows) == {r \in rows : \A s \in rows : s <= r}

\* Bug: the rows are ordered by deployed_at ascending.
RollbackSelectOldest(c) ==
    /\ pc[c] = "rollingBack" /\ Active # {}
    /\ taken' = [taken EXCEPT ![c] = Newest(Active)]
    /\ restored' = [restored EXCEPT ![c] = {r \in RolledBack : \A s \in RolledBack : r <= s}]
    /\ pc' = [pc EXCEPT ![c] = "reverting"]
    /\ UNCHANGED <<faults, agent, passed, deployments, started, history, goal, wanted, rank>>

RollbackSelect(c) ==
    /\ pc[c] = "rollingBack" /\ Active # {}
    /\ taken' = [taken EXCEPT ![c] = Newest(Active)]
    /\ restored' = [restored EXCEPT ![c] = Newest(RolledBack)]
    /\ pc' = [pc EXCEPT ![c] = "reverting"]
    /\ UNCHANGED <<faults, agent, passed, deployments, started, history, goal, wanted, rank>>

RollbackCommit(c) ==
    /\ pc[c] = "reverting"
    /\ status' = [r \in Ranks |-> CASE r \in restored[c] -> "active"
                                    [] r \in taken[c] -> "rolled_back"
                                    [] OTHER -> status[r]]
    /\ version' \in IF restored[c] = {} THEN {version} ELSE {label[r] : r \in restored[c]}
    /\ withdrawn' = withdrawn \cup taken[c]
    /\ Committed(c)
    /\ UNCHANGED <<faults, lifecycle, passed, label, started, before>>

-----------------------------------------------------------------------------
(* The last statement                                                      *)

Forget(c) ==
    /\ pc' = [pc EXCEPT ![c] = "idle"]
    /\ goal' = [goal EXCEPT ![c] = None]
    /\ wanted' = [wanted EXCEPT ![c] = None]
    /\ rank' = [rank EXCEPT ![c] = 0]
    /\ taken' = [taken EXCEPT ![c] = {}]
    /\ restored' = [restored EXCEPT ![c] = {}]

\* It writes the lifecycle, and a deploy the label once more.
Update(c) ==
    /\ pc[c] \in {"update", "live"}
    /\ lifecycle' = goal[c]
    /\ version' = IF wanted[c] = None THEN version ELSE wanted[c]
    /\ Forget(c)
    /\ UNCHANGED <<faults, passed, deployments, started, history>>

\* A rollback finds no active deployment, or the process ends: what was not
\* committed is undone.
Abandon(c) ==
    /\ \/ pc[c] = "rollingBack" /\ Active = {}
       \/ "crash" \in faults /\ pc[c] # "idle"
    /\ Forget(c)
    /\ UNCHANGED <<faults, agent, passed, deployments, started, history>>

Next ==
    \/ Evaluate
    \/ \E c \in Calls :
          \/ Transition(c) \/ Approve(c) \/ Suspend(c) \/ Retire(c) \/ Deploy(c) \/ Rollback(c)
          \/ DeploySelect(c) \/ DeployCommit(c) \/ RollbackSelect(c) \/ RollbackCommit(c)
          \/ Update(c) \/ Abandon(c)

Spec == Init /\ [][Next]_vars

-----------------------------------------------------------------------------
\* Every variable ranges over the values the code gives it; a call has a row
\* to insert, and one to withdraw, exactly inside the transaction.
TypeOK ==
    /\ faults \in Settings
    /\ lifecycle \in Lifecycles /\ passed \in BOOLEAN /\ version \in Labels \cup {None}
    /\ status \in [Ranks -> {"none", "active", "rolled_back"}]
    /\ label \in [Ranks -> Labels \cup {None}]
    /\ started \in 0..DeployBound(faults)
    /\ before \in [Ranks -> SUBSET Ranks] /\ withdrawn \subseteq Ranks
    /\ pc \in [Calls -> Phases]
    /\ goal \in [Calls -> Lifecycles \cup {None}]
    /\ wanted \in [Calls -> Labels \cup {None}]
    /\ \A c \in Calls :
          /\ rank[c] \in IF pc[c] = "replacing" THEN 1..started ELSE {0}
          /\ taken[c] \in SUBSET Ranks /\ restored[c] \in SUBSET Ranks
          /\ pc[c] \notin {"replacing", "reverting"} => taken[c] = {}
          /\ pc[c] = "reverting" => Cardinality(taken[c]) = 1
          /\ Cardinality(restored[c]) <= 1

\* An agent has at most one active deployment and its row names that
\* version, whatever other calls change and wherever a call ends, as long as
\* deploys and rollbacks do not overlap: "Update live routing so execution
\* actually uses the deployed version" (agentRollback.ts 68).
LiveIsDeployed ==
    "overlap" \notin faults =>
        /\ Cardinality(Active) <= 1
        /\ \A r \in Active : version = label[r]

\* The first rollback makes active what the deployment it takes back had
\* replaced: "Rollback reverts to the previous active deployment"
\* (agentRollback.ts 16-17).  A later one does not: it chooses the newest row
\* that is rolled back, and so what the first rollback took back.
RollbackReverts ==
    [][\A c \in Calls : RollbackCommit(c) /\ withdrawn = {} /\ "overlap" \notin faults =>
          Active' = UNION {before[r] : r \in Active}]_vars
=============================================================================
