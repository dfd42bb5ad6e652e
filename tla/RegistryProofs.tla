--------------------------- MODULE RegistryProofs ---------------------------
(***************************************************************************)
(* Proofs about AgentLifecycle, Memory, CostBudget and Assistant, which    *)
(* share no state, for any numbers of calls, deployments, writers and      *)
(* requests, any costs, any budget, any prompts and any registry.          *)
(*                                                                         *)
(* Steady says what deploys and rollbacks that do not overlap have in      *)
(* common: an open transaction still reads what it has read.  LockHolds    *)
(* says the same of a correction of a memory record, whatever overlaps.    *)
(* While requests are admitted, one of them was admitted last: the sum it  *)
(* read left room for it, and the others add at most MaxCost each.         *)
(* FlightInv says that of some admitted request.                           *)
(*                                                                         *)
(* AskInv says what a request to the assistant knows at each of its        *)
(* statements, and that it was true at some time since the request began:  *)
(* nothing that others change afterwards takes that back (LaterStill).  It *)
(* rests on what sorting and filtering return (SortedLists), so that a     *)
(* route has only models that were eligible (RoutesAreAllowed) and what is *)
(* recalled is what was authorized, with conflicts flagged (RecallKeeps).  *)
(***************************************************************************)
EXTENDS AgentLifecycle, CostBudget, Memory, Assistant, FiniteSetTheorems, FunctionTheorems, SequenceTheorems,
        WellFoundedInduction, TLAPS

\* Agents.

AgentTypes ==
    /\ faults \in Settings
    /\ status \in [Ranks -> {"none", "active", "rolled_back"}]
    /\ label \in [Ranks -> Labels \cup {None}]
    /\ started \in 0..DeployBound(faults)
    /\ before \in [Ranks -> SUBSET Ranks]
    /\ pc \in [Calls -> Phases]
    /\ wanted \in [Calls -> Labels \cup {None}]
    /\ rank \in [Calls -> 0..started]
    /\ taken \in [Calls -> SUBSET Ranks] /\ restored \in [Calls -> SUBSET Ranks]
    /\ \A c \in Calls : /\ pc[c] = "replacing" => rank[c] \in Ranks
                        /\ pc[c] \in {"update", "rollingBack", "reverting"} => wanted[c] = None

Deploying(c) == pc[c] \notin {"idle", "update"}

\* The transaction of a deploy or rollback still reads what it has read.
TransactionHolds(c) ==
    /\ pc[c] = "replacing" => taken[c] = Active /\ rank[c] = started /\ status[started] = "none"
    /\ pc[c] = "reverting" => taken[c] = Active /\ restored[c] = Newest(RolledBack)
    /\ pc[c] = "live" /\ wanted[c] # None => version = wanted[c]

\* Deployments replace each other in the order they were begun, until a
\* rollback takes one back.
Replaced ==
    /\ Active = {} => RolledBack = {}
    /\ \A r \in Active : before[r] = Newest(RolledBack) /\ \A s \in RolledBack : s < r

Steady ==
    /\ \A c, d \in Calls : Deploying(c) /\ Deploying(d) => c = d
    /\ \A r \in Ranks : r > started => status[r] = "none"
    /\ \A c \in Calls : TransactionHolds(c)
    /\ \A r, s \in Active : r = s
    /\ \A r \in Active : version = label[r]
    /\ withdrawn = {} => Replaced

AgentInv == AgentTypes /\ ("overlap" \notin faults => Steady)

LEMMA AgentInit == Init => AgentInv
<1> SUFFICES ASSUME Init PROVE AgentInv OBVIOUS
<1> USE DEF Init, None, Phases
<1>1. DeployBound(faults) \in Nat BY DeployAssumption
<1>2. AgentTypes BY <1>1 DEF AgentTypes
<1>3. Active = {} /\ RolledBack = {} BY DEF Active, RolledBack
<1>4. Steady BY <1>3 DEF Steady, Deploying, TransactionHolds, Replaced
<1> QED BY <1>2, <1>4 DEF AgentInv

\* The rows number the transactions of deploy.
LEMMA RankFacts == ASSUME AgentTypes PROVE Ranks \subseteq Nat \ {0} /\ 1..started \subseteq Ranks /\ started \in Nat
<1>1. DeployBound(faults) \in Nat BY DeployAssumption DEF AgentTypes
<1> QED BY <1>1 DEF Ranks, AgentTypes

\* A call that is not in its transaction leaves the rows alone.
LEMMA CallKeeps ==
    ASSUME AgentInv, NEW c \in Calls, UNCHANGED <<faults, deployments, started, history, version>>,
           NEW p \in Phases \ {"replacing", "reverting"}, NEW v \in Labels \cup {None},
           NEW n \in {0, rank[c]}, NEW t \in SUBSET Ranks, NEW u \in SUBSET Ranks,
           pc' = [pc EXCEPT ![c] = p], wanted' = [wanted EXCEPT ![c] = v],
           rank' = [rank EXCEPT ![c] = n], taken' = [taken EXCEPT ![c] = t],
           restored' = [restored EXCEPT ![c] = u],
           p \in {"update", "rollingBack"} => v = None,
           p = "live" /\ "overlap" \notin faults => v = None \/ version = v,
           "overlap" \notin faults /\ p \notin {"idle", "update"} => \A d \in Calls \ {c} : ~Deploying(d)
    PROVE  AgentInv'
<1>1. /\ Ranks' = Ranks /\ Active' = Active /\ RolledBack' = RolledBack /\ UNCHANGED <<status, label, before, withdrawn>>
      BY DEF Ranks, Active, RolledBack, deployments, history
<1>2. /\ pc'[c] = p /\ wanted'[c] = v
      /\ \A d \in Calls : d # c => /\ pc'[d] = pc[d] /\ wanted'[d] = wanted[d] /\ rank'[d] = rank[d]
                                   /\ taken'[d] = taken[d] /\ restored'[d] = restored[d]
      BY DEF AgentInv, AgentTypes
<1>3. AgentTypes'
  <2>1. n \in 0..started BY RankFacts DEF AgentInv, AgentTypes
  <2>2. /\ pc' \in [Calls -> Phases] /\ wanted' \in [Calls -> Labels \cup {None}] /\ rank' \in [Calls -> 0..started]
        /\ taken' \in [Calls -> SUBSET Ranks] /\ restored' \in [Calls -> SUBSET Ranks]
        BY <2>1 DEF AgentInv, AgentTypes
  <2>3. \A d \in Calls : /\ pc'[d] = "replacing" => rank'[d] \in Ranks
                         /\ pc'[d] \in {"update", "rollingBack", "reverting"} => wanted'[d] = None
        BY <1>2 DEF AgentInv, AgentTypes
  <2> QED BY <1>1, <2>2, <2>3 DEF AgentInv, AgentTypes
<1>4. ASSUME "overlap" \notin faults PROVE Steady'
  <2> USE <1>4 DEF AgentInv
  <2>1. \A d, e \in Calls : Deploying(d)' /\ Deploying(e)' => d = e BY <1>2 DEF Steady, Deploying
  <2>2. ASSUME NEW d \in Calls PROVE TransactionHolds(d)'
    <3>1. CASE d = c BY <1>2, <3>1 DEF TransactionHolds
    <3>2. CASE d # c BY <1>1, <1>2, <3>2 DEF Steady, TransactionHolds, Newest
    <3> QED BY <3>1, <3>2
  <2>3. Replaced => Replaced' BY <1>1 DEF Replaced, Newest
  <2> QED BY <1>1, <2>1, <2>2, <2>3 DEF Steady
<1> QED BY <1>3, <1>4 DEF AgentInv

LEMMA StartKeeps ==
    ASSUME AgentInv, NEW c \in Calls, NEW p \in {"update", "deploying", "rollingBack"}, NEW lc, NEW v \in Labels \cup {None},
           Start(c, p, lc, v), p # "deploying" => v = None, p # "update" => MayDeploy(c)
    PROVE  AgentInv'
<1>1. /\ UNCHANGED <<faults, deployments, started, history, version>>
      /\ pc' = [pc EXCEPT ![c] = p] /\ wanted' = [wanted EXCEPT ![c] = v]
      BY DEF Start, agent
<1>2. /\ rank' = [rank EXCEPT ![c] = rank[c]] /\ taken' = [taken EXCEPT ![c] = taken[c]]
      /\ restored' = [restored EXCEPT ![c] = restored[c]] /\ taken[c] \in SUBSET Ranks /\ restored[c] \in SUBSET Ranks
      BY DEF Start, AgentInv, AgentTypes
<1>3. p \in Phases \ {"replacing", "reverting"} BY DEF Phases
<1>4. "overlap" \notin faults /\ p \notin {"idle", "update"} => \A d \in Calls \ {c} : ~Deploying(d)
      BY DEF MayDeploy, Deploying
<1> QED BY <1>1, <1>2, <1>3, <1>4, CallKeeps

\* A call that ends, by its last statement or before it.
LEMMA ForgetKeeps ==
    ASSUME AgentInv, NEW c \in Calls, UNCHANGED <<faults, deployments, started, history, version>>, Forget(c)
    PROVE  AgentInv'
<1>1. /\ pc' = [pc EXCEPT ![c] = "idle"] /\ wanted' = [wanted EXCEPT ![c] = None] /\ rank' = [rank EXCEPT ![c] = 0]
      /\ taken' = [taken EXCEPT ![c] = {}] /\ restored' = [restored EXCEPT ![c] = {}]
      BY DEF Forget
<1>2. "idle" \in Phases \ {"replacing", "reverting"} /\ None \in Labels \cup {None} /\ {} \in SUBSET Ranks BY DEF Phases
<1> QED BY ONLY AgentInv, c \in Calls, UNCHANGED <<faults, deployments, started, history, version>>,
                <1>1, <1>2, CallKeeps

LEMMA DeploySelectKeeps == ASSUME AgentInv, NEW c \in Calls, DeploySelect(c) PROVE AgentInv'
<1> USE DEF AgentInv
<1>1. /\ pc[c] = "deploying" /\ started < DeployBound(faults) /\ started' = started + 1
      /\ rank' = [rank EXCEPT ![c] = started + 1] /\ taken' = [taken EXCEPT ![c] = Active]
      /\ pc' = [pc EXCEPT ![c] = "replacing"] /\ UNCHANGED <<faults, version, status, label, before, withdrawn, wanted, restored>>
      BY DEF DeploySelect, agent, deployments, history
<1>2. Ranks' = Ranks /\ Active' = Active /\ RolledBack' = RolledBack BY <1>1 DEF Ranks, Active, RolledBack
<1>3. DeployBound(faults) \in Nat /\ started \in Nat /\ started + 1 \in Ranks BY <1>1, RankFacts, DeployAssumption DEF AgentTypes, Ranks
<1>4. /\ pc'[c] = "replacing" /\ rank'[c] = started + 1 /\ taken'[c] = Active
      /\ \A d \in Calls : d # c => pc'[d] = pc[d] /\ rank'[d] = rank[d] /\ taken'[d] = taken[d]
      BY <1>1 DEF AgentTypes
<1>5. AgentTypes'
  <2>1. Active \in SUBSET Ranks BY DEF Active
  <2>2. started' \in 0..DeployBound(faults) /\ 0..started \subseteq 0..started' /\ started + 1 \in 0..started' BY <1>1, <1>3
  <2>3. /\ pc' \in [Calls -> Phases] /\ taken' \in [Calls -> SUBSET Ranks] /\ rank' \in [Calls -> 0..started']
        BY <1>1, <2>1, <2>2 DEF AgentTypes, Phases
  <2>4. \A d \in Calls : /\ pc'[d] = "replacing" => rank'[d] \in Ranks
                         /\ pc'[d] \in {"update", "rollingBack", "reverting"} => wanted'[d] = None
        BY <1>1, <1>3, <1>4 DEF AgentTypes
  <2> QED BY <1>1, <1>2, <2>2, <2>3, <2>4 DEF AgentTypes
<1>6. ASSUME "overlap" \notin faults PROVE Steady'
  <2> USE <1>6
  <2>1. \A d, e \in Calls : Deploying(d)' /\ Deploying(e)' => d = e BY <1>1, <1>4 DEF Steady, Deploying
  <2>2. \A d \in Calls : d # c => pc'[d] \in {"idle", "update"} BY <1>1, <1>4 DEF Steady, Deploying
  <2>3. status[started + 1] = "none" BY <1>3 DEF Steady
  <2>4. ASSUME NEW d \in Calls PROVE TransactionHolds(d)' BY <1>1, <1>2, <1>4, <2>2, <2>3 DEF TransactionHolds
  <2>5. \A r \in Ranks : r > started' => status'[r] = "none" BY <1>1, <1>3, RankFacts DEF Steady
  <2>6. Replaced => Replaced' BY <1>1, <1>2 DEF Replaced, Newest
  <2> QED BY <1>1, <1>2, <2>1, <2>4, <2>5, <2>6 DEF Steady
<1> QED BY <1>1, <1>5, <1>6

\* What the end of a transaction does to its call.
LEMMA CommittedFacts ==
    ASSUME AgentTypes, NEW c \in Calls, Committed(c)
    PROVE  /\ pc' \in [Calls -> Phases] /\ wanted' \in [Calls -> Labels \cup {None}] /\ rank' \in [Calls -> 0..started]
           /\ taken' \in [Calls -> SUBSET Ranks] /\ restored' \in [Calls -> SUBSET Ranks]
           /\ pc'[c] \in {"idle", "live"} /\ wanted'[c] \in {None, wanted[c]}
           /\ \A d \in Calls : d # c => /\ pc'[d] = pc[d] /\ wanted'[d] = wanted[d] /\ rank'[d] = rank[d]
                                        /\ taken'[d] = taken[d] /\ restored'[d] = restored[d]
  BY RankFacts DEF AgentTypes, Committed, Phases

\* A deployment replaces the one that is active.
LEMMA DeployCommitKeeps == ASSUME AgentInv, NEW c \in Calls, DeployCommit(c) PROVE AgentInv'
<1> USE DEF AgentInv
<1> DEFINE r == rank[c]
<1>1. /\ pc[c] = "replacing" /\ UNCHANGED <<faults, started, withdrawn>>
      /\ status' = [q \in Ranks |-> CASE q = r -> "active" [] q \in taken[c] -> "rolled_back" [] OTHER -> status[q]]
      /\ label' = [label EXCEPT ![r] = wanted[c]] /\ before' = [before EXCEPT ![r] = taken[c]]
      /\ version' = wanted[c] /\ Committed(c)
      BY DEF DeployCommit
<1>2. r \in Ranks /\ taken[c] \in SUBSET Ranks /\ wanted[c] \in Labels \cup {None} BY <1>1 DEF AgentTypes
<1> HIDE DEF r
<1>3. Ranks' = Ranks BY <1>1 DEF Ranks
<1>4. /\ pc' \in [Calls -> Phases] /\ wanted' \in [Calls -> Labels \cup {None}] /\ rank' \in [Calls -> 0..started]
      /\ taken' \in [Calls -> SUBSET Ranks] /\ restored' \in [Calls -> SUBSET Ranks]
      /\ pc'[c] \in {"idle", "live"} /\ wanted'[c] \in {None, wanted[c]}
      /\ \A d \in Calls : d # c => /\ pc'[d] = pc[d] /\ wanted'[d] = wanted[d] /\ rank'[d] = rank[d]
                                   /\ taken'[d] = taken[d] /\ restored'[d] = restored[d]
      BY <1>1, CommittedFacts
<1>5. AgentTypes'
  <2>1. /\ status' \in [Ranks -> {"none", "active", "rolled_back"}] /\ label' \in [Ranks -> Labels \cup {None}]
        /\ before' \in [Ranks -> SUBSET Ranks]
        BY <1>1, <1>2 DEF AgentTypes
  <2>2. \A d \in Calls : /\ pc'[d] = "replacing" => rank'[d] \in Ranks
                         /\ pc'[d] \in {"update", "rollingBack", "reverting"} => wanted'[d] = None
        BY <1>4 DEF AgentTypes
  <2> QED BY <1>1, <1>3, <1>4, <2>1, <2>2 DEF AgentTypes
<1>6. ASSUME "overlap" \notin faults PROVE Steady'
  <2> USE <1>6
  <2>1. taken[c] = Active /\ r = started /\ status[r] = "none" BY <1>1 DEF Steady, TransactionHolds, r
  <2>2. \A q \in Ranks : status'[q] = IF q = r THEN "active" ELSE IF q \in Active THEN "rolled_back" ELSE status[q]
    <3> SUFFICES ASSUME NEW q \in Ranks
                 PROVE  status'[q] = IF q = r THEN "active" ELSE IF q \in Active THEN "rolled_back" ELSE status[q]
        OBVIOUS
    <3>1. r \notin Active BY <2>1 DEF Active
    <3>2. status'[q] = CASE q = r -> "active" [] q \in Active -> "rolled_back" [] OTHER -> status[q] BY <1>1, <2>1
    <3>3. CASE q = r BY <3>1, <3>2, <3>3
    <3>4. CASE q # r /\ q \in Active BY <3>2, <3>4
    <3>5. CASE q # r /\ q \notin Active BY <3>2, <3>5
    <3> QED BY <3>3, <3>4, <3>5
  <2>3. Active' = {r}
    <3>1. \A q \in Ranks : status'[q] = "active" <=> q = r BY <2>2 DEF Active
    <3> QED BY <1>2, <1>3, <3>1 DEF Active
  <2>4. RolledBack' = RolledBack \cup Active BY <1>2, <1>3, <2>1, <2>2 DEF Active, RolledBack
  <2>5. \A d, e \in Calls : Deploying(d)' /\ Deploying(e)' => d = e BY <1>1, <1>4 DEF Steady, Deploying
  <2>6. \A d \in Calls : d # c => pc'[d] \in {"idle", "update"} BY <1>1, <1>4 DEF Steady, Deploying
  <2>7. ASSUME NEW d \in Calls PROVE TransactionHolds(d)' BY <1>1, <1>4, <2>6 DEF TransactionHolds
  <2>8. \A q \in Ranks : q > started' => status'[q] = "none"
    <3>1. \A q \in Ranks : q > started => q # r /\ q \notin Active BY <2>1, RankFacts DEF Steady, Active
    <3> QED BY <1>1, <2>2, <3>1 DEF Steady
  <2>9. version' = label'[r] BY <1>1, <1>2 DEF AgentTypes
  <2>10. ASSUME Replaced PROVE Replaced'
    <3>1. \A q \in RolledBack \cup Active : q < r
          BY <1>2, <2>1, RankFacts DEF Steady, RolledBack, Active
    <3>2. Active = Newest(RolledBack \cup Active)
      <4>1. CASE Active = {} BY <2>10, <4>1 DEF Replaced, Newest
      <4>2. CASE Active # {}
        <5>1. PICK a \in Active : TRUE BY <4>2
        <5>2. Active = {a} /\ \A q \in RolledBack : q < a BY <5>1, <2>10 DEF Steady, Replaced
        <5>3. Active \subseteq Nat /\ RolledBack \subseteq Nat BY RankFacts DEF Active, RolledBack
        <5> QED BY <5>2, <5>3 DEF Newest
      <4> QED BY <4>1, <4>2
    <3>3. before'[r] = Active BY <1>1, <1>2, <2>1 DEF AgentTypes
    <3>4. before'[r] = Newest(RolledBack)' BY <2>4, <3>2, <3>3 DEF Newest
    <3> QED BY <2>3, <2>4, <3>1, <3>4 DEF Replaced
  <2> QED BY <1>1, <1>3, <2>3, <2>5, <2>7, <2>8, <2>9, <2>10 DEF Steady
<1> QED BY <1>1, <1>5, <1>6

LEMMA RollbackSelectKeeps == ASSUME AgentInv, NEW c \in Calls, RollbackSelect(c) PROVE AgentInv'
<1> USE DEF AgentInv
<1>1. /\ pc[c] = "rollingBack" /\ taken' = [taken EXCEPT ![c] = Newest(Active)]
      /\ restored' = [restored EXCEPT ![c] = Newest(RolledBack)] /\ pc' = [pc EXCEPT ![c] = "reverting"]
      /\ UNCHANGED <<faults, version, status, label, started, before, withdrawn, wanted, rank>>
      BY DEF RollbackSelect, agent, deployments, history
<1>2. Ranks' = Ranks /\ Active' = Active /\ RolledBack' = RolledBack BY <1>1 DEF Ranks, Active, RolledBack
<1>3. /\ pc'[c] = "reverting" /\ taken'[c] = Newest(Active) /\ restored'[c] = Newest(RolledBack)
      /\ \A d \in Calls : d # c => pc'[d] = pc[d] /\ taken'[d] = taken[d] /\ restored'[d] = restored[d]
      BY <1>1 DEF AgentTypes
<1>4. AgentTypes'
  <2>1. Newest(Active) \in SUBSET Ranks /\ Newest(RolledBack) \in SUBSET Ranks BY DEF Active, RolledBack, Newest
  <2>2. pc' \in [Calls -> Phases] /\ taken' \in [Calls -> SUBSET Ranks] /\ restored' \in [Calls -> SUBSET Ranks]
        BY <1>1, <2>1 DEF AgentTypes, Phases
  <2>3. \A d \in Calls : /\ pc'[d] = "replacing" => rank'[d] \in Ranks
                         /\ pc'[d] \in {"update", "rollingBack", "reverting"} => wanted'[d] = None
        BY <1>1, <1>3 DEF AgentTypes
  <2> QED BY <1>1, <1>2, <2>2, <2>3 DEF AgentTypes
<1>5. ASSUME "overlap" \notin faults PROVE Steady'
  <2> USE <1>5
  <2>1. \A d, e \in Calls : Deploying(d)' /\ Deploying(e)' => d = e BY <1>1, <1>3 DEF Steady, Deploying
  <2>2. \A d \in Calls : d # c => pc'[d] \in {"idle", "update"} BY <1>1, <1>3 DEF Steady, Deploying
  <2>3. Newest(Active) = Active
    <3>1. Active \subseteq Nat BY RankFacts DEF Active
    <3>2. \A r, s \in Active : r = s BY DEF Steady
    <3>3. \A r, s \in Active : s <= r BY <3>1, <3>2
    <3> QED BY <3>3 DEF Newest
  <2>4. ASSUME NEW d \in Calls PROVE TransactionHolds(d)'
        BY <1>2, <1>3, <2>2, <2>3 DEF TransactionHolds, Newest
  <2>5. Replaced => Replaced' BY <1>1, <1>2 DEF Replaced, Newest
  <2> QED BY <1>1, <1>2, <2>1, <2>4, <2>5 DEF Steady
<1> QED BY <1>1, <1>4, <1>5

\* A rollback makes one row active for the one it takes back.
LEMMA RollbackRows ==
    ASSUME AgentInv, NEW c \in Calls, RollbackCommit(c), "overlap" \notin faults
    PROVE  Active' = Newest(RolledBack) /\ taken[c] = Active /\ restored[c] = Newest(RolledBack)
<1>1. taken[c] = Active /\ restored[c] = Newest(RolledBack)
      BY DEF RollbackCommit, AgentInv, Steady, TransactionHolds
<1>2. \A r \in Ranks : status'[r] = IF r \in Newest(RolledBack) THEN "active" ELSE IF r \in Active THEN "rolled_back" ELSE status[r]
      BY <1>1 DEF RollbackCommit, Active, RolledBack, Newest
<1>3. Ranks' = Ranks BY DEF RollbackCommit, Ranks
<1>4. \A r \in Ranks : status'[r] = "active" <=> r \in Newest(RolledBack) BY <1>2 DEF Active
<1>5. Newest(RolledBack) \subseteq Ranks BY DEF RolledBack, Newest
<1>6. Active' = Newest(RolledBack) BY <1>3, <1>4, <1>5 DEF Active
<1> QED BY <1>1, <1>6

LEMMA RollbackCommitKeeps == ASSUME AgentInv, NEW c \in Calls, RollbackCommit(c) PROVE AgentInv'
<1> USE DEF AgentInv
<1>1. /\ pc[c] = "reverting" /\ UNCHANGED <<faults, label, started, before>>
      /\ status' = [r \in Ranks |-> CASE r \in restored[c] -> "active" [] r \in taken[c] -> "rolled_back" [] OTHER -> status[r]]
      /\ version' \in (IF restored[c] = {} THEN {version} ELSE {label[r] : r \in restored[c]})
      /\ withdrawn' = withdrawn \cup taken[c] /\ Committed(c)
      BY DEF RollbackCommit
<1>2. Ranks' = Ranks BY <1>1 DEF Ranks
<1>3. /\ pc' \in [Calls -> Phases] /\ wanted' \in [Calls -> Labels \cup {None}] /\ rank' \in [Calls -> 0..started]
      /\ taken' \in [Calls -> SUBSET Ranks] /\ restored' \in [Calls -> SUBSET Ranks]
      /\ pc'[c] \in {"idle", "live"} /\ wanted'[c] \in {None, wanted[c]}
      /\ \A d \in Calls : d # c => /\ pc'[d] = pc[d] /\ wanted'[d] = wanted[d] /\ rank'[d] = rank[d]
                                   /\ taken'[d] = taken[d] /\ restored'[d] = restored[d]
      BY <1>1, CommittedFacts
<1>4. AgentTypes'
  <2>1. \A r \in Ranks : status'[r] \in {"none", "active", "rolled_back"} BY <1>1 DEF AgentTypes
  <2>2. status' \in [Ranks -> {"none", "active", "rolled_back"}] BY <1>1, <2>1
  <2>3. \A d \in Calls : /\ pc'[d] = "replacing" => rank'[d] \in Ranks
                         /\ pc'[d] \in {"update", "rollingBack", "reverting"} => wanted'[d] = None
        BY <1>3 DEF AgentTypes
  <2> QED BY <1>1, <1>2, <1>3, <2>2, <2>3 DEF AgentTypes
<1>5. ASSUME "overlap" \notin faults PROVE Steady'
  <2> USE <1>5
  <2>1. Active' = Newest(RolledBack) /\ taken[c] = Active /\ restored[c] = Newest(RolledBack) BY RollbackRows
  <2>2. RolledBack \subseteq Ranks /\ Ranks \subseteq Nat BY RankFacts DEF RolledBack
  <2>3. \A r, s \in Active' : r = s
    <3>1. \A r, s \in Newest(RolledBack) : r \in Nat /\ s \in Nat /\ r <= s /\ s <= r BY <2>2 DEF Newest
    <3>2. \A r, s \in Newest(RolledBack) : r = s BY <3>1
    <3> QED BY <2>1, <3>2
  <2>4. \A r \in Active' : version' = label'[r] BY <1>1, <2>1, <2>3
  <2>5. \A d, e \in Calls : Deploying(d)' /\ Deploying(e)' => d = e BY <1>1, <1>3 DEF Steady, Deploying
  <2>6. \A d \in Calls : d # c => pc'[d] \in {"idle", "update"} BY <1>1, <1>3 DEF Steady, Deploying
  <2>7. wanted'[c] = None BY <1>1, <1>3 DEF AgentTypes
  <2>8. ASSUME NEW d \in Calls PROVE TransactionHolds(d)' BY <1>3, <2>6, <2>7 DEF TransactionHolds
  <2>9. \A r \in Ranks : r > started' => status'[r] = "none"
    <3>1. \A r \in Ranks : r > started => r \notin Active /\ r \notin RolledBack BY DEF Steady, Active, RolledBack
    <3> QED BY <1>1, <2>1, <3>1 DEF Steady, Newest
  <2>10. withdrawn' = {} => Replaced'
    <3> SUFFICES ASSUME withdrawn' = {} PROVE Replaced' OBVIOUS
    <3>1. withdrawn = {} /\ Active = {} BY <1>1, <2>1
    <3>2. RolledBack = {} BY <3>1 DEF Steady, Replaced
    <3>3. \A r \in Ranks : status[r] = "none" /\ status'[r] = "none"
          BY <1>1, <2>1, <3>1, <3>2 DEF Newest, AgentTypes, Active, RolledBack
    <3>4. Active' = {} /\ RolledBack' = {} BY <1>2, <3>3 DEF Active, RolledBack
    <3> QED BY <3>4 DEF Replaced
  <2> QED BY <1>1, <1>2, <2>3, <2>4, <2>5, <2>8, <2>9, <2>10 DEF Steady
<1> QED BY <1>1, <1>4, <1>5

\* A deploy writes its label once more, and it is the label it has.
LEMMA UpdateKeeps == ASSUME AgentInv, NEW c \in Calls, Update(c) PROVE AgentInv'
<1>1. /\ UNCHANGED <<faults, status, label, deployments, started, before, withdrawn, history>> /\ Forget(c)
      /\ pc[c] \in {"update", "live"} /\ version' = IF wanted[c] = None THEN version ELSE wanted[c]
      BY DEF Update, deployments, history
<1>2. CASE version' = version BY <1>1, <1>2, ForgetKeeps
<1>3. CASE version' # version
  <2>1. "overlap" \in faults
        BY <1>1, <1>3 DEF AgentInv, AgentTypes, Steady, TransactionHolds
  <2>2. Ranks' = Ranks BY <1>1 DEF Ranks
  <2>3. AgentTypes'
    <3>1. \A d \in Calls : d # c => /\ pc'[d] = pc[d] /\ wanted'[d] = wanted[d] /\ rank'[d] = rank[d]
          BY <1>1 DEF Forget, AgentInv, AgentTypes
    <3>2. pc'[c] = "idle" BY <1>1 DEF Forget, AgentInv, AgentTypes
    <3>3. \A d \in Calls : /\ pc'[d] = "replacing" => rank'[d] \in Ranks
                           /\ pc'[d] \in {"update", "rollingBack", "reverting"} => wanted'[d] = None
          BY <3>1, <3>2 DEF AgentInv, AgentTypes
    <3>4. /\ pc' \in [Calls -> Phases] /\ wanted' \in [Calls -> Labels \cup {None}] /\ rank' \in [Calls -> 0..started]
          /\ taken' \in [Calls -> SUBSET Ranks] /\ restored' \in [Calls -> SUBSET Ranks]
          BY <1>1, RankFacts DEF Forget, AgentInv, AgentTypes, Phases
    <3> QED BY <1>1, <2>2, <3>3, <3>4 DEF AgentInv, AgentTypes
  <2> QED BY <1>1, <2>1, <2>3 DEF AgentInv
<1> QED BY <1>2, <1>3

\* What is not read by the deployments may change.
LEMMA OtherKeeps ==
    ASSUME AgentInv,
           UNCHANGED <<faults, version, status, label, started, before, withdrawn, pc, wanted, rank, taken, restored>>
    PROVE  AgentInv'
<1>1. Ranks' = Ranks /\ Active' = Active /\ RolledBack' = RolledBack BY DEF Ranks, Active, RolledBack
<1>2. AgentTypes' BY <1>1 DEF AgentInv, AgentTypes
<1>3. ASSUME "overlap" \notin faults PROVE Steady'
  <2>1. \A d \in Calls : TransactionHolds(d)' BY <1>1, <1>3 DEF AgentInv, Steady, TransactionHolds, Newest
  <2>2. Replaced => Replaced' BY <1>1 DEF Replaced, Newest
  <2> QED BY <1>1, <1>3, <2>1, <2>2 DEF AgentInv, Steady, Deploying
<1> QED BY <1>2, <1>3 DEF AgentInv

LEMMA AgentNext == AgentInv /\ [Next]_vars => AgentInv'
<1> SUFFICES ASSUME AgentInv, [Next]_vars PROVE AgentInv' OBVIOUS
<1> None \in Labels \cup {None} OBVIOUS
<1>1. CASE UNCHANGED vars BY <1>1, OtherKeeps DEF vars
<1>2. CASE Evaluate BY <1>2, OtherKeeps DEF Evaluate, agent, deployments, history, call
<1>3. ASSUME NEW c \in Calls, Transition(c) PROVE AgentInv' BY <1>3, StartKeeps DEF Transition
<1>4. ASSUME NEW c \in Calls, Approve(c) PROVE AgentInv' BY <1>4, StartKeeps DEF Approve
<1>5. ASSUME NEW c \in Calls, Suspend(c) PROVE AgentInv' BY <1>5, StartKeeps DEF Suspend
<1>6. ASSUME NEW c \in Calls, Retire(c) PROVE AgentInv' BY <1>6, StartKeeps DEF Retire
<1>7. ASSUME NEW c \in Calls, Deploy(c) PROVE AgentInv' BY <1>7, StartKeeps DEF Deploy
<1>8. ASSUME NEW c \in Calls, Rollback(c) PROVE AgentInv' BY <1>8, StartKeeps DEF Rollback
<1>9. ASSUME NEW c \in Calls, DeploySelect(c) PROVE AgentInv' BY <1>9, DeploySelectKeeps
<1>10. ASSUME NEW c \in Calls, DeployCommit(c) PROVE AgentInv' BY <1>10, DeployCommitKeeps
<1>11. ASSUME NEW c \in Calls, RollbackSelect(c) PROVE AgentInv' BY <1>11, RollbackSelectKeeps
<1>12. ASSUME NEW c \in Calls, RollbackCommit(c) PROVE AgentInv' BY <1>12, RollbackCommitKeeps
<1>13. ASSUME NEW c \in Calls, Update(c) PROVE AgentInv' BY <1>13, UpdateKeeps
<1>14. ASSUME NEW c \in Calls, Abandon(c) PROVE AgentInv' BY <1>14, ForgetKeeps DEF Abandon, agent
<1> QED BY <1>1, <1>2, <1>3, <1>4, <1>5, <1>6, <1>7, <1>8, <1>9, <1>10, <1>11, <1>12, <1>13, <1>14 DEF Next

LEMMA AgentInvariance == Spec => []AgentInv
  BY AgentInit, AgentNext, PTL DEF Spec

\* An agent has at most one active deployment and its row names that
\* version, for any number of calls and deployments, as long as deploys and
\* rollbacks do not overlap (agentRollback.ts 68).
THEOREM OneDeploymentIsLive == Spec => []LiveIsDeployed
<1>1. ASSUME AgentInv PROVE LiveIsDeployed
  <2> SUFFICES ASSUME "overlap" \notin faults
               PROVE  Cardinality(Active) <= 1 /\ \A r \in Active : version = label[r]
      BY DEF LiveIsDeployed
  <2>1. Steady BY <1>1 DEF AgentInv
  <2>3. CASE Active = {} BY <2>1, <2>3, FS_EmptySet DEF Steady
  <2>4. CASE Active # {}
    <3>1. PICK r \in Active : TRUE BY <2>4
    <3>2. Active = {r} BY <2>1, <3>1 DEF Steady
    <3>3. Cardinality(Active) = 1 BY <3>2, FS_Singleton
    <3> QED BY <2>1, <3>3 DEF Steady
  <2> QED BY <2>3, <2>4
<1> QED BY <1>1, AgentInvariance, PTL

\* The first rollback makes active what the deployment it takes back had
\* replaced (agentRollback.ts 16-17).
THEOREM FirstRollbackReverts == Spec => RollbackReverts
<1>1. ASSUME AgentInv, Next, NEW c \in Calls, RollbackCommit(c), withdrawn = {}, "overlap" \notin faults
      PROVE  Active' = UNION {before[r] : r \in Active}
  <2>1. Active' = Newest(RolledBack) BY <1>1, RollbackRows
  <2>2. Steady /\ Replaced BY <1>1 DEF AgentInv, Steady
  <2>3. CASE Active = {} BY <2>1, <2>2, <2>3 DEF Replaced, Newest
  <2>4. CASE Active # {}
    <3>1. PICK r \in Active : TRUE BY <2>4
    <3>2. Active = {r} /\ before[r] = Newest(RolledBack) BY <2>2, <3>1 DEF Steady, Replaced
    <3> QED BY <2>1, <3>2
  <2> QED BY <2>3, <2>4
<1>2. AgentInv /\ [Next]_vars =>
          [\A c \in Calls : RollbackCommit(c) /\ withdrawn = {} /\ "overlap" \notin faults =>
               Active' = UNION {before[r] : r \in Active}]_vars
  BY <1>1
<1> QED BY <1>2, AgentInvariance, PTL DEF Spec, RollbackReverts

-----------------------------------------------------------------------------
\* The governed memory.

VersionRow == [version : Nat, prior : Contents, new : Contents]

MemoryTypes ==
    /\ content \in Contents /\ original \in Contents /\ revision \in Nat
    /\ versions \in Seq(VersionRow)
    /\ at \in [Writers -> {"idle", "correcting", "locked", "forgetting", "expiring"}]
    /\ input \in [Writers -> Contents \cup {"none"}]
    /\ seen \in [Writers -> {Unread} \cup [content : Contents, version : Nat]]
    /\ \A w \in Writers : at[w] \in {"correcting", "locked"} => input[w] \in Contents

\* What a correction read under the lock is what the row still says.
LockHolds ==
    /\ \A w, x \in Writers : at[w] = "locked" /\ at[x] = "locked" => w = x
    /\ \A w \in Writers : at[w] = "locked" => seen[w].content = content /\ seen[w].version = revision

MemoryInv == MemoryTypes /\ LockHolds /\ VersionsChain

LEMMA MemoryStart == MemoryInit => MemoryInv
<1> SUFFICES ASSUME MemoryInit PROVE MemoryInv OBVIOUS
<1> USE DEF MemoryInit
<1>1. MemoryTypes BY DEF MemoryTypes
<1>2. LockHolds BY DEF LockHolds
<1>3. VersionsChain BY DEF VersionsChain
<1> QED BY <1>1, <1>2, <1>3 DEF MemoryInv

\* What becomes of the call that ends.
LEMMA EndFacts ==
    ASSUME MemoryTypes, NEW w \in Writers, EndCall(w)
    PROVE  /\ at' \in [Writers -> {"idle", "correcting", "locked", "forgetting", "expiring"}]
           /\ input' \in [Writers -> Contents \cup {"none"}]
           /\ seen' \in [Writers -> {Unread} \cup [content : Contents, version : Nat]]
           /\ at'[w] = "idle"
           /\ \A x \in Writers : x # w => at'[x] = at[x] /\ input'[x] = input[x] /\ seen'[x] = seen[x]
  BY DEF MemoryTypes, EndCall

\* Only a correction writes the content, and only a call's own step its state.
LEMMA EndKeeps ==
    ASSUME MemoryInv, NEW w \in Writers, EndCall(w), UNCHANGED <<content, revision, original, versions>>
    PROVE  MemoryInv'
<1> USE DEF MemoryInv
<1>1. MemoryTypes' BY EndFacts DEF MemoryTypes
<1>2. LockHolds' BY EndFacts DEF LockHolds
<1>3. VersionsChain' BY DEF VersionsChain
<1> QED BY <1>1, <1>2, <1>3

LEMMA GetKeeps == ASSUME MemoryInv, NEW w \in Writers, Get(w) PROVE MemoryInv'
<1> USE DEF MemoryInv
<1>1. /\ UNCHANGED <<content, revision, original, versions, seen>>
      /\ \E op \in {"forgetting", "expiring", "correcting"} : at' = [at EXCEPT ![w] = op]
      /\ input' = input \/ \E c \in Contents : input' = [input EXCEPT ![w] = c]
      /\ at'[w] = "correcting" => input'[w] \in Contents
      BY DEF Get, row, MemoryTypes
<1>2. MemoryTypes' BY <1>1 DEF MemoryTypes
<1>3. LockHolds' BY <1>1 DEF LockHolds, MemoryTypes
<1>4. VersionsChain' BY <1>1 DEF VersionsChain
<1> QED BY <1>2, <1>3, <1>4

LEMMA LockKeeps == ASSUME MemoryInv, NEW w \in Writers, LockRow(w) PROVE MemoryInv'
<1> USE DEF MemoryInv
<1>1. /\ UNCHANGED <<content, revision, original, versions, input>> /\ at' = [at EXCEPT ![w] = "locked"]
      /\ seen' = [seen EXCEPT ![w] = [content |-> content, version |-> revision]]
      /\ at[w] = "correcting" /\ \A x \in Writers : at[x] # "locked"
      BY DEF LockRow, row, Locked
<1>2. [content |-> content, version |-> revision] \in [content : Contents, version : Nat] BY DEF MemoryTypes
<1>3. MemoryTypes' BY <1>1, <1>2 DEF MemoryTypes
<1>4. LockHolds' BY <1>1 DEF LockHolds, MemoryTypes
<1>5. VersionsChain' BY <1>1 DEF VersionsChain
<1> QED BY <1>3, <1>4, <1>5

\* The version that is appended follows the last one.
LEMMA CommitKeeps == ASSUME MemoryInv, NEW w \in Writers, CommitCorrection(w) PROVE MemoryInv'
<1> USE DEF MemoryInv
<1> DEFINE v == [version |-> seen[w].version + 1, prior |-> seen[w].content, new |-> input[w]]
<1>1. /\ at[w] = "locked" /\ versions' = Append(versions, v) /\ content' = input[w] /\ revision' = revision + 1
      /\ EndCall(w) /\ UNCHANGED original
      BY DEF CommitCorrection
<1>2. seen[w].content = content /\ seen[w].version = revision /\ input[w] \in Contents
      BY <1>1 DEF LockHolds, MemoryTypes
<1>3. v.version = revision + 1 /\ v.prior = content /\ v.new = input[w] /\ v \in VersionRow
      BY <1>2 DEF MemoryTypes, VersionRow
<1> HIDE DEF v
<1>4. versions \in Seq(VersionRow) /\ revision \in Nat BY DEF MemoryTypes
<1> DEFINE n == Len(versions)
<1>5. n \in Nat BY <1>4, LenProperties
<1>6. /\ versions' \in Seq(VersionRow) /\ Len(versions') = n + 1 /\ versions'[n + 1] = v
      /\ \A i \in 1..n : versions'[i] = versions[i]
      BY <1>1, <1>3, <1>4, AppendProperties
<1>7. MemoryTypes' BY <1>1, <1>2, <1>4, <1>6, EndFacts DEF MemoryTypes
<1>8. LockHolds' BY <1>1, EndFacts DEF LockHolds
<1>9. VersionsChain'
  <2>1. revision = n + 1 /\ content = IF versions = <<>> THEN original ELSE versions[n].new BY DEF VersionsChain
  <2>2. versions = <<>> <=> n = 0 BY <1>4, EmptySeq
  <2>3. content = IF n = 0 THEN original ELSE versions[n].new BY <2>1, <2>2
  <2>4. \A i \in 1..n : versions[i].version = i + 1
                        /\ versions[i].prior = IF i = 1 THEN original ELSE versions[i - 1].new
        BY DEF VersionsChain
  <2> HIDE DEF n
  <2>5. \A i \in 1..n : i = 1 \/ i - 1 \in 1..n BY <1>5
  <2>6. ASSUME NEW i \in 1..(n + 1)
        PROVE  versions'[i].version = i + 1 /\ versions'[i].prior = IF i = 1 THEN original ELSE versions'[i - 1].new
    <3>1. CASE i = n + 1
      <4>1. versions'[i].version = i + 1 /\ versions'[i].prior = content BY <1>3, <1>6, <2>1, <3>1
      <4>2. CASE n = 0 BY <2>3, <3>1, <4>1, <4>2
      <4>3. CASE n # 0
        <5>1. n \in 1..n /\ i - 1 = n /\ i # 1 BY <1>5, <3>1, <4>3
        <5> QED BY <1>6, <2>3, <4>1, <4>3, <5>1
      <4> QED BY <4>2, <4>3
    <3>2. CASE i \in 1..n
      <4>1. CASE i = 1 BY <1>6, <2>4, <3>2, <4>1
      <4>2. CASE i # 1
        <5>1. i - 1 \in 1..n BY <2>5, <3>2, <4>2
        <5> QED BY <1>6, <2>4, <3>2, <4>2, <5>1
      <4> QED BY <4>1, <4>2
    <3> QED BY <1>5, <3>1, <3>2
  <2>7. versions' # <<>> BY <1>5, <1>6, EmptySeq
  <2>8. revision' = Len(versions') + 1 BY <1>1, <1>5, <1>6, <2>1
  <2>9. content' = versions'[Len(versions')].new BY <1>1, <1>3, <1>6
  <2>10. original' = original BY <1>1
  <2> QED BY <1>6, <2>6, <2>7, <2>8, <2>9, <2>10 DEF VersionsChain
<1> QED BY <1>7, <1>8, <1>9

LEMMA MemoryStep == MemoryInv /\ [MemoryNext]_memoryVars => MemoryInv'
<1> SUFFICES ASSUME MemoryInv, [MemoryNext]_memoryVars PROVE MemoryInv' OBVIOUS
<1>1. ASSUME UNCHANGED <<content, revision, original, versions, at, input, seen>> PROVE MemoryInv'
      BY <1>1 DEF MemoryInv, MemoryTypes, LockHolds, VersionsChain
<1>2. CASE UNCHANGED memoryVars BY <1>1, <1>2 DEF memoryVars
<1>3. CASE TimePasses BY <1>1, <1>3 DEF TimePasses, writer
<1>4. CASE ExpireOverdue BY <1>1, <1>4 DEF ExpireOverdue, writer
<1>5. ASSUME NEW w \in Writers, Get(w) PROVE MemoryInv' BY <1>5, GetKeeps
<1>6. ASSUME NEW w \in Writers, LockRow(w) PROVE MemoryInv' BY <1>6, LockKeeps
<1>7. ASSUME NEW w \in Writers, CommitCorrection(w) PROVE MemoryInv' BY <1>7, CommitKeeps
<1>8. ASSUME NEW w \in Writers, UpdateStatus(w) PROVE MemoryInv' BY <1>8, EndKeeps DEF UpdateStatus
<1>9. ASSUME NEW w \in Writers, AbandonWrite(w) PROVE MemoryInv' BY <1>9, EndKeeps DEF AbandonWrite, row
<1> QED BY <1>2, <1>3, <1>4, <1>5, <1>6, <1>7, <1>8, <1>9 DEF MemoryNext

\* The versions tell every content the record had, in order and without gap,
\* for any number of corrections that overlap (memory.ts 246).
THEOREM NeverSilentOverwrite == MemorySpec => []VersionsChain
<1>1. MemoryInv => VersionsChain BY DEF MemoryInv
<1> QED BY <1>1, MemoryStart, MemoryStep, PTL DEF MemorySpec

-----------------------------------------------------------------------------
\* The lists of the assistant.

StrictOrder(S, sooner) ==
    \A x, y, z \in S : /\ <<x, x>> \notin sooner
                       /\ x # y => <<x, y>> \in sooner \/ <<y, x>> \in sooner
                       /\ <<x, y>> \in sooner /\ <<y, z>> \in sooner => <<x, z>> \in sooner

\* In a strict total order every place is taken by some element.
LEMMA PlacesAreTaken ==
    ASSUME NEW S, IsFiniteSet(S), NEW sooner, StrictOrder(S, sooner)
    PROVE  \A n \in 1..Cardinality(S) : \E x \in S : PlaceIn(S, sooner, x) = n
<1> DEFINE N == Cardinality(S)
           Above(x) == {y \in S : <<y, x>> \in sooner}
<1>1. N \in Nat BY FS_CardinalityType
<1>2. \A x \in S : PlaceIn(S, sooner, x) = 1 + Cardinality(Above(x)) BY DEF PlaceIn
<1>3. \A x \in S : /\ Above(x) \in SUBSET S /\ IsFiniteSet(Above(x)) /\ Cardinality(Above(x)) \in Nat
                   /\ Cardinality(Above(x)) <= N /\ Cardinality(Above(x)) # N
  <2> SUFFICES ASSUME NEW x \in S
      PROVE  /\ Above(x) \in SUBSET S /\ IsFiniteSet(Above(x)) /\ Cardinality(Above(x)) \in Nat
             /\ Cardinality(Above(x)) <= N /\ Cardinality(Above(x)) # N
      OBVIOUS
  <2>1. Above(x) \in SUBSET S /\ x \notin Above(x) BY DEF StrictOrder
  <2> HIDE DEF Above
  <2>2. IsFiniteSet(Above(x)) /\ Cardinality(Above(x)) <= N /\ (Cardinality(Above(x)) = N => Above(x) = S)
        BY <2>1, FS_Subset
  <2>3. Cardinality(Above(x)) \in Nat BY <2>2, FS_CardinalityType
  <2> QED BY <2>1, <2>2, <2>3
<1>4. ASSUME NEW x \in S, NEW y \in S, <<x, y>> \in sooner PROVE Cardinality(Above(x)) < Cardinality(Above(y))
  <2>1. Above(x) \in SUBSET Above(y) /\ x \in Above(y) /\ x \notin Above(x) BY <1>4 DEF StrictOrder
  <2> HIDE DEF Above
  <2>2. Cardinality(Above(x)) <= Cardinality(Above(y)) /\ (Cardinality(Above(y)) = Cardinality(Above(x)) => Above(x) = Above(y))
        BY <1>3, <2>1, FS_Subset
  <2> QED BY <1>3, <2>1, <2>2
<1> HIDE DEF Above
<1>5. \A x \in S : PlaceIn(S, sooner, x) \in 1..N BY <1>1, <1>2, <1>3
<1>6. \A x, y \in S : <<x, y>> \in sooner => PlaceIn(S, sooner, x) < PlaceIn(S, sooner, y) BY <1>2, <1>3, <1>4
<1> DEFINE f == [x \in S |-> PlaceIn(S, sooner, x)]
<1>7. f \in Injection(S, 1..N)
  <2>1. f \in [S -> 1..N] BY <1>5
  <2>2. ASSUME NEW x \in S, NEW y \in S, f[x] = f[y] PROVE x = y
    <3>1. PlaceIn(S, sooner, x) = PlaceIn(S, sooner, y) /\ PlaceIn(S, sooner, x) \in Int BY <1>5, <2>2
    <3>2. <<x, y>> \notin sooner /\ <<y, x>> \notin sooner BY <1>5, <1>6, <3>1
    <3> QED BY <3>2 DEF StrictOrder
  <2> HIDE DEF f
  <2> QED BY <2>1, <2>2, Fun_IsInj
<1>8. f \in Surjection(S, 1..N)
  <2>1. IsFiniteSet(1..N) /\ Cardinality(1..N) = N BY <1>1, FS_Interval
  <2> HIDE DEF f
  <2> QED BY <1>7, <2>1, FS_Injection
<1>9. \A n \in 1..N : \E x \in S : f[x] = n
  <2> HIDE DEF f
  <2> QED BY <1>8, Fun_SurjectionProperties
<1> QED BY <1>9

LEMMA SortedLists ==
    ASSUME NEW S, IsFiniteSet(S), NEW sooner, StrictOrder(S, sooner)
    PROVE  Sorted(S, sooner) \in Seq(S)
<1>1. Cardinality(S) \in Nat BY FS_CardinalityType
<1>2. \A n \in 1..Cardinality(S) : (CHOOSE x \in S : PlaceIn(S, sooner, x) = n) \in S BY PlacesAreTaken
<1>3. Sorted(S, sooner) \in [1..Cardinality(S) -> S] BY <1>2 DEF Sorted
<1> QED BY <1>1, <1>3

\* Filtering keeps what the chosen positions have.
LEMMA FilteredLists ==
    ASSUME NEW S, NEW s \in Seq(S), NEW K \in SUBSET DOMAIN s, NEW E, \A k \in K : s[k] \in E
    PROVE  Filtered(s, K) \in Seq(E)
<1>1. K \subseteq Nat /\ Len(s) \in Nat /\ DOMAIN s = 1..Len(s) OBVIOUS
<1>0. K \in SUBSET (1..Len(s)) /\ IsFiniteSet(1..Len(s)) BY <1>1, FS_Interval
<1>2. IsFiniteSet(K) BY <1>0, FS_Subset
<1>3. StrictOrder(K, Ascending(K)) BY <1>1 DEF StrictOrder, Ascending
<1> DEFINE order == Sorted(K, Ascending(K))
<1>4. order \in Seq(K) BY <1>2, <1>3, SortedLists
<1>5. Filtered(s, K) = [n \in DOMAIN order |-> s[order[n]]] BY DEF Filtered
<1> HIDE DEF order
<1>6. DOMAIN order = 1..Len(order) /\ Len(order) \in Nat /\ \A n \in DOMAIN order : order[n] \in K BY <1>4
<1>7. Filtered(s, K) \in [1..Len(order) -> E] BY <1>5, <1>6
<1> QED BY <1>6, <1>7

-----------------------------------------------------------------------------
\* Its routes.

LEMMA LeastOf == ASSUME NEW T \in SUBSET Nat, T # {} PROVE Min(T) \in T
<1>1. IsWellFoundedOn(OpToRel(<, Nat), Nat) BY NatLessThanWellFounded
<1>2. PICK x \in T : \A y \in T : ~(<<y, x>> \in OpToRel(<, Nat)) BY <1>1, WFMin
<1>3. \A y \in T : y < x => <<y, x>> \in OpToRel(<, Nat) BY DEF OpToRel
<1>4. \A y \in T : ~(y < x) BY <1>2, <1>3
<1>5. \A y \in T : x =< y BY <1>4
<1> QED BY <1>5 DEF Min

Tiers == {"fast", "balanced", "frontier"}

LEMMA QualityRanks == \A x \in Tiers : Rank(QUALITY_RANK, x) \in Int
<1>1. DOMAIN QUALITY_RANK = 1..3 /\ QUALITY_RANK[1] = "fast" /\ QUALITY_RANK[2] = "balanced" /\ QUALITY_RANK[3] = "frontier"
      BY DEF QUALITY_RANK
<1>2. ASSUME NEW x \in Tiers PROVE Rank(QUALITY_RANK, x) \in 1..3
  <2>1. \E k \in 1..3 : QUALITY_RANK[k] = x BY <1>1 DEF Tiers
  <2> QED BY <1>1, <2>1 DEF Rank
<1> QED BY <1>2

\* What sorting compares of a model.
Priced(m) == m.tier \in Tiers /\ m.cost \in Int

LEMMA CatalogIsPriced ==
    /\ MODEL_CATALOG \in Seq(Range(MODEL_CATALOG))
    /\ \A k \in DOMAIN MODEL_CATALOG : Priced(MODEL_CATALOG[k])
<1>1. \A id, p, t, c, missing, tasks : t \in Tiers /\ c \in Int => Priced(Profile(id, p, t, c, missing, tasks))
      BY DEF Profile, Priced
<1>2. DOMAIN MODEL_CATALOG = 1..10 BY DEF MODEL_CATALOG
<1>3. MODEL_CATALOG \in Seq(Range(MODEL_CATALOG))
  <2>1. MODEL_CATALOG = [k \in 1..10 |-> MODEL_CATALOG[k]] BY DEF MODEL_CATALOG
  <2>2. \A k \in 1..10 : MODEL_CATALOG[k] \in Range(MODEL_CATALOG) BY <1>2 DEF Range
  <2>3. MODEL_CATALOG \in [1..10 -> Range(MODEL_CATALOG)] BY <2>1, <2>2
  <2>4. 10 \in Nat OBVIOUS
  <2> QED BY <2>3, <2>4, SeqDef
<1>4. \A k \in 1..10 : Priced(MODEL_CATALOG[k])
  <2>1. "fast" \in Tiers /\ "balanced" \in Tiers /\ "frontier" \in Tiers /\ Unknown \in Int BY DEF Tiers, Unknown
  <2>2. Priced(MODEL_CATALOG[1]) BY <1>1, <2>1 DEF MODEL_CATALOG
  <2>3. Priced(MODEL_CATALOG[2]) BY <1>1, <2>1 DEF MODEL_CATALOG
  <2>4. Priced(MODEL_CATALOG[3]) BY <1>1, <2>1 DEF MODEL_CATALOG
  <2>5. Priced(MODEL_CATALOG[4]) BY <1>1, <2>1 DEF MODEL_CATALOG
  <2>6. Priced(MODEL_CATALOG[5]) BY <1>1, <2>1 DEF MODEL_CATALOG
  <2>7. Priced(MODEL_CATALOG[6]) BY <1>1, <2>1 DEF MODEL_CATALOG
  <2>8. Priced(MODEL_CATALOG[7]) BY <1>1, <2>1 DEF MODEL_CATALOG
  <2>9. Priced(MODEL_CATALOG[8]) BY <1>1, <2>1 DEF MODEL_CATALOG
  <2>10. Priced(MODEL_CATALOG[9]) BY <1>1, <2>1 DEF MODEL_CATALOG
  <2>11. Priced(MODEL_CATALOG[10]) BY <1>1, <2>1 DEF MODEL_CATALOG
  <2> QED BY <2>2, <2>3, <2>4, <2>5, <2>6, <2>7, <2>8, <2>9, <2>10, <2>11
<1> QED BY <1>2, <1>3, <1>4

\* A candidate is what its row says, with the id of its key.
LEMMA CandidatesAreRows ==
    ASSUME NEW rows, \A id \in DOMAIN rows : rows[id].cost \in Int
    PROVE  Candidates(rows) \in Seq({m \in {Candidate(MODEL_CATALOG[k], rows[MODEL_CATALOG[k].id]) : k \in DOMAIN MODEL_CATALOG} :
                                       /\ Priced(m) /\ m.id \in DOMAIN rows
                                       /\ m.status = rows[m.id].status /\ m.approval = rows[m.id].approval
                                       /\ m.health = rows[m.id].health /\ m.classes = rows[m.id].classes})
<1> DEFINE K == {k \in DOMAIN MODEL_CATALOG : MODEL_CATALOG[k].id \in DOMAIN rows}
           E == {MODEL_CATALOG[k] : k \in K}
           listed == Filtered(MODEL_CATALOG, K)
           All == {Candidate(MODEL_CATALOG[k], rows[MODEL_CATALOG[k].id]) : k \in DOMAIN MODEL_CATALOG}
           Good(m) == /\ Priced(m) /\ m.id \in DOMAIN rows
                      /\ m.status = rows[m.id].status /\ m.approval = rows[m.id].approval
                      /\ m.health = rows[m.id].health /\ m.classes = rows[m.id].classes
<1>1. listed \in Seq(E)
  <2>1. K \in SUBSET DOMAIN MODEL_CATALOG /\ \A k \in K : MODEL_CATALOG[k] \in E OBVIOUS
  <2> HIDE DEF K, E
  <2> QED BY <2>1, CatalogIsPriced, FilteredLists
<1>2. ASSUME NEW k \in K
      PROVE  Good(Candidate(MODEL_CATALOG[k], rows[MODEL_CATALOG[k].id]))
  <2>1. Priced(MODEL_CATALOG[k]) /\ MODEL_CATALOG[k].id \in DOMAIN rows BY CatalogIsPriced
  <2> QED BY <2>1 DEF Candidate, Priced
<1>3. \A m \in E : Candidate(m, rows[m.id]) \in {c \in All : Good(c)} BY <1>2
<1>4. Candidates(rows) = [k \in DOMAIN listed |-> Candidate(listed[k], rows[listed[k].id])] BY DEF Candidates
<1> HIDE DEF listed, E, K, All, Good
<1>5. \A k \in 1..Len(listed) : listed[k] \in E BY <1>1
<1>6. Candidates(rows) \in [1..Len(listed) -> {c \in All : Good(c)}] BY <1>1, <1>3, <1>4, <1>5
<1>7. Candidates(rows) \in Seq({c \in All : Good(c)}) BY <1>1, <1>6
<1> QED BY <1>7 DEF All, Good

\* To compare by three keys and then by position is a strict total order.
ByKeys(t, s, c, i, j) ==
    \/ t[i] > t[j]
    \/ t[i] = t[j] /\ s[i] > s[j]
    \/ t[i] = t[j] /\ s[i] = s[j] /\ c[i] < c[j]
    \/ t[i] = t[j] /\ s[i] = s[j] /\ c[i] = c[j] /\ i < j

LEMMA KeysOrder ==
    ASSUME NEW D \in SUBSET Int, NEW t \in [D -> Int], NEW s \in [D -> Int], NEW c \in [D -> Int], NEW sooner,
           \A i, j \in D : <<i, j>> \in sooner <=> ByKeys(t, s, c, i, j)
    PROVE  StrictOrder(D, sooner)
<1> SUFFICES ASSUME NEW x \in D, NEW y \in D, NEW z \in D
             PROVE  /\ <<x, x>> \notin sooner
                    /\ x # y => <<x, y>> \in sooner \/ <<y, x>> \in sooner
                    /\ <<x, y>> \in sooner /\ <<y, z>> \in sooner => <<x, z>> \in sooner
    BY DEF StrictOrder
<1>1. \A i \in D : i \in Int /\ t[i] \in Int /\ s[i] \in Int /\ c[i] \in Int OBVIOUS
<1>2. <<x, x>> \notin sooner BY <1>1 DEF ByKeys
<1>3. x # y => <<x, y>> \in sooner \/ <<y, x>> \in sooner BY <1>1 DEF ByKeys
<1>4. <<x, y>> \in sooner /\ <<y, z>> \in sooner => <<x, z>> \in sooner BY <1>1 DEF ByKeys
<1> QED BY <1>2, <1>3, <1>4

LEMMA SortedModels ==
    ASSUME NEW E, NEW models \in Seq(E), \A m \in E : Priced(m), NEW analysis, NEW limits
    PROVE  SortModels(models, analysis, limits) \in Seq(E)
<1> DEFINE D == DOMAIN models
           tier(k)  == IF TargetTier(analysis, limits) = "frontier" THEN Rank(QUALITY_RANK, models[k].tier) ELSE 0
           score(k) == ModelScore(models[k], analysis, limits)
           ahead(i, j) ==
               \/ tier(i) > tier(j)
               \/ tier(i) = tier(j) /\ score(i) > score(j)
               \/ tier(i) = tier(j) /\ score(i) = score(j) /\ models[i].cost < models[j].cost
               \/ tier(i) = tier(j) /\ score(i) = score(j) /\ models[i].cost = models[j].cost /\ i < j
           sooner == {p \in D \X D : ahead(p[1], p[2])}
           order == Sorted(D, sooner)
<1>1. D = 1..Len(models) /\ Len(models) \in Nat /\ \A k \in D : models[k] \in E OBVIOUS
<1>2. \A k \in D : tier(k) \in Int BY <1>1, QualityRanks DEF Priced
<1>3. \A k \in D : models[k].cost \in Int BY <1>1 DEF Priced
<1>4. \A k \in D : score(k) \in Int
  <2> SUFFICES ASSUME NEW k \in D PROVE ModelScore(models[k], analysis, limits) \in Int OBVIOUS
  <2>1. models[k].cost \in Int BY <1>3
  <2> DEFINE m == models[k]
             target == TargetTier(analysis, limits)
             fit == CASE m.tier = target -> 1000
                      [] Rank(QUALITY_RANK, m.quality) >= Rank(QUALITY_RANK, target) -> 600
                      [] OTHER -> 0
             cheap == IF limits.lowestCost /\ m.cost # Unknown /\ m.cost < 200 THEN 400 - 2 * m.cost ELSE 0
  <2>2. fit \in Int OBVIOUS
  <2>3. cheap \in Int BY <2>1
  <2>4. ModelScore(m, analysis, limits)
            = fit + cheap + (IF analysis.task \in m.recommendedFor THEN 300 ELSE 0) + (IF m.health = "healthy" THEN 100 ELSE 0)
        BY DEF ModelScore
  <2> HIDE DEF fit, cheap
  <2> QED BY <2>2, <2>3, <2>4
<1>5. SortModels(models, analysis, limits) = [k \in D |-> models[order[k]]] BY DEF SortModels
<1>6. StrictOrder(D, sooner)
  <2> HIDE DEF tier, score, D
  <2>1. \A i, j \in D : <<i, j>> \in sooner <=> ahead(i, j) OBVIOUS
  <2> HIDE DEF sooner
  <2> DEFINE t == [k \in D |-> tier(k)]
             s == [k \in D |-> score(k)]
             c == [k \in D |-> models[k].cost]
  <2>2. t \in [D -> Int] /\ s \in [D -> Int] /\ c \in [D -> Int] BY <1>2, <1>3, <1>4
  <2>3. \A i, j \in D : <<i, j>> \in sooner <=> ByKeys(t, s, c, i, j) BY <2>1 DEF ByKeys
  <2>4. D \subseteq Int BY <1>1
  <2> HIDE DEF t, s, c, ahead
  <2> QED BY ONLY <2>2, <2>3, <2>4, KeysOrder
<1> HIDE DEF sooner
<1>7. order \in Seq(D) /\ Len(order) = Cardinality(D)
  <2>1. IsFiniteSet(D) /\ Cardinality(D) = Len(models) BY <1>1, FS_Interval
  <2>2. order \in Seq(D)
    <3> HIDE DEF D
    <3> QED BY <1>6, <2>1, SortedLists
  <2>3. DOMAIN order = 1..Cardinality(D) BY DEF Sorted
  <2> QED BY <2>1, <2>2, <2>3
<1> HIDE DEF order
<1>8. DOMAIN order = D
  <2>1. Cardinality(D) = Len(models) BY <1>1, FS_Interval
  <2> QED BY <1>1, <1>7, <2>1
<1>9. \A k \in D : order[k] \in D BY <1>7, <1>8
<1>10. SortModels(models, analysis, limits) \in [1..Len(models) -> E] BY <1>1, <1>5, <1>9
<1> QED BY <1>1, <1>10

LEMMA CeilingKeeps ==
    ASSUME NEW E, NEW sorted \in Seq(E), NEW limits
    PROVE  UnderCeiling(sorted, limits) \in Seq(E)
<1> DEFINE affordable == {k \in DOMAIN sorted : Within(sorted[k], limits)}
<1>1. CASE affordable = {} BY <1>1 DEF UnderCeiling
<1>2. CASE affordable # {}
  <2> DEFINE k == Min(affordable)
  <2>1. affordable \in SUBSET Nat /\ affordable \subseteq DOMAIN sorted OBVIOUS
  <2>2. k \in DOMAIN sorted
    <3> HIDE DEF affordable
    <3> QED BY <1>2, <2>1, LeastOf
  <2>3. UnderCeiling(sorted, limits) \in {sorted, <<sorted[k]>> \o RemoveAt(sorted, k)}
        BY <1>2 DEF UnderCeiling
  <2> HIDE DEF k
  <2>4. sorted[k] \in E /\ k \in 1..Len(sorted) BY <2>2
  <2>5. <<sorted[k]>> \in Seq(E) /\ SubSeq(sorted, 1, k - 1) \in Seq(E) /\ SubSeq(sorted, k + 1, Len(sorted)) \in Seq(E)
        BY <2>4
  <2>6. RemoveAt(sorted, k) \in Seq(E) BY <2>5 DEF RemoveAt
  <2>7. <<sorted[k]>> \o RemoveAt(sorted, k) \in Seq(E) BY <2>5, <2>6
  <2> QED BY <2>3, <2>7
<1> QED BY <1>1, <1>2

LEMMA FirstTwoKeeps == ASSUME NEW E, NEW s \in Seq(E) PROVE FirstTwo(s) \in Seq(E)
BY DEF FirstTwo

LEMMA IdsAreOf == ASSUME NEW E, NEW I, NEW s \in Seq(E), \A m \in E : m.id \in I PROVE IdsOf(s) \in Seq(I)
<1>1. IdsOf(s) = [k \in 1..Len(s) |-> s[k].id] BY DEF IdsOf
<1>2. \A k \in 1..Len(s) : s[k] \in E OBVIOUS
<1>3. IdsOf(s) \in [1..Len(s) -> I] BY <1>1, <1>2
<1> QED BY <1>3

\* Every model of a governed route is one of the candidates that were
\* eligible, its provider is one the policy allows, and for a risky request
\* there is one only.
Allows(route, candidates, analysis, class, limits) ==
    /\ route.provider \in limits.providers
    /\ DOMAIN route.models = 1..Len(route.models) /\ Len(route.models) \in Nat \ {0}
    /\ \A j \in DOMAIN route.models :
           \E k \in DOMAIN candidates : /\ candidates[k].id = route.models[j]
                                        /\ Eligible(candidates[k], analysis, class, limits)
    /\ HighRisk(analysis) => Len(route.models) = 1

LEMMA RoutesAreAllowed ==
    ASSUME NEW C, NEW candidates \in Seq(C), \A m \in C : Priced(m), NEW analysis, NEW class, NEW limits
    PROVE  LET route == routeModel(analysis, class, limits, candidates)
           IN route = Closed \/ Allows(route, candidates, analysis, class, limits)
<1> DEFINE K == {k \in DOMAIN candidates : Eligible(candidates[k], analysis, class, limits)}
           E == {candidates[k] : k \in K}
           I == {m.id : m \in E}
           eligible == Filtered(candidates, K)
           sorted   == IF eligible = <<>> THEN <<>> ELSE UnderCeiling(SortModels(eligible, analysis, limits), limits)
           others   == IF HighRisk(analysis) \/ ~limits.fallback THEN <<>> ELSE FirstTwo(IdsOf(Tail(sorted)))
           provider == sorted[1].provider
           kept     == {k \in DOMAIN others : \E l \in DOMAIN MODEL_CATALOG : MODEL_CATALOG[l].id = others[k]
                                                                          /\ MODEL_CATALOG[l].provider = provider}
           models   == <<sorted[1].id>> \o Filtered(others, kept)
           route    == routeModel(analysis, class, limits, candidates)
<1>1. K \in SUBSET DOMAIN candidates /\ \A k \in K : candidates[k] \in E OBVIOUS
<1>2. \A m \in E : /\ Priced(m) /\ Eligible(m, analysis, class, limits) /\ m.id \in I
                   /\ \E k \in DOMAIN candidates : candidates[k] = m
      OBVIOUS
<1>3. \A id \in I : \E k \in DOMAIN candidates : candidates[k].id = id /\ Eligible(candidates[k], analysis, class, limits)
      OBVIOUS
<1>4. eligible \in Seq(E)
  <2> HIDE DEF K, E
  <2> QED BY <1>1, FilteredLists
<1>5. route = IF sorted = <<>> THEN Closed ELSE Route(provider, models) BY DEF routeModel, decisionToRoute
<1> HIDE DEF K, E, I, eligible
<1>6. sorted \in Seq(E)
  <2>1. CASE eligible = <<>> BY <2>1
  <2>2. CASE eligible # <<>>
    <3>1. SortModels(eligible, analysis, limits) \in Seq(E) BY <1>2, <1>4, SortedModels
    <3> QED BY <2>2, <3>1, CeilingKeeps
  <2> QED BY <2>1, <2>2
<1> HIDE DEF sorted
<1>7. ASSUME sorted # <<>> PROVE Allows(Route(provider, models), candidates, analysis, class, limits)
  <2>1. sorted[1] \in E /\ Tail(sorted) \in Seq(E) BY <1>6, <1>7
  <2>2. provider \in limits.providers BY <1>2, <2>1 DEF Eligible
  <2>3. sorted[1].id \in I BY <1>2, <2>1
  <2>4. others \in Seq(I) /\ (HighRisk(analysis) => others = <<>>)
    <3>1. IdsOf(Tail(sorted)) \in Seq(I) BY <1>2, <2>1, IdsAreOf
    <3>2. FirstTwo(IdsOf(Tail(sorted))) \in Seq(I) BY <3>1, FirstTwoKeeps
    <3> QED BY <3>2
  <2>5. kept \in SUBSET DOMAIN others OBVIOUS
  <2> HIDE DEF others, kept, provider
  <2>6. Filtered(others, kept) \in Seq(I)
    <3>1. \A k \in kept : others[k] \in I BY <2>4, <2>5
    <3> QED BY <2>4, <2>5, <3>1, FilteredLists
  <2>7. HighRisk(analysis) => Filtered(others, kept) = <<>>
    <3>1. ASSUME HighRisk(analysis) PROVE Filtered(others, kept) \in Seq({})
      <4>1. others \in Seq({}) /\ kept = {} BY <2>4, <2>5, <3>1
      <4>2. kept \in SUBSET DOMAIN others /\ \A k \in kept : others[k] \in {} BY <4>1
      <4> QED BY <4>1, <4>2, FilteredLists
    <3> QED BY <3>1
  <2>8. models \in Seq(I) /\ Len(models) = 1 + Len(Filtered(others, kept)) BY <2>3, <2>6
  <2> HIDE DEF models
  <2>9. /\ DOMAIN models = 1..Len(models) /\ Len(models) \in Nat \ {0}
        /\ \A j \in DOMAIN models : models[j] \in I
        /\ HighRisk(analysis) => Len(models) = 1
        BY <2>6, <2>7, <2>8
  <2> QED BY <1>3, <2>2, <2>9 DEF Allows, Route
<1> HIDE DEF models, provider, route
<1>8. route = Closed \/ Allows(route, candidates, analysis, class, limits) BY <1>5, <1>7
<1> QED BY <1>8 DEF route

\* The development store calls models it was configured with.
LEMMA ConfiguredRoutes ==
    ASSUME NEW analysis, NEW provider, NEW approved
    PROVE  LET route == routeConfigured(analysis, provider, approved)
           IN \/ route = Closed
              \/ /\ DOMAIN route.models = 1..Len(route.models) /\ Len(route.models) \in Nat \ {0}
                 /\ provider # "development" /\ approved # {} => \A j \in DOMAIN route.models : route.models[j] \in approved
<1> DEFINE configured == {k \in DOMAIN MODEL_CATALOG : /\ MODEL_CATALOG[k].provider = provider
                                                       /\ approved = {} \/ MODEL_CATALOG[k].id \in approved}
           E == {MODEL_CATALOG[k] : k \in configured}
           I == {m.id : m \in E}
           available == Filtered(MODEL_CATALOG, configured)
           frontier  == {k \in DOMAIN available : available[k].tier = "frontier"}
           sought    == IF HighRisk(analysis) THEN "frontier" ELSE PreferredTier(analysis)
           right     == {k \in DOMAIN available : available[k].tier = sought}
           fitting   == {k \in right : analysis.task \in available[k].recommendedFor}
           preferred == IF fitting # {} THEN Min(fitting) ELSE IF right # {} THEN Min(right) ELSE 1
           pool      == {k \in (IF HighRisk(analysis) THEN frontier ELSE DOMAIN available) :
                            available[k].id # available[preferred].id}
           balanced  == {k \in pool : available[k].tier = "balanced"}
           fallbacks == Filtered(available, balanced) \o Filtered(available, pool \ balanced)
           models    == <<available[preferred].id>> \o FirstTwo(IdsOf(fallbacks))
           route     == routeConfigured(analysis, provider, approved)
<1>1. route = IF provider = "development" THEN Route(provider, <<"configured">>)
              ELSE IF available = <<>> \/ (HighRisk(analysis) /\ frontier = {}) THEN Closed
              ELSE Route(provider, models)
      BY DEF routeConfigured
<1>2. configured \in SUBSET DOMAIN MODEL_CATALOG /\ \A k \in configured : MODEL_CATALOG[k] \in E OBVIOUS
<1>3. (\A m \in E : m.id \in I) /\ (approved # {} => I \subseteq approved) OBVIOUS
<1>4. available \in Seq(E)
  <2> HIDE DEF configured, E
  <2> QED BY <1>2, CatalogIsPriced, FilteredLists
<1> HIDE DEF configured, E, I, available
<1>5. ASSUME available # <<>>
      PROVE  models \in Seq(I) /\ Len(models) # 0
  <2>1. fitting \in SUBSET Nat /\ right \in SUBSET Nat /\ fitting \subseteq DOMAIN available /\ right \subseteq DOMAIN available
        BY <1>4
  <2>2. pool \subseteq DOMAIN available OBVIOUS
  <2>3. balanced \in SUBSET DOMAIN available /\ (pool \ balanced) \in SUBSET DOMAIN available OBVIOUS
  <2> HIDE DEF fitting, right, pool, balanced
  <2>4. preferred \in DOMAIN available
    <3>1. fitting # {} => Min(fitting) \in fitting BY <2>1, LeastOf
    <3>2. right # {} => Min(right) \in right BY <2>1, LeastOf
    <3>3. 1 \in DOMAIN available BY <1>4, <1>5
    <3> QED BY <2>1, <3>1, <3>2, <3>3
  <2> HIDE DEF preferred
  <2>5. available[preferred] \in E BY <1>4, <2>4
  <2>6. \A k \in DOMAIN available : available[k] \in E BY <1>4
  <2>7. Filtered(available, balanced) \in Seq(E) BY <1>4, <2>3, <2>6, FilteredLists
  <2>8. Filtered(available, pool \ balanced) \in Seq(E)
    <3> DEFINE rest == pool \ balanced
    <3>1. rest \in SUBSET DOMAIN available BY <2>3
    <3> HIDE DEF rest
    <3>2. Filtered(available, rest) \in Seq(E) BY <1>4, <2>6, <3>1, FilteredLists
    <3> QED BY <3>2 DEF rest
  <2>9. fallbacks \in Seq(E) BY <2>7, <2>8
  <2> HIDE DEF fallbacks
  <2>10. IdsOf(fallbacks) \in Seq(I) BY <1>3, <2>9, IdsAreOf
  <2>11. FirstTwo(IdsOf(fallbacks)) \in Seq(I) BY <2>10, FirstTwoKeeps
  <2>12. available[preferred].id \in I BY <1>3, <2>5
  <2> QED BY <2>11, <2>12
<1> HIDE DEF models
<1>6. CASE provider = "development" BY <1>1, <1>6 DEF Route
<1>7. CASE route = Closed BY <1>7
<1>8. CASE provider # "development" /\ route # Closed
  <2>1. available # <<>> /\ route = Route(provider, models) BY <1>1, <1>8
  <2>2. models \in Seq(I) /\ Len(models) # 0 BY <1>5, <2>1
  <2>3. \A j \in DOMAIN models : models[j] \in I BY <2>2
  <2> QED BY <1>3, <2>1, <2>2, <2>3 DEF Route
<1> QED BY <1>6, <1>7, <1>8

-----------------------------------------------------------------------------
\* What it recalls.

\* Of two recalled records that contradict each other the later is flagged.
Flagged(out) ==
    \A i \in DOMAIN out : \A j \in 1..(i - 1) :
        out[j].record.subject = out[i].record.subject /\ out[j].record.content # out[i].record.content =>
            out[i].record.subject = Nothing \/ out[i].hasConflict

LEMMA RecallKeeps ==
    ASSUME NEW G, NEW records \in Seq(G), \A m \in G : IsMemory(m), NEW words
    PROVE  /\ \A i \in DOMAIN relevantMemories(records, words) : relevantMemories(records, words)[i].record \in G
           /\ Flagged(relevantMemories(records, words))
<1> DEFINE relevance(k) == Cardinality(records[k].words \cap words)
           ahead(i, j) ==
               \/ relevance(i) > relevance(j)
               \/ relevance(i) = relevance(j) /\ records[i].confidence > records[j].confidence
               \/ relevance(i) = relevance(j) /\ records[i].confidence = records[j].confidence /\ i < j
           K == {k \in DOMAIN records : relevance(k) > 0}
           sooner == {p \in K \X K : ahead(p[1], p[2])}
           order == Sorted(K, sooner)
           top == SubSeq(order, 1, IF Len(order) < Recalled THEN Len(order) ELSE Recalled)
           disputed(i) ==
               LET m == records[top[i]]
               IN m.subject # Nothing /\ \E j \in 1..(i - 1) : /\ records[top[j]].subject = m.subject
                                                               /\ records[top[j]].content # m.content
           out == relevantMemories(records, words)
<1>1. out = [i \in DOMAIN top |-> [record |-> records[top[i]], hasConflict |-> disputed(i)]]
      BY DEF relevantMemories
<1>2. DOMAIN records = 1..Len(records) /\ Len(records) \in Nat /\ \A k \in DOMAIN records : records[k] \in G OBVIOUS
<1>3. K \in SUBSET (1..Len(records)) BY <1>2
<1>4. IsFiniteSet(K)
  <2>1. IsFiniteSet(1..Len(records)) BY <1>2, FS_Interval
  <2> HIDE DEF K
  <2> QED BY <1>3, <2>1, FS_Subset
<1>5. \A k \in K : relevance(k) \in Int /\ records[k].confidence \in Int
  <2> SUFFICES ASSUME NEW k \in K PROVE relevance(k) \in Int /\ records[k].confidence \in Int OBVIOUS
  <2>1. records[k].confidence \in Int /\ IsFiniteSet(records[k].words) BY <1>2 DEF IsMemory
  <2>2. (records[k].words \cap words) \in SUBSET records[k].words OBVIOUS
  <2>3. IsFiniteSet(records[k].words \cap words) BY <2>1, <2>2, FS_Subset
  <2>4. relevance(k) \in Nat BY <2>3, FS_CardinalityType
  <2> QED BY <2>1, <2>4
<1>6. StrictOrder(K, sooner)
  <2> DEFINE r == [k \in K |-> relevance(k)]
             c == [k \in K |-> records[k].confidence]
  <2>1. r \in [K -> Int] /\ c \in [K -> Int] BY <1>5
  <2>2. \A i, j \in K : <<i, j>> \in sooner <=> \/ r[i] > r[j]
                                                \/ r[i] = r[j] /\ c[i] > c[j]
                                                \/ r[i] = r[j] /\ c[i] = c[j] /\ i < j
        OBVIOUS
  <2>3. K \subseteq Int BY <1>3
  <2> HIDE DEF r, c, K, sooner
  <2>4. \A i \in K : i \in Int /\ r[i] \in Int /\ c[i] \in Int BY <2>1, <2>3
  <2> SUFFICES ASSUME NEW x \in K, NEW y \in K, NEW z \in K
               PROVE  /\ <<x, x>> \notin sooner
                      /\ x # y => <<x, y>> \in sooner \/ <<y, x>> \in sooner
                      /\ <<x, y>> \in sooner /\ <<y, z>> \in sooner => <<x, z>> \in sooner
      BY DEF StrictOrder
  <2>5. <<x, x>> \notin sooner BY <2>2, <2>4
  <2>6. x # y => <<x, y>> \in sooner \/ <<y, x>> \in sooner BY <2>2, <2>4
  <2>7. <<x, y>> \in sooner /\ <<y, z>> \in sooner => <<x, z>> \in sooner BY <2>2, <2>4
  <2> QED BY <2>5, <2>6, <2>7
<1>7. order \in Seq(K)
  <2> HIDE DEF K, sooner
  <2> QED BY <1>4, <1>6, SortedLists
<1> HIDE DEF order
<1>8. top \in Seq(K) BY <1>7, RecallAssumption
<1> HIDE DEF top
<1>9. DOMAIN top = 1..Len(top) /\ Len(top) \in Nat /\ \A i \in DOMAIN top : records[top[i]] \in G
  <2>1. \A i \in DOMAIN top : top[i] \in K BY <1>8
  <2>2. \A k \in K : k \in DOMAIN records BY <1>2, <1>3
  <2> HIDE DEF K
  <2> QED BY <1>2, <1>8, <2>1, <2>2
<1>10. DOMAIN out = DOMAIN top /\ \A i \in DOMAIN top : out[i].record = records[top[i]] /\ out[i].hasConflict = disputed(i)
       BY <1>1
<1> HIDE DEF out, K
<1>11. ASSUME NEW i \in DOMAIN out, NEW j \in 1..(i - 1),
              out[j].record.subject = out[i].record.subject, out[j].record.content # out[i].record.content
       PROVE  out[i].record.subject = Nothing \/ out[i].hasConflict
  <2>1. i \in DOMAIN top /\ j \in DOMAIN top BY <1>9, <1>10
  <2> QED BY <1>10, <1>11, <2>1
<1>12. Flagged(out) BY <1>11 DEF Flagged
<1> QED BY <1>9, <1>10, <1>12 DEF out

\* A list of records, which sorting can compare.
AreMemories(s) == \E S : s \in Seq(S) /\ \A m \in S : IsMemory(m)

LEMMA MemoriesChange ==
    ASSUME NEW s, AreMemories(s), NEW x, IsMemory(x)
    PROVE  /\ AreMemories(<<x>> \o s)
           /\ \A k \in DOMAIN s : AreMemories(<<x>> \o RemoveAt(s, k)) /\ AreMemories([s EXCEPT ![k] = x])
<1>1. PICK S : s \in Seq(S) /\ \A m \in S : IsMemory(m) BY DEF AreMemories
<1> DEFINE T == S \cup {x}
<1>2. s \in Seq(T) /\ <<x>> \in Seq(T) /\ \A m \in T : IsMemory(m)
  <2>1. s \in Seq(T) BY <1>1, SeqMonotonic
  <2> QED BY <1>1, <2>1
<1> HIDE DEF T
<1>3. <<x>> \o s \in Seq(T) BY <1>2
<1>4. ASSUME NEW k \in DOMAIN s PROVE <<x>> \o RemoveAt(s, k) \in Seq(T) /\ [s EXCEPT ![k] = x] \in Seq(T)
  <2>1. x \in T BY <1>2
  <2>2. SubSeq(s, 1, k - 1) \in Seq(T) /\ SubSeq(s, k + 1, Len(s)) \in Seq(T) BY <1>2
  <2>3. <<x>> \o RemoveAt(s, k) \in Seq(T) BY <1>2, <2>2 DEF RemoveAt
  <2>4. [s EXCEPT ![k] = x] \in Seq(T) BY <1>2, <2>1
  <2> QED BY <2>3, <2>4
<1> QED BY <1>2, <1>3, <1>4 DEF AreMemories

LEMMA RetrievedRows == ASSUME NEW s, AreMemories(s) PROVE AreMemories(retrieve(s))
<1>1. PICK S : s \in Seq(S) /\ \A m \in S : IsMemory(m) BY DEF AreMemories
<1> DEFINE K == {k \in DOMAIN s : Serves(s[k])}
<1>2. K \in SUBSET DOMAIN s /\ \A k \in K : s[k] \in S BY <1>1
<1> HIDE DEF K
<1>3. Filtered(s, K) \in Seq(S) BY <1>1, <1>2, FilteredLists
<1> QED BY <1>1, <1>3 DEF retrieve, AreMemories, K

-----------------------------------------------------------------------------
\* Its requests.

AskFields == {"at", "prompt", "query", "analysis", "structured", "found", "replaced", "citations", "candidates", "recalled",
              "registered", "route", "attempt", "answer"}
Preparing == {"structured", "web", "semantic", "lexical", "enrich", "recall", "authorize", "models", "policy"}
Answering == {"generate", "record", "done"}

\* What the user may recall: it was valid, and readable with the team the
\* user was a member of, at times in s.
MayRecall(m, s) ==
    /\ <<"memory", m>> \in s
    /\ \/ assertCanRead(Asker, m, {})
       \/ <<"member", <<Asker, m.group>>>> \in s /\ assertCanRead(Asker, m, {<<Asker, m.group>>})

MayBeCited(x, s, p) ==
    /\ x # WebPage => CanRead(x.class)
    /\ x.known /\ p.store = "postgres" => <<x.doc, x.class>> \in s

Unsafe(c) == c.analysis.risk = "critical" /\ c.analysis.mode # "web"

Usable(m) == m.status = "available" /\ m.approval = "approved" /\ m.health # "unavailable"

\* What the registry said, at times in s.
WasRegistered(candidates, s) ==
    \E C : /\ candidates \in Seq(C)
           /\ \A m \in C : Priced(m) /\ (Usable(m) => \A class \in m.classes : <<m.id, class>> \in s)

RouteOk(route, c, s, p) ==
    /\ DOMAIN route.models = 1..Len(route.models) /\ Len(route.models) \in Nat \ {0}
    /\ p.store = "postgres" =>
           /\ <<"provider", route.provider>> \in s
           /\ \A k \in DOMAIN route.models : <<route.models[k], highestClassification(c.citations)>> \in s
           /\ HighRisk(c.analysis) => Len(route.models) = 1
    /\ p.store = "development" /\ p.provider # "development" =>
           p.approved = {} \/ \A k \in DOMAIN route.models : route.models[k] \in p.approved

WasAllowed(c, s, p) == RouteOk(c.route, c, s, p) /\ c.attempt \in 1..Len(c.route.models)

Retrieving(c, p) ==
    /\ p.store # "postgres" => c.at \in {"structured", "web"} \cup Answering
    /\ p.store = "postgres" => c.at # "web"
    /\ c.at = "web" => c.analysis.mode = "web"
    /\ c.at \in {"structured", "web", "semantic", "lexical", "enrich"} => c.citations = {}
    /\ c.at \in {"structured", "web", "semantic", "lexical", "enrich", "recall"} => c.recalled = <<>>
    /\ Unsafe(c) => /\ c.citations = {} /\ c.recalled = <<>>
                    /\ c.at \notin {"semantic", "lexical", "enrich", "recall", "authorize"}
    /\ c.at \in Preparing => c.attempt = 1

Recalling(c, s) ==
    /\ c.at = "authorize" => /\ AreMemories(c.candidates) /\ AreMemories(c.recalled)
                             /\ \A k \in DOMAIN c.candidates : <<"memory", c.candidates[k]>> \in s
                             /\ \A k \in DOMAIN c.recalled : MayRecall(c.recalled[k], s)
    /\ c.at # "authorize" => /\ \A k \in DOMAIN c.recalled : MayRecall(c.recalled[k].record, s)
                             /\ Flagged(c.recalled)

LiveAsk(c, s, p) ==
    /\ DOMAIN c = AskFields /\ c.prompt \in Prompts /\ c.at \in Preparing \cup Answering
    /\ c.found \subseteq DOMAIN Chunks
    /\ Retrieving(c, p)
    /\ \A x \in c.citations : MayBeCited(x, s, p)
    /\ Recalling(c, s)
    /\ c.at = "policy" => WasRegistered(c.registered, s)
    /\ c.at \in Answering => WasAllowed(c, s, p)
    /\ c.at \in {"record", "done"} => Accepts(c.analysis, c.citations, c.structured, c.answer)

Sound(c, s, p) == c = NoAsk \/ c = Refused \/ LiveAsk(c, s, p)

RegistryOk(rows) == \A id \in DOMAIN rows : "cost" \in DOMAIN rows[id] /\ rows[id].cost \in Int
MemoryOk(m) == DOMAIN m = {"rows", "teams"} /\ AreMemories(m.rows)

AskInv ==
    /\ DOMAIN ask = Asks /\ DOMAIN since = Asks
    /\ \A a \in Asks : Sound(ask[a], since[a], deployed)
    /\ RegistryOk(registry) /\ MemoryOk(memory)

-----------------------------------------------------------------------------
Agree(c, d, changed) == DOMAIN d = AskFields /\ \A x \in AskFields \ changed : d[x] = c[x]

LEMMA AskUpdates ==
    ASSUME NEW c, DOMAIN c = AskFields, NEW v
    PROVE  /\ Agree(c, [c EXCEPT !.at = v], {"at"}) /\ [c EXCEPT !.at = v].at = v
           /\ Agree(c, [c EXCEPT !.structured = v], {"structured"})
           /\ Agree(c, [c EXCEPT !.found = v], {"found"}) /\ [c EXCEPT !.found = v].found = v
           /\ Agree(c, [c EXCEPT !.replaced = v], {"replaced"})
           /\ Agree(c, [c EXCEPT !.citations = v], {"citations"}) /\ [c EXCEPT !.citations = v].citations = v
           /\ Agree(c, [c EXCEPT !.candidates = v], {"candidates"}) /\ [c EXCEPT !.candidates = v].candidates = v
           /\ Agree(c, [c EXCEPT !.recalled = v], {"recalled"}) /\ [c EXCEPT !.recalled = v].recalled = v
           /\ Agree(c, [c EXCEPT !.registered = v], {"registered"}) /\ [c EXCEPT !.registered = v].registered = v
           /\ Agree(c, [c EXCEPT !.route = v], {"route"}) /\ [c EXCEPT !.route = v].route = v
           /\ Agree(c, [c EXCEPT !.attempt = v], {"attempt"}) /\ [c EXCEPT !.attempt = v].attempt = v
           /\ Agree(c, [c EXCEPT !.answer = v], {"answer"}) /\ [c EXCEPT !.answer = v].answer = v
BY DEF Agree, AskFields

LEMMA FoundUpdates ==
    ASSUME NEW c, DOMAIN c = AskFields, NEW v, NEW w, NEW d, d = [c EXCEPT !.at = v, !.found = w]
    PROVE  Agree(c, d, {"at", "found"}) /\ d.at = v /\ d.found = w
BY DEF Agree, AskFields

LEMMA CandidateUpdates ==
    ASSUME NEW c, DOMAIN c = AskFields, NEW v, NEW w, NEW d, d = [c EXCEPT !.at = v, !.candidates = w]
    PROVE  Agree(c, d, {"at", "candidates"}) /\ d.at = v /\ d.candidates = w
BY DEF Agree, AskFields

LEMMA RecallUpdates ==
    ASSUME NEW c, DOMAIN c = AskFields, NEW v, NEW w, NEW d, d = [c EXCEPT !.at = v, !.recalled = w]
    PROVE  Agree(c, d, {"at", "recalled"}) /\ d.at = v /\ d.recalled = w
BY DEF Agree, AskFields

LEMMA AllowedUpdates ==
    ASSUME NEW c, DOMAIN c = AskFields, NEW v, NEW w, NEW d, d = [c EXCEPT !.candidates = v, !.recalled = w]
    PROVE  Agree(c, d, {"candidates", "recalled"}) /\ d.candidates = v /\ d.recalled = w
BY DEF Agree, AskFields

LEMMA RegisteredUpdates ==
    ASSUME NEW c, DOMAIN c = AskFields, NEW v, NEW w, NEW d, d = [c EXCEPT !.at = v, !.registered = w]
    PROVE  Agree(c, d, {"at", "registered"}) /\ d.at = v /\ d.registered = w
BY DEF Agree, AskFields

LEMMA AnswerUpdates ==
    ASSUME NEW c, DOMAIN c = AskFields, NEW v, NEW w, NEW d, d = [c EXCEPT !.at = v, !.answer = w]
    PROVE  Agree(c, d, {"at", "answer"}) /\ d.at = v /\ d.answer = w
BY DEF Agree, AskFields

LEMMA RouteUpdates ==
    ASSUME NEW c, DOMAIN c = AskFields, NEW w
    PROVE  /\ Agree(c, [c EXCEPT !.at = "generate", !.route = w, !.registered = <<>>], {"at", "route", "registered"})
           /\ [c EXCEPT !.at = "generate", !.route = w, !.registered = <<>>].at = "generate"
           /\ [c EXCEPT !.at = "generate", !.route = w, !.registered = <<>>].route = w
BY DEF Agree, AskFields

LEMMA CiteUpdates ==
    ASSUME NEW c, DOMAIN c = AskFields, NEW w, NEW d, d = [c EXCEPT !.at = "recall", !.found = {}, !.replaced = {}, !.citations = w]
    PROVE  Agree(c, d, {"at", "found", "replaced", "citations"}) /\ d.at = "recall" /\ d.found = {} /\ d.citations = w
BY DEF Agree, AskFields

LEMMA LaterStill ==
    ASSUME NEW c, NEW s, NEW t, s \subseteq t, NEW p, Sound(c, s, p)
    PROVE  Sound(c, t, p)
<1> SUFFICES ASSUME LiveAsk(c, s, p) PROVE LiveAsk(c, t, p) BY DEF Sound
<1>1. \A m : MayRecall(m, s) => MayRecall(m, t) BY DEF MayRecall
<1>2. \A x : MayBeCited(x, s, p) => MayBeCited(x, t, p) BY DEF MayBeCited
<1>3. WasRegistered(c.registered, s) => WasRegistered(c.registered, t)
  <2> SUFFICES ASSUME WasRegistered(c.registered, s) PROVE WasRegistered(c.registered, t) OBVIOUS
  <2>1. PICK C : /\ c.registered \in Seq(C)
                 /\ \A m \in C : Priced(m) /\ (Usable(m) => \A class \in m.classes : <<m.id, class>> \in s)
        BY DEF WasRegistered
  <2> QED BY <2>1 DEF WasRegistered
<1>4. WasAllowed(c, s, p) => WasAllowed(c, t, p) BY DEF WasAllowed, RouteOk
<1>5. Recalling(c, s) => Recalling(c, t) BY <1>1 DEF Recalling
<1> QED BY <1>2, <1>3, <1>4, <1>5 DEF LiveAsk

LEMMA ReplacedStays ==
    ASSUME NEW c, NEW d, NEW s, NEW p, Agree(c, d, {"replaced"}), LiveAsk(c, s, p)
    PROVE  LiveAsk(d, s, p)
<1>1. /\ DOMAIN d = AskFields /\ d.at = c.at /\ d.prompt = c.prompt /\ d.analysis = c.analysis /\ d.structured = c.structured
      /\ d.found = c.found /\ d.citations = c.citations /\ d.candidates = c.candidates /\ d.recalled = c.recalled
      /\ d.registered = c.registered /\ d.route = c.route /\ d.attempt = c.attempt /\ d.answer = c.answer
      BY DEF Agree, AskFields
<1>2. Retrieving(d, p) /\ Recalling(d, s) BY <1>1 DEF Retrieving, Recalling, LiveAsk, Unsafe
<1>3. WasAllowed(c, s, p) => WasAllowed(d, s, p) BY <1>1 DEF WasAllowed, RouteOk
<1> QED BY <1>1, <1>2, <1>3 DEF LiveAsk

-----------------------------------------------------------------------------
(* The steps of a request *)

\* One request becomes d; what it is to know of is true when it does.
LEMMA Advance ==
    ASSUME AskInv, NEW a \in Asks, NEW d, ask' = [ask EXCEPT ![a] = d], ask[a].at # "done",
           Sound(d, since[a] \cup Facts, deployed), UNCHANGED <<deployed, administered>>, Observe
    PROVE  AskInv'
<1>1. Facts' = Facts BY DEF Facts, administered, getPolicy
<1>2. DOMAIN ask' = Asks /\ DOMAIN since' = Asks BY DEF AskInv, Observe
<1>3. RegistryOk(registry)' /\ MemoryOk(memory)' BY DEF AskInv, administered, RegistryOk, MemoryOk
<1>4. ASSUME NEW b \in Asks PROVE Sound(ask'[b], since'[b], deployed')
  <2> DEFINE e == ask'[b]
  <2>1. Sound(e, since[b] \cup Facts, deployed)
    <3>1. CASE b = a BY <3>1 DEF AskInv
    <3>2. CASE b # a
      <4>1. Sound(ask[b], since[b], deployed) /\ e = ask[b] BY <3>2 DEF AskInv
      <4>2. since[b] \subseteq since[b] \cup Facts OBVIOUS
      <4> HIDE DEF e
      <4> QED BY <4>1, <4>2, LaterStill
    <3> QED BY <3>1, <3>2
  <2>2. since'[b] = IF e.at \in {"none", "failed"} THEN {}
                    ELSE IF ask[b].at = "done" THEN since[b] ELSE since[b] \cup Facts
        BY <1>1 DEF Observe
  <2>3. CASE e.at \in {"none", "failed"}
    <3>1. ~LiveAsk(e, since[b] \cup Facts, deployed) BY <2>3 DEF LiveAsk, Preparing, Answering
    <3> QED BY <2>1, <3>1 DEF Sound
  <2>4. CASE e.at \notin {"none", "failed"} /\ ask[b].at = "done"
    <3>1. b # a BY <2>4
    <3> QED BY <2>2, <2>4, <3>1 DEF AskInv
  <2>5. CASE e.at \notin {"none", "failed"} /\ ask[b].at # "done" BY <2>1, <2>2, <2>5
  <2> QED BY <2>3, <2>4, <2>5
<1> QED BY <1>2, <1>3, <1>4 DEF AskInv

\* A request that only waits for a model.
Prepares(c, s, p) ==
    /\ DOMAIN c = AskFields /\ c.prompt \in Prompts /\ c.attempt = 1 /\ c.found \subseteq DOMAIN Chunks
    /\ \A x \in c.citations : MayBeCited(x, s, p)
    /\ Unsafe(c) => c.citations = {} /\ c.recalled = <<>>
    /\ \A k \in DOMAIN c.recalled : MayRecall(c.recalled[k].record, s)
    /\ Flagged(c.recalled)

LEMMA RoutedSound ==
    ASSUME NEW c, NEW s, NEW p, Prepares(c, s, p), NEW route, route = Closed \/ RouteOk(route, c, s, p)
    PROVE  Sound(Routed(c, route), s, p)
<1>1. CASE route = Closed \/ route.provider \notin Providers BY <1>1 DEF Routed, Sound
<1>2. CASE ~(route = Closed \/ route.provider \notin Providers)
  <2> DEFINE d == [c EXCEPT !.at = "generate", !.route = route, !.registered = <<>>]
  <2>1. Agree(c, d, {"at", "route", "registered"}) /\ d.at = "generate" /\ d.route = route
    <3>1. DOMAIN c = AskFields BY DEF Prepares
    <3> QED BY ONLY <3>1, RouteUpdates DEF d
  <2>2. Routed(c, route) = d BY <1>2 DEF Routed
  <2> HIDE DEF d
  <2>3. /\ DOMAIN d = AskFields /\ d.prompt = c.prompt /\ d.analysis = c.analysis /\ d.found = c.found
        /\ d.citations = c.citations /\ d.recalled = c.recalled /\ d.attempt = 1
        BY <2>1 DEF Agree, AskFields, Prepares
  <2>4. WasAllowed(d, s, p)
    <3>1. RouteOk(route, d, s, p) BY <1>2, <2>3 DEF RouteOk
    <3>2. 1 \in 1..Len(route.models) BY <3>1 DEF RouteOk
    <3> QED BY <2>1, <2>3, <3>1, <3>2 DEF WasAllowed
  <2>5. Retrieving(d, p) /\ Recalling(d, s)
        BY <2>1, <2>3 DEF Retrieving, Recalling, Prepares, Unsafe, Answering, Preparing
  <2>6. LiveAsk(d, s, p) BY <2>1, <2>3, <2>4, <2>5 DEF LiveAsk, Prepares, Preparing, Answering
  <2> QED BY <2>2, <2>6 DEF Sound
<1> QED BY <1>1, <1>2

LEMMA PreparedSound ==
    ASSUME NEW c, NEW s, deployed.store # "postgres", DOMAIN c = AskFields, c.prompt \in Prompts, c.attempt = 1,
           c.found \subseteq DOMAIN Chunks, c.recalled = <<>>, NEW citations,
           \A x \in citations : x # WebPage => CanRead(x.class),
           Unsafe(c) => citations = {}
    PROVE  Sound(Prepared(c, citations), s, deployed)
<1> DEFINE d == [c EXCEPT !.citations = citations]
           route == routeConfigured(c.analysis, deployed.provider, deployed.approved)
<1>1. Agree(c, d, {"citations"}) /\ d.citations = citations
  <2>1. DOMAIN c = AskFields OBVIOUS
  <2> QED BY ONLY <2>1, AskUpdates
<1>2. Prepared(c, citations) = Routed(d, route) BY DEF Prepared
<1> HIDE DEF d
<1>3. /\ DOMAIN d = AskFields /\ d.prompt = c.prompt /\ d.analysis = c.analysis /\ d.found = c.found
      /\ d.recalled = c.recalled /\ d.attempt = 1
      BY <1>1 DEF Agree, AskFields
<1>4. \A x \in citations : MayBeCited(x, s, deployed) BY DEF MayBeCited
<1>5. Prepares(d, s, deployed) BY <1>1, <1>3, <1>4 DEF Prepares, Unsafe, Flagged
<1>6. route = Closed \/ RouteOk(route, d, s, deployed) BY ConfiguredRoutes DEF RouteOk
<1> HIDE DEF route
<1> QED BY <1>2, <1>5, <1>6, RoutedSound

\* A request that has retrieved nothing yet.
Fresh(c) ==
    /\ DOMAIN c = AskFields /\ c.prompt \in Prompts /\ c.attempt = 1
    /\ c.found \subseteq DOMAIN Chunks /\ c.citations = {} /\ c.recalled = <<>>

LEMMA FreshLive ==
    ASSUME NEW c, NEW d, NEW s, NEW p, Fresh(c), Agree(c, d, {"at"}),
           \/ d.at = "structured"
           \/ p.store = "postgres" /\ d.at \in {"models", "semantic"} /\ (Unsafe(c) => d.at = "models")
           \/ p.store # "postgres" /\ d.at = "web" /\ c.analysis.mode = "web"
    PROVE  LiveAsk(d, s, p)
<1>1. /\ DOMAIN d = AskFields /\ d.prompt = c.prompt /\ d.analysis = c.analysis /\ d.found = c.found /\ d.citations = {}
      /\ d.recalled = <<>> /\ d.attempt = 1
      BY DEF Fresh, Agree, AskFields
<1>2. Retrieving(d, p) BY <1>1 DEF Retrieving, Unsafe
<1>3. Recalling(d, s) BY <1>1 DEF Recalling, Flagged
<1> QED BY <1>1, <1>2, <1>3 DEF LiveAsk, Preparing, Answering, Fresh

LEMMA RetrievedSound ==
    ASSUME NEW c, NEW s, Fresh(c)
    PROVE  Sound(Retrieve(c), s, deployed)
<1>1. Unsafe(c) => Skips(c) BY DEF Unsafe, Skips
<1>2. CASE deployed.store = "postgres"
  <2> DEFINE to == IF Skips(c) THEN "models" ELSE "semantic"
             d == [c EXCEPT !.at = to]
  <2>1. Agree(c, d, {"at"}) /\ d.at = to
    <3>1. DOMAIN c = AskFields BY DEF Fresh
    <3> HIDE DEF to
    <3> QED BY ONLY <3>1, AskUpdates
  <2>2. Retrieve(c) = d BY <1>2 DEF Retrieve
  <2> HIDE DEF d
  <2>3. LiveAsk(d, s, deployed) BY <1>1, <1>2, <2>1, FreshLive
  <2> QED BY <2>2, <2>3 DEF Sound
<1>3. CASE deployed.store # "postgres" /\ c.analysis.mode = "web"
  <2> DEFINE d == [c EXCEPT !.at = "web"]
  <2>1. Agree(c, d, {"at"}) /\ d.at = "web"
    <3>1. DOMAIN c = AskFields BY DEF Fresh
    <3> QED BY ONLY <3>1, AskUpdates
  <2>2. Retrieve(c) = d BY <1>3 DEF Retrieve
  <2> HIDE DEF d
  <2>3. LiveAsk(d, s, deployed) BY <1>3, <2>1, FreshLive
  <2> QED BY <2>2, <2>3 DEF Sound
<1>4. CASE deployed.store # "postgres" /\ c.analysis.mode # "web"
  <2> DEFINE citations == IF Skips(c) THEN {} ELSE DevelopmentCitations(c)
  <2>1. Retrieve(c) = Prepared(c, citations) BY <1>4 DEF Retrieve
  <2>2. \A x \in DevelopmentCitations(c) : CanRead(x.class) BY DEF DevelopmentCitations, Citation
  <2>3. \A x \in citations : CanRead(x.class) BY <2>2
  <2>4. Unsafe(c) => citations = {} BY <1>1
  <2> HIDE DEF citations
  <2>5. c.found \subseteq DOMAIN Chunks BY DEF Fresh
  <2> QED BY <1>4, <2>1, <2>3, <2>4, <2>5, PreparedSound DEF Fresh
<1> QED BY <1>2, <1>3, <1>4

LEMMA LiveNow ==
    ASSUME AskInv, NEW a \in Asks, ask[a].at \in Preparing \cup Answering
    PROVE  LiveAsk(ask[a], since[a] \cup Facts, deployed)
<1>1. Sound(ask[a], since[a], deployed) BY DEF AskInv
<1>2. since[a] \subseteq since[a] \cup Facts OBVIOUS
<1>3. Sound(ask[a], since[a] \cup Facts, deployed) BY <1>1, <1>2, LaterStill
<1> QED BY <1>3 DEF Sound, NoAsk, Refused, Preparing, Answering

LEMMA FactsHold ==
    /\ \A id \in DOMAIN registry : Usable(registry[id]) => \A class \in registry[id].classes : <<id, class>> \in Facts
    /\ \A p \in getPolicy.providers : <<"provider", p>> \in Facts
    /\ \A d \in Docs : <<d, documents[d].class>> \in Facts
    /\ \A m \in Range(retrieve(memory.rows)) : <<"memory", m>> \in Facts
    /\ \A t \in memory.teams : <<"member", t>> \in Facts
<1> DEFINE usable == {r \in DOMAIN registry : /\ registry[r].status = "available" /\ registry[r].approval = "approved"
                                             /\ registry[r].health # "unavailable"}
           models == UNION {{<<id, class>> : class \in registry[id].classes} : id \in usable}
           providers == {<<"provider", p>> : p \in getPolicy.providers}
           classes == {<<d, documents[d].class>> : d \in Docs}
           records == {<<"memory", m>> : m \in Range(retrieve(memory.rows))}
           members == {<<"member", t>> : t \in memory.teams}
<1>1. Facts = models \cup providers \cup classes \cup records \cup members BY DEF Facts
<1>2. \A id \in DOMAIN registry : Usable(registry[id]) => \A class \in registry[id].classes : <<id, class>> \in models
      BY DEF Usable
<1>3. \A p \in getPolicy.providers : <<"provider", p>> \in providers OBVIOUS
<1>4. \A d \in Docs : <<d, documents[d].class>> \in classes OBVIOUS
<1>5. \A m \in Range(retrieve(memory.rows)) : <<"memory", m>> \in records OBVIOUS
<1>6. \A t \in memory.teams : <<"member", t>> \in members OBVIOUS
<1> HIDE DEF models, providers, classes, records, members
<1> QED BY <1>1, <1>2, <1>3, <1>4, <1>5, <1>6

LEMMA BeginKeeps == ASSUME AskInv, NEW a \in Asks, Begin(a), Observe PROVE AskInv'
<1>1. PICK p \in Prompts :
          LET previous == IF p.continued THEN last ELSE NoQuestion
              new == [at |-> "structured", prompt |-> p, query |-> resolveFollowUpQuery(p.question, previous),
                      analysis |-> Analyze(p.question, previous, p), structured |-> FALSE, found |-> {},
                      replaced |-> {}, citations |-> {}, candidates |-> <<>>, recalled |-> <<>>, registered |-> <<>>,
                      route |-> Closed, attempt |-> 1, answer |-> "none"]
          IN ask' = [ask EXCEPT ![a] = IF new.analysis.task = "structured_analysis" THEN new ELSE Retrieve(new)]
      BY DEF Begin
<1> DEFINE previous == IF p.continued THEN last ELSE NoQuestion
           query == resolveFollowUpQuery(p.question, previous)
           analysis == Analyze(p.question, previous, p)
           new == [at |-> "structured", prompt |-> p, query |-> query, analysis |-> analysis, structured |-> FALSE,
                   found |-> {}, replaced |-> {}, citations |-> {}, candidates |-> <<>>, recalled |-> <<>>,
                   registered |-> <<>>, route |-> Closed, attempt |-> 1, answer |-> "none"]
           d == IF new.analysis.task = "structured_analysis" THEN new ELSE Retrieve(new)
<1>2. ask' = [ask EXCEPT ![a] = d] BY <1>1
<1>3. Fresh(new) /\ new.at = "structured"
  <2> HIDE DEF query, analysis
  <2> QED BY DEF Fresh, AskFields
<1> HIDE DEF new
<1>4. Sound(new, since[a] \cup Facts, deployed)
  <2>1. Agree(new, new, {"at"}) BY <1>3 DEF Fresh, Agree
  <2> QED BY <1>3, <2>1, FreshLive DEF Sound
<1>5. Sound(d, since[a] \cup Facts, deployed) BY <1>3, <1>4, RetrievedSound
<1> HIDE DEF d
<1>6. ask[a].at # "done" /\ UNCHANGED <<deployed, administered>> BY DEF Begin, NoAsk
<1> QED BY <1>2, <1>5, <1>6, Advance

LEMMA QueryKeeps == ASSUME AskInv, NEW a \in Asks, QueryMetrics(a), Observe PROVE AskInv'
<1>1. PICK known : ask' = [ask EXCEPT ![a] = Retrieve([ask[a] EXCEPT !.structured = known])] BY DEF QueryMetrics
<1> DEFINE c == [ask[a] EXCEPT !.structured = known]
<1>2. ask[a].at = "structured" /\ UNCHANGED <<deployed, administered>> BY DEF QueryMetrics
<1>3. LiveAsk(ask[a], since[a] \cup Facts, deployed) BY <1>2, LiveNow DEF Preparing
<1>4. Agree(ask[a], c, {"structured"})
  <2>1. DOMAIN ask[a] = AskFields BY <1>3 DEF LiveAsk
  <2> QED BY ONLY <2>1, AskUpdates
<1> HIDE DEF c
<1>5. Fresh(c)
  <2>1. /\ DOMAIN c = AskFields /\ c.prompt = ask[a].prompt /\ c.attempt = ask[a].attempt /\ c.found = ask[a].found
        /\ c.citations = ask[a].citations /\ c.recalled = ask[a].recalled
        BY <1>4 DEF Agree, AskFields
  <2> QED BY <1>2, <1>3, <2>1 DEF Fresh, LiveAsk, Retrieving, Preparing
<1>6. Sound(Retrieve(c), since[a] \cup Facts, deployed) BY <1>5, RetrievedSound
<1> QED BY <1>1, <1>2, <1>6, Advance DEF c

LEMMA WebKeeps == ASSUME AskInv, NEW a \in Asks, SearchWeb(a), Observe PROVE AskInv'
<1> DEFINE c == ask[a]
<1>1. c.at = "web" /\ UNCHANGED <<deployed, administered>> BY DEF SearchWeb
<1>2. LiveAsk(c, since[a] \cup Facts, deployed) BY <1>1, LiveNow DEF Preparing
<1>3. PICK d : /\ ask' = [ask EXCEPT ![a] = d]
               /\ d = Refused \/ \E results \in {{}, {WebPage}} : d = Prepared(c, results)
      BY DEF SearchWeb
<1>4. ASSUME NEW results \in {{}, {WebPage}} PROVE Sound(Prepared(c, results), since[a] \cup Facts, deployed)
  <2> HIDE DEF c
  <2>1. /\ deployed.store # "postgres" /\ ~Unsafe(c) /\ c.attempt = 1 /\ c.recalled = <<>>
        /\ DOMAIN c = AskFields /\ c.prompt \in Prompts /\ c.found \subseteq DOMAIN Chunks
        BY <1>1, <1>2 DEF LiveAsk, Retrieving, Unsafe, Preparing
  <2>2. \A x \in results : x # WebPage => CanRead(x.class) BY <1>4
  <2> QED BY <2>1, <2>2, PreparedSound
<1>5. Sound(d, since[a] \cup Facts, deployed) BY <1>3, <1>4 DEF Sound
<1> QED BY <1>1, <1>3, <1>5, Advance

\* What a statement of the retrieval leaves.
LEMMA FoundLive ==
    ASSUME NEW c, NEW d, NEW s, NEW p, LiveAsk(c, s, p), Agree(c, d, {"at", "found"}), d.found \subseteq DOMAIN Chunks,
           \/ c.at = "semantic" /\ d.at = "lexical"
           \/ c.at = "lexical" /\ d.at \in {"recall", "enrich"}
    PROVE  LiveAsk(d, s, p)
<1>1. /\ DOMAIN d = AskFields /\ d.prompt = c.prompt /\ d.analysis = c.analysis /\ d.citations = c.citations
      /\ d.recalled = c.recalled /\ d.attempt = c.attempt
      BY DEF Agree, AskFields
<1>2. Retrieving(d, p) BY <1>1 DEF LiveAsk, Retrieving, Unsafe, Preparing, Answering
<1>3. Recalling(d, s) BY <1>1 DEF LiveAsk, Recalling
<1> QED BY <1>1, <1>2, <1>3 DEF LiveAsk, Preparing, Answering

LEMMA SemanticKeeps == ASSUME AskInv, NEW a \in Asks, RetrieveSemantic(a), Observe PROVE AskInv'
<1> DEFINE c == ask[a]
<1>1. c.at = "semantic" /\ UNCHANGED <<deployed, administered>> BY DEF RetrieveSemantic
<1>2. LiveAsk(c, since[a] \cup Facts, deployed) BY <1>1, LiveNow DEF Preparing
<1>3. PICK near \in {{}, Live, c.prompt.hits \cap Live} : ask' = [ask EXCEPT ![a] = [c EXCEPT !.at = "lexical", !.found = near]]
      BY DEF RetrieveSemantic
<1>4. near \subseteq DOMAIN Chunks BY DEF Live
<1> DEFINE d == [c EXCEPT !.at = "lexical", !.found = near]
<1>5. Agree(c, d, {"at", "found"}) /\ d.at = "lexical" /\ d.found = near
  <2>1. DOMAIN c = AskFields BY <1>2 DEF LiveAsk
  <2>2. d = [c EXCEPT !.at = "lexical", !.found = near] OBVIOUS
  <2> HIDE DEF c, d
  <2> QED BY ONLY <2>1, <2>2 DEF Agree, AskFields
<1>6. ask' = [ask EXCEPT ![a] = d] BY <1>3
<1> HIDE DEF c, d
<1>7. LiveAsk(d, since[a] \cup Facts, deployed) BY <1>1, <1>2, <1>4, <1>5, FoundLive
<1> QED BY <1>1, <1>6, <1>7, Advance DEF Sound, c

LEMMA LexicalKeeps == ASSUME AskInv, NEW a \in Asks, RetrieveLexical(a), Observe PROVE AskInv'
<1> DEFINE c == ask[a]
<1>1. c.at = "lexical" /\ UNCHANGED <<deployed, administered>> BY DEF RetrieveLexical
<1>2. LiveAsk(c, since[a] \cup Facts, deployed) BY <1>1, LiveNow DEF Preparing
<1>3. PICK matching \in {{}, c.prompt.hits} :
          ask' = [ask EXCEPT ![a] = [c EXCEPT !.at = IF c.found \cup matching = {} THEN "recall" ELSE "enrich",
                                             !.found = c.found \cup matching]]
      BY DEF RetrieveLexical
<1> DEFINE found == c.found \cup matching
           to == IF found = {} THEN "recall" ELSE "enrich"
           d == [c EXCEPT !.at = to, !.found = found]
<1>4. found \subseteq DOMAIN Chunks BY <1>2, PromptAssumption DEF LiveAsk
<1>5. Agree(c, d, {"at", "found"}) /\ d.at = to /\ d.found = found
  <2>1. DOMAIN c = AskFields BY <1>2 DEF LiveAsk
  <2>2. d = [c EXCEPT !.at = to, !.found = found] OBVIOUS
  <2> HIDE DEF c, found, to, d
  <2> QED BY ONLY <2>1, <2>2 DEF Agree, AskFields
<1>6. ask' = [ask EXCEPT ![a] = d] BY <1>3
<1>7. to \in {"recall", "enrich"} OBVIOUS
<1> HIDE DEF c, d, found, to
<1>8. LiveAsk(d, since[a] \cup Facts, deployed) BY <1>1, <1>2, <1>4, <1>5, <1>7, FoundLive
<1> QED BY <1>1, <1>6, <1>8, Advance DEF Sound, c

LEMMA EnrichKeeps == ASSUME AskInv, NEW a \in Asks, Enrich(a), Observe PROVE AskInv'
<1> DEFINE c == ask[a]
           s == since[a] \cup Facts
<1>1. c.at = "enrich" /\ UNCHANGED <<deployed, administered>> BY DEF Enrich
<1>2. LiveAsk(c, s, deployed) BY <1>1, LiveNow DEF Preparing
<1>3. PICK answered \in BOOLEAN :
          LET known(k) == answered /\ Chunks[k].doc \notin c.replaced
              class(k) == IF known(k) THEN documents[Chunks[k].doc].class ELSE "Internal"
              cited == {Citation(Chunks[k].doc, Chunks[k].section, k, class(k), known(k)) :
                           k \in {f \in c.found : CanRead(class(f))}}
          IN ask' = [ask EXCEPT ![a] = [@ EXCEPT !.at = "recall", !.found = {}, !.replaced = {}, !.citations = cited]]
      BY DEF Enrich
<1> DEFINE known(k) == answered /\ Chunks[k].doc \notin c.replaced
           class(k) == IF known(k) THEN documents[Chunks[k].doc].class ELSE "Internal"
           cited == {Citation(Chunks[k].doc, Chunks[k].section, k, class(k), known(k)) :
                        k \in {f \in c.found : CanRead(class(f))}}
           d == [c EXCEPT !.at = "recall", !.found = {}, !.replaced = {}, !.citations = cited]
<1>4. ask' = [ask EXCEPT ![a] = d] BY <1>3
<1>5. \A x \in cited : MayBeCited(x, s, deployed)
  <2> SUFFICES ASSUME NEW x \in cited PROVE MayBeCited(x, s, deployed) OBVIOUS
  <2>1. PICK k \in c.found : CanRead(class(k)) /\ x = Citation(Chunks[k].doc, Chunks[k].section, k, class(k), known(k))
        OBVIOUS
  <2>2. k \in DOMAIN Chunks BY <1>2 DEF LiveAsk
  <2>3. Chunks[k].doc \in Docs BY <2>2 DEF Docs
  <2>4. <<Chunks[k].doc, documents[Chunks[k].doc].class>> \in Facts BY <2>3, FactsHold
  <2>5. x.doc = Chunks[k].doc /\ x.class = class(k) /\ x.known = known(k) BY <2>1 DEF Citation
  <2> HIDE DEF known
  <2> QED BY <2>1, <2>4, <2>5 DEF MayBeCited
<1>6. Agree(c, d, {"at", "found", "replaced", "citations"}) /\ d.at = "recall" /\ d.found = {} /\ d.citations = cited
  <2>1. DOMAIN c = AskFields BY <1>2 DEF LiveAsk
  <2>2. d = [c EXCEPT !.at = "recall", !.found = {}, !.replaced = {}, !.citations = cited] OBVIOUS
  <2> HIDE DEF c, cited, d
  <2> QED BY ONLY <2>1, <2>2 DEF Agree, AskFields
<1> HIDE DEF c, d, cited, s
<1>7. LiveAsk(d, s, deployed)
  <2>1. /\ DOMAIN d = AskFields /\ d.prompt = c.prompt /\ d.analysis = c.analysis /\ d.recalled = c.recalled
        /\ d.attempt = c.attempt
        BY <1>6 DEF Agree, AskFields
  <2>2. Retrieving(d, deployed) BY <1>1, <1>2, <1>6, <2>1 DEF LiveAsk, Retrieving, Unsafe, Preparing, Answering
  <2>3. Recalling(d, s) BY <1>1, <1>2, <1>6, <2>1 DEF LiveAsk, Recalling
  <2> QED BY <1>2, <1>5, <1>6, <2>1, <2>2, <2>3 DEF LiveAsk, Preparing, Answering
<1> QED BY <1>1, <1>4, <1>7, Advance DEF Sound, c, s

LEMMA RowsKeeps == ASSUME AskInv, NEW a \in Asks, RecallRows(a), Observe PROVE AskInv'
<1> DEFINE c == ask[a]
           s == since[a] \cup Facts
<1>1. c.at = "recall" /\ UNCHANGED <<deployed, administered>> BY DEF RecallRows
<1>2. LiveAsk(c, s, deployed) BY <1>1, LiveNow DEF Preparing
<1>3. PICK rows \in {<<>>, retrieve(memory.rows)} : ask' = [ask EXCEPT ![a] = [c EXCEPT !.at = "authorize", !.candidates = rows]]
      BY DEF RecallRows
<1> DEFINE d == [c EXCEPT !.at = "authorize", !.candidates = rows]
<1>4. ask' = [ask EXCEPT ![a] = d] BY <1>3
<1>5. AreMemories(rows) /\ \A k \in DOMAIN rows : <<"memory", rows[k]>> \in Facts
  <2>1. AreMemories(<<>>)
    <3>1. <<>> \in Seq({}) /\ \A m \in {} : IsMemory(m) OBVIOUS
    <3> QED BY ONLY <3>1 DEF AreMemories
  <2>2. AreMemories(retrieve(memory.rows)) BY RetrievedRows DEF AskInv, MemoryOk
  <2>3. CASE rows = <<>> BY <2>1, <2>3
  <2>4. CASE rows = retrieve(memory.rows)
    <3>1. \A k \in DOMAIN rows : rows[k] \in Range(rows) BY DEF Range
    <3> QED BY <2>2, <2>4, <3>1, FactsHold
  <2> QED BY <2>3, <2>4
<1>6. Agree(c, d, {"at", "candidates"}) /\ d.at = "authorize" /\ d.candidates = rows
  <2>1. DOMAIN c = AskFields BY <1>2 DEF LiveAsk
  <2>2. d = [c EXCEPT !.at = "authorize", !.candidates = rows] OBVIOUS
  <2> HIDE DEF c, d
  <2> QED BY ONLY <2>1, <2>2 DEF Agree, AskFields
<1>7. Facts \subseteq s OBVIOUS
<1> HIDE DEF c, d, s
<1>8. LiveAsk(d, s, deployed)
  <2>1. /\ DOMAIN d = AskFields /\ d.prompt = c.prompt /\ d.analysis = c.analysis /\ d.found = c.found
        /\ d.citations = c.citations /\ d.recalled = c.recalled /\ d.attempt = c.attempt
        BY <1>6 DEF Agree, AskFields
  <2>2. Retrieving(d, deployed) BY <1>1, <1>2, <1>6, <2>1 DEF LiveAsk, Retrieving, Unsafe, Preparing, Answering
  <2>3. d.recalled = <<>> BY <1>1, <1>2, <2>1 DEF LiveAsk, Retrieving
  <2>4. AreMemories(d.recalled)
    <3>1. <<>> \in Seq({}) /\ \A m \in {} : IsMemory(m) OBVIOUS
    <3> QED BY ONLY <2>3, <3>1 DEF AreMemories
  <2>5. Recalling(d, s) BY <1>5, <1>6, <1>7, <2>3, <2>4 DEF Recalling
  <2> QED BY <1>2, <1>6, <2>1, <2>2, <2>5 DEF LiveAsk, Preparing, Answering
<1> QED BY <1>1, <1>4, <1>8, Advance DEF Sound, c, s

\* A record the rules admit now may be recalled.
LEMMA ReadableNow ==
    ASSUME NEW m, NEW s, Facts \subseteq s, <<"memory", m>> \in s, assertCanRead(Asker, m, memory.teams)
    PROVE  MayRecall(m, s)
<1>1. CASE <<Asker, m.group>> \in memory.teams
  <2>1. <<"member", <<Asker, m.group>>>> \in s BY <1>1, FactsHold
  <2> QED BY <2>1 DEF MayRecall, assertCanRead
<1>2. CASE <<Asker, m.group>> \notin memory.teams BY <1>2 DEF MayRecall, assertCanRead
<1> QED BY <1>1, <1>2

LEMMA AuthorizeKeeps == ASSUME AskInv, NEW a \in Asks, Authorize(a), Observe PROVE AskInv'
<1> DEFINE c == ask[a]
           s == since[a] \cup Facts
<1>1. c.at = "authorize" /\ UNCHANGED <<deployed, administered>> BY DEF Authorize
<1>2. LiveAsk(c, s, deployed) BY <1>1, LiveNow DEF Preparing
<1>3. DOMAIN c = AskFields BY <1>2 DEF LiveAsk
<1>4. /\ AreMemories(c.candidates) /\ AreMemories(c.recalled)
      /\ \A k \in DOMAIN c.candidates : <<"memory", c.candidates[k]>> \in s
      /\ \A k \in DOMAIN c.recalled : MayRecall(c.recalled[k], s)
      BY <1>1, <1>2 DEF LiveAsk, Recalling
<1>5. PICK R : c.recalled \in Seq(R) /\ \A m \in R : IsMemory(m) BY <1>4 DEF AreMemories
<1>6. CASE c.candidates = <<>>
  <2> DEFINE recalled == relevantMemories(c.recalled, c.query)
             d == [c EXCEPT !.at = "models", !.recalled = recalled]
             G == {m \in R : MayRecall(m, s)}
  <2>1. ask' = [ask EXCEPT ![a] = d] BY <1>6 DEF Authorize
  <2>2. (\A k \in DOMAIN recalled : MayRecall(recalled[k].record, s)) /\ Flagged(recalled)
    <3>1. c.recalled \in Seq(G)
      <4> HIDE DEF c
      <4>1. \A k \in 1..Len(c.recalled) : c.recalled[k] \in R BY <1>5
      <4>3. DOMAIN c.recalled = 1..Len(c.recalled) BY <1>5
      <4>4. \A k \in 1..Len(c.recalled) : c.recalled[k] \in G BY <1>4, <4>1, <4>3
      <4> HIDE DEF G
      <4>2. c.recalled \in [1..Len(c.recalled) -> G] /\ Len(c.recalled) \in Nat BY <1>5, <4>4
      <4> QED BY <4>2
    <3>2. \A m \in G : IsMemory(m) /\ MayRecall(m, s) BY <1>5
    <3> HIDE DEF G, c, s
    <3> QED BY <3>1, <3>2, RecallKeeps
  <2>3. Agree(c, d, {"at", "recalled"}) /\ d.at = "models" /\ d.recalled = recalled
    <3>1. d = [c EXCEPT !.at = "models", !.recalled = recalled] OBVIOUS
    <3> HIDE DEF c, d, recalled
    <3> QED BY ONLY <1>3, <3>1 DEF Agree, AskFields
  <2> HIDE DEF c, d, s, recalled
  <2>4. LiveAsk(d, s, deployed)
    <3>1. /\ DOMAIN d = AskFields /\ d.prompt = c.prompt /\ d.analysis = c.analysis /\ d.found = c.found
          /\ d.citations = c.citations /\ d.attempt = c.attempt
          BY <2>3 DEF Agree, AskFields
    <3>2. ~Unsafe(c) BY <1>1, <1>2 DEF LiveAsk, Retrieving
    <3>3. Retrieving(d, deployed) BY <1>1, <1>2, <2>3, <3>1, <3>2 DEF LiveAsk, Retrieving, Unsafe, Preparing, Answering
    <3>4. Recalling(d, s) BY <2>2, <2>3 DEF Recalling
    <3> QED BY <1>2, <2>3, <3>1, <3>3, <3>4 DEF LiveAsk, Preparing, Answering
  <2> QED BY <1>1, <2>1, <2>4, Advance DEF Sound, c, s
<1>7. CASE c.candidates # <<>>
  <2> DEFINE m == Head(c.candidates)
  <2>1. PICK answered \in BOOLEAN :
            ask' = [ask EXCEPT ![a] =
                [c EXCEPT !.candidates = Tail(c.candidates),
                          !.recalled = c.recalled \o (IF answered /\ assertCanRead(Asker, m, memory.teams) THEN <<m>> ELSE <<>>)]]
        <3>1. \A answered \in {~AsksForTeam(Asker, m), TRUE} : answered \in BOOLEAN OBVIOUS
        <3> QED BY <1>7, <3>1 DEF Authorize
  <2> DEFINE allowed == IF answered /\ assertCanRead(Asker, m, memory.teams) THEN <<m>> ELSE <<>>
             recalled == c.recalled \o allowed
             candidates == Tail(c.candidates)
             d == [c EXCEPT !.candidates = candidates, !.recalled = recalled]
  <2>2. ask' = [ask EXCEPT ![a] = d] BY <2>1
  <2>3. PICK S : c.candidates \in Seq(S) /\ \A x \in S : IsMemory(x) BY <1>4 DEF AreMemories
  <2>4. candidates \in Seq(S) /\ \A k \in DOMAIN candidates : <<"memory", candidates[k]>> \in s
    <3>1. candidates \in Seq(S) /\ DOMAIN candidates = 1..(Len(c.candidates) - 1) BY <1>7, <2>3
    <3>2. \A k \in DOMAIN candidates : candidates[k] = c.candidates[k + 1] /\ k + 1 \in DOMAIN c.candidates BY <1>7, <2>3
    <3> QED BY <1>4, <3>1, <3>2
  <2>5. m \in S /\ <<"memory", m>> \in s BY <1>4, <1>7, <2>3
  <2>6. assertCanRead(Asker, m, memory.teams) => MayRecall(m, s)
    <3>1. Facts \subseteq s OBVIOUS
    <3> HIDE DEF m, s
    <3> QED BY <2>5, <3>1, ReadableNow
  <2>7. allowed \in Seq(S) /\ \A k \in DOMAIN allowed : MayRecall(allowed[k], s)
    <3> HIDE DEF m, s
    <3> QED BY <2>5, <2>6
  <2> HIDE DEF allowed, c, s, candidates
  <2>8. AreMemories(recalled) /\ \A k \in DOMAIN recalled : MayRecall(recalled[k], s)
    <3> DEFINE T == R \cup S
    <3>1. c.recalled \in Seq(T) /\ allowed \in Seq(T)
      <4>1. R \subseteq T /\ S \subseteq T OBVIOUS
      <4> HIDE DEF T
      <4> QED BY <1>5, <2>7, <4>1, SeqMonotonic
    <3>2. \A x \in T : IsMemory(x) BY <1>5, <2>3
    <3> HIDE DEF T
    <3>3. recalled \in Seq(T) BY <3>1
    <3>4. \A k \in DOMAIN recalled :
              \/ k \in DOMAIN c.recalled /\ recalled[k] = c.recalled[k]
              \/ k - Len(c.recalled) \in DOMAIN allowed /\ recalled[k] = allowed[k - Len(c.recalled)]
          BY <3>1
    <3>5. AreMemories(recalled) BY <3>2, <3>3 DEF AreMemories
    <3> HIDE DEF recalled
    <3> QED BY <1>4, <2>7, <3>4, <3>5
  <2>9. Agree(c, d, {"candidates", "recalled"}) /\ d.candidates = candidates /\ d.recalled = recalled
    <3>1. d = [c EXCEPT !.candidates = candidates, !.recalled = recalled] OBVIOUS
    <3> HIDE DEF d, recalled
    <3> QED BY ONLY <1>3, <3>1 DEF Agree, AskFields
  <2> HIDE DEF d, recalled
  <2>10. LiveAsk(d, s, deployed)
    <3>1. /\ DOMAIN d = AskFields /\ d.at = c.at /\ d.prompt = c.prompt /\ d.analysis = c.analysis /\ d.found = c.found
          /\ d.citations = c.citations /\ d.attempt = c.attempt
          BY <2>9 DEF Agree, AskFields
    <3>2. ~Unsafe(c) BY <1>1, <1>2 DEF LiveAsk, Retrieving
    <3>3. Retrieving(d, deployed) BY <1>1, <1>2, <3>1, <3>2 DEF LiveAsk, Retrieving, Unsafe, Preparing, Answering
    <3>4. AreMemories(candidates) BY <2>3, <2>4 DEF AreMemories
    <3>5. Recalling(d, s) BY <1>1, <2>4, <2>8, <2>9, <3>1, <3>4 DEF Recalling
    <3> QED BY <1>1, <1>2, <3>1, <3>3, <3>5 DEF LiveAsk, Preparing, Answering
  <2> QED BY <1>1, <2>2, <2>10, Advance DEF Sound, c, s
<1> QED BY <1>6, <1>7

LEMMA ListKeeps == ASSUME AskInv, NEW a \in Asks, ListModels(a), Observe PROVE AskInv'
<1> DEFINE c == ask[a]
           s == since[a] \cup Facts
           rows == Candidates(registry)
           d == [c EXCEPT !.at = "policy", !.registered = rows]
<1>1. c.at = "models" /\ UNCHANGED <<deployed, administered>> /\ ask' = [ask EXCEPT ![a] = d] BY DEF ListModels
<1>2. LiveAsk(c, s, deployed) BY <1>1, LiveNow DEF Preparing
<1>3. WasRegistered(rows, s)
  <2> DEFINE C == {m \in {Candidate(MODEL_CATALOG[k], registry[MODEL_CATALOG[k].id]) : k \in DOMAIN MODEL_CATALOG} :
                       /\ Priced(m) /\ m.id \in DOMAIN registry
                       /\ m.status = registry[m.id].status /\ m.approval = registry[m.id].approval
                       /\ m.health = registry[m.id].health /\ m.classes = registry[m.id].classes}
  <2>1. rows \in Seq(C)
    <3>1. \A id \in DOMAIN registry : registry[id].cost \in Int BY DEF AskInv, RegistryOk
    <3> QED BY ONLY <3>1, CandidatesAreRows
  <2>2. ASSUME NEW m \in C PROVE Priced(m) /\ (Usable(m) => \A class \in m.classes : <<m.id, class>> \in s)
    <3>1. /\ Priced(m) /\ m.id \in DOMAIN registry
          /\ m.status = registry[m.id].status /\ m.approval = registry[m.id].approval
          /\ m.health = registry[m.id].health /\ m.classes = registry[m.id].classes
          OBVIOUS
    <3>2. Usable(m) => Usable(registry[m.id]) BY <3>1 DEF Usable
    <3> HIDE DEF C
    <3> QED BY <3>1, <3>2, FactsHold
  <2> HIDE DEF C, rows, s
  <2> QED BY <2>1, <2>2 DEF WasRegistered
<1>4. Agree(c, d, {"at", "registered"}) /\ d.at = "policy" /\ d.registered = rows
  <2>1. DOMAIN c = AskFields BY <1>2 DEF LiveAsk
  <2>2. d = [c EXCEPT !.at = "policy", !.registered = rows] OBVIOUS
  <2> HIDE DEF c, d, rows
  <2> QED BY ONLY <2>1, <2>2 DEF Agree, AskFields
<1> HIDE DEF c, d, s, rows
<1>5. LiveAsk(d, s, deployed)
  <2>1. /\ DOMAIN d = AskFields /\ d.prompt = c.prompt /\ d.analysis = c.analysis /\ d.found = c.found
        /\ d.citations = c.citations /\ d.recalled = c.recalled /\ d.attempt = c.attempt
        BY <1>4 DEF Agree, AskFields
  <2>2. Retrieving(d, deployed) BY <1>1, <1>2, <1>4, <2>1 DEF LiveAsk, Retrieving, Unsafe, Preparing, Answering
  <2>3. Recalling(d, s) BY <1>1, <1>2, <1>4, <2>1 DEF LiveAsk, Recalling
  <2> QED BY <1>2, <1>3, <1>4, <2>1, <2>2, <2>3 DEF LiveAsk, Preparing, Answering
<1> QED BY <1>1, <1>5, Advance DEF Sound, c, s

LEMMA DecideKeeps == ASSUME AskInv, NEW a \in Asks, Decide(a), Observe PROVE AskInv'
<1> DEFINE c == ask[a]
           s == since[a] \cup Facts
           class == highestClassification(c.citations)
           route == routeModel(c.analysis, class, getPolicy, c.registered)
<1>1. c.at = "policy" /\ UNCHANGED <<deployed, administered>> /\ ask' = [ask EXCEPT ![a] = Routed(c, route)] BY DEF Decide
<1>2. LiveAsk(c, s, deployed) BY <1>1, LiveNow DEF Preparing
<1>3. PICK C : /\ c.registered \in Seq(C)
               /\ \A m \in C : Priced(m) /\ (Usable(m) => \A k \in m.classes : <<m.id, k>> \in s)
      BY <1>1, <1>2 DEF LiveAsk, WasRegistered
<1>4. Facts \subseteq s OBVIOUS
<1>5. route = Closed \/ Allows(route, c.registered, c.analysis, class, getPolicy)
  <2> HIDE DEF c, class
  <2> QED BY <1>3, RoutesAreAllowed
<1> HIDE DEF c, s, route
<1>6. ASSUME route # Closed PROVE RouteOk(route, c, s, deployed)
  <2>1. Allows(route, c.registered, c.analysis, class, getPolicy) BY <1>5, <1>6
  <2>2. <<"provider", route.provider>> \in s BY <1>4, <2>1, FactsHold DEF Allows
  <2>3. ASSUME NEW j \in DOMAIN route.models PROVE <<route.models[j], class>> \in s
    <3>1. PICK k \in DOMAIN c.registered : /\ c.registered[k].id = route.models[j]
                                            /\ Eligible(c.registered[k], c.analysis, class, getPolicy)
          BY <2>1 DEF Allows
    <3>2. c.registered[k] \in C BY <1>3
    <3>3. Usable(c.registered[k]) /\ class \in c.registered[k].classes BY <3>1 DEF Eligible, Usable
    <3> QED BY <1>3, <3>1, <3>2, <3>3
  <2>4. deployed.store = "postgres" BY <1>1, <1>2 DEF LiveAsk, Retrieving, Answering
  <2> QED BY <2>1, <2>2, <2>3, <2>4 DEF RouteOk, Allows
<1>7. Prepares(c, s, deployed) BY <1>1, <1>2 DEF LiveAsk, Prepares, Retrieving, Recalling, Preparing
<1>8. Sound(Routed(c, route), s, deployed) BY <1>6, <1>7, RoutedSound
<1> QED BY <1>1, <1>8, Advance DEF c, s

\* A step of a request that has its route.
LEMMA AnsweringLive ==
    ASSUME NEW c, NEW d, NEW s, NEW p, LiveAsk(c, s, p), c.at \in Answering, Agree(c, d, {"at", "attempt", "answer"}),
           d.attempt \in 1..Len(c.route.models), d.at \in Answering,
           d.at \in {"record", "done"} => Accepts(c.analysis, c.citations, c.structured, d.answer)
    PROVE  LiveAsk(d, s, p)
<1>1. /\ DOMAIN d = AskFields /\ d.prompt = c.prompt /\ d.analysis = c.analysis /\ d.structured = c.structured
      /\ d.found = c.found /\ d.citations = c.citations /\ d.recalled = c.recalled /\ d.route = c.route
      BY DEF Agree, AskFields
<1>2. Retrieving(d, p) BY <1>1 DEF LiveAsk, Retrieving, Unsafe, Preparing, Answering
<1>3. Recalling(d, s) BY <1>1 DEF LiveAsk, Recalling, Answering
<1>4. WasAllowed(d, s, p) BY <1>1 DEF LiveAsk, WasAllowed, RouteOk
<1> QED BY <1>1, <1>2, <1>3, <1>4 DEF LiveAsk, Preparing, Answering

LEMMA GenerateKeeps == ASSUME AskInv, NEW a \in Asks, Generate(a), Observe PROVE AskInv'
<1> DEFINE c == ask[a]
           s == since[a] \cup Facts
<1>1. c.at = "generate" /\ UNCHANGED <<deployed, administered>> BY DEF Generate
<1>2. LiveAsk(c, s, deployed) BY <1>1, LiveNow DEF Answering
<1>3. PICK answer, d :
          /\ ask' = [ask EXCEPT ![a] = d]
          /\ \/ /\ Accepts(c.analysis, c.citations, c.structured, answer)
                /\ d = [c EXCEPT !.at = "record", !.answer = answer]
             \/ c.attempt < Len(c.route.models) /\ d = [c EXCEPT !.attempt = c.attempt + 1]
             \/ d = Refused
      BY DEF Generate
<1> HIDE DEF c, s
<1>4. DOMAIN c = AskFields /\ c.attempt \in 1..Len(c.route.models) /\ Len(c.route.models) \in Nat
      BY <1>1, <1>2 DEF LiveAsk, WasAllowed, RouteOk, Answering
<1>5. CASE d = Refused BY <1>1, <1>3, <1>5, Advance DEF Sound, c
<1>6. CASE c.attempt < Len(c.route.models) /\ d = [c EXCEPT !.attempt = c.attempt + 1]
  <2>1. Agree(c, d, {"attempt"}) /\ d.attempt = c.attempt + 1 BY ONLY <1>4, <1>6 DEF Agree, AskFields
  <2>2. Agree(c, d, {"at", "attempt", "answer"}) /\ d.at = c.at BY <2>1 DEF Agree, AskFields
  <2>3. c.attempt + 1 \in 1..Len(c.route.models) BY <1>4, <1>6
  <2>4. LiveAsk(d, s, deployed) BY <1>1, <1>2, <2>1, <2>2, <2>3, AnsweringLive DEF Answering
  <2> QED BY <1>1, <1>3, <2>4, Advance DEF Sound, c, s
<1>7. CASE /\ Accepts(c.analysis, c.citations, c.structured, answer)
           /\ d = [c EXCEPT !.at = "record", !.answer = answer]
  <2>1. Agree(c, d, {"at", "answer"}) /\ d.at = "record" /\ d.answer = answer BY ONLY <1>4, <1>7 DEF Agree, AskFields
  <2>2. Agree(c, d, {"at", "attempt", "answer"}) /\ d.attempt = c.attempt BY <2>1 DEF Agree, AskFields
  <2>3. /\ LiveAsk(c, s, deployed) /\ c.at \in Answering /\ d.at \in Answering
        /\ d.attempt \in 1..Len(c.route.models) /\ Accepts(c.analysis, c.citations, c.structured, d.answer)
        BY <1>1, <1>2, <1>4, <1>7, <2>1, <2>2 DEF Answering
  <2>4. LiveAsk(d, s, deployed) BY ONLY <2>2, <2>3, AnsweringLive
  <2> QED BY <1>1, <1>3, <2>4, Advance DEF Sound, c, s
<1> QED BY <1>3, <1>5, <1>6, <1>7

LEMMA RecordKeeps == ASSUME AskInv, NEW a \in Asks, Record(a), Observe PROVE AskInv'
<1> DEFINE c == ask[a]
           s == since[a] \cup Facts
           d == [c EXCEPT !.at = "done"]
<1>1. c.at = "record" /\ UNCHANGED <<deployed, administered>> /\ ask' = [ask EXCEPT ![a] = d] BY DEF Record
<1>2. LiveAsk(c, s, deployed) BY <1>1, LiveNow DEF Answering
<1>3. Agree(c, d, {"at"}) /\ d.at = "done"
  <2>1. DOMAIN c = AskFields BY <1>2 DEF LiveAsk
  <2>2. d = [c EXCEPT !.at = "done"] OBVIOUS
  <2> HIDE DEF c, d
  <2> QED BY ONLY <2>1, <2>2 DEF Agree, AskFields
<1> HIDE DEF c, d, s
<1>4. Agree(c, d, {"at", "attempt", "answer"}) /\ d.attempt = c.attempt /\ d.answer = c.answer BY <1>3 DEF Agree, AskFields
<1>5. c.attempt \in 1..Len(c.route.models) BY <1>1, <1>2 DEF LiveAsk, WasAllowed, Answering
<1>6. Accepts(c.analysis, c.citations, c.structured, c.answer) BY <1>1, <1>2 DEF LiveAsk
<1>7. LiveAsk(d, s, deployed) BY <1>1, <1>2, <1>3, <1>4, <1>5, <1>6, AnsweringLive DEF Answering
<1> QED BY <1>1, <1>7, Advance DEF Sound, c, s

LEMMA AbortKeeps == ASSUME AskInv, NEW a \in Asks, Abort(a), Observe PROVE AskInv'
<1>1. /\ ask' = [ask EXCEPT ![a] = Refused] /\ UNCHANGED <<deployed, administered>>
      /\ ask[a].at # "done"
      BY DEF Abort
<1> QED BY <1>1, Advance DEF Sound

-----------------------------------------------------------------------------
(* What others change *)

\* Of requests that retrieve, others change which chunks are replaced.
OnlyReplaced(asks, news) ==
    /\ DOMAIN news = Asks
    /\ \A a \in Asks : \/ news[a] = asks[a]
                      \/ (asks[a].at \in Preparing /\ Agree(asks[a], news[a], {"replaced"}))

LEMMA OthersKeep ==
    ASSUME AskInv, deployed' = deployed, Observe, RegistryOk(registry'), MemoryOk(memory'), OnlyReplaced(ask, ask')
    PROVE  AskInv'
<1>1. ASSUME NEW a \in Asks PROVE Sound(ask'[a], since'[a], deployed)
  <2> DEFINE c == ask[a]
             d == ask'[a]
             s == since[a]
             t == since'[a]
  <2>1. Sound(c, s, deployed) BY DEF AskInv
  <2>2. t = IF d.at \in {"none", "failed"} THEN {} ELSE IF c.at = "done" THEN s ELSE s \cup Facts' BY DEF Observe
  <2>3. d = c \/ (c.at \in Preparing /\ Agree(c, d, {"replaced"})) BY DEF OnlyReplaced
  <2> HIDE DEF c, d, s, t
  <2>4. Sound(d, s, deployed)
    <3>1. CASE d = c BY <2>1, <3>1
    <3>2. CASE c.at \in Preparing /\ Agree(c, d, {"replaced"})
      <4>1. LiveAsk(c, s, deployed) BY <2>1, <3>2 DEF Sound, NoAsk, Refused, Preparing
      <4> QED BY <3>2, <4>1, ReplacedStays DEF Sound
    <3> QED BY <2>3, <3>1, <3>2
  <2>5. CASE d.at \in {"none", "failed"}
    <3>1. ~LiveAsk(d, s, deployed) BY <2>5 DEF LiveAsk, Preparing, Answering
    <3> QED BY <2>4, <3>1 DEF Sound, d
  <2>6. CASE d.at \notin {"none", "failed"}
    <3>1. s \subseteq t BY <2>2, <2>6
    <3>2. Sound(d, t, deployed) BY <2>4, <3>1, LaterStill
    <3> QED BY <3>2 DEF d, t
  <2> QED BY <2>5, <2>6 DEF Sound, d, t
<1>2. DOMAIN since' = Asks BY DEF Observe
<1> QED BY <1>1, <1>2 DEF AskInv, OnlyReplaced

LEMMA UpsertKeeps ==
    ASSUME RegistryOk(registry), NEW r \in ModelRows, UpsertModel(r.id, r.row)
    PROVE  RegistryOk(registry')
<1>1. "cost" \in DOMAIN r.row /\ r.row.cost \in Int BY RegistryAssumption
<1>2. PICK p : registry' = [k \in DOMAIN registry \cup {r.id} |->
                               IF k # r.id THEN registry[k] ELSE [r.row EXCEPT !.provider = p]]
      BY DEF UpsertModel
<1> DEFINE rec == [r.row EXCEPT !.provider = p]
<1>3. "cost" \in DOMAIN rec /\ rec.cost \in Int BY <1>1
<1> HIDE DEF rec
<1>4. ASSUME NEW k \in DOMAIN registry' PROVE "cost" \in DOMAIN registry'[k] /\ registry'[k].cost \in Int
  <2>1. CASE k = r.id
    <3>1. registry'[k] = rec BY <1>2, <2>1 DEF rec
    <3> QED BY <1>3, <3>1
  <2>2. CASE k # r.id
    <3>1. k \in DOMAIN registry /\ registry'[k] = registry[k] BY <1>2, <2>2
    <3> QED BY <3>1 DEF RegistryOk
  <2> QED BY <2>1, <2>2
<1> QED BY <1>4 DEF RegistryOk

LEMMA StatusKeeps ==
    ASSUME RegistryOk(registry), NEW id \in DOMAIN registry, NEW marked, SetStatus(id, marked)
    PROVE  RegistryOk(registry')
<1> DEFINE rec == [registry[id] EXCEPT !.status = marked]
<1>1. registry' = [registry EXCEPT ![id] = rec] BY DEF SetStatus
<1>2. "cost" \in DOMAIN rec /\ rec.cost \in Int BY DEF RegistryOk
<1> HIDE DEF rec
<1> QED BY <1>1, <1>2 DEF RegistryOk

LEMMA MemoryFields ==
    ASSUME NEW m, IsMemory(m), NEW v
    PROVE  /\ IsMemory([m EXCEPT !.owner = v]) /\ IsMemory([m EXCEPT !.content = v])
           /\ IsMemory([m EXCEPT !.status = v]) /\ IsMemory([m EXCEPT !.lapsed = v])
BY DEF IsMemory

LEMMA RowsChange ==
    ASSUME MemoryOk(memory), NEW rows, AreMemories(rows), NEW m, m = [memory EXCEPT !.rows = rows]
    PROVE  MemoryOk(m)
<1>1. DOMAIN m = {"rows", "teams"} /\ m.rows = rows BY DEF MemoryOk
<1> QED BY <1>1 DEF MemoryOk

LEMMA RevisedRows ==
    ASSUME NEW rows, AreMemories(rows), NEW k \in DOMAIN rows, NEW p, NEW teams, NEW revised, IsMemory(revised)
    PROVE  AreMemories(Revise(rows, p, k, teams, revised))
<1>1. AreMemories(<<revised>> \o RemoveAt(rows, k)) BY MemoriesChange
<1> QED BY <1>1 DEF Revise

LEMMA RowsAre == ASSUME NEW rows, AreMemories(rows), NEW k \in DOMAIN rows PROVE IsMemory(rows[k])
BY DEF AreMemories

LEMMA MemoryKeeps == ASSUME MemoryOk(memory), ChangeMemory PROVE MemoryOk(memory')
<1> DEFINE rows == memory.rows
<1>1. AreMemories(rows) BY DEF MemoryOk
<1>2. CASE \E p \in DOMAIN Grants, m \in Memories : memory' = [memory EXCEPT !.rows = remember(rows, p, m, memory.teams)]
  <2>1. PICK p \in DOMAIN Grants, m \in Memories : memory' = [memory EXCEPT !.rows = remember(rows, p, m, memory.teams)]
        BY <1>2
  <2> DEFINE own == [m EXCEPT !.owner = IF m.scope \in Personal THEN p ELSE Nothing]
  <2>2. IsMemory(own) BY MemoryAssumption, MemoryFields
  <2>3. remember(rows, p, m, memory.teams) \in {<<own>> \o rows, rows} BY DEF remember
  <2> HIDE DEF own, rows
  <2>4. AreMemories(<<own>> \o rows) BY <1>1, <2>2, MemoriesChange
  <2>5. AreMemories(remember(rows, p, m, memory.teams)) BY <1>1, <2>3, <2>4
  <2> QED BY <2>1, <2>5, RowsChange
<1>3. CASE \E p \in DOMAIN Grants, k \in DOMAIN rows, m \in Memories :
               memory' = [memory EXCEPT !.rows = Revise(rows, p, k, memory.teams, [rows[k] EXCEPT !.content = m.content])]
  <2>1. PICK p \in DOMAIN Grants, k \in DOMAIN rows, m \in Memories :
            memory' = [memory EXCEPT !.rows = Revise(rows, p, k, memory.teams, [rows[k] EXCEPT !.content = m.content])]
        BY <1>3
  <2> HIDE DEF rows
  <2>2. IsMemory([rows[k] EXCEPT !.content = m.content]) BY <1>1, RowsAre, MemoryFields
  <2>3. AreMemories(Revise(rows, p, k, memory.teams, [rows[k] EXCEPT !.content = m.content])) BY <1>1, <2>2, RevisedRows
  <2> QED BY <2>1, <2>3, RowsChange
<1>4. CASE \E p \in DOMAIN Grants, k \in DOMAIN rows, marked \in {"deleted", "expired"} :
               memory' = [memory EXCEPT !.rows = Revise(rows, p, k, memory.teams, [rows[k] EXCEPT !.status = marked])]
  <2>1. PICK p \in DOMAIN Grants, k \in DOMAIN rows, marked \in {"deleted", "expired"} :
            memory' = [memory EXCEPT !.rows = Revise(rows, p, k, memory.teams, [rows[k] EXCEPT !.status = marked])]
        BY <1>4
  <2> HIDE DEF rows
  <2>2. IsMemory([rows[k] EXCEPT !.status = marked]) BY <1>1, RowsAre, MemoryFields
  <2>3. AreMemories(Revise(rows, p, k, memory.teams, [rows[k] EXCEPT !.status = marked])) BY <1>1, <2>2, RevisedRows
  <2> QED BY <2>1, <2>3, RowsChange
<1>5. CASE \E teams : memory' = [memory EXCEPT !.teams = teams] BY <1>5 DEF MemoryOk
<1>6. CASE \E k \in DOMAIN rows : memory' = [memory EXCEPT !.rows = [rows EXCEPT ![k].lapsed = TRUE]]
  <2>1. PICK k \in DOMAIN rows : memory' = [memory EXCEPT !.rows = [rows EXCEPT ![k].lapsed = TRUE]] BY <1>6
  <2>2. [rows EXCEPT ![k].lapsed = TRUE] = [rows EXCEPT ![k] = [rows[k] EXCEPT !.lapsed = TRUE]] OBVIOUS
  <2> HIDE DEF rows
  <2>3. IsMemory([rows[k] EXCEPT !.lapsed = TRUE]) BY <1>1, RowsAre, MemoryFields
  <2>4. AreMemories([rows EXCEPT ![k] = [rows[k] EXCEPT !.lapsed = TRUE]]) BY <1>1, <2>3, MemoriesChange
  <2> QED BY <2>1, <2>2, <2>4, RowsChange
<1> QED BY <1>2, <1>3, <1>4, <1>5, <1>6 DEF ChangeMemory

LEMMA AdministerKeeps == ASSUME AskInv, Administer, Observe PROVE AskInv'
<1>1. deployed' = deployed /\ DOMAIN ask = Asks /\ RegistryOk(registry) /\ MemoryOk(memory) BY DEF Administer, AskInv
<1> DEFINE Rest == AskInv /\ deployed' = deployed /\ Observe
<1>0. Rest BY <1>1
<1>7. ask' = ask => OnlyReplaced(ask, ask') BY <1>1 DEF OnlyReplaced
<1>2. CASE UNCHANGED <<memory, ask>> /\ \E r \in ModelRows : UpsertModel(r.id, r.row)
  <2>1. RegistryOk(registry') /\ MemoryOk(memory') BY <1>1, <1>2, UpsertKeeps
  <2>2. OnlyReplaced(ask, ask') BY <1>2, <1>7
  <2> QED BY ONLY <1>0, <2>1, <2>2, OthersKeep DEF Rest
<1>3. CASE UNCHANGED <<memory, ask>> /\ \E id \in DOMAIN registry, marked \in Statuses : SetStatus(id, marked)
  <2>1. RegistryOk(registry') /\ MemoryOk(memory') BY <1>1, <1>3, StatusKeeps
  <2>2. OnlyReplaced(ask, ask') BY <1>3, <1>7
  <2> QED BY ONLY <1>0, <2>1, <2>2, OthersKeep DEF Rest
<1>4. CASE UNCHANGED <<registry, memory, ask>>
  <2>1. RegistryOk(registry') /\ MemoryOk(memory') BY <1>1, <1>4
  <2>2. OnlyReplaced(ask, ask') BY <1>4, <1>7
  <2> QED BY ONLY <1>0, <2>1, <2>2, OthersKeep DEF Rest
<1>5. CASE UNCHANGED <<registry, ask>> /\ ChangeMemory
  <2>1. RegistryOk(registry') /\ MemoryOk(memory') BY <1>1, <1>5, MemoryKeeps
  <2>2. OnlyReplaced(ask, ask') BY <1>5, <1>7
  <2> QED BY ONLY <1>0, <2>1, <2>2, OthersKeep DEF Rest
<1>6. CASE UNCHANGED <<registry, memory>> /\ \E doc :
               ask' = [a \in Asks |->
                   IF ask[a].at \in {"lexical", "enrich"} /\ \E k \in ask[a].found : Chunks[k].doc = doc
                   THEN [ask[a] EXCEPT !.replaced = @ \cup {doc}] ELSE ask[a]]
  <2>1. PICK doc :
               ask' = [a \in Asks |->
                   IF ask[a].at \in {"lexical", "enrich"} /\ \E k \in ask[a].found : Chunks[k].doc = doc
                   THEN [ask[a] EXCEPT !.replaced = @ \cup {doc}] ELSE ask[a]]
        BY <1>6
  <2>2. ASSUME NEW a \in Asks, ask'[a] # ask[a] PROVE ask[a].at \in Preparing /\ Agree(ask[a], ask'[a], {"replaced"})
    <3> DEFINE c == ask[a]
               d == ask'[a]
               replaced == c.replaced \cup {doc}
    <3>1. c.at \in {"lexical", "enrich"} /\ d = [c EXCEPT !.replaced = replaced] BY <2>1, <2>2
    <3>2. DOMAIN c = AskFields BY <3>1, LiveNow DEF LiveAsk, Preparing
    <3> HIDE DEF c, d, replaced
    <3>3. Agree(c, d, {"replaced"}) BY ONLY <3>1, <3>2 DEF Agree, AskFields
    <3> QED BY <3>1, <3>3 DEF c, d, Preparing
  <2>3. OnlyReplaced(ask, ask') BY <2>1, <2>2 DEF OnlyReplaced
  <2>4. RegistryOk(registry') /\ MemoryOk(memory') BY <1>1, <1>6
  <2> QED BY ONLY <1>0, <2>3, <2>4, OthersKeep DEF Rest
<1> QED BY <1>2, <1>3, <1>4, <1>5, <1>6 DEF Administer, ChangeDocument

LEMMA AskStart == AssistantInit => AskInv
<1> SUFFICES ASSUME AssistantInit PROVE AskInv OBVIOUS
<1>1. RegistryOk(registry)
  <2>1. \A id \in DOMAIN Registered : Registered[id] \in Range(Registered) BY DEF Range
  <2> QED BY <2>1, RegistryAssumption DEF AssistantInit, RegistryOk
<1>2. MemoryOk(memory) BY MemoryAssumption DEF AssistantInit, MemoryOk, AreMemories
<1>3. DOMAIN ask = Asks /\ DOMAIN since = Asks /\ \A a \in Asks : ask[a] = NoAsk BY DEF AssistantInit
<1> QED BY <1>1, <1>2, <1>3 DEF AskInv, Sound

LEMMA AskStep == AskInv /\ [AssistantNext]_assistantVars => AskInv'
<1> SUFFICES ASSUME AskInv, [AssistantNext]_assistantVars PROVE AskInv' OBVIOUS
<1>1. CASE UNCHANGED assistantVars BY <1>1 DEF AskInv, assistantVars, RegistryOk, MemoryOk
<1>2. CASE AssistantNext
  <2>1. Observe BY <1>2 DEF AssistantNext
  <2>2. CASE Administer BY <2>1, <2>2, AdministerKeeps
  <2>3. ASSUME NEW a \in Asks, Begin(a) \/ QueryMetrics(a) \/ SearchWeb(a) \/ RetrieveSemantic(a) \/ RetrieveLexical(a)
        PROVE  AskInv'
    BY <2>1, <2>3, BeginKeeps, QueryKeeps, WebKeeps, SemanticKeeps, LexicalKeeps
  <2>4. ASSUME NEW a \in Asks, Enrich(a) \/ RecallRows(a) \/ Authorize(a) \/ ListModels(a) \/ Decide(a)
        PROVE  AskInv'
    BY <2>1, <2>4, EnrichKeeps, RowsKeeps, AuthorizeKeeps, ListKeeps, DecideKeeps
  <2>5. ASSUME NEW a \in Asks, Generate(a) \/ Record(a) \/ Abort(a) PROVE AskInv'
    BY <2>1, <2>5, GenerateKeeps, RecordKeeps, AbortKeeps
  <2> QED BY <1>2, <2>2, <2>3, <2>4, <2>5 DEF AssistantNext
<1> QED BY <1>1, <1>2

LEMMA AskInvariance == AssistantSpec => []AskInv
BY AskStart, AskStep, PTL DEF AssistantSpec

LEMMA Answered ==
    ASSUME AskInv, NEW a \in Asks, ask[a].at = "done"
    PROVE  /\ Retrieving(ask[a], deployed) /\ Recalling(ask[a], since[a]) /\ WasAllowed(ask[a], since[a], deployed)
           /\ \A x \in ask[a].citations : MayBeCited(x, since[a], deployed)
           /\ Accepts(ask[a].analysis, ask[a].citations, ask[a].structured, ask[a].answer)
<1>1. Sound(ask[a], since[a], deployed) BY DEF AskInv
<1> QED BY <1>1 DEF Sound, NoAsk, Refused, LiveAsk, Answering

\* Whatever administrators change while requests overlap, the model that
\* answers was available, approved and allowed for the most sensitive of its
\* sources, its provider was allowed too, and a risky request was left to no
\* fallback (routing.ts 116-124, modelRegistry.ts 125-143, gateway.ts
\* 158-182).
THEOREM AllowedModelsAnswer == AssistantSpec => []ModelWasAllowed
<1>1. ASSUME AskInv, NEW a \in Asks, ask[a].at = "done"
      PROVE  LET c == ask[a]
                 model == c.route.models[c.attempt]
             IN /\ deployed.store = "postgres" =>
                       /\ <<model, highestClassification(c.citations)>> \in since[a]
                       /\ <<"provider", c.route.provider>> \in since[a]
                       /\ HighRisk(c.analysis) => c.attempt = 1
                /\ deployed.store = "development" /\ deployed.provider # "development" =>
                       deployed.approved = {} \/ model \in deployed.approved
  <2> DEFINE c == ask[a]
  <2>1. WasAllowed(c, since[a], deployed) BY <1>1, Answered
  <2> HIDE DEF c
  <2>2. c.attempt \in DOMAIN c.route.models /\ (Len(c.route.models) = 1 => c.attempt = 1)
    <3>1. /\ DOMAIN c.route.models = 1..Len(c.route.models) /\ Len(c.route.models) \in Nat
          /\ c.attempt \in 1..Len(c.route.models)
          BY <2>1 DEF WasAllowed, RouteOk
    <3> DEFINE n == Len(c.route.models)
               k == c.attempt
    <3>2. n \in Nat /\ k \in 1..n BY <3>1
    <3> HIDE DEF n, k
    <3>3. n = 1 => k = 1 BY <3>2
    <3> QED BY <3>1, <3>3 DEF n, k
  <2>3. RouteOk(c.route, c, since[a], deployed) BY <2>1 DEF WasAllowed
  <2> QED BY <2>2, <2>3 DEF RouteOk, c
<1>2. AskInv => ModelWasAllowed BY <1>1 DEF ModelWasAllowed
<1> QED BY <1>2, AskInvariance, PTL

\* An answer cites what the user was allowed to read and recalls what the
\* user was allowed to recall, whoever changes documents, memory and teams
\* meanwhile; it has evidence or says that it has none (validation.ts 4-14,
\* store.ts 858-879, memory.ts 203-209).
THEOREM AnswersAreReadable == AssistantSpec => []AnswersAreGrounded
<1>1. ASSUME AskInv, NEW a \in Asks, ask[a].at = "done"
      PROVE  LET c == ask[a]
             IN /\ \/ c.analysis.mode # "internal" \/ c.citations # {} \/ c.structured \/ c.answer = "safe"
                   \/ c.analysis.intent = "capability"
                   \/ c.analysis.responseType \in {"clarification", "insufficient_evidence"}
                /\ \A s, t \in c.citations : s.id = t.id => s = t
                /\ \A s \in c.citations :
                       /\ s # WebPage => CanRead(s.class)
                       /\ s.known /\ deployed.store = "postgres" => <<s.doc, s.class>> \in since[a]
                /\ c.analysis.risk = "critical" /\ c.analysis.mode # "web" => c.citations = {} /\ c.recalled = <<>>
  <2> DEFINE c == ask[a]
  <2>1. Accepts(c.analysis, c.citations, c.structured, c.answer) BY <1>1, Answered
  <2>2. (\A x \in c.citations : MayBeCited(x, since[a], deployed)) /\ Retrieving(c, deployed) BY <1>1, Answered
  <2> HIDE DEF c
  <2>3. \/ c.analysis.mode # "internal" \/ c.citations # {} \/ c.structured \/ c.answer = "safe"
        \/ c.analysis.intent = "capability"
        \/ c.analysis.responseType \in {"clarification", "insufficient_evidence"}
        BY <2>1 DEF Accepts
  <2>4. \A s, t \in c.citations : s.id = t.id => s = t BY <2>1 DEF Accepts
  <2>5. \A s \in c.citations :
            /\ s # WebPage => CanRead(s.class)
            /\ s.known /\ deployed.store = "postgres" => <<s.doc, s.class>> \in since[a]
        BY <2>2 DEF MayBeCited
  <2>6. c.analysis.risk = "critical" /\ c.analysis.mode # "web" => c.citations = {} /\ c.recalled = <<>>
        BY <2>2 DEF Retrieving, Unsafe
  <2> QED BY <2>3, <2>4, <2>5, <2>6 DEF c
<1>2. ASSUME AskInv, NEW a \in Asks, ask[a].at = "done", NEW i \in DOMAIN ask[a].recalled
      PROVE  LET c == ask[a]
                 m == c.recalled[i].record
             IN /\ <<"memory", m>> \in since[a]
                /\ \/ assertCanRead(Asker, m, {})
                   \/ <<"member", <<Asker, m.group>>>> \in since[a] /\ assertCanRead(Asker, m, {<<Asker, m.group>>})
                /\ \A j \in 1..(i - 1) :
                       LET other == c.recalled[j].record
                       IN other.subject = m.subject /\ other.content # m.content =>
                              m.subject = Nothing \/ c.recalled[i].hasConflict
  <2>1. Recalling(ask[a], since[a]) BY <1>2, Answered
  <2> QED BY <1>2, <2>1 DEF Recalling, MayRecall, Flagged
<1>3. AskInv => AnswersAreGrounded BY <1>1, <1>2 DEF AnswersAreGrounded
<1> QED BY <1>3, AskInvariance, PTL

-----------------------------------------------------------------------------
\* The ledger.

USE RequestAssumption, CostAssumption, BudgetAssumption

Admitted == {r \in Requests : stage[r] = "admitted"}
Ceiling == budget + (Cardinality(Requests) - 1) * MaxCost

\* What can still be recorded while n requests are admitted, r among them.
InFlight(r, n) == estimated + cost[r] + (n - 1) * MaxCost

LedgerTypes ==
    /\ budget \in Budgets
    /\ estimated \in Nat
    /\ actual \in Nat
    /\ stage \in [Requests -> Stages]
    /\ cost \in [Requests -> 0..MaxCost]

FlightInv ==
    budget # NoBudget =>
        /\ estimated <= Ceiling
        /\ Admitted # {} => \E r \in Admitted : InFlight(r, Cardinality(Admitted)) <= Ceiling

LedgerInv == LedgerTypes /\ FlightInv

-----------------------------------------------------------------------------
LEMMA InitTypeOK == LedgerInit => LedgerTypes
BY DEF LedgerInit, LedgerTypes, Stages

LEMMA NextTypeOK == LedgerTypes /\ [LedgerNext]_ledgerVars => LedgerTypes'
<1> SUFFICES ASSUME LedgerTypes, [LedgerNext]_ledgerVars PROVE LedgerTypes'
  OBVIOUS
<1>1. CASE RecordActual
  BY <1>1 DEF RecordActual, LedgerTypes
<1>2. ASSUME NEW r \in Requests, ReadBudget(r) PROVE LedgerTypes'
  BY <1>2 DEF ReadBudget, LedgerTypes, Stages
<1>3. ASSUME NEW r \in Requests, ReadSpent(r) PROVE LedgerTypes'
  BY <1>3 DEF ReadSpent, LedgerTypes, Stages
<1>4. ASSUME NEW r \in Requests, Exceeded(r) PROVE LedgerTypes'
  BY <1>4 DEF Exceeded, Release, LedgerTypes, Stages
<1>5. ASSUME NEW r \in Requests, Insert(r) PROVE LedgerTypes'
  BY <1>5 DEF Insert, Release, LedgerTypes, Stages
<1>6. ASSUME NEW r \in Requests, Interrupted(r) PROVE LedgerTypes'
  BY <1>6 DEF Interrupted, Release, LedgerTypes, Stages
<1>7. CASE UNCHANGED ledgerVars
  BY <1>7 DEF ledgerVars, LedgerTypes
<1>. QED BY <1>1, <1>2, <1>3, <1>4, <1>5, <1>6, <1>7 DEF LedgerNext

\* Costs in whole units: a product of naturals is one, and one admitted
\* request more or less changes it by MaxCost.
LEMMA Product ==
    /\ \A n \in Int : n * MaxCost \in Int
    /\ \A n \in Int : (n + 1) * MaxCost = n * MaxCost + MaxCost
    /\ \A m, n \in Int : m <= n => m * MaxCost <= n * MaxCost
    /\ 0 * MaxCost = 0
<1>1. \A n \in Int : n * MaxCost \in Int
  OBVIOUS
<1>2. \A n \in Int : (n + 1) * MaxCost = n * MaxCost + MaxCost
  OBVIOUS
<1>3. \A m, n \in Int : m <= n => m * MaxCost <= n * MaxCost
  OBVIOUS
<1>. QED BY <1>1, <1>2, <1>3

LEMMA AdmittedFinite ==
    /\ IsFiniteSet(Admitted) /\ Cardinality(Admitted) \in Nat
    /\ Cardinality(Admitted) <= Cardinality(Requests)
    /\ Cardinality(Requests) \in Nat /\ Cardinality(Requests) >= 1
<1>1. Admitted \subseteq Requests
  BY DEF Admitted
<1>. QED BY <1>1, FS_Subset, FS_CardinalityType, FS_EmptySet

-----------------------------------------------------------------------------
LEMMA InitFlight == LedgerInit => FlightInv
<1> SUFFICES ASSUME LedgerInit, budget # NoBudget PROVE FlightInv
  BY DEF FlightInv
<1>1. Admitted = {} /\ estimated = 0 /\ budget \in Nat
  BY DEF LedgerInit, Admitted
<1>2. (Cardinality(Requests) - 1) * MaxCost >= 0
  BY AdmittedFinite, Product
<1>. QED BY <1>1, <1>2, AdmittedFinite, Product DEF FlightInv, Ceiling

\* A request is admitted: the sum it read leaves room for it.
LEMMA ReadSpentFlight ==
    ASSUME LedgerInv, NEW r \in Requests, ReadSpent(r) PROVE FlightInv'
<1> SUFFICES ASSUME budget # NoBudget PROVE FlightInv'
  BY DEF FlightInv, ReadSpent
<1> DEFINE n == Cardinality(Admitted)'
           N == Cardinality(Requests)
<1>1. budget \in Nat /\ budget' = budget /\ estimated' = estimated /\ cost' = cost
  BY DEF ReadSpent, LedgerInv, LedgerTypes
<1>2. r \in Admitted'
  BY DEF ReadSpent, Admitted, LedgerInv, LedgerTypes
<1>3. Admitted' \subseteq Requests
  BY DEF Admitted
<1>4. n \in Nat /\ N \in Nat /\ n <= N
  BY <1>3, AdmittedFinite, FS_Subset, FS_CardinalityType
<1>5. estimated + cost[r] <= budget /\ estimated \in Nat /\ cost[r] \in Nat
  BY <1>1 DEF ReadSpent, Spent, LedgerInv, LedgerTypes
<1>6. (n - 1) * MaxCost <= (N - 1) * MaxCost /\ (n - 1) * MaxCost \in Int /\ (N - 1) * MaxCost \in Int
  BY <1>4, Product
<1>7. estimated' + cost'[r] + (n - 1) * MaxCost <= Ceiling'
  BY <1>1, <1>5, <1>6 DEF Ceiling
<1>8. estimated' <= Ceiling'
  BY <1>1 DEF LedgerInv, FlightInv, Ceiling
<1>. QED BY <1>2, <1>7, <1>8 DEF FlightInv, InFlight

\* A request leaves, having recorded its cost or nothing.
LEMMA LeaveFlight ==
    ASSUME LedgerInv, NEW r \in Admitted, NEW x \in 0..cost[r],
           estimated' = estimated + x, budget' = budget, Release(r)
    PROVE  FlightInv'
<1> SUFFICES ASSUME budget # NoBudget PROVE FlightInv'
  BY DEF FlightInv
<1> DEFINE n == Cardinality(Admitted)
<1>1. Admitted' = Admitted \ {r} /\ r \in Requests
  BY DEF Admitted, Release, LedgerInv, LedgerTypes
<1>2. n \in Nat /\ Cardinality(Admitted') = n - 1 /\ n >= 1
  <2>1. Cardinality(Admitted \ {r}) = n - 1 /\ Cardinality(Admitted \ {r}) \in Nat
    BY AdmittedFinite, FS_RemoveElement, FS_CardinalityType
  <2>. QED BY <1>1, <2>1, AdmittedFinite
<1>3. \A p \in Requests : p # r => cost'[p] = cost[p]
  BY DEF Release, LedgerInv, LedgerTypes
<1>4. /\ budget \in Int /\ estimated \in Nat /\ x \in Nat /\ x <= cost[r]
      /\ \A p \in Requests : cost[p] \in Nat /\ cost[p] <= MaxCost
  BY <1>1 DEF LedgerInv, LedgerTypes, NoBudget
<1>5. PICK q \in Admitted : InFlight(q, n) <= Ceiling
  BY DEF LedgerInv, FlightInv
<1>6. q \in Requests
  BY DEF Admitted
<1>7. /\ (n - 1) * MaxCost = (n - 2) * MaxCost + MaxCost
      /\ (n - 1) * MaxCost \in Int /\ (n - 2) * MaxCost \in Int
      /\ (n - 1) * MaxCost >= 0
      /\ n > 1 => (n - 2) * MaxCost >= 0
  <2>1. n - 1 \in Int /\ n - 2 \in Int /\ n - 1 = (n - 2) + 1 /\ 0 <= n - 1
    BY <1>2
  <2>2. n > 1 => 0 <= n - 2
    BY <1>2
  <2>3. (n - 1) * MaxCost = (n - 2) * MaxCost + MaxCost
    BY <2>1, Product
  <2>. QED BY <2>1, <2>2, <2>3, Product
<1>8. Ceiling' = Ceiling /\ Ceiling \in Int
  <2>1. (Cardinality(Requests) - 1) * MaxCost \in Int
    BY AdmittedFinite, Product
  <2>. QED BY <1>4, <2>1 DEF Ceiling
<1>11. Cardinality(Admitted') - 1 = n - 2
  BY <1>2
<1>9. CASE q = r
  <2>1. estimated + cost[r] + (n - 1) * MaxCost <= Ceiling
    BY <1>5, <1>9 DEF InFlight
  <2>2. estimated' <= Ceiling'
    BY <1>1, <1>4, <1>7, <1>8, <2>1
  <2>3. ASSUME NEW p \in Admitted' PROVE estimated' + cost'[p] + (n - 2) * MaxCost <= Ceiling'
    <3>1. p \in Requests /\ p # r
      BY <1>1, <2>3 DEF Admitted
    <3>2. cost[p] \in Int /\ cost[r] \in Int /\ cost[p] <= MaxCost
      BY <1>1, <1>4, <3>1
    <3>3. estimated + x + cost[p] + (n - 2) * MaxCost <= Ceiling
      <4> DEFINE u == (n - 2) * MaxCost
                 v == (n - 1) * MaxCost
      <4>1. u \in Int /\ v \in Int /\ MaxCost \in Int /\ v = u + MaxCost /\ estimated + cost[r] + v <= Ceiling
        BY <1>7, <2>1
      <4>2. estimated \in Int /\ Ceiling \in Int /\ x \in Int /\ x <= cost[r]
        BY <1>4, <1>8
      <4> HIDE DEF u, v
      <4>3. estimated + x + cost[p] + u <= Ceiling
        BY ONLY <3>2, <4>1, <4>2
      <4>. QED BY <4>3 DEF u
    <3>. QED BY <1>3, <1>8, <3>1, <3>3
  <2>. QED BY <1>2, <1>11, <2>2, <2>3 DEF FlightInv, InFlight
<1>10. CASE q # r
  <2>1. estimated + cost[q] + (n - 1) * MaxCost <= Ceiling
    BY <1>5 DEF InFlight
  <2>2. n > 1
    <3>1. q \in Admitted \ {r}
      BY <1>10
    <3>2. Cardinality(Admitted \ {r}) # 0
      BY <3>1, AdmittedFinite, FS_RemoveElement, FS_EmptySet
    <3>. QED BY <1>1, <1>2, <3>2
  <2>3. estimated' <= Ceiling'
    BY <1>1, <1>4, <1>6, <1>7, <1>8, <2>1, <2>2
  <2>4. q \in Admitted' /\ cost'[q] = cost[q]
    BY <1>1, <1>3, <1>6, <1>10
  <2>5. estimated' + cost'[q] + (n - 2) * MaxCost <= Ceiling'
    <3>1. cost[q] \in Int /\ x <= MaxCost /\ x \in Int /\ MaxCost \in Int
      BY <1>1, <1>4, <1>6
    <3>2. estimated + cost[q] + x + (n - 2) * MaxCost <= Ceiling
      <4> DEFINE u == (n - 2) * MaxCost
                 v == (n - 1) * MaxCost
      <4>1. u \in Int /\ v \in Int /\ v = u + MaxCost /\ estimated + cost[q] + v <= Ceiling
        BY <1>7, <2>1
      <4>2. estimated \in Int /\ Ceiling \in Int
        BY <1>4, <1>8
      <4> HIDE DEF u, v
      <4>3. estimated + cost[q] + x + u <= Ceiling
        BY ONLY <3>1, <4>1, <4>2
      <4>. QED BY <4>3 DEF u
    <3>. QED BY <1>4, <1>7, <1>8, <2>4, <3>1, <3>2
  <2>. QED BY <1>11, <2>3, <2>4, <2>5 DEF FlightInv, InFlight
<1>. QED BY <1>9, <1>10

\* Nothing that FlightInv speaks of changes.
LEMMA SameFlight ==
    ASSUME LedgerInv, UNCHANGED <<budget, estimated>>, Admitted' = Admitted,
           \A r \in Admitted : cost'[r] = cost[r]
    PROVE  FlightInv'
BY DEF LedgerInv, FlightInv, InFlight, Ceiling

LEMMA NextFlight == LedgerInv /\ [LedgerNext]_ledgerVars => FlightInv'
<1> SUFFICES ASSUME LedgerInv, [LedgerNext]_ledgerVars PROVE FlightInv'
  OBVIOUS
<1>1. CASE RecordActual \/ UNCHANGED ledgerVars
  BY <1>1, SameFlight DEF RecordActual, ledgerVars, Admitted
<1>2. ASSUME NEW r \in Requests, ReadBudget(r) PROVE FlightInv'
  <2>1. CASE budget = NoBudget
    BY <1>2, <2>1 DEF ReadBudget, FlightInv
  <2>2. CASE budget # NoBudget
    <3>1. Admitted' = Admitted /\ r \notin Admitted
      BY <1>2, <2>2 DEF ReadBudget, Admitted, LedgerInv, LedgerTypes
    <3>2. \A q \in Admitted : cost'[q] = cost[q]
      BY <1>2, <3>1 DEF ReadBudget, Admitted, LedgerInv, LedgerTypes
    <3>. QED BY <1>2, <3>1, <3>2, SameFlight DEF ReadBudget
  <2>. QED BY <2>1, <2>2
<1>3. ASSUME NEW r \in Requests, ReadSpent(r) PROVE FlightInv'
  BY <1>3, ReadSpentFlight
<1>4. ASSUME NEW r \in Requests, r \notin Admitted, Release(r), UNCHANGED <<budget, estimated>>
      PROVE  FlightInv'
  <2>1. Admitted' = Admitted
    BY <1>4 DEF Release, Admitted, LedgerInv, LedgerTypes
  <2>2. \A q \in Admitted : cost'[q] = cost[q]
    BY <1>4 DEF Release, Admitted, LedgerInv, LedgerTypes
  <2>. QED BY <1>4, <2>1, <2>2, SameFlight
<1>5. ASSUME NEW r \in Requests, r \in Admitted, Release(r), UNCHANGED <<budget, estimated>>
      PROVE  FlightInv'
  <2>1. 0 \in 0..cost[r] /\ estimated' = estimated + 0
    BY <1>5 DEF LedgerInv, LedgerTypes
  <2>. QED BY <1>5, <2>1, LeaveFlight
<1>6. ASSUME NEW r \in Requests, Insert(r) PROVE FlightInv'
  <2>1. r \in Admitted /\ cost[r] \in 0..cost[r]
    BY <1>6 DEF Insert, Admitted, LedgerInv, LedgerTypes
  <2>. QED BY <1>6, <2>1, LeaveFlight DEF Insert
<1>7. ASSUME NEW r \in Requests, Exceeded(r) \/ Interrupted(r) PROVE FlightInv'
  BY <1>4, <1>5, <1>7 DEF Exceeded, Interrupted
<1>. QED BY <1>1, <1>2, <1>3, <1>6, <1>7 DEF LedgerNext

-----------------------------------------------------------------------------
\* The ledger and its requests hold values of their columns (cost.ts 45-59).
THEOREM LedgerTypeCorrect == LedgerSpec => []LedgerTypes
BY InitTypeOK, NextTypeOK, PTL DEF LedgerSpec

\* With N requests at a time, estimated usage passes the budget by at most
\* N - 1 calls: a sole caller never passes it (cost.ts 38-40, 97-100).
THEOREM BudgetHolds == LedgerSpec => []OverspendBounded
<1>1. LedgerInit => LedgerInv
  BY InitTypeOK, InitFlight DEF LedgerInv
<1>2. LedgerInv /\ [LedgerNext]_ledgerVars => LedgerInv'
  BY NextTypeOK, NextFlight DEF LedgerInv
<1>3. LedgerInv => OverspendBounded
  BY DEF LedgerInv, FlightInv, Ceiling, OverspendBounded
<1>. QED BY <1>1, <1>2, <1>3, PTL DEF LedgerSpec
==============================================================================
