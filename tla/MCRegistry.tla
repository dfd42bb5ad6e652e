----------------------------- MODULE MCRegistry -----------------------------
(***************************************************************************)
(* Four parts that share no rows, side by side: a behaviour is one of the  *)
(* agent, of the ledger, of the memory record or of the assistant, while   *)
(* the other three rest.                                                   *)
(***************************************************************************)
EXTENDS AgentLifecycle, CostBudget, Memory, Assistant, TLC

CONSTANTS c1, c2, r1, r2, r3, w1, w2, v1, v2, a1, a2

VARIABLE part

MCCalls == {c1, c2}
MCLabels == {v1, v2}
MCSettings == {{"crash"}, {"overlap"}}
MCDeployBound(s) == IF "overlap" \in s THEN 2 ELSE 3
MCRequests == {r1, r2, r3}
MCBudgets == {NoBudget, 3}
MCWriters == {w1, w2}
MCContents == {v1, v2}

(* Assistant: a frontier, a fast and a model of unknown cost; two chunks of
   one section of docA, a chunk of docB *)
Row(provider, approval, health, classes, price) ==
    [provider |-> provider, status |-> "available", approval |-> approval, health |-> health, classes |-> classes,
     quality |-> "balanced", cost |-> price]
Everyone == {"Public", "Internal", "Confidential", "Restricted", "Highly Restricted"}
Opus == "claude-opus-5"
Haiku == "claude-haiku-4-5"
Pro == "gemini-3.1-pro-preview"
Low == {"Public", "Internal"}
MCRegistered ==
    Opus :> Row("anthropic", "approved", "healthy", Low, Unknown)
    @@ Haiku :> Row("anthropic", "approved", "degraded", Everyone, 40)
MCStatuses == {"available", "disabled"}
MCModelRows ==
    {[id |-> Opus, row |-> Row("anthropic", "pending", "healthy", Everyone, Unknown)],
     [id |-> Haiku, row |-> Row("development", "approved", "unavailable", Low, 600)],
     [id |-> Pro, row |-> Row("google", "approved", "healthy", Everyone, Unknown)],
     [id |-> Pro, row |-> Row("development", "approved", "healthy", Everyone, 0)]}
MCPolicies ==
    {[enabled |-> TRUE, providers |-> {"anthropic", "development"}, lowestCost |-> TRUE, ceiling |-> 1, fallback |-> TRUE,
      frontier |-> FALSE],
     [enabled |-> FALSE]}
MCChunks ==
    [k1 |-> [doc |-> "docA", section |-> "s1"], k2 |-> [doc |-> "docA", section |-> "s1"],
     k3 |-> [doc |-> "docB", section |-> "s2"]]
MCLibrary ==
    "docA" :> [status |-> "ready", class |-> "Internal"] @@ "docB" :> [status |-> "review", class |-> "Confidential"]
Prompt(question, continued, format, mode, hits) ==
    [question |-> question, continued |-> continued, format |-> format, mode |-> mode, hits |-> hits, titled |-> {"docA"}]
MCPrompts ==
    {Prompt({"summarization"}, TRUE, "auto", "any", {"k1", "k3"}),
     Prompt({"refers", "continues"}, TRUE, "auto", "any", {"k3"}),
     Prompt({"dataAnalysis", "metric"}, FALSE, "auto", "any", {}),
     Prompt({"workflow", "sensitive"}, FALSE, "auto", "internal", {"k1", "k2"}),
     Prompt({"unsafe"}, FALSE, "bullets", "web", {"k1"}),
     Prompt({"capability"}, FALSE, "table", "any", {})}
MCPlatforms ==
    {[store |-> "postgres", provider |-> "anthropic", approved |-> {}],
     [store |-> "development", provider |-> "development", approved |-> {}],
     [store |-> "development", provider |-> "openai", approved |-> {"gpt-5.6-luna", "gpt-5.6-terra"}]}
Memo(scope, owner, group, class, text, confidence) ==
    [scope |-> scope, owner |-> owner, group |-> group, class |-> class, subject |-> "leave", content |-> text,
     confidence |-> confidence, words |-> {"summarization", "continues"}, status |-> "active", lapsed |-> FALSE]
MCGrants ==
    [reader |-> {"knowledge.read", "analytics.read"},
     lead |-> {"governance.manage", "governance.read", "knowledge.read"}]
MCMemories == {Memo("team", "none", "team", "Internal", "twenty days", 90)}
MCRemembered ==
    {[rows |-> <<>>, teams |-> {}],
     [rows |-> <<Memo("organizational", "none", "none", "Restricted", "thirty days", 80),
                 Memo("team", "none", "team", "Highly Restricted", "ten days", 80),
                 Memo("user", "lead", "none", "Internal", "sick leave", 60),
                 Memo("team", "none", "team", "Internal", "no leave", 80)>>,
     teams |-> {<<"reader", "team">>, <<"lead", "team">>}]}
MCAsks == {a1, a2}
MCLimits ==
    {[asks |-> 1, changes |-> 2, what |-> "registry"], [asks |-> 1, changes |-> 1, what |-> "memory"],
     [asks |-> 2, changes |-> 0, what |-> "registry"]}

\* A permutation may act on several parts at once, for all but one rest in
\* a state it leaves as it is.
Swap(x, y) == x :> y @@ y :> x
Odd(p) == \E r \in Requests : p[r] = r /\ \A other \in Requests \ {r} : p[other] # other
Symmetry ==
    {p @@ q @@ (IF Odd(p) THEN Swap(c1, c2) @@ Swap(w1, w2) @@ Swap(a1, a2) ELSE <<>>) :
        p \in Permutations(Requests), q \in {<<>>, Swap(v1, v2)}}

\* A part that rests has one initial state.
MCInit ==
    /\ part \in {"agent", "ledger", "record", "assistant"}
    /\ Init /\ LedgerInit /\ MemoryInit /\ AssistantInit
    /\ part # "agent" => faults = {"crash"}
    /\ part # "ledger" => budget = NoBudget
    /\ (part = "assistant" /\ left.what = "memory") <=> memory.rows # <<>>
    /\ part # "assistant" => /\ deployed.store = "postgres" /\ last = NoQuestion /\ left.asks = 1 /\ left.what = "registry"

MCNext ==
    \/ part = "agent" /\ Next /\ UNCHANGED <<part, ledgerVars, memoryVars, assistantVars>>
    \/ part = "ledger" /\ LedgerNext /\ UNCHANGED <<part, vars, memoryVars, assistantVars>>
    \/ part = "record" /\ MemoryNext /\ UNCHANGED <<part, vars, ledgerVars, assistantVars>>
    \/ part = "assistant" /\ AssistantNext /\ UNCHANGED <<part, vars, ledgerVars, memoryVars>>

MCSpec == MCInit /\ [][MCNext]_<<part, vars, ledgerVars, memoryVars, assistantVars>>
=============================================================================
