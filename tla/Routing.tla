------------------------------- MODULE Routing -------------------------------
(***************************************************************************)
(* Which model answers (src/server/routing.ts, ai/models.ts): the catalog, *)
(* the candidates a tenant's registry makes of it, the governed decision   *)
(* and the route of the development store.  Costs are in tenths of a       *)
(* dollar for a million tokens of output, so a cent for a request is 100.  *)
(***************************************************************************)
EXTENDS Intent, Lists

Unknown == 9999   \* a cost the catalog leaves null
NoCeiling == -1
AllClasses == {"Public", "Internal", "Confidential", "Restricted", "Highly Restricted"}
CLASSIFICATION_RANK == <<"Public", "Internal", "Confidential", "Restricted", "Highly Restricted">>
QUALITY_RANK == <<"fast", "balanced", "frontier">>
Rank(order, x) == CHOOSE k \in DOMAIN order : order[k] = x

Profile(id, provider, tier, cost, missing, tasks) ==
    [id |-> id, provider |-> provider, tier |-> tier, cost |-> cost, recommendedFor |-> tasks,
     capabilities |-> {"text", "vision", "tools", "structured", "web", "long_context"} \ missing]

Frontier == {"complex_reasoning", "agent_planning"}
Fast == {"simple_qa", "extraction", "summarization"}
Balanced == {"enterprise_qa", "complex_reasoning", "structured_analysis", "agent_planning"}

MODEL_CATALOG ==
    <<Profile("gpt-5.6-sol", "openai", "frontier", 200, {}, Frontier \cup {"code", "web_research", "multimodal"}),
      Profile("gpt-5.6-terra", "openai", "balanced", 120, {}, Balanced \cup {"extraction", "summarization"}),
      Profile("gpt-5.6-luna", "openai", "fast", 12, {}, Fast),
      Profile("claude-fable-5", "anthropic", "frontier", 500, {}, Frontier \cup {"web_research", "multimodal"}),
      Profile("claude-opus-5", "anthropic", "frontier", 250, {}, Frontier \cup {"code", "multimodal"}),
      Profile("claude-sonnet-5", "anthropic", "balanced", 100, {}, Balanced \cup {"extraction", "summarization"}),
      Profile("claude-haiku-4-5", "anthropic", "fast", 50, {"web", "long_context"}, Fast),
      Profile("gemini-3.7-flash", "google", "balanced", Unknown, {}, Balanced \cup {"multimodal"}),
      Profile("gemini-3.1-pro-preview", "google", "frontier", Unknown, {}, Frontier \cup {"code", "multimodal"}),
      Profile("gemini-3.1-flash-lite", "google", "fast", Unknown, {"web"}, Fast \cup {"structured_analysis"})>>

HighRisk(analysis) == analysis.risk \in {"high", "critical"}

\* tierFor and preferredTier
PreferredTier(analysis) ==
    CASE analysis.task \in Fast -> "fast"
      [] \/ analysis.complexity = "complex"
         \/ analysis.task \in Frontier \cup {"web_research", "code", "multimodal"} -> "frontier"
      [] OTHER -> "balanced"

RequiredCapability(task) ==
    CASE task = "multimodal" -> "vision"
      [] task \in {"agent_planning", "code"} -> "tools"
      [] task = "structured_analysis" -> "structured"
      [] OTHER -> "text"

-----------------------------------------------------------------------------
(* The governed decision *)

\* What the row leaves out is the catalog's.
Candidate(profile, row) ==
    [id |-> profile.id, provider |-> row.provider, tier |-> profile.tier,
     cost |-> IF row.cost = Unknown THEN profile.cost ELSE row.cost,
     recommendedFor |-> profile.recommendedFor, capabilities |-> profile.capabilities,
     status |-> row.status, approval |-> row.approval, health |-> row.health, classes |-> row.classes,
     quality |-> row.quality]

\* buildCandidates, of the models the tenant registered.
Candidates(registry) ==
    LET listed == Filtered(MODEL_CATALOG, {k \in DOMAIN MODEL_CATALOG : MODEL_CATALOG[k].id \in DOMAIN registry})
    IN [k \in DOMAIN listed |-> Candidate(listed[k], registry[listed[k].id])]

\* Bug: what is allowed to read the sources is not tested.
EligibleForAny(m, analysis, class, policy) ==
    /\ m.status = "available" /\ m.approval = "approved" /\ m.health # "unavailable"
    /\ m.provider \in policy.providers
    /\ RequiredCapability(analysis.task) \in m.capabilities

Eligible(m, analysis, class, policy) ==
    /\ m.status = "available" /\ m.approval = "approved" /\ m.health # "unavailable"
    /\ class \in m.classes
    /\ m.provider \in policy.providers
    /\ RequiredCapability(analysis.task) \in m.capabilities

TargetTier(analysis, policy) ==
    IF HighRisk(analysis) /\ policy.frontier THEN "frontier" ELSE PreferredTier(analysis)

\* In tenths of a point.
ModelScore(m, analysis, policy) ==
    LET target == TargetTier(analysis, policy)
        fit == CASE m.tier = target -> 1000
                 [] Rank(QUALITY_RANK, m.quality) >= Rank(QUALITY_RANK, target) -> 600
                 [] OTHER -> 0
        cheap == IF policy.lowestCost /\ m.cost # Unknown /\ m.cost < 200 THEN 400 - 2 * m.cost ELSE 0
    IN fit + cheap + (IF analysis.task \in m.recommendedFor THEN 300 ELSE 0) + (IF m.health = "healthy" THEN 100 ELSE 0)

\* Array.prototype.sort is stable.
SortModels(models, analysis, policy) ==
    LET tier(k)  == IF TargetTier(analysis, policy) = "frontier" THEN Rank(QUALITY_RANK, models[k].tier) ELSE 0
        score(k) == ModelScore(models[k], analysis, policy)
        ahead(i, j) ==
            \/ tier(i) > tier(j)
            \/ tier(i) = tier(j) /\ score(i) > score(j)
            \/ tier(i) = tier(j) /\ score(i) = score(j) /\ models[i].cost < models[j].cost
            \/ tier(i) = tier(j) /\ score(i) = score(j) /\ models[i].cost = models[j].cost /\ i < j
        order == Sorted(DOMAIN models, {p \in (DOMAIN models) \X (DOMAIN models) : ahead(p[1], p[2])})
    IN [k \in DOMAIN models |-> models[order[k]]]

Within(m, policy) == m.cost <= 100 * policy.ceiling

\* The ceiling moves the first affordable model to the front.  A model of
\* unknown cost is not held to it.
UnderCeiling(sorted, policy) ==
    LET affordable == {k \in DOMAIN sorted : Within(sorted[k], policy)}
    IN IF policy.ceiling = NoCeiling \/ sorted[1].cost = Unknown \/ Within(sorted[1], policy) THEN sorted
       ELSE IF affordable = {} THEN <<>>
       ELSE <<sorted[Min(affordable)]>> \o RemoveAt(sorted, Min(affordable))

Route(provider, models) == [provider |-> provider, models |-> models]
Closed == Route("none", <<>>)   \* failClosed, or no model

IdsOf(models) == [k \in DOMAIN models |-> models[k].id]
FirstTwo(s) == SubSeq(s, 1, IF Len(s) < 2 THEN Len(s) ELSE 2)

\* Only fallbacks that the catalog lists under the same provider remain.
decisionToRoute(provider, chosen, fallbacks) ==
    LET same(id) == \E k \in DOMAIN MODEL_CATALOG : MODEL_CATALOG[k].id = id /\ MODEL_CATALOG[k].provider = provider
    IN Route(provider, <<chosen>> \o Filtered(fallbacks, {k \in DOMAIN fallbacks : same(fallbacks[k])}))

routeModel(analysis, class, policy, candidates) ==
    LET eligible == Filtered(candidates, {k \in DOMAIN candidates : Eligible(candidates[k], analysis, class, policy)})
        sorted   == IF eligible = <<>> THEN <<>> ELSE UnderCeiling(SortModels(eligible, analysis, policy), policy)
        others   == IF HighRisk(analysis) \/ ~policy.fallback THEN <<>> ELSE FirstTwo(IdsOf(Tail(sorted)))
    IN IF sorted = <<>> THEN Closed ELSE decisionToRoute(sorted[1].provider, sorted[1].id, others)

-----------------------------------------------------------------------------
(* ModelRouter.route, which the development store calls *)

routeConfigured(analysis, provider, approved) ==
    LET configured == {k \in DOMAIN MODEL_CATALOG : /\ MODEL_CATALOG[k].provider = provider
                                                    /\ approved = {} \/ MODEL_CATALOG[k].id \in approved}
        available == Filtered(MODEL_CATALOG, configured)
        frontier  == {k \in DOMAIN available : available[k].tier = "frontier"}
        wanted    == IF HighRisk(analysis) THEN "frontier" ELSE PreferredTier(analysis)
        right     == {k \in DOMAIN available : available[k].tier = wanted}
        fitting   == {k \in right : analysis.task \in available[k].recommendedFor}
        preferred == IF fitting # {} THEN Min(fitting) ELSE IF right # {} THEN Min(right) ELSE 1
        pool      == {k \in (IF HighRisk(analysis) THEN frontier ELSE DOMAIN available) :
                         available[k].id # available[preferred].id}
        balanced  == {k \in pool : available[k].tier = "balanced"}
        fallbacks == Filtered(available, balanced) \o Filtered(available, pool \ balanced)
    IN IF provider = "development" THEN Route(provider, <<"configured">>)
       ELSE IF available = <<>> \/ (HighRisk(analysis) /\ frontier = {}) THEN Closed
       ELSE Route(provider, <<available[preferred].id>> \o FirstTwo(IdsOf(fallbacks)))
=============================================================================
