------------------------------ MODULE Assistant ------------------------------
(***************************************************************************)
(* The assistant (askAI in src/server/store.ts, with ai/retrieval.ts,      *)
(* memory.ts, modelRegistry.ts and ai/gateway.ts): overlapping requests    *)
(* retrieve what they cite, recall memory, route to a model and have it    *)
(* answer, in statements of their own, while others change the registry,   *)
(* the policy, documents, memory and teams.                                *)
(* deployed.store is "postgres" or "development"; the statements of the    *)
(* second are synchronous, so they belong to the call before them.         *)
(***************************************************************************)
EXTENDS Recall, Routing

CONSTANTS
    Asks,          \* requests under way
    Prompts,       \* what users ask: question, continued, format, mode, hits, titled
    Chunks,        \* the indexed text: [doc, section] of each chunk
    ModelRows,     \* what administrators write into the registry
    Statuses,      \* that they set
    RoutingPolicies,
    Library,       \* the documents at first: status and class of each
    Registered,    \* the rows of model_registry at first
    Asker,         \* the person who asks
    Memories,      \* what people remember
    Remembered,    \* the records and team members at first
    Platforms,     \* deployments: store, provider, approved models
    Limits         \* bounds: how many requests begin, how often others change what

ASSUME PromptAssumption == \A p \in Prompts : p.hits \subseteq DOMAIN Chunks
ASSUME RegistryAssumption ==
    \A row \in {r.row : r \in ModelRows} \cup Range(Registered) : "cost" \in DOMAIN row /\ row.cost \in Int
ASSUME MemoryAssumption ==
    /\ \A m \in Memories : IsMemory(m)
    /\ \A r \in Remembered : /\ DOMAIN r = {"rows", "teams"} /\ r.rows \in Seq(Range(r.rows))
                             /\ \A m \in Range(r.rows) : IsMemory(m)

VARIABLES
    deployed,
    registry,    \* model_registry: a row for each registered model
    policy,      \* the row of model_policies, NoPolicy if there is none
    documents,
    memory,      \* rows of enterprise_memory, and of group_members as <<person, group>>
    last,        \* the last question of the conversation
    ask,
    since,       \* observation: what held at some time since a request began
    left         \* what is left of the bounds

assistantVars == <<deployed, registry, policy, documents, memory, last, ask, since, left>>
administered == <<registry, policy, documents, memory>>

Ids == {MODEL_CATALOG[k].id : k \in DOMAIN MODEL_CATALOG}
Providers == {"openai", "anthropic", "google", "development"}
Docs == {Chunks[c].doc : c \in DOMAIN Chunks}
NoAsk == [at |-> "none"]
Refused == [at |-> "failed"]

NoPolicy == [enabled |-> FALSE]
DefaultPolicy ==
    [enabled |-> TRUE, providers |-> {"openai", "anthropic", "google"}, lowestCost |-> TRUE, ceiling |-> NoCeiling,
     fallback |-> TRUE, frontier |-> TRUE]
getPolicy == IF policy.enabled THEN policy ELSE DefaultPolicy

CanRead(class) ==
    \/ Has(Asker, {"org_admin", "security_admin"})
    \/ Has(Asker, IF class = "Highly Restricted" THEN {"knowledge.admin"} ELSE {"knowledge.read"})

AssistantInit ==
    /\ deployed \in Platforms
    /\ registry = Registered
    /\ policy = NoPolicy
    /\ documents = Library
    /\ memory \in Remembered
    /\ last \in {NoQuestion} \cup {p.question : p \in {r \in Prompts : r.continued}}
    /\ ask = [a \in Asks |-> NoAsk]
    /\ since = [a \in Asks |-> {}]
    /\ left \in Limits

-----------------------------------------------------------------------------
(* Citations *)

\* highestClassification: no less than Internal.
highestClassification(citations) ==
    LET ranks == {Rank(CLASSIFICATION_RANK, c.class) : c \in citations} \cup {Rank(CLASSIFICATION_RANK, "Internal")}
    IN CLASSIFICATION_RANK[CHOOSE r \in ranks : \A other \in ranks : r >= other]

\* known: the class is that of the document.
Citation(doc, section, chunk, class, known) ==
    [id |-> <<doc, section>>, chunk |-> chunk, doc |-> doc, class |-> class, known |-> known]

\* What a search of the web cites is public to everybody.
WebPage == Citation("web", "page", "page", "Public", FALSE)

\* candidateCitations: the sections of the topic, or whole documents whose
\* title shares words with the question.
DevelopmentCitations(c) ==
    LET serves(d) == \/ documents[d].status = "ready"
                     \/ documents[d].status = "review" /\ c.analysis.intent = "summarization"
        exact == {Citation(Chunks[k].doc, k, k, documents[Chunks[k].doc].class, TRUE) :
                     k \in {h \in c.prompt.hits : serves(Chunks[h].doc) /\ CanRead(documents[Chunks[h].doc].class)}}
        generic == {Citation(d, "citation", d, documents[d].class, TRUE) :
                       d \in {t \in c.prompt.titled : documents[t].status = "ready" /\ CanRead(documents[t].class)}}
    IN IF c.analysis.mode \notin {"internal", "mixed"} THEN {} ELSE IF exact # {} THEN exact ELSE generic

Skips(c) ==
    \/ c.structured \/ c.analysis.mode = "web" \/ c.analysis.clarify
    \/ c.analysis.risk = "critical" \/ c.analysis.responseType = "insufficient_evidence"

\* With its route, a request goes to the model; with none it is refused.
Routed(c, route) ==
    IF route = Closed \/ route.provider \notin Providers THEN Refused
    ELSE [c EXCEPT !.at = "generate", !.route = route, !.registered = <<>>]

\* The development store retrieves and routes in the same turn.
Prepared(c, citations) ==
    Routed([c EXCEPT !.citations = citations], routeConfigured(c.analysis, deployed.provider, deployed.approved))

Retrieve(c) ==
    IF deployed.store = "postgres" THEN [c EXCEPT !.at = IF Skips(c) THEN "models" ELSE "semantic"]
    ELSE IF c.analysis.mode = "web" THEN [c EXCEPT !.at = "web"]
    ELSE Prepared(c, IF Skips(c) THEN {} ELSE DevelopmentCitations(c))

-----------------------------------------------------------------------------
(* A request *)

Begin(a) ==
    /\ ask[a] = NoAsk /\ left.asks > 0
    /\ left' = [left EXCEPT !.asks = @ - 1]
    /\ \E p \in Prompts :
           LET previous == IF p.continued THEN last ELSE NoQuestion
               new == [at |-> "structured", prompt |-> p, query |-> resolveFollowUpQuery(p.question, previous),
                       analysis |-> Analyze(p.question, previous, p), structured |-> FALSE, found |-> {},
                       replaced |-> {}, citations |-> {}, candidates |-> <<>>, recalled |-> <<>>,
                       registered |-> <<>>, route |-> Closed, attempt |-> 1, answer |-> "none"]
           IN ask' = [ask EXCEPT ![a] = IF new.analysis.task = "structured_analysis" THEN new ELSE Retrieve(new)]
    /\ UNCHANGED <<deployed, last, administered>>

\* Metrics are read for allowlisted questions; there may be no rows.
QueryMetrics(a) ==
    /\ ask[a].at = "structured"
    /\ \E rows \in {deployed.store = "development", TRUE} :
           LET known == "metric" \in ask[a].query /\ rows
           IN ask' = [ask EXCEPT ![a] = Retrieve([ask[a] EXCEPT !.structured = known])]
    /\ UNCHANGED <<deployed, last, administered, left>>

\* Without an endpoint the search finds nothing; an error ends the request.
SearchWeb(a) ==
    /\ ask[a].at = "web"
    /\ \/ \E results \in {{}, {WebPage}} :
              ask' = [ask EXCEPT ![a] = Prepared(ask[a], results)]
       \/ ask' = [ask EXCEPT ![a] = Refused]
    /\ UNCHANGED <<deployed, last, administered, left>>

Live == {k \in DOMAIN Chunks : documents[Chunks[k].doc].status = "ready"}

\* With pgvector what is nearest, whatever it is; without, what is near; and
\* nothing when there is no vector.
RetrieveSemantic(a) ==
    /\ ask[a].at = "semantic"
    /\ \E near \in {{}, Live, ask[a].prompt.hits \cap Live} :
           ask' = [ask EXCEPT ![a] = [@ EXCEPT !.at = "lexical", !.found = near]]
    /\ UNCHANGED <<deployed, last, administered, left>>

\* The lexical query reads the chunks alone, of archived documents too.
RetrieveLexical(a) ==
    /\ ask[a].at = "lexical"
    /\ \E matching \in {{}, ask[a].prompt.hits} :
           LET found == ask[a].found \cup matching
           IN ask' = [ask EXCEPT ![a] = [@ EXCEPT !.at = IF found = {} THEN "recall" ELSE "enrich", !.found = found]]
    /\ UNCHANGED <<deployed, last, administered, left>>

\* What has no metadata, for its chunk was replaced or the query failed,
\* counts as Internal.
Enrich(a) ==
    /\ ask[a].at = "enrich"
    /\ \E answered \in BOOLEAN :
           LET known(k) == answered /\ Chunks[k].doc \notin ask[a].replaced
               class(k) == IF known(k) THEN documents[Chunks[k].doc].class ELSE "Internal"
               cited == {Citation(Chunks[k].doc, Chunks[k].section, k, class(k), known(k)) :
                            k \in {f \in ask[a].found : CanRead(class(f))}}
           IN ask' = [ask EXCEPT ![a] = [@ EXCEPT !.at = "recall", !.found = {}, !.replaced = {}, !.citations = cited]]
    /\ UNCHANGED <<deployed, last, administered, left>>

\* Without its rows the request has no memory.
RecallRows(a) ==
    /\ ask[a].at = "recall"
    /\ \E rows \in {<<>>, retrieve(memory.rows)} :
           ask' = [ask EXCEPT ![a] = [@ EXCEPT !.at = "authorize", !.candidates = rows]]
    /\ UNCHANGED <<deployed, last, administered, left>>

\* Each record is authorized by itself, a team's by a statement that may
\* fail; what is left is ranked.
Authorize(a) ==
    LET c == ask[a] IN
    /\ c.at = "authorize"
    /\ IF c.candidates = <<>>
       THEN ask' = [ask EXCEPT ![a] = [@ EXCEPT !.at = "models", !.recalled = relevantMemories(c.recalled, c.query)]]
       ELSE LET m == Head(c.candidates)
            IN \E answered \in {~AsksForTeam(Asker, m), TRUE} :
                   LET allowed == IF answered /\ assertCanRead(Asker, m, memory.teams) THEN <<m>> ELSE <<>>
                   IN ask' = [ask EXCEPT ![a] = [@ EXCEPT !.candidates = Tail(c.candidates),
                                                          !.recalled = c.recalled \o allowed]]
    /\ UNCHANGED <<deployed, last, administered, left>>

\* decide reads the registry, and the policy in a later statement.
ListModels(a) ==
    /\ ask[a].at = "models"
    /\ ask' = [ask EXCEPT ![a] = [@ EXCEPT !.at = "policy", !.registered = Candidates(registry)]]
    /\ UNCHANGED <<deployed, last, administered, left>>

Decide(a) ==
    LET c == ask[a] IN
    /\ c.at = "policy"
    /\ ask' = [ask EXCEPT ![a] =
           Routed(c, routeModel(c.analysis, highestClassification(c.citations), getPolicy, c.registered))]
    /\ UNCHANGED <<deployed, last, administered, left>>

Answers(c) ==
    IF c.route.provider = "development" THEN GroundedAnswers(c.analysis, c.citations, c.structured)
    ELSE {"error", "long", "safe", "plain", "table"}

\* One attempt: what fails or is not accepted is left to the next model.
Generate(a) ==
    LET c == ask[a] IN
    /\ c.at = "generate"
    /\ \E answer \in Answers(c) :
           ask' = [ask EXCEPT ![a] =
               IF answer # "error" /\ Accepts(c.analysis, c.citations, c.structured, answer)
               THEN [c EXCEPT !.at = "record", !.answer = answer]
               ELSE IF c.attempt < Len(c.route.models) THEN [c EXCEPT !.attempt = c.attempt + 1]
               ELSE Refused]
    /\ UNCHANGED <<deployed, last, administered, left>>

\* A conversation that is not there gets another id, so that a request that
\* names it again finds no question; the development store keeps the name.
Record(a) ==
    /\ ask[a].at = "record"
    /\ ask' = [ask EXCEPT ![a] = [@ EXCEPT !.at = "done"]]
    /\ last' = IF ask[a].prompt.continued /\ (deployed.store = "development" \/ last # NoQuestion)
               THEN ask[a].prompt.question ELSE last
    /\ UNCHANGED <<deployed, administered, left>>

\* A statement fails, and the request with it.
Abort(a) ==
    /\ deployed.store = "postgres"
    /\ ask[a].at \in {"structured", "models", "policy", "record"}
    /\ ask' = [ask EXCEPT ![a] = Refused]
    /\ UNCHANGED <<deployed, last, administered, left>>

-----------------------------------------------------------------------------
(* Administrators *)

\* The provider of a model is that of its first row.
UpsertModel(id, row) ==
    registry' = [k \in DOMAIN registry \cup {id} |->
        IF k # id THEN registry[k]
        ELSE [row EXCEPT !.provider = IF id \in DOMAIN registry THEN registry[id].provider ELSE row.provider]]

SetStatus(id, status) == registry' = [registry EXCEPT ![id].status = status]

\* A document is archived, restored or classified anew, or its chunks are
\* replaced while it is indexed again.
ChangeDocument(d) ==
    \/ /\ \E status \in {"ready", "archived"}, class \in {documents[d].class, "Highly Restricted"} :
              documents' = [documents EXCEPT ![d] = [status |-> status, class |-> class]]
       /\ UNCHANGED ask
    \/ /\ ask' = [a \in Asks |->
              IF ask[a].at \in {"lexical", "enrich"} /\ \E k \in ask[a].found : Chunks[k].doc = d
              THEN [ask[a] EXCEPT !.replaced = @ \cup {d}] ELSE ask[a]]
       /\ UNCHANGED documents

\* Records are made, changed and lapse, and people join and leave teams.
ChangeMemory ==
    LET rows == memory.rows
    IN \/ \E p \in DOMAIN Grants :
             \/ \E m \in Memories : memory' = [memory EXCEPT !.rows = remember(rows, p, m, memory.teams)]
             \/ \E k \in DOMAIN rows :
                    \/ \E m \in Memories :
                           memory' = [memory EXCEPT !.rows =
                               Revise(rows, p, k, memory.teams, [rows[k] EXCEPT !.content = m.content])]
                    \/ \E status \in {"deleted", "expired"} :
                           memory' = [memory EXCEPT !.rows =
                               Revise(rows, p, k, memory.teams, [rows[k] EXCEPT !.status = status])]
             \/ \E m \in Memories : memory' = [memory EXCEPT !.teams = SymDiff(@, {<<p, m.group>>})]
       \/ \E k \in DOMAIN rows : memory' = [memory EXCEPT !.rows = [rows EXCEPT ![k].lapsed = TRUE]]

Administer ==
    /\ deployed.store = "postgres" /\ left.changes > 0
    /\ left' = [left EXCEPT !.changes = @ - 1]
    /\ \/ /\ left.what = "registry"
          /\ \/ \E id \in Ids, row \in ModelRows : row.id = id /\ UpsertModel(id, row.row)
             \/ \E id \in DOMAIN registry, status \in Statuses : SetStatus(id, status)
          /\ UNCHANGED <<policy, documents, memory, ask>>
       \/ left.what = "registry" /\ policy' \in RoutingPolicies /\ UNCHANGED <<registry, documents, memory, ask>>
       \/ left.what = "registry" /\ (\E d \in Docs : ChangeDocument(d)) /\ UNCHANGED <<registry, policy, memory>>
       \/ left.what = "memory" /\ ChangeMemory /\ UNCHANGED <<registry, policy, documents, ask>>
    /\ UNCHANGED <<deployed, last>>

\* What may be asked of a model, called, read and recalled.
Facts ==
    (UNION {{<<id, class>> : class \in registry[id].classes} :
               id \in {r \in DOMAIN registry : /\ registry[r].status = "available" /\ registry[r].approval = "approved"
                                               /\ registry[r].health # "unavailable"}})
    \cup {<<"provider", p>> : p \in getPolicy.providers}
    \cup {<<d, documents[d].class>> : d \in Docs}
    \cup {<<"memory", m>> : m \in Range(retrieve(memory.rows))}
    \cup {<<"member", t>> : t \in memory.teams}

Observe ==
    since' = [a \in Asks |->
        IF ask'[a].at \in {"none", "failed"} THEN {}
        ELSE IF ask[a].at = "done" THEN since[a]
        ELSE since[a] \cup Facts']

AssistantNext ==
    /\ \/ \E a \in Asks :
              \/ Begin(a) \/ QueryMetrics(a) \/ SearchWeb(a) \/ RetrieveSemantic(a) \/ RetrieveLexical(a) \/ Enrich(a)
              \/ RecallRows(a) \/ Authorize(a) \/ ListModels(a) \/ Decide(a) \/ Generate(a) \/ Record(a) \/ Abort(a)
       \/ Administer
    /\ Observe

AssistantSpec == AssistantInit /\ [][AssistantNext]_assistantVars
-----------------------------------------------------------------------------
\* However the registry and the policy change under a request, a model
\* answered that was available, approved and allowed for the most sensitive
\* of its sources, and a provider that the policy allowed, at some time
\* since it began; a risky request is never left to a fallback (routing.ts
\* 116-124, modelRegistry.ts 125-143, gateway.ts 158-182).
ModelWasAllowed ==
    \A a \in Asks : ask[a].at = "done" =>
        LET c == ask[a]
            model == c.route.models[c.attempt]
        IN /\ deployed.store = "postgres" =>
                  /\ <<model, highestClassification(c.citations)>> \in since[a]
                  /\ <<"provider", c.route.provider>> \in since[a]
                  /\ HighRisk(c.analysis) => c.attempt = 1
           /\ deployed.store = "development" /\ deployed.provider # "development" =>
                  deployed.approved = {} \/ model \in deployed.approved

\* An answer about the organization has evidence or says that it has none.
\* Its sources are distinct, and each had a class the user may read since
\* the request began, as far as the class was known; what is refused as
\* unsafe cites nothing (validation.ts 4-14, store.ts 858-879).  A record it
\* recalls was valid, and the user allowed to read it, at some time since,
\* and records that contradict each other are flagged (memory.ts 203-209).
AnswersAreGrounded ==
    \A a \in Asks : ask[a].at = "done" =>
        LET c == ask[a]
        IN /\ \/ c.analysis.mode # "internal" \/ c.citations # {} \/ c.structured \/ c.answer = "safe"
              \/ c.analysis.intent = "capability"
              \/ c.analysis.responseType \in {"clarification", "insufficient_evidence"}
           /\ \A s, t \in c.citations : s.id = t.id => s = t
           /\ \A s \in c.citations :
                  /\ s # WebPage => CanRead(s.class)
                  /\ s.known /\ deployed.store = "postgres" => <<s.doc, s.class>> \in since[a]
           /\ c.analysis.risk = "critical" /\ c.analysis.mode # "web" => c.citations = {} /\ c.recalled = <<>>
           /\ \A i \in DOMAIN c.recalled :
                  LET m == c.recalled[i].record
                  IN /\ <<"memory", m>> \in since[a]
                     /\ \/ assertCanRead(Asker, m, {})
                        \/ <<"member", <<Asker, m.group>>>> \in since[a] /\ assertCanRead(Asker, m, {<<Asker, m.group>>})
                     /\ \A j \in 1..(i - 1) :
                            LET other == c.recalled[j].record
                            IN other.subject = m.subject /\ other.content # m.content =>
                                   m.subject = Nothing \/ c.recalled[i].hasConflict
=============================================================================
