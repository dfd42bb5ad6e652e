------------------------------- MODULE Search -------------------------------
(***************************************************************************)
(* Unified search (src/server/search.ts) with the cache of query vectors   *)
(* (src/server/ai/embeddings.ts): overlapping searches read the corpus in  *)
(* statements of their own while documents are archived and classified     *)
(* anew, gate what they found, and rank it.  The development store does    *)
(* all that in one turn.                                                   *)
(***************************************************************************)
EXTENDS KnowledgeHealth, Rerank, Lists

CONSTANTS
    Corpus,       \* what search can find: [kind, doc, signals] of each item
    Neighbours,   \* of a node of the graph: what a traversal from it meets
    Queries,
    Wordless,     \* queries of stop words only
    Searches,     \* searches under way at a time
    Requests,     \* what users ask for: records of mode, kinds, clearance
    External,     \* the embedding provider is an external service
    Capacity,     \* of the cache in memory (512 in the code)
    MaxAttempts,  \* of a call to the provider (3)
    Cap,          \* maxPerDocument (4)
    FindLimit,    \* rows of one query (40 chunks, 10 of a simple kind, 8 memories, 6 seeds)
    Stores,       \* "postgres", "development"
    Bounds        \* bound: how many searches begin, how often the corpus changes

VARIABLES
    store,
    sources,   \* documents and other sources: visible and class
    health,    \* the findings recorded, and those an analysis has still to record
    cache,     \* query vectors: in memory, in the table, and being computed
    searching, \* the searches
    paid,      \* observation: rows in the cost ledger, calls to the provider
    left       \* what is left of the bounds

searchVars == <<store, sources, health, cache, searching, paid, left>>

Items == DOMAIN Corpus
Sources == {Corpus[i].doc : i \in Items}
KINDS == {"document", "meeting", "agent", "workflow", "graph", "memory"}
Modes == {"auto", "lexical", "semantic", "hybrid", "graph"}
Classified == {Corpus[i].doc : i \in {j \in Items : Corpus[j].kind \in {"document", "graph", "memory"}}}
Classes == {"Internal", "Highly Restricted"}

ASSUME SearchAssumption ==
    /\ IsFiniteSet(Items) /\ IsFiniteSet(Searches)
    /\ \A i \in Items : /\ Corpus[i].kind \in KINDS
                        /\ Corpus[i].signals \in [SignalNames -> Int]
                        /\ \A j \in Items : Corpus[i].doc = Corpus[j].doc => Corpus[i].kind = Corpus[j].kind
    /\ Requests \subseteq [mode : Modes, kinds : SUBSET KINDS, clearance : {"none", "reader", "admin"}]
    /\ External \in BOOLEAN /\ Cap \in Nat

\* security.ts: what a user may read, and the kinds a search may return.
CanReadClassification(clearance, class) ==
    clearance = "admin" \/ (clearance = "reader" /\ class # "Highly Restricted")
AllowedKinds(request) ==
    {k \in request.kinds : k = "document" => request.clearance \in {"reader", "admin"}}

NoCall == [at |-> "none"]
Failed == [at |-> "failed"]

SearchInit ==
    /\ store \in Stores
    /\ sources = [d \in Sources |-> [visible |-> TRUE, class |-> "Internal"]]
    /\ health = [recorded |-> {}, todo |-> <<>>]
    /\ cache = [memory |-> <<>>, table |-> {}, inflight |-> {}]
    /\ searching = [s \in Searches |-> NoCall]
    /\ paid = [charges |-> 0, calls |-> 0]
    /\ left \in Bounds

Readable(request) ==
    {i \in Items : /\ sources[Corpus[i].doc].visible
                   /\ CanReadClassification(request.clearance, sources[Corpus[i].doc].class)}

\* The queries that run side by side once the vector is there, or is not.
Reads(c) ==
    (AllowedKinds(c.request) \ {"document"}) \cup {"lexical"} \cup (IF c.vector THEN {"semantic"} ELSE {})

WantsSemantic(request) == request.mode # "lexical"

ResolvedMode(c) ==
    CASE c.request.mode = "auto" -> IF c.vector THEN "hybrid" ELSE "lexical"
      [] c.request.mode = "graph" -> "graph"
      [] OTHER -> IF c.vector THEN c.request.mode ELSE "lexical"

\* The vector of call c is known, or there is none.
WithVector(c, vector, why) ==
    LET known == [c EXCEPT !.vector = vector, !.degraded = why]
    IN [known EXCEPT !.at = "read", !.todo = Reads(known)]

\* recordEstimated inserts its row, or the budget is exhausted.
Charge(s) ==
    /\ searching[s].at = "charge"
    /\ \/ paid' = [paid EXCEPT !.charges = @ + 1] /\ searching' = [searching EXCEPT ![s].at = "embed"]
       \/ UNCHANGED paid /\ searching' = [searching EXCEPT ![s] = WithVector(@, FALSE, "embedding_budget_exceeded")]
       \/ UNCHANGED paid /\ searching' = [searching EXCEPT ![s] = Failed]
    /\ UNCHANGED <<store, sources, health, cache, left>>

\* Bug: calls under way are not looked up.
EmbedAlone(s) ==
    /\ searching[s].at = "embed"
    /\ IF Contains(cache.memory, searching[s].query)
       THEN searching' = [searching EXCEPT ![s] = WithVector(@, TRUE, "none")] /\ UNCHANGED cache
       ELSE /\ searching' = [searching EXCEPT ![s].at = "table"]
            /\ cache' = [cache EXCEPT !.inflight = @ \cup {searching[s].query}]
    /\ UNCHANGED <<store, sources, health, paid, left>>

Embed(s) ==
    LET q == searching[s].query IN
    /\ searching[s].at = "embed"
    /\ IF Contains(cache.memory, q)
       THEN searching' = [searching EXCEPT ![s] = WithVector(@, TRUE, "none")] /\ UNCHANGED cache
       ELSE /\ searching' = [searching EXCEPT ![s].at = IF q \in cache.inflight THEN "pending" ELSE "table"]
            /\ cache' = [cache EXCEPT !.inflight = @ \cup {q}]
    /\ UNCHANGED <<store, sources, health, paid, left>>

\* The cache in memory drops what it has had longest.
Remember(q) ==
    Append(IF Len(cache.memory) >= Capacity THEN Tail(cache.memory) ELSE cache.memory, q)

\* The task of s ends: so do the searches that wait for it.
EndTask(s, vector) ==
    LET q == searching[s].query
        why == IF vector THEN "none" ELSE "embedding_provider_unavailable"
    IN /\ searching' = [t \in Searches |->
              IF t = s \/ (searching[t].at = "pending" /\ searching[t].query = q) THEN WithVector(searching[t], vector, why) ELSE searching[t]]
       /\ \E stored \in {cache.table} \cup (IF vector THEN {cache.table \cup {q}} ELSE {}) :
              cache' = [memory |-> IF vector THEN Remember(q) ELSE cache.memory,
                        table |-> stored, inflight |-> cache.inflight \ {q}]

\* An error of the table counts as a miss.
LookUp(s) ==
    /\ searching[s].at = "table"
    /\ \/ searching[s].query \in cache.table /\ EndTask(s, TRUE)
       \/ searching' = [searching EXCEPT ![s].at = "provider"] /\ UNCHANGED cache
    /\ UNCHANGED <<store, sources, health, paid, left>>

\* A local provider always has a vector; an external one is tried again
\* when it fails, and gives null in the end.
AskProvider(s) ==
    /\ searching[s].at = "provider"
    /\ paid' = [paid EXCEPT !.calls = @ + (IF External /\ searching[s].attempt = 0 THEN 1 ELSE 0)]
    /\ \/ EndTask(s, TRUE)
       \/ /\ External
          /\ IF searching[s].attempt + 1 = MaxAttempts
             THEN EndTask(s, FALSE)
             ELSE searching' = [searching EXCEPT ![s].attempt = @ + 1] /\ UNCHANGED cache
    /\ UNCHANGED <<store, sources, health, left>>

Visible(kind) == {i \in Items : Corpus[i].kind = kind /\ sources[Corpus[i].doc].visible}
Candidate(i, class, semantic, hops) == [item |-> i, class |-> class, semantic |-> semantic, hops |-> hops]
ClassOf(i) == sources[Corpus[i].doc].class

\* Bug: the queries of documents test status and not deleted_at.
LexicalOfAll(c) ==
    {Candidate(i, ClassOf(i), 0, {}) : i \in {j \in Items : Corpus[j].kind = "document"}}

\* A query of stop words only has no tsquery.
DocumentLexicalCandidates(c) ==
    {Candidate(i, ClassOf(i), 0, {}) :
        i \in {j \in Visible("document") : c.query \notin Wordless /\ Corpus[j].signals.lexical > 0}}

\* With pgvector or without, what is near the vector: cosine > 0.
DocumentSemanticCandidates(c) ==
    {Candidate(i, ClassOf(i), Corpus[i].signals.semantic, {}) :
        i \in {j \in Visible("document") : Corpus[j].signals.semantic > 0}}

\* Meetings, agents and workflows count as Internal.
SimpleCandidates(kind) == {Candidate(i, "Internal", 0, {}) : i \in Visible(kind)}

\* The traversal from each seed, of which some fail, asks neither the class
\* nor the deletion of what it meets.
GraphCandidates(failing) ==
    {Candidate(i, ClassOf(i), 0, IF i \in failing THEN {} ELSE Neighbours[Corpus[i].doc]) : i \in Visible("graph")}

MemoryCandidates(c) ==
    {Candidate(i, ClassOf(i), 0, {}) :
        i \in IF c.query \in Wordless THEN {} ELSE Visible("memory") \cap Readable(c.request)}

\* failing: the seeds whose traversal fails.
FoundBy(c, read, failing) ==
    IF read \in {"lexical", "semantic"} /\ "document" \notin AllowedKinds(c.request)
    THEN {}
    ELSE CASE read = "lexical"  -> DocumentLexicalCandidates(c)
           [] read = "semantic" -> DocumentSemanticCandidates(c)
           [] read = "graph"    -> GraphCandidates(failing)
           [] read = "memory"   -> MemoryCandidates(c)
           [] OTHER             -> SimpleCandidates(read)

\* A failing query of documents fails the search, any other finds nothing.
Read(s) ==
    /\ searching[s].at = "read"
    /\ \E read \in searching[s].todo :
           \/ \E failing \in SUBSET {i \in Visible("graph") : read = "graph"} :
                 \E finds \in Limited(FoundBy(searching[s], read, failing), FindLimit) :
                    searching' = [searching EXCEPT ![s].todo = @ \ {read}, ![s].found = @ \cup finds]
           \/ read \in {"lexical", "semantic"} /\ searching' = [searching EXCEPT ![s] = Failed]
           \/ read \notin {"lexical", "semantic"} /\ searching' = [searching EXCEPT ![s].todo = @ \ {read}]
    /\ UNCHANGED <<store, sources, health, cache, paid, left>>

\* A chunk that both queries find is one candidate: the semantic one.
Merged(c) ==
    {f \in c.found : f.semantic > 0 \/ ~\E g \in c.found : g.item = f.item /\ g.semantic > 0}

AclGate(c, f) ==
    /\ CanReadClassification(c.request.clearance, f.class)
    /\ Corpus[f.item].kind = "document" => c.request.clearance \in {"reader", "admin"}

ToRerankCandidate(f, conflicted) ==
    LET i == Corpus[f.item]
    IN [id |-> f.item, doc |-> i.doc, conflict |-> i.kind = "document" /\ i.doc \in conflicted,
        signals |-> [i.signals EXCEPT !.semantic = f.semantic]]

\* An item of the graph names the hops of its candidate as they are.
HopsOf(finds, i) == UNION {f.hops : f \in {g \in finds : g.item = i}}

ToItems(results, finds) ==
    [k \in DOMAIN results |->
        [id |-> results[k].id, kind |-> Corpus[results[k].id].kind, doc |-> results[k].doc, base |-> results[k].base,
         hops |-> HopsOf(finds, results[k].id)]]

\* The development store has one candidate for each document, a vector for
\* every text, and neither graph nor memory; it gates before it ranks.
DevelopmentSearch(c) ==
    LET kinds == AllowedKinds(c.request) \cap {"document", "meeting", "agent", "workflow"}
        mode == IF c.request.mode \in {"auto", "graph"} THEN "hybrid" ELSE c.request.mode
        whole(i) == i = CHOOSE j \in Items : Corpus[j].doc = Corpus[i].doc
        permitted == SetToSeq({i \in Readable(c.request) : Corpus[i].kind \in kinds /\ whole(i)})
        candidate(i) ==
            ToRerankCandidate(Candidate(i, ClassOf(i), IF mode = "lexical" THEN 0 ELSE Corpus[i].signals.semantic, {}), {})
        ranked == rerank([k \in DOMAIN permitted |-> candidate(permitted[k])], mode, mode # "lexical", Cap)
    IN [c EXCEPT !.at = "done", !.items = ToItems(ranked, {})]

Begin(s) ==
    /\ searching[s] = NoCall /\ left.searches > 0
    /\ left' = [left EXCEPT !.searches = @ - 1]
    /\ \E q \in Queries, r \in Requests :
           LET new == [at |-> "read", query |-> q, request |-> r, vector |-> FALSE, degraded |-> "none", attempt |-> 0,
                       todo |-> {}, found |-> {}, items |-> <<>>, readable |-> Readable(r)]
           IN searching' = [searching EXCEPT ![s] =
                  IF AllowedKinds(r) = {} THEN [new EXCEPT !.at = "done"]
                  ELSE IF store = "development" THEN DevelopmentSearch(new)
                  ELSE IF ~WantsSemantic(r) THEN WithVector(new, FALSE, "none")
                  ELSE [new EXCEPT !.at = IF External THEN "charge" ELSE "embed"]]
    /\ UNCHANGED <<store, sources, health, cache, paid>>

\* No code resolves a conflict.
Disputed == UNION {f.documents : f \in {g \in health.recorded : g.kind = "conflict"}}

\* The conflicts are advisory: their query may fail.
Answer(s) ==
    LET c == searching[s]
        permitted == SetToSeq({f \in Merged(c) : AclGate(c, f)})
        ranked(conflicted) ==
            rerank([k \in DOMAIN permitted |-> ToRerankCandidate(permitted[k], conflicted)], ResolvedMode(c), c.vector, Cap)
    IN /\ c.at = "read" /\ c.todo = {}
       /\ \E conflicted \in {{}, Disputed} :
              searching' = [searching EXCEPT ![s] = [c EXCEPT !.at = "done", !.items = ToItems(ranked(conflicted), c.found)]]
       /\ UNCHANGED <<store, sources, health, cache, paid, left>>

\* The indexing processor embeds texts of its own through the same cache.
EmbedBatch ==
    /\ store = "postgres"
    /\ \E q \in Queries : ~Contains(cache.memory, q) /\ cache' = [cache EXCEPT !.memory = Remember(q)]
    /\ UNCHANGED <<store, sources, health, searching, paid, left>>

\* An analysis reads the documents, and records what it found in statements
\* of their own, of which any may fail.
Analyze ==
    /\ store = "postgres" /\ left.changes > 0 /\ health.todo = <<>>
    /\ left' = [left EXCEPT !.changes = @ - 1]
    /\ health' = [health EXCEPT !.todo = analyze({d \in DOMAIN Shelf : sources[d].visible})]
    /\ UNCHANGED <<store, sources, cache, searching, paid>>

Persist ==
    /\ health.todo # <<>>
    /\ health' \in {[recorded |-> health.recorded \cup {Head(health.todo)}, todo |-> Tail(health.todo)],
                    [health EXCEPT !.todo = <<>>]}
    /\ UNCHANGED <<store, sources, cache, searching, paid, left>>

\* Others archive, restore and classify documents, graph entities and
\* memories; meetings, agents and workflows have no classification.
Change ==
    /\ left.changes > 0
    /\ left' = [left EXCEPT !.changes = @ - 1]
    /\ \E d \in Sources :
           \/ sources' = [sources EXCEPT ![d].visible = ~@]
           \/ d \in Classified /\ \E class \in Classes : sources' = [sources EXCEPT ![d].class = class]
    /\ searching' = [s \in Searches |->
           IF searching[s].at \in {"none", "failed", "done"} THEN searching[s]
           ELSE [searching[s] EXCEPT !.readable = @ \cup {i \in Items : sources'[Corpus[i].doc].visible /\ CanReadClassification(searching[s].request.clearance, sources'[Corpus[i].doc].class)}]]
    /\ UNCHANGED <<store, health, cache, paid>>

SearchNext ==
    \/ \E s \in Searches :
           Begin(s) \/ Charge(s) \/ Embed(s) \/ LookUp(s) \/ AskProvider(s) \/ Read(s) \/ Answer(s)
    \/ EmbedBatch \/ Analyze \/ Persist \/ Change

SearchSpec == SearchInit /\ [][SearchNext]_searchVars
-----------------------------------------------------------------------------
Answered(s) == searching[s].at = "done"

NextTo(i) == IF Corpus[i].kind = "graph" THEN Neighbours[Corpus[i].doc] ELSE {}

\* Whatever is archived or classified anew while a search runs, it returns
\* items of kinds the user may see, and each could be read by that user at
\* some time since it began (search.ts 281-285 and 482-511).  That is said
\* of the items, not of all they name: an item of the graph names what is
\* next to its node, readable or not, and no other item names any (375-391).
ServesReadable ==
    \A s \in Searches : Answered(s) =>
        \A k \in DOMAIN searching[s].items :
            /\ searching[s].items[k].id \in searching[s].readable
            /\ searching[s].items[k].kind \in AllowedKinds(searching[s].request)
            /\ searching[s].items[k].hops \subseteq NextTo(searching[s].items[k].id)

\* A result comes after a weaker one only when it is over the cap of its
\* document, and the chunks of a document keep their order (rerank.ts 172-183).
OnlyCappedLosePlaces ==
    \A s \in Searches : Answered(s) =>
        LET items == searching[s].items
        IN \A i, j \in DOMAIN items : i < j /\ items[i].base < items[j].base =>
               /\ items[i].doc # items[j].doc
               /\ Cardinality({k \in 1..(j - 1) : items[k].doc = items[j].doc}) >= Cap

\* Searches that ask for one vector at a time share one call to the
\* provider, and no call is made that was not charged before (embeddings.ts
\* 204-238, search.ts 448-453).
EmbedsOnce ==
    /\ \A s, t \in Searches :
           s # t /\ {searching[s].at, searching[t].at} \subseteq {"table", "provider"} => searching[s].query # searching[t].query
    /\ paid.calls <= paid.charges
=============================================================================
