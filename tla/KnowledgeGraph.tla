--------------------------- MODULE KnowledgeGraph ---------------------------
(***************************************************************************)
(* The knowledge graph (src/server/knowledgeGraph.ts) and the memory       *)
(* service's linkToGraph (memory.ts): entities and relationships change    *)
(* while a traversal reads one level of the graph after the other, each in *)
(* a statement of its own.                                                 *)
(***************************************************************************)
EXTENDS Integers, FiniteSets

CONSTANTS
    Entities,
    Types,         \* of relationships
    Traversals,    \* traversals under way at a time
    Depths,        \* the maxDepth a caller asks for
    MaxDepth,      \* 6
    RowLimit,      \* rows of one statement of a traversal (100)
    HopLimit,      \* hops after which a traversal ends (100)
    LinkBound      \* bound: relationships created

ASSUME GraphAssumption ==
    Depths \subseteq Nat \ {0} /\ MaxDepth \in Nat \ {0} /\ RowLimit \in Nat /\ HopLimit \in Nat /\ LinkBound \in Nat

VARIABLES
    entity,     \* graph_entities: absent, live or deleted
    links,      \* graph_relationships that have not ended, in order of creation
    linking,    \* a call of linkToGraph: what is left of it
    walk        \* the traversals

graphVars == <<entity, links, linking, walk>>

NoWalk == [at |-> "none"]
Relationship == {r \in [source : Entities, type : Types, target : Entities] : r.source # r.target}

GraphInit ==
    /\ entity = [e \in Entities |-> "absent"]
    /\ links = {}
    /\ linking = <<>>
    /\ walk = [w \in Traversals |-> NoWalk]

Linked(rows, a, b) == \E r \in rows : {a, b} = {r.source, r.target}

\* The entities that a path of at most k relationships leads to from S.
Near(S, rows, k) ==
    {p[k] : p \in {q \in [0..k -> Entities] :
                      /\ q[0] \in S
                      /\ \A i \in 1..k : q[i] = q[i - 1] \/ Linked(rows, q[i - 1], q[i])}}

upsertEntity(e) == entity' = [entity EXCEPT ![e] = "live"]

deleteEntity(e) == entity[e] # "absent" /\ entity' = [entity EXCEPT ![e] = "deleted"]

\* No key keeps two rows of one relationship apart: the table has its own id.
Insert(r) ==
    /\ entity[r.source] = "live" /\ entity[r.target] = "live"
    /\ links' = links \cup {[source |-> r.source, type |-> r.type, target |-> r.target, id |-> Cardinality(links)]}

\* A relationship that has ended already is of no use to any reader.
linkEntities(r) ==
    /\ Cardinality(links) < LinkBound
    /\ Insert(r) \/ UNCHANGED links

\* linkToGraph: three statements, each of which may fail.
BeginLink ==
    /\ linking = <<>> /\ Cardinality(links) < LinkBound
    /\ \E r \in Relationship : linking' = <<"source", r>>
    /\ UNCHANGED <<entity, links, walk>>

StepLink ==
    /\ linking # <<>>
    /\ LET r == linking[2] IN
       \/ linking[1] = "source" /\ upsertEntity(r.source) /\ linking' = <<"target", r>> /\ UNCHANGED links
       \/ linking[1] = "target" /\ upsertEntity(r.target) /\ linking' = <<"link", r>> /\ UNCHANGED links
       \/ linking[1] = "link" /\ linkEntities(r) /\ linking' = <<>> /\ UNCHANGED entity
       \/ linking' = <<>> /\ UNCHANGED <<entity, links>>
    /\ UNCHANGED walk

Govern ==
    /\ \/ \E e \in Entities : (upsertEntity(e) \/ deleteEntity(e)) /\ UNCHANGED links
       \/ \E r \in Relationship : linkEntities(r) /\ UNCHANGED entity
    /\ UNCHANGED <<linking, walk>>

BeginWalk(w) ==
    /\ walk[w] = NoWalk
    /\ \E seed \in {e \in Entities : entity[e] # "absent"}, asked \in Depths, filter \in SUBSET Types :
           /\ Cardinality(filter) = 1 \/ filter = Types
           /\ walk' = [walk EXCEPT ![w] =
                  [at |-> "read", seed |-> seed, maxDepth |-> IF asked < MaxDepth THEN asked ELSE MaxDepth,
                   filter |-> filter, depth |-> 1, frontier |-> {seed}, hops |-> {}, cut |-> FALSE,
                   start |-> {r \in links : r.type \in filter}]]
    /\ UNCHANGED <<entity, links, linking>>

\* Bug: relationships are followed from source to target only.
ForwardRows(c) == {r \in links : r.type \in c.filter /\ r.source \in c.frontier}

Rows(c) == {r \in links : r.type \in c.filter /\ {r.source, r.target} \cap c.frontier # {}}

OtherEnd(c, r) == IF r.source \in c.frontier THEN r.target ELSE r.source

\* One round of the loop: LIMIT chooses rows in no order.
Expand(w) ==
    LET c == walk[w] IN
    /\ c.at = "read"
    /\ \E rows \in SUBSET Rows(c) :
           /\ Cardinality(rows) = IF Cardinality(Rows(c)) < RowLimit THEN Cardinality(Rows(c)) ELSE RowLimit
           /\ LET visited == {c.seed} \cup {h.entity : h \in c.hops}
                  next == {OtherEnd(c, r) : r \in rows} \ visited
                  hops == c.hops \cup {[entity |-> e, depth |-> c.depth] : e \in next}
                  over == c.depth < c.maxDepth /\ next # {} /\ Cardinality(hops) >= HopLimit
                  ends == next = {} \/ c.depth = c.maxDepth \/ over
              IN walk' = [walk EXCEPT ![w] =
                     [c EXCEPT !.at = IF ends THEN "done" ELSE "read", !.depth = @ + 1, !.frontier = next, !.hops = hops,
                               !.cut = @ \/ over \/ rows # Rows(c)]]
    /\ UNCHANGED <<entity, links, linking>>

\* A statement fails: the caller has an error, and no hops.
Fail(w) ==
    /\ walk[w].at = "read"
    /\ walk' = [walk EXCEPT ![w] = [at |-> "failed"]]
    /\ UNCHANGED <<entity, links, linking>>

GraphNext ==
    \/ BeginLink \/ StepLink \/ Govern
    \/ \E w \in Traversals : BeginWalk(w) \/ Expand(w) \/ Fail(w)

GraphSpec == GraphInit /\ [][GraphNext]_graphVars
-----------------------------------------------------------------------------
\* However the graph grows meanwhile, a traversal reports an entity at a
\* depth at which the graph of now has it, and, unless a limit cut it short,
\* every entity no deeper than the graph it started from had it
\* (knowledgeGraph.ts 160-199).
TraversalFindsNeighbours ==
    \A w \in Traversals : walk[w].at = "done" =>
        LET c == walk[w]
            now == {r \in links : r.type \in c.filter}
            within(k) == {c.seed} \cup {h.entity : h \in {g \in c.hops : g.depth <= k}}
        IN /\ \A h \in c.hops : h.entity # c.seed /\ h.entity \in Near({c.seed}, now, h.depth)
           /\ c.cut \/ \A k \in 1..c.maxDepth : Near({c.seed}, c.start, k) \subseteq within(k)
=============================================================================
