------------------------------- MODULE Recall --------------------------------
(***************************************************************************)
(* Who may read and write the governed memory, and which records of it a   *)
(* question recalls (src/server/memory.ts).  A record has a scope, an      *)
(* owner, a group, a class, a subject, a content, a confidence, the words  *)
(* its text shares with questions, and a status; lapsed: valid_until or    *)
(* expires_at has passed.  Rows are kept with the last updated first.      *)
(***************************************************************************)
EXTENDS Integers, SequencesExt, Lists

CONSTANTS
    Grants,     \* the permissions and roles of each person
    Recalled    \* how many records a question recalls at most (3)

ASSUME RecallAssumption == Recalled \in Nat

Personal == {"user", "session", "task"}
Nothing == "none"

Has(p, permissions) == Grants[p] \cap permissions # {}

\* teams: the rows of group_members, <<person, group>>.
assertCanWrite(p, m, teams) ==
    /\ m.scope = "team" => m.group # Nothing
    /\ \/ Has(p, {"org_admin"})
       \/ m.scope \in Personal /\ m.owner = p
       \/ m.scope = "team" /\ <<p, m.group>> \in teams
       \/ m.scope = "organizational" /\ Has(p, {"governance.manage"})
       \/ m.scope = "agent" /\ Has(p, {"agents.manage"})

assertCanRead(p, m, teams) ==
    \/ Has(p, {"org_admin"})
    \/ /\ \/ m.scope \in Personal /\ m.owner = p
          \/ m.scope = "team" /\ <<p, m.group>> \in teams
          \/ m.scope = "organizational" /\ Has(p, {"governance.read", "analytics.read"})
          \/ m.scope = "agent" /\ Has(p, {"agents.read"})
       /\ m.class = "Highly Restricted" => Has(p, {"knowledge.admin"})
       /\ m.class = "Restricted" => Has(p, {"knowledge.read"})

\* Only a team's record takes a query of its own, which may fail.
AsksForTeam(p, m) == m.scope = "team" /\ m.group # Nothing /\ ~Has(p, {"org_admin"})

Serves(m) == m.status = "active" /\ ~m.lapsed
retrieve(rows) == Filtered(rows, {k \in DOMAIN rows : Serves(rows[k])})

IsMemory(m) == {"confidence", "words"} \subseteq DOMAIN m /\ m.confidence \in Int /\ IsFiniteSet(m.words)

\* What shares most words comes first, then what is more certain; of two
\* records that contradict each other the later is flagged.
relevantMemories(records, words) ==
    LET relevance(k) == Cardinality(records[k].words \cap words)
        ahead(i, j) ==
            \/ relevance(i) > relevance(j)
            \/ relevance(i) = relevance(j) /\ records[i].confidence > records[j].confidence
            \/ relevance(i) = relevance(j) /\ records[i].confidence = records[j].confidence /\ i < j
        relevant == {k \in DOMAIN records : relevance(k) > 0}
        order == Sorted(relevant, {p \in relevant \X relevant : ahead(p[1], p[2])})
        top == SubSeq(order, 1, IF Len(order) < Recalled THEN Len(order) ELSE Recalled)
        disputed(i) ==
            LET m == records[top[i]]
            IN m.subject # Nothing /\ \E j \in 1..(i - 1) : /\ records[top[j]].subject = m.subject
                                                         /\ records[top[j]].content # m.content
    IN [i \in DOMAIN top |-> [record |-> records[top[i]], hasConflict |-> disputed(i)]]

-----------------------------------------------------------------------------
(* The operations, on the rows *)

remember(rows, p, m, teams) ==
    LET own == [m EXCEPT !.owner = IF m.scope \in Personal THEN p ELSE Nothing]
    IN IF assertCanWrite(p, own, teams) THEN <<own>> \o rows ELSE rows

\* correct, forget or expire: the record gets a content or a status.
Revise(rows, p, k, teams, revised) ==
    IF rows[k].status # "deleted" /\ assertCanRead(p, rows[k], teams) /\ assertCanWrite(p, rows[k], teams)
    THEN <<revised>> \o RemoveAt(rows, k) ELSE rows
=============================================================================
