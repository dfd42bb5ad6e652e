--------------------------- MODULE KnowledgeHealth ---------------------------
(***************************************************************************)
(* What an analysis of the documents finds (src/server/knowledgeHealth.ts):*)
(* findings about one document, and titles that several documents share.   *)
(***************************************************************************)
EXTENDS Integers, SequencesExt

CONSTANT
    Shelf    \* of each document: title, source, owned, trust, review and whether it is old

Finding(kind, documents, severity) == [kind |-> kind, documents |-> documents, severity |-> severity]

\* review: the date is "none", "due" later, or "overdue"; trust: "none",
\* "below40" or "enough".  A document without a date
\* is stale when it was not updated for 180 days.
OfDocument(d) ==
    LET s == Shelf[d]
        when(holds, finding) == IF holds THEN <<finding>> ELSE <<>>
    IN when(s.review = "overdue", Finding("stale", {d}, "medium"))
       \o when(s.review = "none" /\ s.old, Finding("stale", {d}, "low"))
       \o when(~s.owned, Finding("unowned", {d}, "medium"))
       \o when(s.trust = "below40", Finding("low_authority", {d}, "medium"))

\* The documents of each normalized title that more than one has.
SharedTitles(documents) ==
    {same \in {{e \in documents : Shelf[e].title = Shelf[d].title} : d \in documents} : Cardinality(same) > 1}

analyze(documents) ==
    LET shared == SetToSeq(SharedTitles(documents))
        disputed == SelectSeq(shared, LAMBDA same : Cardinality({Shelf[d].source : d \in same}) > 1)
    IN FlattenSeq([k \in 1..Cardinality(documents) |-> OfDocument(SetToSeq(documents)[k])])
       \o [k \in DOMAIN shared |-> Finding("duplicate", shared[k], "medium")]
       \o [k \in DOMAIN disputed |-> Finding("conflict", disputed[k], "high")]
=============================================================================
