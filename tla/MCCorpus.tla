------------------------------ MODULE MCCorpus -------------------------------
(***************************************************************************)
(* How the corpus is filled and read: a sync of a connector, the upload of *)
(* a file up to its chunks, unified search, traversals of the knowledge    *)
(* graph, and meetings.  The five share no rows, so a behaviour is one of  *)
(* them while the others rest.                                             *)
(***************************************************************************)
EXTENDS Connector, Search, KnowledgeGraph, Meetings, Ingest, TLC

CONSTANTS f1, f2, s1, s2,
    docA, docB, node, far, note, q1, q2, search1, search2,
    e1, e2, e3, owns, walk1, m1, m2, m3, u1

VARIABLE part

(* Connector: two files and two overlapping syncs *)
MCFiles == {f1, f2}
MCSyncs == {s1, s2}
MCSettings == {{"crash", "dbError", "sourceError"}, {"itemError", "sourceError"}}

(* Search: two chunks of one document, a chunk of another, two graph nodes
   and a note, so that a document passes its cap of one chunk *)
Signals(se, le, ph, ti, au, fr) ==
    [semantic |-> se, lexical |-> le, phrase |-> ph, title |-> ti, authority |-> au, freshness |-> fr]
MCItems ==
    [a1 |-> [kind |-> "document", doc |-> docA, signals |-> Signals(88, 60, 0, 50, 72, 100)],
     a2 |-> [kind |-> "document", doc |-> docA, signals |-> Signals(90, 60, 0, 50, 72, 100)],
     b1 |-> [kind |-> "document", doc |-> docB, signals |-> Signals(0, 62, 100, 0, 100, 50)],
     g1 |-> [kind |-> "graph", doc |-> node, signals |-> Signals(0, 50, 0, 0, 72, 50)],
     g2 |-> [kind |-> "graph", doc |-> far, signals |-> Signals(0, 40, 0, 0, 72, 50)],
     n1 |-> [kind |-> "memory", doc |-> note, signals |-> Signals(0, 70, 0, 0, 72, 50)]]
MCNeighbours == [d \in {docA, docB, node, far, note} |-> IF d = node THEN {far} ELSE {}]
MCShelf ==
    docA :> [title |-> "leave", source |-> "wiki", owned |-> TRUE, trust |-> "enough", review |-> "overdue", old |-> FALSE]
    @@ docB :> [title |-> "leave", source |-> "drive", owned |-> FALSE, trust |-> "none", review |-> "due", old |-> TRUE]
MCQueries == {q1, q2}
MCWordless == {q2}
MCSearches == {search1, search2}
MCRequests ==
    {[mode |-> "auto", kinds |-> {"document", "memory"}, clearance |-> "reader"],
     [mode |-> "graph", kinds |-> {"graph"}, clearance |-> "reader"],
     [mode |-> "lexical", kinds |-> {"agent"}, clearance |-> "none"],
     [mode |-> "semantic", kinds |-> {"document"}, clearance |-> "admin"]}
\* The development store never archives or classifies a document anew.
MCStores == {"postgres", "development"}
MCBounds == {[searches |-> 1, changes |-> 2], [searches |-> 2, changes |-> 0]}

(* Graph: a depth below and one above MaxDepth *)
MCEntities == {e1, e2, e3}
MCTypes == {owns}
MCTraversals == {walk1}
MCDepths == {1, 9}

(* Meetings *)
Sentence(decides, commits, owner, deadline, matches) ==
    [decides |-> decides, commits |-> commits, owner |-> owner, deadline |-> deadline, matches |-> matches]
MCTranscripts ==
    {<<Sentence(TRUE, TRUE, TRUE, FALSE, TRUE), Sentence(FALSE, TRUE, TRUE, TRUE, TRUE)>>,
     <<Sentence(FALSE, FALSE, FALSE, FALSE, TRUE), Sentence(TRUE, FALSE, FALSE, FALSE, FALSE),
       Sentence(FALSE, TRUE, FALSE, FALSE, TRUE)>>}
MCMeetings == {m1, m2, m3}

(* Ingest: every text of up to five lines of one or three tokens, and files
   with something wrong *)
Line(kind, size) == [kind |-> kind, size |-> size]
Lines == {Line("text", 4), Line("text", 12), Line("heading", 4), Line("page", 4)}
File(ext, mime, content, infected, lines) ==
    [ext |-> ext, mime |-> mime, content |-> content, infected |-> infected, lines |-> lines]
Plain == <<Line("text", 4), Line("heading", 4), Line("text", 12)>>
MCUploadFiles ==
    {File("txt", "txt", "plain", FALSE, t) : t \in UNION {[1..n -> Lines] : n \in 0..5}}
    \cup {File("pdf", "png", "plain", FALSE, Plain), File("pdf", "pdf", "protected", FALSE, Plain),
          File("docx", "docx", "plain", TRUE, Plain), File("md", "txt", "huge", FALSE, Plain),
          File("exe", "exe", "plain", TRUE, Plain), File("htm", "other", "plain", FALSE, Plain),
          File("xlsx", "xlsx", "plain", FALSE, Plain)}
MCUploads == {u1}
MCDeployments ==
    {[scanner |-> "clamav", storage |-> "s3", ocr |-> "unavailable", production |-> TRUE],
     [scanner |-> "disabled-in-development", storage |-> "local", ocr |-> "tesseract", production |-> FALSE],
     [scanner |-> "disabled-in-development", storage |-> "local", ocr |-> "tesseract", production |-> TRUE]}

\* A permutation may act on two parts at once, for all but one rest in a
\* state it leaves as it is.
Swap(a, b) == a :> b @@ b :> a
Odd(p) == \E e \in Entities : p[e] = e /\ \A other \in Entities \ {e} : p[other] # other
Symmetry ==
    {p @@ q @@ (IF Odd(p) THEN Swap(f1, f2) ELSE <<>>) :
        p \in Permutations(Entities), q \in {<<>>, Swap(s1, s2) @@ Swap(search1, search2)}}

\* A part that rests has one initial state.
MCInit ==
    /\ part \in {"sync", "search", "graph", "meetings", "upload"}
    /\ Init /\ SearchInit /\ GraphInit /\ MeetingInit /\ IngestInit
    /\ part # "sync" => faults = {"itemError", "sourceError"}
    /\ part # "search" => left.searches = 1 /\ store = "postgres"
    /\ store = "development" => left.changes = 0
    /\ part # "upload" => deployed.scanner = "clamav"

MCNext ==
    \/ part = "sync" /\ Next /\ UNCHANGED <<part, searchVars, graphVars, meetingVars, ingestVars>>
    \/ part = "search" /\ SearchNext /\ UNCHANGED <<part, vars, graphVars, meetingVars, ingestVars>>
    \/ part = "graph" /\ GraphNext /\ UNCHANGED <<part, vars, searchVars, meetingVars, ingestVars>>
    \/ part = "meetings" /\ MeetingNext /\ UNCHANGED <<part, vars, searchVars, graphVars, ingestVars>>
    \/ part = "upload" /\ IngestNext /\ UNCHANGED <<part, vars, searchVars, graphVars, meetingVars>>

MCSpec == MCInit /\ [][MCNext]_<<part, vars, searchVars, graphVars, meetingVars, ingestVars>>
=============================================================================
