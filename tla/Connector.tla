------------------------------ MODULE Connector ------------------------------
(***************************************************************************)
(* Connector synchronisation (src/server/connector.ts) with the filesystem *)
(* provider.  A call of runSync reads the cursor of the last completed     *)
(* sync, names the files of the directory, looks at the time of each in    *)
(* turn and reads those modified since, upserts each in a transaction of   *)
(* its own, marks what it did not list as deleted and archives it, and     *)
(* records the new cursor.  Calls overlap, and the source changes while    *)
(* they run.                                                               *)
(***************************************************************************)
EXTENDS Naturals

CONSTANTS
    Files,
    Syncs,        \* concurrent calls of runSync for one connection
    WriteBound,   \* bound: how often files are written
    SyncBound,    \* bound: how often a sync is started
    Settings      \* the combinations of FaultKinds considered

FaultKinds == {"crash", "dbError", "itemError", "sourceError"}

ASSUME WriteAssumption == WriteBound \in Nat
ASSUME SyncAssumption == SyncBound \in Nat
ASSUME SettingAssumption == Settings \subseteq SUBSET FaultKinds

VARIABLES
    (* the source directory *)
    mtime,       \* of each file; 0 when there is no such file
    writes,      \* the clock, which ticks at every write
    removed,     \* observation: the files that were removed at some time
    missed,      \* observation: the files last written behind a listing's back
    faults,      \* what may go wrong in this behaviour
    (* rows of documents and connector_resources, by file *)
    documents,   \* how many documents were made for it
    ready,       \* the document of its resource is ready, not archived
    mapped,      \* there is a resource
    deleted,     \* resource.deleted_at is set
    (* rows of connector_syncs: the completed one that was created last *)
    created,
    last,
    (* the calls of runSync *)
    pc,
    rank,        \* when its row was created
    cursor,      \* read from the previous sync, then the one to record
    newest,      \* the greatest time a listing has seen
    upserts,     \* the files listed
    todo,        \* files to look at, to read, to upsert, and then to archive
    current,     \* the file at hand, as a set
    found        \* whether its resource was found

source == <<mtime, writes, removed, missed, faults>>
rows == <<documents, ready, mapped, deleted>>
ledger == <<created, last>>
call == <<pc, rank, cursor, newest, upserts, todo, current, found>>
vars == <<mtime, writes, removed, missed, faults, documents, ready, mapped, deleted, created, last,
          pc, rank, cursor, newest, upserts, todo, current, found>>

Phases == {"idle", "created", "listing", "stating", "reading", "upserting", "upsert", "marking", "archive"}

Init ==
    /\ mtime = [f \in Files |-> 0]
    /\ writes = 0
    /\ removed = {}
    /\ missed = {}
    /\ faults \in Settings
    /\ documents = [f \in Files |-> 0]
    /\ ready = [f \in Files |-> FALSE]
    /\ mapped = [f \in Files |-> FALSE]
    /\ deleted = [f \in Files |-> FALSE]
    /\ created = 0
    /\ last = [rank |-> 0, cursor |-> 0]
    /\ pc = [s \in Syncs |-> "idle"]
    /\ rank = [s \in Syncs |-> 0]
    /\ cursor = [s \in Syncs |-> 0]
    /\ newest = [s \in Syncs |-> 0]
    /\ upserts = [s \in Syncs |-> {}]
    /\ todo = [s \in Syncs |-> {}]
    /\ current = [s \in Syncs |-> {}]
    /\ found = [s \in Syncs |-> FALSE]

-----------------------------------------------------------------------------
(* The source                                                              *)

\* A listing under way will not look at f (again).
Passed(f) == \E s \in Syncs : pc[s] = "stating" /\ f \notin todo[s]

WriteFile(f) ==
    /\ writes < WriteBound
    /\ writes' = writes + 1
    /\ mtime' = [mtime EXCEPT ![f] = writes + 1]
    /\ missed' = IF Passed(f) THEN missed \cup {f} ELSE missed \ {f}
    /\ UNCHANGED <<removed, faults, rows, ledger, call>>

RemoveFile(f) ==
    /\ mtime[f] > 0
    /\ mtime' = [mtime EXCEPT ![f] = 0]
    /\ removed' = removed \cup {f}
    /\ UNCHANGED <<writes, missed, faults, rows, ledger, call>>

-----------------------------------------------------------------------------
(* runSync                                                                 *)

GoTo(s, p) == pc' = [pc EXCEPT ![s] = p]

CreateSync(s) ==
    /\ pc[s] = "idle" /\ created < SyncBound
    /\ created' = created + 1
    /\ rank' = [rank EXCEPT ![s] = created + 1]
    /\ GoTo(s, "created")
    /\ UNCHANGED <<source, rows, last, cursor, newest, upserts, todo, current, found>>

ReadCursor(s) ==
    /\ pc[s] = "created"
    /\ cursor' = [cursor EXCEPT ![s] = last.cursor]
    /\ GoTo(s, "listing")
    /\ UNCHANGED <<source, rows, ledger, rank, newest, upserts, todo, current, found>>

\* listChanges names the files there are ...
ReadDirectory(s) ==
    /\ pc[s] = "listing"
    /\ todo' = [todo EXCEPT ![s] = {f \in Files : mtime[f] > 0}]
    /\ GoTo(s, "stating")
    /\ UNCHANGED <<source, rows, ledger, rank, cursor, newest, upserts, current, found>>

\* ... looks at one after the other ...
Stat(s) ==
    /\ pc[s] = "stating"
    /\ \E f \in todo[s] :
          /\ mtime[f] > 0
          /\ todo' = [todo EXCEPT ![s] = @ \ {f}]
          /\ newest' = [newest EXCEPT ![s] = IF mtime[f] > @ THEN mtime[f] ELSE @]
          /\ upserts' = [upserts EXCEPT ![s] = IF mtime[f] > cursor[s] THEN @ \cup {f} ELSE @]
    /\ UNCHANGED <<source, rows, ledger, pc, rank, cursor, current, found>>

\* ... and, when it has seen all, reads those modified since the cursor.
BeginReading(s) ==
    /\ pc[s] = "stating" /\ todo[s] = {}
    /\ todo' = [todo EXCEPT ![s] = upserts[s]]
    /\ cursor' = [cursor EXCEPT ![s] = newest[s]]
    /\ newest' = [newest EXCEPT ![s] = 0]
    /\ GoTo(s, "reading")
    /\ UNCHANGED <<source, rows, ledger, rank, upserts, current, found>>

ReadFile(s) ==
    /\ pc[s] = "reading"
    /\ \E f \in todo[s] : mtime[f] > 0 /\ todo' = [todo EXCEPT ![s] = @ \ {f}]
    /\ UNCHANGED <<source, rows, ledger, pc, rank, cursor, newest, upserts, current, found>>

EndListing(s) ==
    /\ pc[s] = "reading" /\ todo[s] = {}
    /\ todo' = [todo EXCEPT ![s] = upserts[s]]
    /\ GoTo(s, "upserting")
    /\ UNCHANGED <<source, rows, ledger, rank, cursor, newest, upserts, current, found>>

\* The transaction of a file reads its resource ...
BeginUpsert(s) ==
    /\ pc[s] = "upserting"
    /\ \E f \in todo[s] :
          /\ todo' = [todo EXCEPT ![s] = @ \ {f}]
          /\ current' = [current EXCEPT ![s] = {f}]
          /\ found' = [found EXCEPT ![s] = mapped[f]]
    /\ GoTo(s, "upsert")
    /\ UNCHANGED <<source, rows, ledger, rank, cursor, newest, upserts>>

EndItem(s, p) ==
    /\ current' = [current EXCEPT ![s] = {}]
    /\ GoTo(s, p)

\* ... and updates it or inserts document, version and resource, unless the
\* resource was inserted meanwhile: then the unique key fails the item.
CommitUpsert(s) ==
    /\ pc[s] = "upsert"
    /\ \E f \in current[s] :
          \/ /\ found[s]
             /\ deleted' = [deleted EXCEPT ![f] = FALSE]
             /\ UNCHANGED <<documents, ready, mapped>>
          \/ /\ ~found[s] /\ ~mapped[f]
             /\ documents' = [documents EXCEPT ![f] = @ + 1]
             /\ ready' = [ready EXCEPT ![f] = TRUE]
             /\ mapped' = [mapped EXCEPT ![f] = TRUE]
             /\ UNCHANGED deleted
          \/ /\ ~found[s] /\ mapped[f]
             /\ UNCHANGED rows
    /\ EndItem(s, "upserting")
    /\ UNCHANGED <<source, ledger, rank, cursor, newest, upserts, todo, found>>

UpsertFails(s) ==
    /\ "itemError" \in faults /\ pc[s] = "upsert"
    /\ EndItem(s, "upserting")
    /\ UNCHANGED <<source, rows, ledger, rank, cursor, newest, upserts, todo, found>>

SelectKnown(s) ==
    /\ pc[s] = "upserting" /\ todo[s] = {}
    /\ todo' = [todo EXCEPT ![s] = {f \in Files : mapped[f] /\ ~deleted[f]} \ upserts[s]]
    /\ GoTo(s, "marking")
    /\ UNCHANGED <<source, rows, ledger, rank, cursor, newest, upserts, current, found>>

MarkDeleted(s) ==
    /\ pc[s] = "marking"
    /\ \E f \in todo[s] :
          /\ todo' = [todo EXCEPT ![s] = @ \ {f}]
          /\ current' = [current EXCEPT ![s] = {f}]
          /\ deleted' = [deleted EXCEPT ![f] = TRUE]
    /\ GoTo(s, "archive")
    /\ UNCHANGED <<source, documents, ready, mapped, ledger, rank, cursor, newest, upserts, found>>

ArchiveDocument(s) ==
    /\ pc[s] = "archive"
    /\ \E f \in current[s] : ready' = [ready EXCEPT ![f] = FALSE]
    /\ EndItem(s, "marking")
    /\ UNCHANGED <<source, documents, mapped, deleted, ledger, rank, cursor, newest, upserts, todo, found>>

\* A finished call keeps nothing.
Forget(s) ==
    /\ GoTo(s, "idle")
    /\ rank' = [rank EXCEPT ![s] = 0]
    /\ cursor' = [cursor EXCEPT ![s] = 0]
    /\ newest' = [newest EXCEPT ![s] = 0]
    /\ upserts' = [upserts EXCEPT ![s] = {}]
    /\ todo' = [todo EXCEPT ![s] = {}]
    /\ current' = [current EXCEPT ![s] = {}]
    /\ found' = [found EXCEPT ![s] = FALSE]

\* Bug: the cursor is taken when the sync completes.
CompleteWithNewest(s) ==
    /\ pc[s] = "marking" /\ todo[s] = {}
    /\ \E m \in {mtime[f] : f \in Files} :
          /\ \A f \in Files : mtime[f] <= m
          /\ last' = IF rank[s] > last.rank THEN [rank |-> rank[s], cursor |-> m] ELSE last
    /\ Forget(s)
    /\ UNCHANGED <<source, rows, created>>

\* The previous sync is the completed one that was created last, whichever
\* completed last.
Complete(s) ==
    /\ pc[s] = "marking" /\ todo[s] = {}
    /\ last' = IF rank[s] > last.rank THEN [rank |-> rank[s], cursor |-> cursor[s]] ELSE last
    /\ Forget(s)
    /\ UNCHANGED <<source, rows, created>>

\* The source cannot be read, a file is gone that was named, a statement
\* fails, or the process ends; the row of the sync stays as it is, running.
SyncEnds(s) ==
    /\ \/ "sourceError" \in faults /\ pc[s] \in {"listing", "stating", "reading"}
       \/ pc[s] \in {"stating", "reading"} /\ \E f \in todo[s] : mtime[f] = 0
       \/ "dbError" \in faults /\ pc[s] \in {"created", "upserting", "marking", "archive"}
       \/ "crash" \in faults /\ pc[s] # "idle"
    /\ Forget(s)
    /\ UNCHANGED <<source, rows, ledger>>

RunSync(s) ==
    \/ CreateSync(s) \/ ReadCursor(s) \/ ReadDirectory(s) \/ Stat(s) \/ BeginReading(s) \/ ReadFile(s)
    \/ EndListing(s) \/ BeginUpsert(s) \/ CommitUpsert(s) \/ UpsertFails(s) \/ SelectKnown(s) \/ MarkDeleted(s)
    \/ ArchiveDocument(s) \/ Complete(s)

Next ==
    \/ \E f \in Files : WriteFile(f) \/ RemoveFile(f)
    \/ \E s \in Syncs : RunSync(s) \/ SyncEnds(s)

Spec == Init /\ [][Next]_vars

-----------------------------------------------------------------------------
\* The variables hold values of their columns, and a call has a file at hand
\* exactly inside an item.
TypeOK ==
    /\ mtime \in [Files -> 0..WriteBound]
    /\ writes \in 0..WriteBound
    /\ removed \subseteq Files
    /\ missed \subseteq Files
    /\ faults \in Settings
    /\ documents \in [Files -> Nat]
    /\ ready \in [Files -> BOOLEAN]
    /\ mapped \in [Files -> BOOLEAN]
    /\ deleted \in [Files -> BOOLEAN]
    /\ created \in 0..SyncBound
    /\ last \in [rank : 0..SyncBound, cursor : 0..WriteBound]
    /\ pc \in [Syncs -> Phases]
    /\ rank \in [Syncs -> 0..SyncBound]
    /\ cursor \in [Syncs -> 0..WriteBound]
    /\ newest \in [Syncs -> 0..WriteBound]
    /\ upserts \in [Syncs -> SUBSET Files]
    /\ todo \in [Syncs -> SUBSET Files]
    /\ current \in [Syncs -> SUBSET Files]
    /\ found \in [Syncs -> BOOLEAN]
    /\ \A s \in Syncs : current[s] # {} <=> pc[s] \in {"upsert", "archive"}

\* However many syncs overlap and whatever fails, a file has one document:
\* "no duplicate documents on re-sync" (tests/connector.test.ts 42).
NoDuplicates == \A f \in Files : documents[f] <= 1

\* The cursor passes a file that has no document only when an item failed,
\* or when the file was last written while a listing was under way that was
\* not to look at it any more: what a sync lists next leaves out only that
\* and what was synced (connector.ts 44-57, 108-111).
CursorCovers ==
    "itemError" \notin faults => \A f \in Files : mtime[f] \in 1..last.cursor => mapped[f] \/ f \in missed

\* A resource that is marked deleted has its document archived, or a sync is
\* about to archive it, unless that sync ends between its two statements
\* (connector.ts 151, 158).
DeletedMeansArchived ==
    faults \cap {"crash", "dbError"} = {} =>
        \A f \in Files : deleted[f] => \/ ~ready[f]
                                       \/ \E s \in Syncs : pc[s] = "archive" /\ f \in current[s]

\* Only what was removed from the source is archived: "previously synced
\* resources absent upstream are archived" (connector.ts 151).
ArchivedWasAbsent == \A f \in Files : mapped[f] /\ ~ready[f] => f \in removed
=============================================================================
