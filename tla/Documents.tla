----------------------------- MODULE Documents -----------------------------
(***************************************************************************)
(* The life of a document: upload (store.ts), the indexing and embedding   *)
(* processors (indexing.ts), the embedding backfill (search.ts) and the    *)
(* archive and restore actions (actions.ts), which share the rows of       *)
(* documents, document_chunks, document_embeddings and                     *)
(* document_processing_jobs and run concurrently.                          *)
(*                                                                         *)
(* The queue is used through its promise, module WorkQueue, which JobQueue *)
(* implements.  A processor is one READ COMMITTED transaction: what it     *)
(* reads at its start may be stale when its writes commit, so each has a   *)
(* fetch step and a commit step.                                           *)
(*                                                                         *)
(* Indexing replaces all chunks of a version, so the chunks are a          *)
(* generation number and the parts of the text, of which there are none if *)
(* it is page markers only; the embeddings of a generation go with it (ON  *)
(* DELETE CASCADE).                                                        *)
(***************************************************************************)
EXTENDS Naturals, FiniteSets

CONSTANTS
    Docs,
    Parts,
    Texts,        \* the sets of parts a text may be divided into as chunks
    EmbedLimit,   \* LIMIT of the embedding processor's SELECT (256)
    JobAttempts,  \* the queue's attempts for a job
    DocumentSettings   \* the combinations of faults and requests considered

\* noVector: the database has no embedding_vector column, or one of another
\* dimension than the provider's vectors.
DocumentFaults == {"unreadable", "providerGap", "lostAck", "noVector"}
RequestKinds == {"archive", "restore", "backfill"}

ASSUME PartsAssumption == IsFiniteSet(Parts) /\ Texts \subseteq SUBSET Parts
ASSUME LimitAssumption == EmbedLimit \in Nat \ {0} /\ JobAttempts \in Nat \ {0}
ASSUME DocumentAssumption == DocumentSettings \subseteq SUBSET (DocumentFaults \cup RequestKinds)

VARIABLES
    text,        \* the chunks of each document's text, which is never changed
    docStatus,   \* documents.status
    deleted,     \* documents.deleted_at IS NOT NULL
    gen,         \* which indexing run wrote the chunks; 0 for no chunks
    embedded,    \* the parts that have an embedding for the active model
    jobStatus,   \* document_processing_jobs.status, by job
    attempts,    \* document_processing_jobs.attempt_count, by job
    phase,       \* how far the delivery of a job has come
    view,        \* the chunks an embedding run has fetched
    todo,        \* documents a backfill request selected and has yet to queue
    may          \* what may go wrong and what users may ask for in this behaviour

docRows == <<docStatus, deleted>>
chunkRows == <<gen, embedded>>
runs == <<phase, view>>
documentVars == <<text, docStatus, deleted, gen, embedded, jobStatus, attempts, phase, view, todo, may>>

(* A job is named by the kind of its idempotency key and its document:     *)
(* ingest:doc:1, embed:doc:version:model and embed-backfill:doc:model.     *)
Kinds == {"ingest", "embed", "backfill"}
DocumentJobs == Kinds \X Docs
EmbeddingJobs == {"embed", "backfill"} \X Docs

DocStatus == {"absent", "processing", "ready", "review", "failed", "archived"}
RunPhase == {"none", "fetched", "done", "threw"}
NoView == [gen |-> 0, parts |-> {}]

Promise == INSTANCE WorkQueue WITH
    Jobs <- DocumentJobs, MaxAttempts <- JobAttempts, status <- jobStatus, attempt <- attempts

DocumentInit ==
    /\ text \in [Docs -> Texts]
    /\ docStatus = [d \in Docs |-> "absent"]
    /\ deleted = [d \in Docs |-> FALSE]
    /\ gen = [d \in Docs |-> 0]
    /\ embedded = [d \in Docs |-> {}]
    /\ Promise!AbsInit
    /\ phase = [j \in DocumentJobs |-> "none"]
    /\ view = [j \in DocumentJobs |-> NoView]
    /\ todo = {}
    /\ may \in DocumentSettings

\* Bug: a job is stored with a status no worker looks for.
EnqueueNew(j) ==
    /\ jobStatus' = [jobStatus EXCEPT ![j] = IF @ = "absent" THEN "new" ELSE @]
    /\ UNCHANGED attempts

\* INSERT ... ON CONFLICT: a job that is there keeps its status.
EnqueueJob(j) ==
    /\ jobStatus' = [jobStatus EXCEPT ![j] = IF @ = "absent" THEN "queued" ELSE @]
    /\ UNCHANGED attempts

Missing(d) == IF gen[d] = 0 THEN {} ELSE text[d] \ embedded[d]

-----------------------------------------------------------------------------
(* Users: createDocument, archive_document, restore_document               *)

CreateDocument(d) ==
    /\ docStatus[d] = "absent"
    /\ docStatus' = [docStatus EXCEPT ![d] = "processing"]
    /\ EnqueueJob(<<"ingest", d>>)
    /\ UNCHANGED <<deleted, chunkRows, runs, todo, may, text>>

ArchiveDocument(d) ==
    /\ "archive" \in may /\ docStatus[d] # "absent"
    /\ docStatus' = [docStatus EXCEPT ![d] = "archived"]
    /\ deleted' = [deleted EXCEPT ![d] = TRUE]
    /\ UNCHANGED <<chunkRows, jobStatus, attempts, runs, todo, may, text>>

RestoreDocument(d) ==
    /\ "restore" \in may /\ docStatus[d] # "absent"
    /\ docStatus' = [docStatus EXCEPT ![d] = "ready"]
    /\ deleted' = [deleted EXCEPT ![d] = FALSE]
    /\ UNCHANGED <<chunkRows, jobStatus, attempts, runs, todo, may, text>>

-----------------------------------------------------------------------------
(* The worker: delivery of a job and its end                               *)

Deliver(j) ==
    /\ Promise!Deliver({j})
    /\ UNCHANGED <<docRows, chunkRows, runs, todo, may, text>>

Settle(j) ==
    \/ phase[j] = "done" /\ Promise!Acknowledge(j)
    \/ phase[j] = "threw" /\ (Promise!Retry(j) \/ Promise!Bury(j))

Finish(j) ==
    /\ Settle(j)
    /\ phase' = [phase EXCEPT ![j] = "none"]
    /\ view' = [view EXCEPT ![j] = NoView]
    /\ UNCHANGED <<docRows, chunkRows, todo, may, text>>

Running(j) == jobStatus[j] = "processing" /\ phase[j] = "none"

Throws(j) ==
    /\ phase' = [phase EXCEPT ![j] = "threw"]
    /\ UNCHANGED <<docRows, chunkRows, jobStatus, attempts, view, todo, may, text>>

\* COMMIT was applied; the client may see it fail.
Ends(j) == \E p \in {"done"} \cup (IF "lostAck" \in may THEN {"threw"} ELSE {}) :
              phase' = [phase EXCEPT ![j] = p]

-----------------------------------------------------------------------------
(* createIndexingProcessor                                                 *)

\* Bug: a document that is not found ends the run without an error.
IndexFetchSilent(d) ==
    LET j == <<"ingest", d>> IN
    /\ Running(j)
    /\ phase' = [phase EXCEPT ![j] = IF deleted[d] THEN "done" ELSE "fetched"]
    /\ UNCHANGED <<docRows, chunkRows, jobStatus, attempts, view, todo, may, text>>

IndexFetch(d) ==
    LET j == <<"ingest", d>> IN
    /\ Running(j)
    /\ phase' = [phase EXCEPT ![j] = IF deleted[d] THEN "threw" ELSE "fetched"]
    /\ UNCHANGED <<docRows, chunkRows, jobStatus, attempts, view, todo, may, text>>

\* Bug: the status is written by a statement that survives the ROLLBACK.
IndexThrowsReady(d) ==
    LET j == <<"ingest", d>> IN
    /\ "unreadable" \in may /\ phase[j] = "fetched"
    /\ docStatus' = [docStatus EXCEPT ![d] = "ready"]
    /\ phase' = [phase EXCEPT ![j] = "threw"]
    /\ UNCHANGED <<deleted, chunkRows, jobStatus, attempts, view, todo, may, text>>

\* Storage, extraction, OCR or chunking fails, or there is no text: ROLLBACK.
IndexThrows(d) ==
    LET j == <<"ingest", d>> IN
    /\ "unreadable" \in may /\ phase[j] = "fetched"
    /\ Throws(j)

\* Bug: the INSERT of the embedding job is outside the transaction and lost.
IndexCommitNoHandOff(d) ==
    LET j == <<"ingest", d>> IN
    /\ phase[j] = "fetched"
    /\ gen' = [gen EXCEPT ![d] = @ + 1]
    /\ embedded' = [embedded EXCEPT ![d] = {}]
    /\ docStatus' = [docStatus EXCEPT ![d] = "ready"]
    /\ Ends(j)
    /\ UNCHANGED <<deleted, jobStatus, attempts, view, todo, may, text>>

\* Old chunks out, new chunks in, status ready whatever it is by now, and
\* the embedding job.
IndexCommit(d) ==
    LET j == <<"ingest", d>> IN
    /\ phase[j] = "fetched"
    /\ gen' = [gen EXCEPT ![d] = @ + 1]
    /\ embedded' = [embedded EXCEPT ![d] = {}]
    /\ docStatus' = [docStatus EXCEPT ![d] = "ready"]
    /\ EnqueueJob(<<"embed", d>>)
    /\ Ends(j)
    /\ UNCHANGED <<deleted, view, todo, may, text>>

-----------------------------------------------------------------------------
(* createEmbeddingProcessor                                                *)

\* Up to EmbedLimit chunks without an embedding; with none the run is over.
EmbedFetch(j) ==
    LET d == j[2] IN
    /\ Running(j)
    /\ \E picked \in SUBSET Missing(d) :
          /\ \/ Cardinality(picked) = EmbedLimit
             \/ picked = Missing(d) /\ Cardinality(picked) < EmbedLimit
          /\ view' = [view EXCEPT ![j] = [gen |-> gen[d], parts |-> picked]]
          /\ phase' = [phase EXCEPT ![j] = IF picked = {} THEN "done" ELSE "fetched"]
    /\ UNCHANGED <<docRows, chunkRows, jobStatus, attempts, todo, may, text>>

\* Vectors that embedBatch did not return are skipped.
Vectors(parts) == IF "providerGap" \in may THEN SUBSET parts ELSE {parts}

\* Without the column the first vector's UPDATE aborts the transaction, and
\* so does the INSERT of a vector for a chunk that was replaced since.
EmbedCommit(j) ==
    LET d == j[2] IN
    /\ phase[j] = "fetched"
    /\ \E got \in Vectors(view[j].parts) :
          /\ view[j].gen # gen[d] \/ "noVector" \in may => got = {}
          /\ embedded' = [embedded EXCEPT ![d] = @ \cup got]
    /\ Ends(j)
    /\ UNCHANGED <<docRows, gen, jobStatus, attempts, view, todo, may, text>>

\* The chunks were replaced since, and the foreign key fails; or the column
\* is missing: the error of the UPDATE is caught, and the next statement of
\* the aborted transaction throws.
EmbedThrows(j) ==
    /\ phase[j] = "fetched"
    /\ view[j].gen # gen[j[2]] \/ "noVector" \in may
    /\ Throws(j)

-----------------------------------------------------------------------------
(* queueEmbeddingBackfill: one SELECT, then one INSERT per document        *)

\* Bug: the queries test the status and not deleted_at.
VisibleByStatus(d) == docStatus[d] = "ready"

\* What search and the backfill call a live document.
Visible(d) == docStatus[d] = "ready" /\ ~deleted[d]

BackfillSelect ==
    /\ "backfill" \in may /\ todo = {}
    /\ todo' = {d \in Docs : /\ Visible(d) /\ Missing(d) # {}
                             /\ \A j \in EmbeddingJobs :
                                   j[2] = d => jobStatus[j] \notin {"queued", "processing"}}
    /\ todo' # {}
    /\ UNCHANGED <<docRows, chunkRows, jobStatus, attempts, runs, may, text>>

BackfillInsert(d) ==
    /\ d \in todo
    /\ EnqueueJob(<<"backfill", d>>)
    /\ todo' = todo \ {d}
    /\ UNCHANGED <<docRows, chunkRows, runs, may, text>>

-----------------------------------------------------------------------------
IndexRun(d) == IndexFetch(d) \/ IndexThrows(d) \/ IndexCommit(d)
EmbedRun(j) == EmbedFetch(j) \/ EmbedCommit(j) \/ EmbedThrows(j)

DocumentNext ==
    \/ BackfillSelect
    \/ \E d \in Docs : \/ CreateDocument(d) \/ ArchiveDocument(d) \/ RestoreDocument(d)
                       \/ IndexRun(d) \/ BackfillInsert(d)
    \/ \E j \in DocumentJobs : Deliver(j) \/ Finish(j)
    \/ \E j \in EmbeddingJobs : EmbedRun(j)

DocumentSpec == DocumentInit /\ [][DocumentNext]_documentVars

(* Running workers poll and finish what they claim (worker.ts 61-96).      *)
Fairness ==
    /\ \A j \in DocumentJobs : WF_documentVars(Deliver(j)) /\ WF_documentVars(Finish(j))
    /\ \A d \in Docs : WF_documentVars(IndexRun(d))
    /\ \A j \in EmbeddingJobs : WF_documentVars(EmbedRun(j))

FairDocumentSpec == DocumentSpec /\ Fairness

-----------------------------------------------------------------------------
(* Properties                                                              *)

\* The variables hold values of their columns; a fetched view is of chunks
\* that exist or have existed.
DocumentTypeOK ==
    /\ text \in [Docs -> Texts]
    /\ docStatus \in [Docs -> DocStatus]
    /\ deleted \in [Docs -> BOOLEAN]
    /\ gen \in [Docs -> Nat]
    /\ embedded \in [Docs -> SUBSET Parts]
    /\ jobStatus \in [DocumentJobs -> {"absent", "queued", "processing", "completed", "dead_letter"}]
    /\ attempts \in [DocumentJobs -> 0..JobAttempts]
    /\ phase \in [DocumentJobs -> RunPhase]
    /\ view \in [DocumentJobs -> [gen : Nat, parts : SUBSET Parts]]
    /\ todo \subseteq Docs
    /\ may \in DocumentSettings

\* A document that the system calls ready has been indexed: an indexing run
\* of it has committed, and what the chunker makes of its text is there for
\* search and answers to cite, which is nothing if the text is page markers
\* only (indexing.ts 58-70). The restore action tests nothing and is left out.
NeverFalselyReady ==
    "restore" \notin may => \A d \in Docs : docStatus[d] = "ready" => gen[d] > 0

\* A document that could not be read within the attempts of its job, and
\* has no chunks, is not ready, whatever users do (P1_COMPLETION_REPORT.md).
FailedNeverReady ==
    \A d \in Docs :
        (jobStatus[<<"ingest", d>>] = "dead_letter" /\ gen[d] = 0) => docStatus[d] # "ready"

\* Once archived, a document is out of search until somebody restores it,
\* also when an indexing run that began before the archive ends after it.
ArchivedStaysHidden ==
    [][\A d \in Docs : (deleted[d] /\ Visible(d)') => RestoreDocument(d)]_documentVars

\* A chunk without an embedding is owed one: the job that indexing queued is
\* waiting or running. Otherwise that job is in the dead letters, where it
\* can be only if the vector column is missing or an answer was lost; or it
\* is completed, and then it had filled its limit, the provider left a vector
\* out, or the document was indexed again after a lost answer (indexing.ts
\* 62-141).
GapsAreOwed ==
    \A d \in Docs : Missing(d) # {} =>
        LET job == jobStatus[<<"embed", d>>] IN
        \/ job \in {"queued", "processing"}
        \/ job = "dead_letter" /\ may \cap {"noVector", "lostAck"} # {}
        \/ /\ job = "completed"
           /\ Cardinality(embedded[d]) >= EmbedLimit \/ "providerGap" \in may \/ gen[d] > 1

\* No commit answer is lost and the provider returns every vector.
Dependable == may \cap {"lostAck", "providerGap"} = {}

\* Whatever users archive and restore meanwhile, an uploaded document ends
\* with an embedding for every chunk, or for as many as one job takes; or with
\* a job in the dead letters where an operator finds it, which is the
\* embedding job only if the vector column is missing.
UploadsSettle ==
    Dependable =>
        \A d \in Docs : (docStatus[d] # "absent") ~>
            \/ gen[d] > 0 /\ (Missing(d) = {} \/ Cardinality(embedded[d]) >= EmbedLimit)
            \/ jobStatus[<<"ingest", d>>] = "dead_letter"
            \/ "noVector" \in may /\ jobStatus[<<"embed", d>>] = "dead_letter"

=============================================================================
