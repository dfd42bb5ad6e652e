--------------------------- MODULE JobQueueProofs ---------------------------
(***************************************************************************)
(* Proofs about documents and about the durable queue that delivers their  *)
(* jobs, for every set of documents, chunks, jobs and workers, every       *)
(* attempt and batch limit and every combination of faults.                *)
(*                                                                         *)
(* Documents uses the queue through its promise, WorkQueue, and JobQueue   *)
(* implements that promise (Refinement).                                   *)
(*                                                                         *)
(* Documents: ReadyInv says what a ready document has, GapInv what the     *)
(* embedding job of a document has fetched and leaves.                     *)
(*                                                                         *)
(* The queue: each action preserves IInv in four groups of conjuncts: what *)
(* a worker's phase says of its memory, who owns a job, what the rows may  *)
(* hold, and how often a processor's work was committed.                   *)
(***************************************************************************)
EXTENDS JobQueue, Documents, FiniteSetTheorems, TLAPS

-----------------------------------------------------------------------------
\* Documents.

\* Only a job that is processing is at some point of a run.
RunsInv == \A j \in DocumentJobs : phase[j] # "none" => jobStatus[j] = "processing"

\* The embedding job of a document is there once it is indexed, which without
\* lost answers it is once. Of that first indexing, what the job has fetched
\* fills its limit or covers every gap, and so does what it leaves, unless a
\* vector was left out.
Ingest(d) == <<"ingest", d>>
Embed(d) == <<"embed", d>>
Filled(d) == Missing(d) = {} \/ Cardinality(embedded[d]) >= EmbedLimit
Covers(d, parts) == Missing(d) \subseteq parts \/ Cardinality(parts) >= EmbedLimit
IndexedOnce(d) ==
    /\ gen[d] \in {0, 1}
    /\ gen[d] = 1 => \/ jobStatus[Ingest(d)] = "completed"
                     \/ jobStatus[Ingest(d)] = "processing" /\ phase[Ingest(d)] = "done"
GapsOf(d) ==
    /\ "lostAck" \notin may => IndexedOnce(d)
    /\ gen[d] = 0 <=> jobStatus[Embed(d)] = "absent"
    /\ phase[Embed(d)] = "threw" \/ jobStatus[Embed(d)] = "dead_letter" => may \cap {"noVector", "lostAck"} # {}
    /\ phase[Embed(d)] = "fetched" => view[Embed(d)].gen \in 1..gen[d]
    /\ phase[Embed(d)] = "fetched" /\ gen[d] = 1 => Covers(d, view[Embed(d)].parts)
    /\ (phase[Embed(d)] = "done" \/ jobStatus[Embed(d)] = "completed") /\ gen[d] = 1 =>
           "providerGap" \in may \/ Filled(d)

GapInv == \A d \in Docs : GapsOf(d)

ReadyInv == "restore" \notin may => \A d \in Docs : docStatus[d] = "ready" => gen[d] > 0

LEMMA JobNames ==
    /\ \A d \in Docs : Ingest(d) \in DocumentJobs /\ Embed(d) \in DocumentJobs /\ <<"backfill", d>> \in DocumentJobs
    /\ \A j \in EmbeddingJobs : j \in DocumentJobs /\ j[2] \in Docs /\ j \in {Embed(j[2]), <<"backfill", j[2]>>}
    /\ \A d, e \in Docs : /\ Ingest(d) # Embed(e) /\ Ingest(d) # <<"backfill", e>> /\ Embed(d) # <<"backfill", e>>
                          /\ d # e => Ingest(d) # Ingest(e) /\ Embed(d) # Embed(e)
BY DEF DocumentJobs, EmbeddingJobs, Kinds, Ingest, Embed

JobStates == {"absent", "queued", "processing", "completed", "dead_letter"}

LEMMA TypeStart == DocumentInit => DocumentTypeOK
BY LimitAssumption DEF DocumentInit, DocumentTypeOK, DocStatus, RunPhase, NoView, Promise!AbsInit

LEMMA TypeStep == DocumentTypeOK /\ [DocumentNext]_documentVars => DocumentTypeOK'
<1> SUFFICES ASSUME DocumentTypeOK, [DocumentNext]_documentVars PROVE DocumentTypeOK' OBVIOUS
<1> USE DEF DocumentTypeOK
<1>1. CASE BackfillSelect BY <1>1 DEF BackfillSelect, docRows, chunkRows, runs
<1>2. ASSUME NEW d \in Docs, CreateDocument(d) PROVE DocumentTypeOK'
      BY <1>2, JobNames DEF CreateDocument, chunkRows, runs, EnqueueJob, DocStatus, Ingest
<1>3. ASSUME NEW d \in Docs, ArchiveDocument(d) \/ RestoreDocument(d) PROVE DocumentTypeOK'
      BY <1>3 DEF ArchiveDocument, RestoreDocument, chunkRows, runs, DocStatus
<1>4. ASSUME NEW d \in Docs, IndexRun(d) PROVE DocumentTypeOK'
  <2>1. CASE IndexFetch(d) BY <2>1 DEF IndexFetch, docRows, chunkRows, RunPhase
  <2>2. CASE IndexThrows(d) BY <2>2 DEF IndexThrows, Throws, docRows, chunkRows, RunPhase
  <2>3. CASE IndexCommit(d)
    <3>1. \E p \in RunPhase : phase' = [phase EXCEPT ![<<"ingest", d>>] = p] BY <2>3 DEF IndexCommit, Ends, RunPhase
    <3>2. phase' \in [DocumentJobs -> RunPhase] BY <3>1
    <3>3. gen' \in [Docs -> Nat] /\ embedded' \in [Docs -> SUBSET Parts] /\ docStatus' \in [Docs -> DocStatus]
          BY <2>3 DEF IndexCommit, DocStatus
    <3>4. jobStatus' \in [DocumentJobs -> JobStates] /\ UNCHANGED <<attempts, deleted, view, todo, may, text>>
          BY <2>3 DEF IndexCommit, EnqueueJob, JobStates
    <3> QED BY <3>2, <3>3, <3>4 DEF JobStates
  <2> QED BY <1>4, <2>1, <2>2, <2>3 DEF IndexRun
<1>5. ASSUME NEW d \in Docs, BackfillInsert(d) PROVE DocumentTypeOK'
      BY <1>5 DEF BackfillInsert, EnqueueJob, docRows, chunkRows, runs
<1>6. ASSUME NEW j \in DocumentJobs, Deliver(j) PROVE DocumentTypeOK'
  <2>1. /\ attempts[j] < JobAttempts /\ UNCHANGED <<docRows, chunkRows, runs, todo, may, text>>
        /\ jobStatus' = [k \in DocumentJobs |-> IF k \in {j} THEN "processing" ELSE jobStatus[k]]
        /\ attempts' = [k \in DocumentJobs |-> IF k \in {j} THEN attempts[k] + 1 ELSE attempts[k]]
        BY <1>6 DEF Deliver, Promise!Deliver
  <2>2. attempts[j] + 1 \in 0..JobAttempts BY <2>1, LimitAssumption
  <2>3. attempts' \in [DocumentJobs -> 0..JobAttempts] BY <2>1, <2>2
  <2> QED BY <2>1, <2>3 DEF docRows, chunkRows, runs
<1>7. ASSUME NEW j \in DocumentJobs, Finish(j) PROVE DocumentTypeOK'
  <2>1. NoView \in [gen : Nat, parts : SUBSET Parts] BY DEF NoView
  <2>2. UNCHANGED attempts /\ jobStatus' \in [DocumentJobs -> JobStates]
        BY <1>7 DEF Finish, Settle, Promise!Acknowledge, Promise!Retry, Promise!Bury, JobStates
  <2> QED BY <1>7, <2>1, <2>2 DEF Finish, docRows, chunkRows, RunPhase, JobStates
<1>8. ASSUME NEW j \in EmbeddingJobs, EmbedRun(j) PROVE DocumentTypeOK'
  <2>1. j \in DocumentJobs /\ j[2] \in Docs BY JobNames
  <2>2. CASE EmbedFetch(j)
    <3>1. PICK picked \in SUBSET Missing(j[2]) :
              /\ view' = [view EXCEPT ![j] = [gen |-> gen[j[2]], parts |-> picked]]
              /\ phase' = [phase EXCEPT ![j] = IF picked = {} THEN "done" ELSE "fetched"]
          BY <2>2 DEF EmbedFetch
    <3>2. picked \subseteq Parts BY <2>1, PartsAssumption DEF Missing
    <3>3. [gen |-> gen[j[2]], parts |-> picked] \in [gen : Nat, parts : SUBSET Parts] BY <2>1, <3>2
    <3>4. view' \in [DocumentJobs -> [gen : Nat, parts : SUBSET Parts]] BY <3>1, <3>3
    <3>5. phase' \in [DocumentJobs -> RunPhase] BY <3>1 DEF RunPhase
    <3> QED BY <2>2, <3>4, <3>5 DEF EmbedFetch, docRows, chunkRows
  <2>3. CASE EmbedCommit(j)
    <3>1. PICK got \in Vectors(view[j].parts) : embedded' = [embedded EXCEPT ![j[2]] = @ \cup got]
          BY <2>3 DEF EmbedCommit
    <3>2. got \subseteq Parts BY <2>1 DEF Vectors
    <3>3. \E p \in RunPhase : phase' = [phase EXCEPT ![j] = p] BY <2>3 DEF EmbedCommit, Ends, RunPhase
    <3>4. phase' \in [DocumentJobs -> RunPhase] BY <3>3
    <3>5. embedded' \in [Docs -> SUBSET Parts] BY <2>1, <3>1, <3>2
    <3> QED BY <2>3, <3>4, <3>5 DEF EmbedCommit, docRows
  <2>4. CASE EmbedThrows(j) BY <2>4 DEF EmbedThrows, Throws, docRows, chunkRows, RunPhase
  <2> QED BY <1>8, <2>2, <2>3, <2>4 DEF EmbedRun
<1>9. CASE UNCHANGED documentVars BY <1>9 DEF documentVars
<1> QED BY <1>1, <1>2, <1>3, <1>4, <1>5, <1>6, <1>7, <1>8, <1>9 DEF DocumentNext

LEMMA TypeAlways == DocumentSpec => []DocumentTypeOK
<1> QED BY TypeStart, TypeStep, PTL DEF DocumentSpec

-----------------------------------------------------------------------------
LEMMA RunsStep == DocumentTypeOK /\ RunsInv /\ [DocumentNext]_documentVars => RunsInv'
<1> SUFFICES ASSUME DocumentTypeOK, RunsInv, [DocumentNext]_documentVars PROVE RunsInv' OBVIOUS
<1> USE DEF RunsInv
\* No run begins but of a job that is processing, and statuses are added.
<1>0. ASSUME NEW j \in DocumentJobs, NEW p, phase[j] # "none" \/ Running(j), phase' = [phase EXCEPT ![j] = p],
             \A k \in DocumentJobs : jobStatus[k] = "processing" => jobStatus'[k] = "processing"
      PROVE  RunsInv'
      BY <1>0 DEF Running, DocumentTypeOK
<1>1. CASE BackfillSelect BY <1>1 DEF BackfillSelect, runs
<1>2. ASSUME NEW d \in Docs, CreateDocument(d) PROVE RunsInv' BY <1>2 DEF CreateDocument, runs, EnqueueJob, DocumentTypeOK
<1>3. ASSUME NEW d \in Docs, ArchiveDocument(d) \/ RestoreDocument(d) PROVE RunsInv'
      BY <1>3 DEF ArchiveDocument, RestoreDocument, runs
<1>4. ASSUME NEW d \in Docs, IndexRun(d) PROVE RunsInv'
  <2> DEFINE j == <<"ingest", d>>
  <2>0. j \in DocumentJobs BY JobNames DEF Ingest
  <2> HIDE DEF j
  <2>1. CASE IndexFetch(d)
    <3>1. Running(j) /\ UNCHANGED jobStatus /\ \E p : phase' = [phase EXCEPT ![j] = p] BY <2>1 DEF IndexFetch, j
    <3> QED BY <1>0, <2>0, <3>1
  <2>2. CASE IndexThrows(d)
    <3>1. phase[j] # "none" /\ UNCHANGED jobStatus /\ \E p : phase' = [phase EXCEPT ![j] = p]
          BY <2>2 DEF IndexThrows, Throws, j
    <3> QED BY <1>0, <2>0, <3>1
  <2>3. CASE IndexCommit(d)
    <3>1. phase[j] # "none" /\ \E p : phase' = [phase EXCEPT ![j] = p] BY <2>3 DEF IndexCommit, Ends, j
    <3>2. \A k \in DocumentJobs : jobStatus[k] = "processing" => jobStatus'[k] = "processing"
          BY <2>3 DEF IndexCommit, EnqueueJob, DocumentTypeOK
    <3> QED BY <1>0, <2>0, <3>1, <3>2
  <2> QED BY <1>4, <2>1, <2>2, <2>3 DEF IndexRun
<1>5. ASSUME NEW d \in Docs, BackfillInsert(d) PROVE RunsInv' BY <1>5 DEF BackfillInsert, runs, EnqueueJob, DocumentTypeOK
<1>6. ASSUME NEW j \in DocumentJobs, Deliver(j) PROVE RunsInv' BY <1>6 DEF Deliver, runs, Promise!Deliver
<1>7. ASSUME NEW j \in DocumentJobs, Finish(j) PROVE RunsInv'
  <2>1. \A k \in DocumentJobs \ {j} : jobStatus'[k] = jobStatus[k]
        BY <1>7 DEF Finish, Settle, Promise!Acknowledge, Promise!Retry, Promise!Bury, DocumentTypeOK
  <2> QED BY <1>7, <2>1 DEF Finish, DocumentTypeOK
<1>8. ASSUME NEW j \in EmbeddingJobs, EmbedRun(j) PROVE RunsInv'
  <2>0. j \in DocumentJobs BY JobNames
  <2>1. UNCHANGED jobStatus /\ (phase[j] # "none" \/ Running(j)) /\ \E p : phase' = [phase EXCEPT ![j] = p]
        BY <1>8 DEF EmbedRun, EmbedFetch, EmbedCommit, EmbedThrows, Throws, Ends
  <2> QED BY <1>0, <2>0, <2>1
<1>9. CASE UNCHANGED documentVars BY <1>9 DEF documentVars
<1> QED BY <1>1, <1>2, <1>3, <1>4, <1>5, <1>6, <1>7, <1>8, <1>9 DEF DocumentNext

\* An indexed document stays indexed, and nothing but indexing and restoring
\* makes a document ready.
LEMMA ReadyStep == DocumentTypeOK /\ ReadyInv /\ [DocumentNext]_documentVars => ReadyInv'
<1> SUFFICES ASSUME DocumentTypeOK, ReadyInv, [DocumentNext]_documentVars PROVE ReadyInv' OBVIOUS
<1>0. UNCHANGED may
      BY DEF DocumentNext, BackfillSelect, CreateDocument, ArchiveDocument, RestoreDocument, IndexRun, IndexFetch,
             IndexThrows, IndexCommit, Throws, BackfillInsert, Deliver, Finish, EmbedRun, EmbedFetch, EmbedCommit,
             EmbedThrows, documentVars
<1> SUFFICES ASSUME "restore" \notin may PROVE \A d \in Docs : docStatus'[d] = "ready" => gen'[d] > 0
    BY <1>0 DEF ReadyInv
<1>1. \A d \in Docs : gen[d] \in Nat /\ (docStatus[d] = "ready" => gen[d] > 0) BY DEF ReadyInv, DocumentTypeOK
<1>2. CASE UNCHANGED <<docStatus, gen>> BY <1>1, <1>2
<1>3. ASSUME NEW d \in Docs, IndexCommit(d) PROVE \A e \in Docs : docStatus'[e] = "ready" => gen'[e] > 0
      BY <1>1, <1>3 DEF IndexCommit, DocumentTypeOK
<1>4. ASSUME NEW d \in Docs, CreateDocument(d) \/ ArchiveDocument(d)
      PROVE  \A e \in Docs : docStatus'[e] = "ready" => gen'[e] > 0
      BY <1>1, <1>4 DEF CreateDocument, ArchiveDocument, chunkRows, DocumentTypeOK
<1>5. \/ UNCHANGED <<docStatus, gen>>
      \/ \E d \in Docs : IndexCommit(d) \/ CreateDocument(d) \/ ArchiveDocument(d)
      BY DEF DocumentNext, BackfillSelect, RestoreDocument, IndexRun, IndexFetch, IndexThrows, Throws, BackfillInsert,
             Deliver, Finish, EmbedRun, EmbedFetch, EmbedCommit, EmbedThrows, documentVars, docRows, chunkRows
<1> QED BY <1>2, <1>3, <1>4, <1>5

\* For any texts and runs that overlap archives and backfills, and any fault,
\* a ready document has been indexed by a run that committed, unless users
\* restore (indexing.ts 62-81).
THEOREM ReadyIsIndexed == DocumentSpec => []NeverFalselyReady
<1>1. DocumentInit => ReadyInv BY DEF DocumentInit, ReadyInv
<1>2. ReadyInv => NeverFalselyReady BY DEF ReadyInv, NeverFalselyReady
<1> QED BY <1>1, <1>2, ReadyStep, TypeAlways, PTL DEF DocumentSpec

\* Whatever runs overlap an archive, a document that is deleted comes back
\* into sight by a restore of that document alone (indexing.ts 70, actions.ts
\* 96-118).
THEOREM ArchivedIsHidden == DocumentSpec => ArchivedStaysHidden
<1>1. ASSUME DocumentTypeOK, [DocumentNext]_documentVars
      PROVE  [\A d \in Docs : (deleted[d] /\ Visible(d)') => RestoreDocument(d)]_documentVars
  <2> SUFFICES ASSUME DocumentNext, NEW d \in Docs, deleted[d], Visible(d)' PROVE RestoreDocument(d) BY <1>1
  <2>1. ~deleted'[d] BY DEF Visible
  <2>2. \/ UNCHANGED deleted \/ \E e \in Docs : ArchiveDocument(e) \/ RestoreDocument(e)
        BY DEF DocumentNext, BackfillSelect, CreateDocument, IndexRun, IndexFetch, IndexThrows, IndexCommit, Throws,
               BackfillInsert, Deliver, Finish, EmbedRun, EmbedFetch, EmbedCommit, EmbedThrows, docRows
  <2>3. PICK e \in Docs : ArchiveDocument(e) \/ RestoreDocument(e) BY <2>1, <2>2
  <2>4. RestoreDocument(e) /\ e = d BY <1>1, <2>1, <2>3 DEF ArchiveDocument, RestoreDocument, DocumentTypeOK
  <2> QED BY <2>4
<1> QED BY <1>1, TypeAlways, PTL DEF DocumentSpec, ArchivedStaysHidden

-----------------------------------------------------------------------------
\* What GapsOf speaks of is as it was.
SameGaps(d) ==
    /\ gen'[d] = gen[d] /\ embedded'[d] = embedded[d]
    /\ jobStatus'[Ingest(d)] = jobStatus[Ingest(d)] /\ jobStatus'[Embed(d)] = jobStatus[Embed(d)]
    /\ phase'[Ingest(d)] = phase[Ingest(d)] /\ phase'[Embed(d)] = phase[Embed(d)]
    /\ view'[Embed(d)] = view[Embed(d)]

LEMMA SameGapsKeep == ASSUME NEW d \in Docs, GapsOf(d), SameGaps(d), UNCHANGED <<may, text>> PROVE GapsOf(d)'
BY DEF GapsOf, IndexedOnce, Filled, Covers, SameGaps, Missing, Ingest, Embed

\* More embeddings leave fewer gaps.
LEMMA MoreFills ==
    ASSUME DocumentTypeOK, NEW d \in Docs, NEW parts, NEW e \in SUBSET Parts, NEW missing, NEW more,
           missing = Missing(d), parts \cup embedded[d] \subseteq e, more \subseteq missing, more \subseteq Parts \ e
    PROVE  /\ Filled(d) => more = {} \/ Cardinality(e) >= EmbedLimit
           /\ Covers(d, parts) => more = {} \/ Cardinality(e) >= EmbedLimit
<1>1. /\ IsFiniteSet(e) /\ Cardinality(e) \in Nat
      /\ \A p \in SUBSET e : Cardinality(p) \in Nat /\ Cardinality(p) <= Cardinality(e)
      BY PartsAssumption, FS_Subset, FS_CardinalityType
<1>2. /\ Cardinality(parts) \in Nat /\ Cardinality(parts) <= Cardinality(e)
      /\ Cardinality(embedded[d]) \in Nat /\ Cardinality(embedded[d]) <= Cardinality(e)
      BY <1>1
<1>3. /\ Cardinality(parts) >= EmbedLimit => Cardinality(e) >= EmbedLimit
      /\ Cardinality(embedded[d]) >= EmbedLimit => Cardinality(e) >= EmbedLimit
      BY <1>1, <1>2, LimitAssumption
<1>4. Missing(d) \subseteq parts => more = {} OBVIOUS
<1>5. Missing(d) = {} => more = {} OBVIOUS
<1> QED BY <1>3, <1>4, <1>5 DEF Filled, Covers

LEMMA GapStep ==
    ASSUME DocumentTypeOK, RunsInv, GapInv, [DocumentNext]_documentVars
    PROVE  GapInv'
<1>0. UNCHANGED <<may, text>>
      BY DEF DocumentNext, BackfillSelect, CreateDocument, ArchiveDocument, RestoreDocument, IndexRun, IndexFetch,
             IndexThrows, IndexCommit, Throws, BackfillInsert, Deliver, Finish, EmbedRun, EmbedFetch, EmbedCommit,
             EmbedThrows, documentVars
<1> SUFFICES ASSUME NEW e \in Docs PROVE GapsOf(e)' BY DEF GapInv
<1>g. GapsOf(e) BY DEF GapInv
<1>n. /\ Ingest(e) \in DocumentJobs /\ Embed(e) \in DocumentJobs /\ Ingest(e) # Embed(e)
      /\ \A d \in Docs : d # e => Ingest(d) # Ingest(e) /\ Embed(d) # Embed(e)
      /\ \A d \in Docs : Ingest(d) # Embed(e) /\ Embed(d) # Ingest(e) /\ <<"backfill", d>> # Ingest(e) /\ <<"backfill", d>> # Embed(e)
      BY JobNames
<1>p. /\ phase[Ingest(e)] # "none" => jobStatus[Ingest(e)] = "processing"
      /\ phase[Embed(e)] # "none" => jobStatus[Embed(e)] = "processing"
      BY <1>n DEF RunsInv
<1>t. gen[e] \in Nat /\ embedded[e] \in SUBSET Parts BY DEF DocumentTypeOK
<1>1. CASE BackfillSelect \/ UNCHANGED documentVars
  <2>1. SameGaps(e) BY <1>1 DEF BackfillSelect, documentVars, chunkRows, runs, SameGaps
  <2> QED BY <1>g, <1>0, <2>1, SameGapsKeep
<1>2. ASSUME NEW d \in Docs, CreateDocument(d) PROVE GapsOf(e)'
  <2>1. UNCHANGED <<gen, embedded, phase, view>> BY <1>2 DEF CreateDocument, chunkRows, runs
  <2>2. jobStatus'[Embed(e)] = jobStatus[Embed(e)]
        /\ (jobStatus[Ingest(e)] # "absent" => jobStatus'[Ingest(e)] = jobStatus[Ingest(e)])
        BY <1>2, <1>n DEF CreateDocument, EnqueueJob, DocumentTypeOK, Ingest, Embed
  <2> QED BY <1>g, <1>0, <2>1, <2>2 DEF GapsOf, IndexedOnce, Filled, Covers, Missing, Ingest, Embed
<1>3. ASSUME NEW d \in Docs, ArchiveDocument(d) \/ RestoreDocument(d) PROVE GapsOf(e)'
  <2>1. SameGaps(e) BY <1>3 DEF ArchiveDocument, RestoreDocument, chunkRows, runs, SameGaps
  <2> QED BY <1>g, <1>0, <2>1, SameGapsKeep
<1>4. ASSUME NEW d \in Docs, IndexFetch(d) \/ IndexThrows(d) PROVE GapsOf(e)'
  <2>1. UNCHANGED <<gen, embedded, jobStatus, view>> /\ phase'[Embed(e)] = phase[Embed(e)]
        BY <1>4, <1>n DEF IndexFetch, IndexThrows, Throws, chunkRows, DocumentTypeOK, Ingest, Embed
  <2>2. CASE d = e
    <3>1. "lostAck" \notin may => gen[e] # 1
          BY <1>4, <1>g, <1>p, <2>2 DEF IndexFetch, IndexThrows, Running, GapsOf, IndexedOnce, Ingest
    <3> QED BY <1>g, <1>0, <2>1, <3>1 DEF GapsOf, IndexedOnce, Filled, Covers, Missing, Ingest, Embed
  <2>3. CASE d # e
    <3>1. phase'[Ingest(e)] = phase[Ingest(e)]
          BY <1>4, <1>n, <2>3 DEF IndexFetch, IndexThrows, Throws, DocumentTypeOK, Ingest
    <3>2. SameGaps(e) BY <2>1, <3>1 DEF SameGaps
    <3> QED BY <1>g, <1>0, <3>2, SameGapsKeep
  <2> QED BY <2>2, <2>3
<1>5. ASSUME NEW d \in Docs, IndexCommit(d) PROVE GapsOf(e)'
  <2>1. /\ phase[Ingest(d)] = "fetched" /\ UNCHANGED view
        /\ \E p \in {"done", "threw"} : phase' = [phase EXCEPT ![Ingest(d)] = p] /\ ("lostAck" \notin may => p = "done")
        /\ jobStatus' = [jobStatus EXCEPT ![Embed(d)] = IF @ = "absent" THEN "queued" ELSE @]
        /\ gen' = [gen EXCEPT ![d] = @ + 1] /\ embedded' = [embedded EXCEPT ![d] = {}]
        BY <1>5 DEF IndexCommit, Ends, EnqueueJob, Ingest, Embed
  <2>2. CASE d = e
    <3>1. jobStatus[Ingest(e)] = "processing" /\ ("lostAck" \notin may => gen[e] = 0)
          BY <1>g, <1>p, <2>1, <2>2 DEF GapsOf, IndexedOnce
    <3>2. /\ gen'[e] = gen[e] + 1 /\ jobStatus'[Ingest(e)] = "processing"
          /\ jobStatus'[Embed(e)] = IF jobStatus[Embed(e)] = "absent" THEN "queued" ELSE jobStatus[Embed(e)]
          /\ "lostAck" \notin may => phase'[Ingest(e)] = "done"
          /\ phase'[Embed(e)] = phase[Embed(e)] /\ view'[Embed(e)] = view[Embed(e)]
          BY <1>n, <2>1, <2>2, <3>1 DEF DocumentTypeOK
    <3>3. jobStatus'[Embed(e)] # "absent" /\ (jobStatus'[Embed(e)] = "dead_letter" => jobStatus[Embed(e)] = "dead_letter")
          BY <3>2
    <3>4. gen[e] = 0 => phase'[Embed(e)] = "none" /\ jobStatus'[Embed(e)] = "queued"
      <4>1. gen[e] = 0 => jobStatus[Embed(e)] = "absent" BY <1>g DEF GapsOf
      <4>2. phase[Embed(e)] # "none" => jobStatus[Embed(e)] = "processing" BY <1>p
      <4> QED BY <3>2, <4>1, <4>2
    <3>5. gen'[e] # 0 /\ (gen'[e] = 1 <=> gen[e] = 0) /\ 1..gen[e] \subseteq 1..gen'[e] BY <1>t, <3>2
    <3>6. ("lostAck" \notin may => IndexedOnce(e))' BY <1>0, <3>1, <3>2, <3>5 DEF IndexedOnce, Ingest
    <3>7. phase'[Embed(e)] = "fetched" => view'[Embed(e)].gen \in 1..gen'[e] BY <1>g, <3>2, <3>5 DEF GapsOf
    <3>8. phase'[Embed(e)] = "threw" \/ jobStatus'[Embed(e)] = "dead_letter" => may' \cap {"noVector", "lostAck"} # {}
          BY <1>0, <1>g, <3>2, <3>3 DEF GapsOf
    <3>9. ~(gen'[e] = 1 /\ (phase'[Embed(e)] \in {"fetched", "done"} \/ jobStatus'[Embed(e)] = "completed"))
          BY <3>4, <3>5
    <3> QED BY <3>3, <3>5, <3>6, <3>7, <3>8, <3>9 DEF GapsOf, Ingest, Embed
  <2>3. CASE d # e
    <3>1. SameGaps(e) BY <1>n, <2>1, <2>3 DEF SameGaps, DocumentTypeOK
    <3> QED BY <1>g, <1>0, <3>1, SameGapsKeep
  <2> QED BY <2>2, <2>3
<1>6. ASSUME NEW d \in Docs, BackfillInsert(d) PROVE GapsOf(e)'
  <2>1. SameGaps(e) BY <1>6, <1>n DEF BackfillInsert, EnqueueJob, chunkRows, runs, SameGaps, DocumentTypeOK
  <2> QED BY <1>g, <1>0, <2>1, SameGapsKeep
<1>7. ASSUME NEW j \in DocumentJobs, Deliver(j) PROVE GapsOf(e)'
  <2>1. /\ jobStatus[j] = "queued" /\ UNCHANGED <<gen, embedded, phase, view>>
        /\ jobStatus' = [k \in DocumentJobs |-> IF k \in {j} THEN "processing" ELSE jobStatus[k]]
        BY <1>7 DEF Deliver, Promise!Deliver, chunkRows, runs
  <2>2. jobStatus'[Ingest(e)] = IF j = Ingest(e) THEN "processing" ELSE jobStatus[Ingest(e)] BY <1>n, <2>1
  <2>3. jobStatus'[Embed(e)] = IF j = Embed(e) THEN "processing" ELSE jobStatus[Embed(e)] BY <1>n, <2>1
  <2> QED BY <1>g, <1>0, <2>1, <2>2, <2>3 DEF GapsOf, IndexedOnce, Filled, Covers, Missing, Ingest, Embed
<1>8. ASSUME NEW j \in DocumentJobs, Finish(j) PROVE GapsOf(e)'
  <2>1. UNCHANGED <<gen, embedded>> /\ phase' = [phase EXCEPT ![j] = "none"] /\ view' = [view EXCEPT ![j] = NoView]
        BY <1>8 DEF Finish, chunkRows
  <2>2. \A k \in DocumentJobs \ {j} : jobStatus'[k] = jobStatus[k] /\ phase'[k] = phase[k] /\ view'[k] = view[k]
        BY <1>8, <2>1 DEF Finish, Settle, Promise!Acknowledge, Promise!Retry, Promise!Bury, DocumentTypeOK
  <2>3. Missing(e)' = Missing(e) BY <1>0, <2>1 DEF Missing
  <2>4. /\ phase'[j] = "none" /\ phase[j] \in {"done", "threw"}
        /\ phase[j] = "done" => jobStatus'[j] = "completed"
        /\ phase[j] = "threw" => jobStatus'[j] \in {"queued", "dead_letter"}
        BY <1>8, <2>1 DEF Finish, Settle, Promise!Acknowledge, Promise!Retry, Promise!Bury, DocumentTypeOK
  <2>5. CASE j = Ingest(e)
    <3>1. "lostAck" \notin may /\ gen[e] = 1 => phase[j] = "done" BY <1>g, <1>p, <2>4, <2>5 DEF GapsOf, IndexedOnce
    <3>2. "lostAck" \notin may /\ gen[e] = 1 => jobStatus'[Ingest(e)] = "completed" BY <2>4, <2>5, <3>1
    <3>3. jobStatus'[Embed(e)] = jobStatus[Embed(e)] /\ phase'[Embed(e)] = phase[Embed(e)] /\ view'[Embed(e)] = view[Embed(e)]
          BY <1>n, <2>2, <2>5
    <3> QED BY <1>g, <1>0, <2>1, <2>3, <3>2, <3>3 DEF GapsOf, IndexedOnce, Filled, Covers, Ingest, Embed
  <2>6. CASE j = Embed(e)
    <3>1. jobStatus'[Ingest(e)] = jobStatus[Ingest(e)] /\ phase'[Ingest(e)] = phase[Ingest(e)] BY <1>n, <2>2, <2>6
    <3>2. gen[e] # 0 /\ jobStatus'[Embed(e)] # "absent" BY <1>g, <1>p, <2>4, <2>6 DEF GapsOf
    <3> QED BY <1>g, <1>0, <2>1, <2>3, <2>4, <2>6, <3>1, <3>2 DEF GapsOf, IndexedOnce, Filled, Covers, Ingest, Embed
  <2>7. CASE j # Ingest(e) /\ j # Embed(e)
    <3>1. SameGaps(e) BY <1>n, <2>1, <2>2, <2>7 DEF SameGaps
    <3> QED BY <1>g, <1>0, <3>1, SameGapsKeep
  <2> QED BY <2>5, <2>6, <2>7
<1>9. ASSUME NEW j \in EmbeddingJobs, EmbedRun(j) PROVE GapsOf(e)'
  <2>0. j \in DocumentJobs /\ j[2] \in Docs /\ j \in {Embed(j[2]), <<"backfill", j[2]>>} BY JobNames
  <2>1. j # Ingest(e) /\ (j = Embed(e) => j[2] = e) BY <1>n, <2>0 DEF Embed
  <2>2. UNCHANGED <<gen, jobStatus>> /\ \A k \in DocumentJobs \ {j} : phase'[k] = phase[k] /\ view'[k] = view[k]
        BY <1>9 DEF EmbedRun, EmbedFetch, EmbedCommit, EmbedThrows, Throws, Ends, chunkRows, DocumentTypeOK
  <2>3. embedded[e] \subseteq embedded'[e] /\ embedded'[e] \in SUBSET Parts
    <3>1. DocumentTypeOK' BY <1>9, TypeStep DEF DocumentNext
    <3>2. embedded'[e] \in SUBSET Parts BY <3>1 DEF DocumentTypeOK
    <3>3. embedded[e] \subseteq embedded'[e]
          BY <1>9 DEF EmbedRun, EmbedFetch, EmbedCommit, EmbedThrows, Throws, chunkRows, DocumentTypeOK
    <3> QED BY <3>2, <3>3
  <2>4. Missing(e)' \subseteq Missing(e) /\ Missing(e)' \subseteq Parts \ embedded'[e]
    <3>1. text[e] \subseteq Parts BY PartsAssumption DEF DocumentTypeOK
    <3> QED BY <1>0, <2>2, <2>3, <3>1 DEF Missing
  <2>5. jobStatus'[Ingest(e)] = jobStatus[Ingest(e)] /\ phase'[Ingest(e)] = phase[Ingest(e)]
        /\ jobStatus'[Embed(e)] = jobStatus[Embed(e)]
        BY <1>n, <2>1, <2>2
  <2>f. Filled(e) => Filled(e)'
    <3> DEFINE more == Missing(e)'
               all == embedded'[e]
               before == Missing(e)
    <3>1. {} \cup embedded[e] \subseteq all /\ all \in SUBSET Parts /\ more \subseteq before /\ more \subseteq Parts \ all
          BY <2>3, <2>4
    <3> HIDE DEF more, all
    <3>2. Filled(e) => more = {} \/ Cardinality(all) >= EmbedLimit BY <3>1, MoreFills
    <3> QED BY <3>2 DEF Filled, more, all
  <2>6. CASE j # Embed(e)
    <3>1. phase'[Embed(e)] = phase[Embed(e)] /\ view'[Embed(e)] = view[Embed(e)] BY <1>n, <2>2, <2>6
    <3>2. \A parts : Covers(e, parts) => Covers(e, parts)' BY <2>4 DEF Covers
    <3>3. Covers(e, view[Embed(e)].parts) => Covers(e, view[Embed(e)].parts)' BY <2>4, <3>1 DEF Covers
    <3> QED BY <1>g, <1>0, <2>2, <2>5, <2>f, <3>1, <3>3 DEF GapsOf, IndexedOnce, Ingest, Embed
  <2>7. CASE j = Embed(e) /\ EmbedFetch(j)
    <3>1. PICK picked \in SUBSET Missing(e) :
              /\ Cardinality(picked) = EmbedLimit \/ picked = Missing(e)
              /\ view' = [view EXCEPT ![j] = [gen |-> gen[e], parts |-> picked]]
              /\ phase' = [phase EXCEPT ![j] = IF picked = {} THEN "done" ELSE "fetched"]
          BY <2>1, <2>7 DEF EmbedFetch
    <3>2. /\ phase'[Embed(e)] = IF picked = {} THEN "done" ELSE "fetched"
          /\ view'[Embed(e)].gen = gen[e] /\ view'[Embed(e)].parts = picked
          BY <1>n, <2>7, <3>1 DEF DocumentTypeOK
    <3>3. jobStatus[Embed(e)] = "processing" /\ gen[e] # 0 /\ gen[e] \in 1..gen[e]
          BY <1>g, <1>t, <2>7 DEF EmbedFetch, Running, GapsOf
    <3>4. Missing(e) \subseteq picked \/ Cardinality(picked) >= EmbedLimit BY <3>1, LimitAssumption
    <3>5. Covers(e, picked)' BY <2>4, <3>4 DEF Covers
    <3>6. picked = {} => Missing(e) = {}
      <4>1. Cardinality({}) = 0 BY FS_EmptySet
      <4> QED BY <3>1, <4>1, LimitAssumption
    <3>7. picked = {} => Filled(e)' BY <2>4, <3>6 DEF Filled
    <3> QED BY <1>g, <1>0, <2>2, <2>5, <3>2, <3>3, <3>5, <3>7 DEF GapsOf, IndexedOnce, Covers, Ingest, Embed
  <2>8. CASE j = Embed(e) /\ EmbedCommit(j)
    <3>1. phase[Embed(e)] = "fetched" /\ view'[Embed(e)] = view[Embed(e)] BY <2>8 DEF EmbedCommit
    <3>2. gen[e] = 1 /\ "providerGap" \notin may => Filled(e)'
      <4> SUFFICES ASSUME gen[e] = 1, "providerGap" \notin may PROVE Filled(e)' OBVIOUS
      <4> DEFINE more == Missing(e)'
                 all == embedded'[e]
                 before == Missing(e)
                 parts == view[j].parts
      <4>1. embedded' = [embedded EXCEPT ![e] = @ \cup view[j].parts] BY <2>1, <2>8 DEF EmbedCommit, Vectors
      <4>2. all = embedded[e] \cup parts BY <4>1 DEF DocumentTypeOK
      <4>3. Covers(e, parts) BY <1>g, <2>8, <3>1 DEF GapsOf
      <4>4. parts \cup embedded[e] \subseteq all /\ all \in SUBSET Parts /\ more \subseteq before /\ more \subseteq Parts \ all
            BY <2>3, <2>4, <4>2
      <4> HIDE DEF more, all, parts
      <4>5. more = {} \/ Cardinality(all) >= EmbedLimit BY <4>3, <4>4, MoreFills
      <4> QED BY <4>5 DEF Filled, more, all
    <3>3. \E p \in {"done", "threw"} : phase' = [phase EXCEPT ![j] = p] /\ ("lostAck" \notin may => p = "done")
          BY <2>8 DEF EmbedCommit, Ends
    <3>4. phase'[Embed(e)] \in {"done", "threw"} /\ ("lostAck" \notin may => phase'[Embed(e)] = "done")
          BY <1>n, <2>8, <3>3 DEF DocumentTypeOK
    <3>5. jobStatus[Embed(e)] = "processing" BY <1>p, <3>1
    <3> QED BY <1>g, <1>0, <2>2, <2>5, <3>1, <3>2, <3>4, <3>5 DEF GapsOf, IndexedOnce, Ingest, Embed
  <2>9. CASE j = Embed(e) /\ EmbedThrows(j)
    <3>1. /\ phase[Embed(e)] = "fetched" /\ UNCHANGED <<view, embedded>> /\ phase' = [phase EXCEPT ![j] = "threw"]
          /\ view[Embed(e)].gen # gen[e] \/ "noVector" \in may
          BY <2>1, <2>9 DEF EmbedThrows, Throws, chunkRows
    <3>2. phase'[Embed(e)] = "threw" BY <1>n, <2>9, <3>1 DEF DocumentTypeOK
    <3>3. view[Embed(e)].gen \in 1..gen[e] BY <1>g, <3>1 DEF GapsOf
    <3>4. view[Embed(e)].gen # gen[e] => gen[e] \notin {0, 1} BY <1>t, <3>3
    <3>5. may \cap {"noVector", "lostAck"} # {} BY <1>g, <3>1, <3>4 DEF GapsOf, IndexedOnce
    <3>6. jobStatus[Embed(e)] = "processing" BY <1>p, <3>1
    <3> QED BY <1>g, <1>0, <2>2, <2>5, <3>2, <3>5, <3>6 DEF GapsOf, IndexedOnce, Ingest, Embed
  <2> QED BY <1>9, <2>6, <2>7, <2>8, <2>9 DEF EmbedRun
<1> QED BY <1>1, <1>2, <1>3, <1>4, <1>5, <1>6, <1>7, <1>8, <1>9 DEF DocumentNext, IndexRun

\* For any documents of any length, any runs that overlap archives and
\* backfills and any faults: a chunk without an embedding is owed one by the
\* job that indexing queued, or the reason why it is not is one of those named
\* (indexing.ts 62-81 and 93-141).
THEOREM GapsStayOwed == DocumentSpec => []GapsAreOwed
<1>1. DocumentInit => RunsInv /\ GapInv
      BY DEF DocumentInit, RunsInv, GapInv, GapsOf, IndexedOnce, Missing, Ingest, Embed, DocumentJobs, Kinds, Promise!AbsInit
<1>2. DocumentTypeOK /\ GapInv => GapsAreOwed
  <2> SUFFICES ASSUME DocumentTypeOK, GapInv, NEW d \in Docs, Missing(d) # {}
               PROVE  LET job == jobStatus[Embed(d)] IN
                      \/ job \in {"queued", "processing"}
                      \/ job = "dead_letter" /\ may \cap {"noVector", "lostAck"} # {}
                      \/ /\ job = "completed"
                         /\ Cardinality(embedded[d]) >= EmbedLimit \/ "providerGap" \in may \/ gen[d] > 1
      BY DEF GapsAreOwed, Embed
  <2>1. GapsOf(d) /\ gen[d] \in Nat /\ gen[d] # 0 BY DEF GapInv, DocumentTypeOK, Missing
  <2>2. jobStatus[Embed(d)] \in {"queued", "processing", "completed", "dead_letter"}
        BY <2>1, JobNames DEF GapsOf, DocumentTypeOK
  <2>3. gen[d] = 1 \/ gen[d] > 1 BY <2>1
  <2> QED BY <2>1, <2>2, <2>3 DEF GapsOf, Filled
<1>3. DocumentTypeOK /\ RunsInv /\ GapInv /\ [DocumentNext]_documentVars => (RunsInv /\ GapInv)' BY RunsStep, GapStep
<1> QED BY <1>1, <1>2, <1>3, TypeAlways, PTL DEF DocumentSpec

-----------------------------------------------------------------------------
\* The queue.

USE AttemptAssumption, NoJobAssumption
    DEF IInv, TypeOK, PhaseInv, LockInv, RecordIsCurrent, Held, NoneHeld,
        Phase, Status, Idle, Busy, observed

\* The initial state: no row, no lock, nothing in memory.
LEMMA InitIInv == Init => IInv
  BY DEF Init, ExclusiveOwnership, RetryBudget, AttemptInv, AppliedInv, NotYetApplied,
         CompletedMeansApplied, OnceInv, AppliedAtMostOnce

\* Moving on to the next job drops exactly the loop variable's record.
LEMMA NextJobFacts ==
  ASSUME IInv, NEW w \in Workers, pc[w] \in Busy, NextJob(w)
  PROVE  /\ held' \in [Workers -> [Jobs -> 0..MaxAttempts]]
         /\ Held(w)' = Held(w) \ {current[w]}
         /\ Waiting(w) = {} => held'[w] = NoneHeld
         /\ \A v \in Workers : v # w => held'[v] = held[v]
         /\ \A j \in Jobs : j # current[w] => held'[w][j] = held[w][j]
<1>1. current[w] \in Jobs /\ held[w] \in [Jobs -> 0..MaxAttempts]
  OBVIOUS
<1>2. held'[w] = [held[w] EXCEPT ![current[w]] = 0]
  BY <1>1 DEF NextJob
<1>3. \A v \in Workers : v # w => held'[v] = held[v]
  BY DEF NextJob
<1>4. Held(w)' = Held(w) \ {current[w]}
  BY <1>1, <1>2
<1>5. held' \in [Workers -> [Jobs -> 0..MaxAttempts]]
  BY <1>1, <1>2, <1>3 DEF NextJob
<1>6. ASSUME Waiting(w) = {}
      PROVE  held'[w] = NoneHeld
  <2>1. held'[w] \in [Jobs -> 0..MaxAttempts]
    BY <1>5
  <2>2. \A j \in Jobs : ~(held'[w][j] > 0)
    BY <1>4, <1>6 DEF Waiting
  <2>3. \A j \in Jobs : held'[w][j] = 0
    BY <2>1, <2>2
  <2> QED
    BY <2>1, <2>3
<1> QED
  BY <1>1, <1>2, <1>3, <1>4, <1>5, <1>6

LEMMA EnqueueStep ==
  ASSUME IInv, NEW j \in Jobs, Enqueue(j)
  PROVE  IInv'
<1> USE DEF Enqueue, rows, memory
<1>1. (TypeOK /\ PhaseInv)'
  BY DEF RetryBudget, AttemptInv, AppliedInv, NotYetApplied
<1>2. (LockInv /\ ExclusiveOwnership /\ RecordIsCurrent)'
  BY DEF ExclusiveOwnership
<1>3. (RetryBudget /\ AttemptInv /\ CompletedMeansApplied)'
  BY DEF RetryBudget, AttemptInv, AppliedInv, NotYetApplied,
            CompletedMeansApplied
<1>4. (AppliedInv /\ OnceInv /\ AppliedAtMostOnce)'
  BY DEF AttemptInv, AppliedInv, NotYetApplied, OnceInv,
            AppliedAtMostOnce, ExclusiveOwnership
<1> QED
  BY <1>1, <1>2, <1>3, <1>4

LEMMA BackoffElapsesStep ==
  ASSUME IInv, NEW j \in Jobs, BackoffElapses(j)
  PROVE  IInv'
<1> USE DEF BackoffElapses, memory
<1>1. (TypeOK /\ PhaseInv)'
  BY DEF RetryBudget, AttemptInv, AppliedInv, NotYetApplied
<1>2. (LockInv /\ ExclusiveOwnership /\ RecordIsCurrent)'
  BY DEF ExclusiveOwnership
<1>3. (RetryBudget /\ AttemptInv /\ CompletedMeansApplied)'
  BY DEF RetryBudget, AttemptInv, AppliedInv, NotYetApplied,
            CompletedMeansApplied
<1>4. (AppliedInv /\ OnceInv /\ AppliedAtMostOnce)'
  BY DEF AttemptInv, AppliedInv, NotYetApplied, OnceInv,
            AppliedAtMostOnce, ExclusiveOwnership
<1> QED
  BY <1>1, <1>2, <1>3, <1>4

LEMMA ClaimSelectStep ==
  ASSUME IInv, NEW w \in Workers, ClaimSelect(w)
  PROVE  IInv'
<1> USE DEF ClaimSelect, rows, Available
<1>1. (TypeOK /\ PhaseInv)'
  BY DEF RetryBudget, AttemptInv, AppliedInv, NotYetApplied
<1>2. (LockInv /\ ExclusiveOwnership /\ RecordIsCurrent)'
  BY DEF ExclusiveOwnership
<1>3. (RetryBudget /\ AttemptInv /\ CompletedMeansApplied)'
  BY DEF RetryBudget, AttemptInv, AppliedInv, NotYetApplied,
            CompletedMeansApplied
<1>4. (AppliedInv /\ OnceInv /\ AppliedAtMostOnce)'
  BY DEF AttemptInv, AppliedInv, NotYetApplied, OnceInv,
            AppliedAtMostOnce, ExclusiveOwnership
<1> QED
  BY <1>1, <1>2, <1>3, <1>4

LEMMA ClaimCommitStep ==
  ASSUME IInv, NEW w \in Workers, ClaimCommit(w)
  PROVE  IInv'
<1> USE DEF ClaimCommit, ClaimRows
<1>1. (TypeOK /\ PhaseInv)'
  BY DEF RetryBudget, AttemptInv, AppliedInv, NotYetApplied
<1>2. (LockInv /\ ExclusiveOwnership /\ RecordIsCurrent)'
  BY DEF ExclusiveOwnership
<1>3. (RetryBudget /\ AttemptInv /\ CompletedMeansApplied)'
  BY DEF RetryBudget, AttemptInv, AppliedInv, NotYetApplied,
            CompletedMeansApplied
<1>4. (AppliedInv /\ OnceInv /\ AppliedAtMostOnce)'
  BY DEF AttemptInv, AppliedInv, NotYetApplied, OnceInv,
            AppliedAtMostOnce, ExclusiveOwnership
<1> QED
  BY <1>1, <1>2, <1>3, <1>4

LEMMA ClaimFailsStep ==
  ASSUME IInv, NEW w \in Workers, ClaimFails(w)
  PROVE  IInv'
<1> USE DEF ClaimFails, rows
<1>1. (TypeOK /\ PhaseInv)'
  BY DEF RetryBudget, AttemptInv, AppliedInv, NotYetApplied
<1>2. (LockInv /\ ExclusiveOwnership /\ RecordIsCurrent)'
  BY DEF ExclusiveOwnership
<1>3. (RetryBudget /\ AttemptInv /\ CompletedMeansApplied)'
  BY DEF RetryBudget, AttemptInv, AppliedInv, NotYetApplied,
            CompletedMeansApplied
<1>4. (AppliedInv /\ OnceInv /\ AppliedAtMostOnce)'
  BY DEF AttemptInv, AppliedInv, NotYetApplied, OnceInv,
            AppliedAtMostOnce, ExclusiveOwnership
<1> QED
  BY <1>1, <1>2, <1>3, <1>4

LEMMA ClaimAckLostStep ==
  ASSUME IInv, NEW w \in Workers, ClaimAckLost(w)
  PROVE  IInv'
<1> USE DEF ClaimAckLost, ClaimRows
<1>1. (TypeOK /\ PhaseInv)'
  BY DEF RetryBudget, AttemptInv, AppliedInv, NotYetApplied
<1>2. (LockInv /\ ExclusiveOwnership /\ RecordIsCurrent)'
  BY DEF ExclusiveOwnership
<1>3. (RetryBudget /\ AttemptInv /\ CompletedMeansApplied)'
  BY DEF RetryBudget, AttemptInv, AppliedInv, NotYetApplied,
            CompletedMeansApplied
<1>4. (AppliedInv /\ OnceInv /\ AppliedAtMostOnce)'
  BY DEF AttemptInv, AppliedInv, NotYetApplied, OnceInv,
            AppliedAtMostOnce, ExclusiveOwnership
<1> QED
  BY <1>1, <1>2, <1>3, <1>4

LEMMA StartJobStep ==
  ASSUME IInv, NEW w \in Workers, StartJob(w)
  PROVE  IInv'
<1> USE DEF StartJob, rows
<1>1. (TypeOK /\ PhaseInv)'
  BY DEF RetryBudget, AttemptInv, AppliedInv, NotYetApplied
<1>2. (LockInv /\ ExclusiveOwnership /\ RecordIsCurrent)'
  BY DEF ExclusiveOwnership
<1>3. (RetryBudget /\ AttemptInv /\ CompletedMeansApplied)'
  BY DEF RetryBudget, AttemptInv, AppliedInv, NotYetApplied,
            CompletedMeansApplied
<1>4. (AppliedInv /\ OnceInv /\ AppliedAtMostOnce)'
  BY DEF AttemptInv, AppliedInv, NotYetApplied, OnceInv,
            AppliedAtMostOnce, ExclusiveOwnership
<1> QED
  BY <1>1, <1>2, <1>3, <1>4

LEMMA ProcessorCommitsStep ==
  ASSUME IInv, NEW w \in Workers, ProcessorCommits(w)
  PROVE  IInv'
<1> USE DEF ProcessorCommits, rows
<1>1. (TypeOK /\ PhaseInv)'
  BY DEF RetryBudget, AttemptInv, AppliedInv, NotYetApplied
<1>2. (LockInv /\ ExclusiveOwnership /\ RecordIsCurrent)'
  BY DEF ExclusiveOwnership
<1>3. (RetryBudget /\ AttemptInv /\ CompletedMeansApplied)'
  BY DEF RetryBudget, AttemptInv, AppliedInv, NotYetApplied,
            CompletedMeansApplied
<1>4. (AppliedInv /\ OnceInv /\ AppliedAtMostOnce)'
  BY DEF AttemptInv, AppliedInv, NotYetApplied, OnceInv,
            AppliedAtMostOnce, ExclusiveOwnership
<1> QED
  BY <1>1, <1>2, <1>3, <1>4

LEMMA ProcessorThrowsStep ==
  ASSUME IInv, NEW w \in Workers, ProcessorThrows(w)
  PROVE  IInv'
<1> USE DEF ProcessorThrows, rows
<1>1. (TypeOK /\ PhaseInv)'
  BY DEF RetryBudget, AttemptInv, AppliedInv, NotYetApplied
<1>2. (LockInv /\ ExclusiveOwnership /\ RecordIsCurrent)'
  BY DEF ExclusiveOwnership
<1>3. (RetryBudget /\ AttemptInv /\ CompletedMeansApplied)'
  BY DEF RetryBudget, AttemptInv, AppliedInv, NotYetApplied,
            CompletedMeansApplied
<1>4. (AppliedInv /\ OnceInv /\ AppliedAtMostOnce)'
  BY DEF AttemptInv, AppliedInv, NotYetApplied, OnceInv,
            AppliedAtMostOnce, ExclusiveOwnership
<1> QED
  BY <1>1, <1>2, <1>3, <1>4

LEMMA ProcessorAckLostStep ==
  ASSUME IInv, NEW w \in Workers, ProcessorAckLost(w)
  PROVE  IInv'
<1> USE DEF ProcessorAckLost, rows
<1>1. (TypeOK /\ PhaseInv)'
  BY DEF RetryBudget, AttemptInv, AppliedInv, NotYetApplied
<1>2. (LockInv /\ ExclusiveOwnership /\ RecordIsCurrent)'
  BY DEF ExclusiveOwnership
<1>3. (RetryBudget /\ AttemptInv /\ CompletedMeansApplied)'
  BY DEF RetryBudget, AttemptInv, AppliedInv, NotYetApplied,
            CompletedMeansApplied
<1>4. (AppliedInv /\ OnceInv /\ AppliedAtMostOnce)'
  BY DEF AttemptInv, AppliedInv, NotYetApplied, OnceInv,
            AppliedAtMostOnce, ExclusiveOwnership
<1> QED
  BY <1>1, <1>2, <1>3, <1>4

LEMMA CompleteStep ==
  ASSUME IInv, NEW w \in Workers, Complete(w)
  PROVE  IInv'
<1> USE DEF Complete, NextJob, CompleteRow
<1>0. /\ held' \in [Workers -> [Jobs -> 0..MaxAttempts]]
      /\ Held(w)' = Held(w) \ {current[w]}
      /\ Waiting(w) = {} => held'[w] = NoneHeld
      /\ \A v \in Workers : v # w => held'[v] = held[v]
      /\ \A j \in Jobs : j # current[w] => held'[w][j] = held[w][j]
  BY NextJobFacts
<1>1. (TypeOK /\ PhaseInv)'
  BY <1>0 DEF RetryBudget, AttemptInv, AppliedInv, NotYetApplied
<1>2. (LockInv /\ ExclusiveOwnership /\ RecordIsCurrent)'
  BY <1>0 DEF ExclusiveOwnership
<1>3. (RetryBudget /\ AttemptInv /\ CompletedMeansApplied)'
  BY <1>0 DEF RetryBudget, AttemptInv, AppliedInv, NotYetApplied,
            CompletedMeansApplied
<1>4. (AppliedInv /\ OnceInv /\ AppliedAtMostOnce)'
  BY <1>0 DEF AttemptInv, AppliedInv, NotYetApplied, OnceInv,
            AppliedAtMostOnce, ExclusiveOwnership
<1> QED
  BY <1>1, <1>2, <1>3, <1>4

LEMMA CompleteFailsStep ==
  ASSUME IInv, NEW w \in Workers, CompleteFails(w)
  PROVE  IInv'
<1> USE DEF CompleteFails, NextJob, rows
<1>0. /\ held' \in [Workers -> [Jobs -> 0..MaxAttempts]]
      /\ Held(w)' = Held(w) \ {current[w]}
      /\ Waiting(w) = {} => held'[w] = NoneHeld
      /\ \A v \in Workers : v # w => held'[v] = held[v]
      /\ \A j \in Jobs : j # current[w] => held'[w][j] = held[w][j]
  BY NextJobFacts
<1>1. (TypeOK /\ PhaseInv)'
  BY <1>0 DEF RetryBudget, AttemptInv, AppliedInv, NotYetApplied
<1>2. (LockInv /\ ExclusiveOwnership /\ RecordIsCurrent)'
  BY <1>0 DEF ExclusiveOwnership
<1>3. (RetryBudget /\ AttemptInv /\ CompletedMeansApplied)'
  BY <1>0 DEF RetryBudget, AttemptInv, AppliedInv, NotYetApplied,
            CompletedMeansApplied
<1>4. (AppliedInv /\ OnceInv /\ AppliedAtMostOnce)'
  BY <1>0 DEF AttemptInv, AppliedInv, NotYetApplied, OnceInv,
            AppliedAtMostOnce, ExclusiveOwnership
<1> QED
  BY <1>1, <1>2, <1>3, <1>4

\* The test of fail, for a count that respects the limit.
LEMMA AtLimit ==
  ASSUME NEW n \in 0..MaxAttempts
  PROVE  /\ n >= MaxAttempts <=> n = MaxAttempts
         /\ ~(n >= MaxAttempts) => n < MaxAttempts
  OBVIOUS

LEMMA FailJobStep ==
  ASSUME IInv, NEW w \in Workers, FailJob(w)
  PROVE  IInv'
<1> USE DEF FailJob, NextJob, FailRow
<1>0. /\ held' \in [Workers -> [Jobs -> 0..MaxAttempts]]
      /\ Held(w)' = Held(w) \ {current[w]}
      /\ Waiting(w) = {} => held'[w] = NoneHeld
      /\ \A v \in Workers : v # w => held'[v] = held[v]
      /\ \A j \in Jobs : j # current[w] => held'[w][j] = held[w][j]
  BY NextJobFacts
<1>5. /\ current[w] \in Jobs /\ current[w] \in Held(w)
      /\ status[current[w]] = "processing"
      /\ held[w][current[w]] = attempt[current[w]]
      /\ attempt[current[w]] \in 0..MaxAttempts
  BY DEF Waiting
<1>6. /\ status' = [status EXCEPT ![current[w]] =
                      IF attempt[current[w]] >= MaxAttempts THEN "dead_letter" ELSE "queued"]
      /\ due' = [due EXCEPT ![current[w]] = FALSE]
      /\ attempt' = attempt /\ applied' = applied
  BY <1>5
<1>1. (TypeOK /\ PhaseInv)'
  BY <1>0, <1>5, <1>6, AtLimit DEF RetryBudget, AttemptInv, AppliedInv, NotYetApplied
<1>2. (LockInv /\ ExclusiveOwnership /\ RecordIsCurrent)'
  BY <1>0, <1>5, <1>6, AtLimit DEF ExclusiveOwnership
<1>3. (RetryBudget /\ AttemptInv /\ CompletedMeansApplied)'
  BY <1>0, <1>5, <1>6, AtLimit DEF RetryBudget, AttemptInv, AppliedInv, NotYetApplied,
            CompletedMeansApplied
<1>4. (AppliedInv /\ OnceInv /\ AppliedAtMostOnce)'
  BY <1>0, <1>5, <1>6, AtLimit DEF AttemptInv, AppliedInv, NotYetApplied, OnceInv,
            AppliedAtMostOnce, ExclusiveOwnership
<1> QED
  BY <1>1, <1>2, <1>3, <1>4

LEMMA FailJobFailsStep ==
  ASSUME IInv, NEW w \in Workers, FailJobFails(w)
  PROVE  IInv'
<1> USE DEF FailJobFails, NextJob, rows
<1>0. /\ held' \in [Workers -> [Jobs -> 0..MaxAttempts]]
      /\ Held(w)' = Held(w) \ {current[w]}
      /\ Waiting(w) = {} => held'[w] = NoneHeld
      /\ \A v \in Workers : v # w => held'[v] = held[v]
      /\ \A j \in Jobs : j # current[w] => held'[w][j] = held[w][j]
  BY NextJobFacts
<1>1. (TypeOK /\ PhaseInv)'
  BY <1>0 DEF RetryBudget, AttemptInv, AppliedInv, NotYetApplied
<1>2. (LockInv /\ ExclusiveOwnership /\ RecordIsCurrent)'
  BY <1>0 DEF ExclusiveOwnership
<1>3. (RetryBudget /\ AttemptInv /\ CompletedMeansApplied)'
  BY <1>0 DEF RetryBudget, AttemptInv, AppliedInv, NotYetApplied,
            CompletedMeansApplied
<1>4. (AppliedInv /\ OnceInv /\ AppliedAtMostOnce)'
  BY <1>0 DEF AttemptInv, AppliedInv, NotYetApplied, OnceInv,
            AppliedAtMostOnce, ExclusiveOwnership
<1> QED
  BY <1>1, <1>2, <1>3, <1>4

LEMMA AbandonBatchStep ==
  ASSUME IInv, NEW w \in Workers, AbandonBatch(w)
  PROVE  IInv'
<1> USE DEF AbandonBatch, Forget, rows
<1>1. (TypeOK /\ PhaseInv)'
  BY DEF RetryBudget, AttemptInv, AppliedInv, NotYetApplied
<1>2. (LockInv /\ ExclusiveOwnership /\ RecordIsCurrent)'
  BY DEF ExclusiveOwnership
<1>3. (RetryBudget /\ AttemptInv /\ CompletedMeansApplied)'
  BY DEF RetryBudget, AttemptInv, AppliedInv, NotYetApplied,
            CompletedMeansApplied
<1>4. (AppliedInv /\ OnceInv /\ AppliedAtMostOnce)'
  BY DEF AttemptInv, AppliedInv, NotYetApplied, OnceInv,
            AppliedAtMostOnce, ExclusiveOwnership
<1> QED
  BY <1>1, <1>2, <1>3, <1>4

LEMMA StopStep ==
  ASSUME IInv, NEW w \in Workers, Stop(w)
  PROVE  IInv'
<1> USE DEF Stop, rows
<1>1. (TypeOK /\ PhaseInv)'
  BY DEF RetryBudget, AttemptInv, AppliedInv, NotYetApplied
<1>2. (LockInv /\ ExclusiveOwnership /\ RecordIsCurrent)'
  BY DEF ExclusiveOwnership
<1>3. (RetryBudget /\ AttemptInv /\ CompletedMeansApplied)'
  BY DEF RetryBudget, AttemptInv, AppliedInv, NotYetApplied,
            CompletedMeansApplied
<1>4. (AppliedInv /\ OnceInv /\ AppliedAtMostOnce)'
  BY DEF AttemptInv, AppliedInv, NotYetApplied, OnceInv,
            AppliedAtMostOnce, ExclusiveOwnership
<1> QED
  BY <1>1, <1>2, <1>3, <1>4

LEMMA CrashStep ==
  ASSUME IInv, NEW w \in Workers, Crash(w)
  PROVE  IInv'
<1> USE DEF Crash, Forget, rows
<1>1. (TypeOK /\ PhaseInv)'
  BY DEF RetryBudget, AttemptInv, AppliedInv, NotYetApplied
<1>2. (LockInv /\ ExclusiveOwnership /\ RecordIsCurrent)'
  BY DEF ExclusiveOwnership
<1>3. (RetryBudget /\ AttemptInv /\ CompletedMeansApplied)'
  BY DEF RetryBudget, AttemptInv, AppliedInv, NotYetApplied,
            CompletedMeansApplied
<1>4. (AppliedInv /\ OnceInv /\ AppliedAtMostOnce)'
  BY DEF AttemptInv, AppliedInv, NotYetApplied, OnceInv,
            AppliedAtMostOnce, ExclusiveOwnership
<1> QED
  BY <1>1, <1>2, <1>3, <1>4

LEMMA RestartStep ==
  ASSUME IInv, NEW w \in Workers, Restart(w)
  PROVE  IInv'
<1> USE DEF Restart, rows
<1>1. (TypeOK /\ PhaseInv)'
  BY DEF RetryBudget, AttemptInv, AppliedInv, NotYetApplied
<1>2. (LockInv /\ ExclusiveOwnership /\ RecordIsCurrent)'
  BY DEF ExclusiveOwnership
<1>3. (RetryBudget /\ AttemptInv /\ CompletedMeansApplied)'
  BY DEF RetryBudget, AttemptInv, AppliedInv, NotYetApplied,
            CompletedMeansApplied
<1>4. (AppliedInv /\ OnceInv /\ AppliedAtMostOnce)'
  BY DEF AttemptInv, AppliedInv, NotYetApplied, OnceInv,
            AppliedAtMostOnce, ExclusiveOwnership
<1> QED
  BY <1>1, <1>2, <1>3, <1>4

\* Every step, and every stuttering step, keeps the inductive invariant.
LEMMA NextIInv == IInv /\ [Next]_vars => IInv'
<1> SUFFICES ASSUME IInv, [Next]_vars PROVE IInv'
  OBVIOUS
<1>1. CASE UNCHANGED vars
  BY <1>1 DEF vars, ExclusiveOwnership, RetryBudget, AttemptInv, AppliedInv, NotYetApplied,
     CompletedMeansApplied, OnceInv, AppliedAtMostOnce
<1>2. ASSUME NEW j \in Jobs, Enqueue(j) \/ BackoffElapses(j)
      PROVE  IInv'
  BY <1>2, EnqueueStep, BackoffElapsesStep
<1>3. ASSUME NEW w \in Workers, Work(w)
      PROVE  IInv'
  BY <1>3, ClaimCommitStep, ClaimFailsStep, ClaimAckLostStep, StartJobStep,
     ProcessorCommitsStep, ProcessorThrowsStep, ProcessorAckLostStep, CompleteStep,
     CompleteFailsStep, FailJobStep, FailJobFailsStep, AbandonBatchStep DEF Work
<1>4. ASSUME NEW w \in Workers, ClaimSelect(w) \/ Stop(w) \/ Crash(w) \/ Restart(w)
      PROVE  IInv'
  BY <1>4, ClaimSelectStep, StopStep, CrashStep, RestartStep
<1> QED
  BY <1>1, <1>2, <1>3, <1>4 DEF Next

\* IInv holds in every reachable state.
THEOREM Invariance == Spec => []IInv
  BY InitIInv, NextIInv, PTL DEF Spec

-----------------------------------------------------------------------------

\* Every variable keeps its type; no attempt count passes MaxAttempts.
THEOREM TypeCorrect == Spec => []TypeOK
<1>1. IInv => TypeOK
  OBVIOUS
<1> QED
  BY <1>1, Invariance, PTL

\* SKIP LOCKED and the status guard give every claimed job one owner.
THEOREM OwnershipExclusive == Spec => []ExclusiveOwnership
<1>1. IInv => ExclusiveOwnership
  OBVIOUS
<1> QED
  BY <1>1, Invariance, PTL

\* The attempt count a worker passes to fail is never stale.
THEOREM RecordsCurrent == Spec => []RecordIsCurrent
<1>1. IInv => RecordIsCurrent
  OBVIOUS
<1> QED
  BY <1>1, Invariance, PTL

\* A job is retried only while it has attempts left and dead-lettered only
\* when it has none.
THEOREM RetriesBounded == Spec => []RetryBudget
<1>1. IInv => RetryBudget
  OBVIOUS
<1> QED
  BY <1>1, Invariance, PTL

\* A completed job's work is in the database.
THEOREM CompletionSound == Spec => []CompletedMeansApplied
<1>1. IInv => CompletedMeansApplied
  OBVIOUS
<1> QED
  BY <1>1, Invariance, PTL

\* Without lost acknowledgements a job's work commits at most once.
THEOREM AppliedOnce == Spec => []AppliedAtMostOnce
<1>1. IInv => AppliedAtMostOnce
  OBVIOUS
<1> QED
  BY <1>1, Invariance, PTL

-----------------------------------------------------------------------------

\* What a step does to one row, in terms of the abstract queue's actions.
LEMMA StepMaps == IInv /\ [Next]_vars => [Queue!AbsNext]_(Queue!qvars)
<1> SUFFICES ASSUME IInv, [Next]_vars, ~UNCHANGED <<status, attempt>>
             PROVE  Queue!AbsNext
  BY DEF Queue!qvars
<1> USE DEF Queue!AbsNext
<1>1. ASSUME NEW j \in Jobs, Enqueue(j)
      PROVE  Queue!AbsNext
  BY <1>1 DEF Enqueue, Queue!Submit
<1>2. ASSUME NEW w \in Workers, ClaimRows(w)
      PROVE  Queue!AbsNext
  <2>1. \A j \in locked[w] : status[j] = "queued" /\ attempt[j] < MaxAttempts
    BY DEF RetryBudget
  <2>2. Queue!Deliver(locked[w])
    BY <1>2, <2>1 DEF ClaimRows, Queue!Deliver
  <2> QED
    BY <2>2
<1>3. ASSUME NEW w \in Workers, Complete(w)
      PROVE  Queue!AbsNext
  <2>1. current[w] \in Jobs /\ status[current[w]] = "processing"
    BY <1>3 DEF Complete
  <2>2. Queue!Acknowledge(current[w])
    BY <1>3, <2>1 DEF Complete, CompleteRow, Queue!Acknowledge
  <2> QED
    BY <2>1, <2>2
<1>4. ASSUME NEW w \in Workers, FailJob(w)
      PROVE  Queue!AbsNext
  <2>1. /\ current[w] \in Jobs /\ status[current[w]] = "processing"
        /\ held[w][current[w]] = attempt[current[w]]
        /\ attempt[current[w]] \in 0..MaxAttempts
    BY <1>4 DEF FailJob
  <2>2. CASE attempt[current[w]] >= MaxAttempts
    <3>1. attempt[current[w]] = MaxAttempts
      BY <2>1, <2>2, AtLimit
    <3>2. Queue!Bury(current[w])
      BY <1>4, <2>1, <2>2, <3>1 DEF FailJob, FailRow, Queue!Bury
    <3> QED
      BY <2>1, <3>2
  <2>3. CASE ~(attempt[current[w]] >= MaxAttempts)
    <3>1. attempt[current[w]] < MaxAttempts
      BY <2>1, <2>3, AtLimit
    <3>2. Queue!Retry(current[w])
      BY <1>4, <2>1, <2>3, <3>1 DEF FailJob, FailRow, Queue!Retry
    <3> QED
      BY <2>1, <3>2
  <2> QED
    BY <2>2, <2>3
<1>5. \/ UNCHANGED <<status, attempt>>
      \/ \E j \in Jobs : Enqueue(j)
      \/ \E w \in Workers : ClaimRows(w) \/ Complete(w) \/ FailJob(w)
  BY DEF Next, Work, vars, rows, BackoffElapses, ClaimSelect, ClaimCommit, ClaimFails,
     ClaimAckLost, StartJob, ProcessorCommits, ProcessorThrows, ProcessorAckLost,
     CompleteFails, FailJobFails, AbandonBatch, Forget, Stop, Crash, Restart
<1> QED
  BY <1>1, <1>2, <1>3, <1>4, <1>5

\* The queue with its workers, locks and failures implements the abstract
\* queue: each job is delivered at most MaxAttempts times and then settled
\* for good, or left in a delivery that nobody ends.
THEOREM Refinement == Spec => ImplementsWorkQueue
<1>1. Init => Queue!AbsInit
  BY DEF Init, Queue!AbsInit
<1> QED
  BY <1>1, StepMaps, Invariance, PTL DEF Spec, ImplementsWorkQueue, Queue!AbsSpec

\* In the abstract queue completed and dead_letter are final and attempts
\* only grow; so they are in the implementation.
THEOREM TerminalFinal == Spec => TerminalIsFinal
<1> DEFINE Final == \A j \in Jobs :
             /\ status[j] \in {"completed", "dead_letter"} => status'[j] = status[j]
             /\ attempt'[j] >= attempt[j]
<1>1. IInv /\ [Next]_vars => [Final]_vars
  <2> SUFFICES ASSUME IInv, [Next]_vars PROVE Final
    OBVIOUS
  <2>1. [Queue!AbsNext]_(Queue!qvars)
    BY StepMaps
  <2>2. CASE UNCHANGED <<status, attempt>>
    BY <2>2
  <2>3. CASE \E batch \in SUBSET Jobs : Queue!Deliver(batch)
    BY <2>3 DEF Queue!Deliver
  <2>4. CASE \E j \in Jobs : Queue!Submit(j) \/ Queue!Acknowledge(j)
                             \/ Queue!Retry(j) \/ Queue!Bury(j)
    BY <2>4 DEF Queue!Submit, Queue!Acknowledge, Queue!Retry, Queue!Bury
  <2> QED
    BY <2>1, <2>2, <2>3, <2>4 DEF Queue!AbsNext, Queue!qvars
<1> QED
  BY <1>1, Invariance, PTL DEF Spec, TerminalIsFinal
==============================================================================
