# A TLA+ model of the Smart-Corp AI server

The repository is a TypeScript server (an Express API, a durable document worker and
PostgreSQL, `src/server/` and `src/database/migrations/`) with a React front end. This
directory holds TLA+ modules for the parts of the server whose correctness depends on the
order of steps: the tables that are used as queues, the services that read a row in one
transaction and write it in another, and the processes that may stop between two
statements. TLC checks them on small instances; TLAPS proves the main results for every
instance. `PROJECT.json` maps every definition to the lines it stands for.

Paths below are relative to `src/`.

## 1. Inventory of the system

All state is in PostgreSQL, apart from the object store, the in-memory batch of a worker or
relay, and two caches of the API process (rate limiter, embeddings). Every service runs its
statements through `TenantDb` (`server/db.ts`): one statement, or one `BEGIN ... COMMIT`, at
READ COMMITTED and under the tenant's row-level policies. Components interact through rows
that they share, through the outbox, and by calling each other's services in-process. There
is no message bus.

### 1.1 Parts with interesting interleavings (modelled)

| Part | State | Operations | Interacts with | What is hard | What makes it correct |
|---|---|---|---|---|---|
| Durable queue, `server/jobs.ts` | `document_processing_jobs` | enqueue, claim, complete, fail | uploads, worker, backfill | concurrent claims; a claimer that dies; retry decided on a count read earlier | one owner per job; the retry budget; final statuses stay; nothing is forgotten |
| Worker, `server/worker.ts` | the claimed batch | `runWorkerLoop` | queue, processors | `complete` and `fail` that fail themselves; signals in mid-batch | work that committed is not queued again; every batch is drained |
| Documents, `server/store.ts`, `indexing.ts`, `search.ts` | `documents`, `document_chunks`, `document_embeddings` | upload, indexing and embedding processors, backfill | queue, governed actions | runs that overlap archives, restores and each other; re-delivered jobs; missing vectors | nothing that failed is ready; what is archived stays hidden; every chunk without an embedding is owed by a job |
| Outbox, `server/outbox.ts` | `outbox_events` | append, publishBatch, recoverStale | governed actions | a crash between dispatch and UPDATE; a recovery that races a live relay | published means delivered; nothing is lost; no event has two relays |
| Approvals, `server/approvals.ts` | `approvals` | create, decide, expireOverdue, assertApproved | governed actions | two deciders; a decision against the sweep | a verdict is given once, by somebody who may |
| Governed actions, `server/actions.ts` | `governed_actions`, `documents`, `outbox_events` | preview, execute, verify, rollback | approvals, outbox | retried calls with one key; an approval asserted earlier; overlapping rollbacks | a key takes effect once; executed means approved; document, ledger and event agree |
| Kill switch, `server/killSwitch.ts` | `kill_switches` | setEnabled, isHalted, assertAutonomyAllowed | scheduler, orchestrator, decisions, agents | the switch is set after it was read | a halt is overtaken by one piece of work per caller at most |
| Scheduler, `server/scheduler.ts` | `scheduled_executions` | create, setEnabled, tick | kill switch, an injected runner | overlapping ticks; a failing runner or UPDATE | a tick runs an occurrence once; a run is recorded |
| Orchestrator, `server/orchestration.ts` | `orchestration_runs` | run | kill switch, injected executors | limits tested at different points; a step that throws after its effect | steps stay within the limits; the row tells what was done |
| Webhooks, `server/webhook.ts` | `webhook_endpoints`, `webhook_deliveries` | register, enqueue, dispatchBatch | external endpoints | overlapping batches; lost answers; partial enqueues | outcomes are earned, final, and reached |
| Connector, `server/connector.ts` | `connector_syncs`, `connector_resources`, `documents` | runSync | a source that changes | overlapping syncs; a cursor; failing items; deletion by absence | one document per file; the cursor covers what was made; deleted means archived |
| Agent governance, `server/agentGovernance.ts`, `server/agentRollback.ts` | `ai_agents`, `agent_versions`, `agent_deployments` | register, transition, approve, deploy, rollback, suspend, retire, assertExecutable | kill switch | the row is read and updated in separate transactions, with the deployment in a third between them | the row names the one active deployment; a rollback undoes a deployment |
| Cost, `server/cost.ts` | `ai_cost_ledger`, the budget in `organization_settings` | recordEstimated, recordActual | search, AI gateway | requests overlap between the test and the insertion | overspending is bounded by what is in flight |
| Memory, `server/memory.ts` | `enterprise_memory`, `enterprise_memory_versions` | remember, correct, forget, expire, expireOverdue, retrieve | knowledge graph | corrections that overlap each other, a forget and the sweep | the versions tell every content without a gap |
| Decisions, workflows, tools, `server/store.ts` | `decision_records`, `decision_actions`, executions | create, approve, act, record outcome, executeWorkflow, executeTool | kill switch | a status tested before the statements that rely on it; clients that send a request again; calls that end half-way | what is done was approved; a workflow starts once for a request; without overlap the rows do what the development store does |
| Sessions and login, `server/store.ts`, `password.ts`, `identity.ts`, `index.ts` 141-190 | `users`, `sessions`, the rate bucket in memory | authenticate, exchange, resolve, revoke | every route | the lock is read before a slow verification; a session ends between two reads | guesses are bounded; what has ended serves nothing |
| Search, `server/search.ts`, `ai/rerank.ts`, `ai/embeddings.ts` | the cache of vectors in memory and in a table | search, rerank, embed | documents, graph, meetings, memory, cost | five statements read the corpus at different times; calls under way share one request; penalties and a second sort | results were readable; only a chunk over its cap loses its place; nothing is paid for twice at a time |
| Knowledge health, `server/knowledgeHealth.ts` | `knowledge_conflicts`, `knowledge_risks` | analyze, persist | search (conflicts) | findings stored one by one | conflicts found reach the ranking |
| Knowledge graph, `server/knowledgeGraph.ts`, `memory.ts` linkToGraph | entities, relationships | upsert, link, delete, traverse | memory | the graph changes between the levels of a traversal; limits | what is near is found, at the right depth |
| Meetings, `server/meetings.ts` | meetings and their items | ingest, search, list, delete | search | three statements of a search | a meeting is found whole |
| Uploads, `server/security.ts`, `storage.ts`, `extraction.ts`, `ocr.ts`, `chunking.ts`, `index.ts` 239-287 | the object store | scan, put, createDocument, extract, chunk | documents | events of a socket in any order; a process that ends between two steps; limits that meet at a chunk's end | what is stored was scanned; the chunks carry the text |
| Routing, `server/routing.ts`, `modelRegistry.ts`, `ai/models.ts` | `model_registry`, `model_policies` | decide, upsertModel, setStatus, setPolicy | assistant | registry and policy are read by separate statements | a model that answers was allowed to |
| Assistant, `server/store.ts` askAI, `ai/*.ts` | conversations, messages | askAI | search, memory, routing, models | every step is a statement of its own, and most may fail alone | an answer rests on sources and memory its user may read |

### 1.2 The other parts

| Part | State | What it does | Status |
|---|---|---|---|
| Learning, `server/learning.ts` | none of its own | pure functions: trends, ratios and suggestions from rows of feedback and observations that `store.ts` inserts | not modelled |
| Operating intelligence, `server/operatingIntelligence.ts` | none of its own | aggregates over other components' rows | not modelled |
| Value intelligence, `server/valueIntelligence.ts` | none of its own | sums and ratios of value events that `store.ts` inserts, and of other components' rows | not modelled |
| Evaluation, `server/evaluate.ts`, `server/*evaluat*.ts`, `pilotDataset.ts` | none | offline scripts that score the server | not modelled |
| Database access, migrations, row-level policies | - | the transactions every module assumes | assumed |
| Development store and seeds | arrays in memory | its decisions, search and askAI are modelled; the demonstration data is not | partly |
| HTTP routes | - | sign-in, the middleware and uploads are modelled; the others authorise and call a service | partly |
| Observability, configuration, types, UI, deployment | - | no decision of the modelled parts depends on them | not modelled |

### 1.3 Callers that do not exist yet

Outside the tests no process of the repository calls `OutboxRelay.publishBatch` and
`recoverStale`, `WebhookService.enqueue` and `dispatchBatch`, `Scheduler.tick`,
`OrchestrationService.run` or `ApprovalService.expireOverdue`, and nothing queues a
`security_scan` job. The modules model what these classes do when they are called by any
number of concurrent callers, which is what their comments promise to support ("concurrent
relays", `server/outbox.ts` 65).

## 2. Modules

    WorkQueue          abstract: what the queue promises
    JobQueue           queue and worker loop; implements WorkQueue
    Documents          uploads, indexing, embedding, backfill, archive; uses WorkQueue
    JobQueueProofs     theorems about JobQueue and Documents
    Outbox             outbox and relays
    Webhooks           endpoints, deliveries, dispatchers
    DeliveryProofs     theorems about Outbox and Webhooks
    Approvals          approval requests
    GovernedActions    EXTENDS Approvals; actions, ledger, events
    DecisionBook       abstract: a decision as the development store keeps it
    Decisions          decisions, workflows, tools of PostgreSQL; implements DecisionBook
    Sessions           sign-in, sessions, the middleware, the rate bucket
    GovernanceProofs   theorems about Approvals, GovernedActions, Decisions, Sessions
    KillSwitch         the switch and its observation of late work
    AutonomyGate       abstract: what a permit is good for; its theorem
    Scheduler          EXTENDS KillSwitch; implements AutonomyGate
    SchedulerProofs    theorems about Scheduler
    Orchestration      EXTENDS KillSwitch; implements AutonomyGate
    OrchestrationProofs  theorems about Orchestration
    Connector          syncs of a changing source
    Rerank             the ranking of candidates (pure)
    KnowledgeHealth    the findings of an analysis (pure)
    Search             EXTENDS both; searches, the cache of vectors, analyses
    KnowledgeGraph     entities, relationships, traversals
    Meetings           transcripts, their analysis and their search
    Ingest             scan, storage, extraction, chunking of an upload
    CorpusProofs       theorems about the six of them
    AgentLifecycle     an agent, its life cycle and its deployments
    CostBudget         the cost ledger and its budget
    Memory             one record of the governed memory, under overlapping corrections
    Lists              filter and sort of JavaScript (pure)
    Intent             what is made of a question, which answers count (pure)
    Routing            EXTENDS Intent; catalog, eligibility, scores, routes (pure)
    Recall             who may read and write memory, what a question recalls (pure)
    Assistant          EXTENDS Recall, Routing; askAI while others change what it reads
    RegistryProofs     theorems about AgentLifecycle, CostBudget, Memory, Assistant
    MC*                the instances TLC checks

Conventions:

- A variable is a column (`status`, `attempt`), the local state of a call in progress (`pc`,
  `held`, `current`), the environment, or an *observation* that no action reads
  (`applied`, `delivered`, `late`, `executed`). The declarations say which.
- An action is one statement or one transaction with everything the code does before the
  next one. A transaction is split in two where another may come in between: a claim
  (`SELECT ... FOR UPDATE SKIP LOCKED`, then UPDATE and COMMIT), and a READ COMMITTED
  transaction whose early reads may be outdated when its writes commit (a fetch step and a
  commit step).
- `...Fails` is a statement that raises, `...AckLost` one that committed and whose answer
  was lost, `Crash` the end of a process with its memory.
- `faults` is chosen in `Init` among the combinations of `Settings` and never changes (in
  `Documents`, `may` and `DocumentSettings`; modules that are explored or proved about together
  use names of their own). A property that needs a premise about the environment says
  so (`faults \subseteq {"dispatchError"} => ...`), so one run covers several environments
  and every property states its own. The theorems hold for every choice of the settings.
- A definition marked `Bug:` is a plausible mistake. It is not part of any specification;
  it is there to be substituted for the definition below it, to see that a property breaks.
- Parts that share no rows are explored by one instance: its variable `part` is chosen in
  `Init` and says whose behaviour this is, while the others rest in one initial state. Nothing
  is gained by interleaving them, and TLC does not. A permutation of the symmetry set may act
  on several parts at once, because it leaves a resting part as it is.

### 2.1 JobQueue

A job row goes `absent -> queued -> processing -> completed | queued | dead_letter`.
`ClaimSelect` locks available rows, `ClaimRows`/`ClaimCommit` updates them and fills
`held[w]`, the attempt counts of the `JobRecord`s in memory. `StartJob` takes the next job;
a job whose type has no processor goes to the branch of `worker.ts` 68-74, the others are
processed (`ProcessorCommits`, `ProcessorThrows`, `ProcessorAckLost`). `Complete` and
`FailJob` write the outcome and may fail; `FailJobFails` in the inner catch block is
swallowed, in the unroutable branch it ends the batch (`AbandonBatch`). `Stop` is the signal,
read only at the top of the loop. A claim's ORDER BY and the clock are abstracted: any
available rows may be taken and a backoff elapses at some time.

### 2.2 Documents

A job is a kind (`ingest`, `embed`, `backfill`: the three shapes of idempotency key) and a
document. The queue is `Promise == INSTANCE WorkQueue WITH Jobs <- DocumentJobs, status <-
jobStatus, attempt <- attempts, ...`, so `Documents` relies on exactly what `JobQueue` is
proved to implement. Indexing replaces all chunks of a version, so the chunks are a generation
number and `text[d]`, the set of parts the chunker makes of the document's text, which is empty
when all its lines are page markers; their embeddings go with the generation. An embedding run
fetches at most `EmbedLimit` of the missing chunks, calls the provider and writes what came
back. It throws (`EmbedThrows`) when it has vectors for chunks that were replaced in between
and a foreign key fails, or when there is no `embedding_vector` column for the vectors (setting
`"noVector"`): the code catches the error of that UPDATE, but the transaction is aborted by
then, and its next statement raises again. A run that got no vectors commits all the same.
Archive and restore are the governed actions' effect on the row, without their ledger.

### 2.3 Outbox, Webhooks

A relay is a call of `publishBatch`, a dispatcher a call of `dispatchBatch`. The outbox
claims rows; webhooks select them without claiming, which is why most of their properties
need the premise that batches do not overlap. `avail` and `due` stand for `available_at`.

### 2.4 Approvals and GovernedActions

`decide` is `BeginDecide` (lock, test, authority) and `CommitDecide`; `execute` is `Execute`,
`AssertApproved` (a transaction of its own), `Lookup` and `CommitExecute` (document, ledger
row and event in one transaction, which fails on the unique key if another call was first).
`rollback` is `BeginRollback` and `CommitRollback`. `preview` only reads, and `verify` writes
a column nothing reads back; both are left out.

`MCGovernedActions` explores them next to `Sessions` and `Decisions`.

### 2.5 Decisions and Sessions

A call of `Decisions` is a sequence of statements (`Program`, one per operation) that run one
at a time and test nothing their predecessors tested; `Reject` is an early return or an
error, `Abandon` a call that ends anywhere. `faults` says whether calls overlap and end
half-way. If they do neither, the row and its observations implement `DecisionBook`, the
development store, whose operations are one step each.

`Sessions` is the account of one user: the lookup with its lock, the slow verification, the
failure or success, and the new row are statements of their own, and so are the two reads of
`getSessionByToken`. Whether a password or a token is right is the environment's choice, and
a clock lets the lock, the window of the bucket and sessions run out. Sign-in through the
provider ends in `LoadSession`, which does not read the user's status.

### 2.6 KillSwitch, AutonomyGate, Scheduler, Orchestration

`late[n][a]` counts the work caller `a` started for tenant `n` since it was halted.
`AutonomyGate` is the abstract promise: work uses up a permit, a permit is given while the
tenant is not halted, and a caller has one at a time; that a halt is overtaken by one start of
each caller at most is a theorem about it. In `Scheduler` a ticker has a permit between
`ReadSwitch` and the start of the run; in `Orchestration` a call has one between reading the
switch (before the plan, and after each step) and starting the next step.

### 2.7 Connector

Files have distinct modification times, which grow with every write. A sync reads the cursor of
the completed sync that was created last (`ReadCursor`), names the files of the directory
(`ReadDirectory`), looks at the time of each (`Stat`), reads those modified since
(`BeginReading`, `ReadFile`), upserts each in a transaction of its own, marks every known
resource it did not list as deleted (one statement), archives its document (another), and
completes with the newest time it saw. Files are written and removed between any two of these
steps; a named file that is gone when its turn comes ends the sync. The observation `missed`
collects the files last written when a listing under way would not look at them (any more).

### 2.8 Search, KnowledgeGraph, Meetings, Ingest

Explored with `Connector` by `MCCorpus`, which extends all of them.

- A search charges the budget, gets its vector (`Embed`, `LookUp`, `AskProvider`; a call for
  the same text under way is shared), reads each source in a statement of its own with a LIMIT
  (`Read`; which rows it keeps is a choice), and gates, ranks and returns (`Answer`). An item
  of the graph comes with the hops of a traversal from its node, of which any may fail.
  `Rerank` computes in ten-thousandths what the code computes in floating point, and sorts by
  place: an item stands behind those that come before it. What a query matches, the signals of
  each item and what a node is connected with are data of the instance. `Change` archives,
  restores and classifies documents meanwhile; `Analyze` and `Persist` record the conflicts
  `Answer` reads. `store = "development"` is the synchronous search of the development store,
  one step.
- A traversal reads one level of the graph in each `Expand`, where `LIMIT` may take any rows.
  `Near` is the reference its property is about: what a path of so many steps reaches.
  `linkToGraph` is three statements, each of which may be the last.
- A sentence of a transcript is what the patterns find in it. `ingest` is one transaction and
  a search reads summaries (by their text or the meeting's title), decisions and actions in
  turn, `SearchLimit` rows each. Whether the query is in a title is a choice, and so is whether
  it is in what is kept of a summary: it may be cut off, or run over two sentences.
- An upload is received, scanned over a socket whose data, end, error and timeout come in any
  order (`Reply`, `Scan`), put into storage, given its rows, and chunked. Lines have a kind
  and a length, from which tokens are estimated as the code does; `ReadLine` is the chunker's
  loop body, applied to one line after the other. The limit is tested against the sum of the
  lines' tokens, while the token count of a chunk is the estimate for its joined lines.

### 2.9 AgentLifecycle, CostBudget, Memory

Three parts that share no rows; `MCRegistry` extends them, and the assistant, and
explores one per behaviour.

- A call of the registry reads the agent's row and tests it (`Transition`, `Approve`,
  `Suspend`, `Retire`, `Deploy`, `Rollback`), and updates it in a later statement that tests
  nothing (`Update`). Between the two, `deploy` and `rollback` run the transaction of
  `AgentRollbackService` (`DeploySelect`, `DeployCommit`, `RollbackSelect`,
  `RollbackCommit`), which the older routes run alone. A deployment is numbered by the start
  of its transaction, since `deployed_at` defaults to `now()`. `Abandon` is a call that ends
  between its statements. The setting `"overlap"` lets deploys and rollbacks overlap one
  another; all other calls overlap always.
- `recordEstimated` is `ReadBudget`, then `ReadSpent` or `Exceeded`, then `Insert`;
  `recordActual` inserts untested. Costs are any number of units up to `MaxCost`.
- `correct`, `forget` and `expire` begin with `Get`. A correction then locks the row
  (`LockRow`) and commits the version with the record (`CommitCorrection`); the other two
  wait for the lock (`UpdateStatus`), and so does the sweep (`ExpireOverdue`).

### 2.10 Intent, Routing, Recall, Assistant

A question is the set of signals its text carries, one for each list of terms or expression of
`intent.ts`; `Analyze` makes the analysis of it, with the previous question of the conversation
where the code joins them. `Routing` has the catalog of `models.ts` and computes with costs in
tenths of a dollar; its sorts and filters, and those of `Recall`, are the ones of `Lists`,
where an element's place is one more than the number of those before it. A request of
`Assistant` goes through the statements of `askAI`: metrics, web, the two retrievals, `Enrich`
(the class of each source), recalled memory with the teams it belongs to (`RecallRows`,
`Authorize`), the registry (`ListModels`), the decision with the policy of that moment
(`Decide`), the attempts over the route (`Generate`), and the turn (`Record`). Any statement
may fail where the code catches it. Administrators write the registry and the policy, documents
change, people write memory and leave teams meanwhile (`Administer`, `ChangeDocument`,
`ChangeMemory`). `since` collects what held at some time since a request began: the properties
compare an answer with that, because no request can know of a change that comes after its last
read.

## 3. What TLC checks

| Run | Instance | What it shows |
|---|---|---|
| `JobQueue` | 2 workers, 2 routable jobs and 1 without a processor, 2 attempts, batches of 2; all faults, or signals only | Completed means applied; work commits once unless the answer to its own COMMIT was lost; every job is settled and a stopping worker drains its batch; the rows implement `WorkQueue` |
| `JobQueueRestart` (violation) | crashes only | A job claimed before a crash stays in `processing` for ever |
| `Outbox` | 2 events, 2 relays, 2 attempts, 3 claims, 1 crash; four settings | Outcomes are earned under every fault; with refused dispatches only, one delivery; with crashes, every event is settled |
| `Documents` | 1 document of no, 1 or 2 chunks, 3 attempts, `EmbedLimit` 1; users archive, restore and backfill; or there is no vector column, or answers are lost, or everything goes wrong, and nobody restores | Nothing unindexed is ready unless restored; what is archived stays hidden; gaps are owed by a job or have one of the reasons named; every upload ends embedded, up to the limit, or in the dead letters |
| `DocumentsRestore` (violation) | unreadable file, restore | A dead-lettered document is made ready by a restore |
| `GovernedActions` | 1 request, 2 users (one with authority), 1 document, 2 keys, 2 calls; or 1 account, 2 requests at a time, 4 in all; or 1 decision, 3 calls, 2 workflows, 2 request ids | Keys take effect once; executed means approved; verdicts are final. Guesses are bounded by the lock and the requests under way; ended sessions serve nothing. Work follows an approval, which is given once; without overlap the rows implement `DecisionBook` |
| `Scheduler` | 1 tenant, 2 schedules, 2 ticks, 2 switchings; all faults, or failing runners only | The gate is implemented; runs are recorded |
| `Orchestration` | 1 tenant, 2 calls with different limits, plans of up to 3 steps; all faults, or slow and failing executors only | Steps within limits; the row tells the run; runs are recorded |
| `Webhooks` | 1 endpoint, 2 messages, 2 dispatchers, 2 attempts, 3 posts; four settings | Outcomes are earned under every fault; one acceptance and posts within the budget when endpoints only refuse; every delivery is settled |
| `Corpus` | 2 files, 2 syncs, 3 writes, 2 starts; or 2 searches (4 kinds of request, 2 queries, 6 items, `FindLimit` 2) with no change or 1 with 2 changes; or 3 entities, 3 relationships, 1 traversal; or 3 meetings, `SearchLimit` 2; or 1 upload of any text of up to 5 lines and of files with something wrong | The cursor covers, unless items fail, all but what was written behind a listing. The items of a result were readable, keep their places, and cost one call at a time. A traversal misses nothing near. A meeting is found whole, up to the limit. What is stored was scanned, and chunks carry the text |
| `Registry` | 2 calls, 2 labels, 3 deployments (2 if they overlap); or 3 requests, costs up to 2, a budget of 3 or none; or 2 calls about a record, 2 contents, 3 corrections; or 2 questions with no change, or 1 with 2 changes of registry, policy and documents, or 1 of memory and teams | The agent's row names its one active deployment, and a first rollback undoes the deployment, while deploys and rollbacks do not overlap; overspending stays below what the other requests have in flight; the versions of a record tell every content; a model that answers was allowed to, from sources and memory its user may read |
| `ConnectorDelta` (violation) | 1 file, no fault | The second sync archives a file that was there all the time |

Type invariants, and some safety properties that TLAPS proves (section 4), are not repeated as
properties of the runs; TLC agreed with each of them first.

### Bounds

Two of every actor and of every contended row are enough for each race of the code: a claim
or a decision is between two transactions on one row, and a stale read is one actor's read
and one other's write. A third, unroutable job takes the remaining branch of the worker.
Two attempts give both outcomes of `fail`; `Documents` needs three because an upload may
have to be re-indexed after a lost answer and still be settled, and a text of two chunks is one
more than its `EmbedLimit`. `ClaimBound` and `SendBound`
are one more than the attempts, so that the count can pass the limit where the code lets it.
`FlipBound` 2 is a halt and a release (or two halts); `PlanBound` 3 with the limits chosen
makes depth, agents and budget each the one that binds. `WriteBound` 3 writes one of two
files twice; two starts overlap or follow each other, and in
`ConnectorDelta` `SyncBound` 3 lets one follow two. Three deployments are what a
rollback needs to choose between an older and the newest replaced one, and three requests
what it takes to overspend by more than one call. `ActualBound` and the guard of `Insert` for
an unlimited ledger keep sums finite; `CorrectionBound` 3 gives a chain with an inner link.

Three calls about a decision are an approval, an action and one more that interferes; four
requests are enough to lock an account (`FailureLimit` 2) with another attempt under way. In
`Corpus`, three chunks are one more than a query returns, two of one document pass its cap of
1, three meetings give more rows than a statement returns, a cache of one entry is full at
once, `RowLimit` 2 and `HopLimit` 2 cut three relationships off, and `MaxTokens` 4 with
`OverlapTokens` 2 puts overlap, heading, page marker and limit into five lines of one or three
tokens. For the assistant, one request can be overtaken between any two statements, so two
changes are a withdrawal and a return; two requests meet only in the conversation they share,
which is why nothing else changes then. The development store runs a request in one turn and
needs no changes.

`CHECK_DEADLOCK FALSE` is set where the system stops when its bounded inputs are used up; for
`JobQueue` deadlock is checked.

### Fairness

Weak fairness of the steps of a call that has begun (the code awaits its own statements one
after the other), of a worker's polling and restart (`worker.ts` 61-66; the container is
restarted, `docker-compose.yml`), and of time (a backoff elapses, an event becomes stale). For
`Outbox` and `Webhooks` also of the calls that begin a batch and of `recoverStale`: their
liveness says what happens *if* somebody calls them again and again. No fairness is assumed
of users, faults or crashes. Runners, executors and endpoints are assumed to return, which
the code does not enforce for runners and executors.

## 4. What TLAPS proves

For every value of the constants that satisfies the modules' named assumptions. Those say
that a set is finite, a bound a natural number, a null value none of the real ones, and that
the settings are combinations of the faults a module knows. The assistant's say that data has
its shape: a question hits chunks that exist (`PromptAssumption`), a registered row has a
cost (`RegistryAssumption`), a record a confidence and a finite set of words
(`MemoryAssumption`). A line of a text has at least one character (`LineAssumption`), and what a
text is divided into is some set of parts, also none (`PartsAssumption`).

**JobQueueProofs**, the queue and its documents.

- `IInv` of the queue: types, one owner per job, records that agree with rows, the retry
  budget, locks on queued rows, and what each phase of a worker says of its batch. It is
  needed because exclusiveness alone does not survive a claim: that a locked row is still
  queued, and that a held one is processing, keeps the locks of one worker away from the
  batch of another. From it: `TypeCorrect`, `OwnershipExclusive`, `RecordsCurrent`,
  `RetriesBounded`, `CompletionSound`, `AppliedOnce`; then `Refinement` (every step is a step
  of `WorkQueue` or a stutter: `RecordsCurrent` is what makes the outcome computed from the
  record the outcome the row deserves) and, by the refinement, `TerminalFinal`.
- `ReadyIsIndexed` by `ReadyInv`: unless users restore, a document that is ready was indexed,
  whatever its text is and whatever fails. `ArchivedIsHidden` follows step by step. `RunsInv`,
  that only a job that is processing is at some point of a run, is what the queue's promise is
  used for.
- `GapsStayOwed` by `GapInv`, for documents of any length and under any faults: an indexed
  document has its embedding job from then on; a run of that job has fetched all that is
  missing or as many chunks as its limit, and without lost answers it has not been outrun by
  another indexing; so a job that is over leaves no gap but those `GapsAreOwed` names, and it
  is in the dead letters only for a missing column or a lost answer.

**GovernanceProofs**, what users may do.

- `AInv` (a row lock is held from the test of a status to the write) gives
  `VerdictAuthorised` and `VerdictFinal`. With it `GInv`: an approved verdict is final, so an
  approval asserted in an earlier transaction still holds when the action commits. From it
  `GovernedTypes`, `KeysApplyOnce`, `ExecutionApproved`, `EventsAgree`.
- `DInv` says of a call at each of its statements what holds whatever the others do, and what
  holds besides when calls neither overlap nor end half-way. The first part gives
  `DecisionsHold`, `WorkFollowsApproval` and `ApprovalIsFinal`: a call that passed the status
  test read an approval, and no statement takes one back. The second gives
  `DeskImplementsBook`: every statement of PostgreSQL's sequence is a step of `DecisionBook`
  or a stutter.
- `SInv` counts the logins that still verify a password beside the guesses made:
  `GuessingBounded`. `EndedSessionsRest`: a handler runs only for a session that was usable when its
  request began.

**AutonomyGate.** `GateBoundsLateWork`: whatever implements the gate starts at most one late
piece of work per caller.

**SchedulerProofs**, **OrchestrationProofs.** Type correctness, `RunsOncePerTicker`,
`LimitsHold`, `RecordIsTrue`, that both implement the gate (`GateImplemented`), and by the
gate's theorem `HaltBoundsRuns` and `HaltBoundsSteps`.

**DeliveryProofs**, what leaves the server.

- `IInv` of the outbox joins `LockInv` (a locked row is pending and has one holder: an UPDATE
  waits for the lock), `RecordInv` (a count that was loaded is never ahead of the row's),
  `HolderInv` (what a batch holds is processing, due and nobody else's, unless events are
  overdue or answers are lost) and `OnceInv` (a delivered event is published or its relay is
  about to). Types need it too: an attempt count stays within the bound because two claims
  never lock one row. From it `TypeCorrect`, `EarnedOutcomes`, `OneHolder`, `DeliveredOnce`
  and `OutcomeFinal`.
- Webhooks claim nothing, so their invariant is weaker: `CountsHold`, no count passes the
  posts (batches write over each other, but a count is read before it is written), and
  `SoleInv`, they are equal if endpoints only refuse. From them `WebhookTypes` and
  `PostsEarnOutcomes`.

**CorpusProofs**, what is stored, found and read.

- The connector: `DocumentInv`, `CursorInv` and `MarkInv`: a file below any cursor has a
  resource, or was written behind a listing, or a running sync that listed it still owes it
  one. A cursor alone would not be inductive, because a sync computes the next one before it
  has made the documents; nor the newest time seen so far, without the files a listing has yet
  to look at. From it `TypeCorrect`, `OneDocumentPerFile`, `CursorIsCovered`,
  `DeletedIsArchived`.
- The ranking: a sort by places rearranges (`SortRearranges`), the caps only lower scores
  (`DiversifyLowers`), and so an answer is in order but for what is over a cap:
  `OnlyCapsReorder`.
- Search: `SearchInv` says that what a live search has found is of a kind its user may see, and
  was readable at some time since it began wherever the gate lets it pass; the gate alone is
  not enough, because it tests what was read and not the rows of now; and that a candidate
  carries only hops of its own node. It also says that a query has one owner and that calls
  were charged before. From it `ServedWasReadable` and `OneChargedCall`.
- `NeighboursAreFound`: an invariant of the rounds of a walk, compared with the paths of the
  graph at its begin and now. The induction over the length of a path is by the least
  counterexample (`WFMin`), which the provers can do where an induction rule cannot be
  instantiated.
- `MeetingsFound` by `StoredInv` and `FoundInv`: what each statement of a search has found of
  the meetings that are still there, which is all that matches unless it filled its limit.
  `OnlyScannedIsStored` by `ScanInv`: what is known of a file past the scan.
- `TextIsCarried`: `ReadInv` says what the chunker has closed (each chunk a run of lines
  without a gap, under the heading that was the last, and of fitting size, where the estimate
  for joined lines is compared with the sum of theirs: each joint adds half a token at most,
  `FitsJoined`) and what it still holds, which is all that no closed chunk carries but for the
  overlap. It is proved of one line (`ReadLineKeeps`), and of all lines by a least
  counterexample. The recursive functions for the loop and for a sum of tokens have to be shown
  to exist first (`ReadsAll`, `SumsAll`), by extending the function for n lines to one for n +
  1.

**RegistryProofs**, agents, costs, memory and the assistant.

- `OneDeploymentIsLive` and `FirstRollbackReverts` by `Steady`: an open transaction still reads
  what it has read, if deploys and rollbacks do not overlap. `NeverSilentOverwrite` by
  `LockHolds`: a correction that waited for the lock of the record computes the next version
  from the row it has locked.
- `BudgetHolds` by induction over what is admitted and not yet inserted (`FlightInv`): the last
  request to read the sum fits, and each of the others adds one call at most.
- `AskInv` of the assistant: what a request knows at each of its statements, and that it was
  true at some time since the request began. Nothing that others change takes that back
  (`LaterStill`), which is why it survives the steps of everybody else. It rests on what sorts
  and filters return (`SortedLists`, `FilteredLists`): a route has only models that were
  eligible (`RoutesAreAllowed`, `ConfiguredRoutes`), and what is recalled is what was
  authorized, with its conflicts flagged (`RecallKeeps`). From it `AllowedModelsAnswer` and
  `AnswersAreReadable`.

Every safety invariant and every action property of a passing run is stated by one of these
theorems. Some theorems are about properties that no run repeats
(`TypeCorrect`, `OwnershipExclusive`, `RecordsCurrent`, `TerminalFinal`, `EventsAgree`,
`RunsOncePerTicker`, `HaltBoundsRuns`, `HaltBoundsSteps`, `OneHolder`, `OutcomeFinal`,
`OneDocumentPerFile`, `DeletedIsArchived`, `WebhookTypes`, `LedgerTypeCorrect`).

Only model-checked, and why:

- Liveness (`Settled`, `EventuallySettled`, `UploadsSettle`, `RunsAreRecorded`, `AllSettle`): it
  rests on fairness, and TLAPS has no rule for ENABLED.
- The runs that expect a violation: a counterexample is a behaviour, and TLC shows it.

## 5. Where the code and its documentation disagree

Three disagreements are runs of their own (`expect: violation` in `PROJECT.json`). These others were
met while modelling; where a premise is named, dropping it makes TLC show them:

- `outbox.ts` 117: `recoverStale` measures `available_at`, which the claim does not set, so
  an event that waited longer than the window is taken from a live relay right after its
  claim and delivered twice; the comment at 64-65 says relays "never double-deliver". Premise
  `faults \subseteq {"dispatchError"}` of `DeliveredAtMostOnce` (add `"overdue"`).
- `indexing.ts` 76: an ingestion job that runs twice (its answer was lost) replaces the
  chunks, and its INSERT finds the completed embedding job and does not queue it again; the
  comment at 72-73 promises the hand-off. `indexing.ts` 116: vectors the provider did not
  return are skipped and the job completes. `search.ts` 572: a second backfill finds its
  completed job and queues nothing, and counts it as queued. `indexing.ts` 103: of more than 256
  chunks the rest stays without embeddings once the job is over. `GapsAreOwed` names these
  three reasons.
- `indexing.ts` 126-136: without pgvector the UPDATE of `embedding_vector` fails, and its
  `catch` goes on "via the portable cosine path"; but the failed statement has aborted the
  transaction, so the next one raises, every attempt throws, and the job ends in the dead
  letters with nothing embedded. `docs/P2E_SEARCH_INTELLIGENCE.md` 56 says the jsonb embedding
  is written always. `docker-compose.yml` uses an image without the extension. Setting
  `"noVector"` of `Documents`.
- `indexing.ts` 58-70: a text of nothing but page markers is not empty, gives no chunks, and its
  document is set ready: there is nothing of it to find or cite. `NeverFalselyReady` says that
  a ready document was indexed, not that it has chunks.
- `scheduler.ts` 80: the count of the claiming UPDATE is not looked at, so two overlapping
  ticks both run a due row. `OncePerTicker` is therefore about one tick.
- `scheduler.ts` 83 and `orchestration.ts` 89: a crash leaves the row `running` for ever.
  Premises of `RunsAreRecorded`.
- `webhook.ts` 114: rows are selected and not claimed, so overlapping batches both post, an
  attempt count can be lost or pass `MAX_ATTEMPTS`, and a late failure reopens a delivered
  row. Premise `"overlap" \notin failures`.
- `connector.ts` 158: the two UPDATEs of a deletion are separate transactions; a sync that
  ends in between leaves a deleted resource with a ready document. `connector.ts` 146: an item
  that failed is not listed again. `changes.deletions` is never read. Premises of
  `DeletedMeansArchived` and `CursorCovers`.
- `connector.ts` 43-51: the files are named in one call and then looked at one after the other,
  so a file written meanwhile that was not named, or was looked at before, is not listed, while
  the cursor takes the time of one written later; no sync lists it until it is written again.
  `CursorCovers` names such files (`missed`). Files that share a modification time, or are
  moved in with an old one, are passed as well and are outside the model, which has neither.
- `search.ts` 229-254, 375-391: an item of the graph names the entities and relationships next to
  its node. The traversal (`knowledgeGraph.ts` 173-186) asks neither their class nor whether
  they are deleted, and the gate tests the class of the first node only; the comment at
  `security.ts` 11-13 says an item can never reach a response its reader is not cleared for.
  `ServesReadable` is therefore about the items themselves, and says of what they name only
  that it is next to the node.
- `meetings.ts` 164, 169, 174: each statement of a search has `LIMIT 20` and no order, so with
  more matches a meeting can be shown by its summary without its matching items.
  `MeetingsAreFoundWhole` excludes the statements that filled their limit.
- `agentRollback.ts` 83: a rollback restores the newest deployment that is `rolled_back`. After
  an earlier rollback that is the one just withdrawn, so two rollbacks in a row alternate
  between two versions; the comment at 16-17 says a rollback "reverts to the previous active
  deployment". Premise `withdrawn = {}` of `RollbackReverts`. Line 60: the UPDATE of one deploy
  does not see the row another one is about to insert, and nothing makes an active deployment
  unique; premise `"overlap" \notin faults` of `LiveIsDeployed`.
- `agentGovernance.ts` 157: `createVersion` writes the policies with an UPDATE that precedes
  the INSERT of the row, so a new version never receives them. Lines 212 and 65: `suspend` is
  accepted in every state and `suspended` may become `deployed`, so a retired agent can return.
- `memory.ts` 272: an `expire` that got the record before a `forget` overwrites `deleted` with
  `expired`, and `get` finds the record again.
- `cost.ts` 58: `recordActual` adds to the sum that is tested and is not tested itself, which
  is why `OverspendBounded` is about estimated usage.
- `approvals.ts` 94: an overdue request can be approved until `expireOverdue` has run.
- `store.ts` 1067-1079: `actOnDecision` tests the status and writes it later, so with overlap
  a measured decision returns to `action_pending`; ON CONFLICT leaves `workflow_id` as it was
  when a second workflow is attached. Premise `faults = {}` of the conjunct about the
  workflow. `executeTool`: a call that ends early leaves its row `processing`.
- `store.ts` 645-668: after a sign-in through the provider the user's status is not read,
  unlike every later request.
- `retrieval.ts`, `store.ts` 808-813: when the query of the metadata fails, or a chunk was
  replaced meanwhile, a source counts as Internal; the comment says access is enforced before
  anything becomes a citation. Conjunct `s.known` of `AnswersAreGrounded`. Memory and metrics do
  not count for the class a model must be allowed.
- `store.ts` 858: two chunks of one section have one citation id, and an answer with duplicate
  ids is never valid, so every model fails and the request is refused.
- `modelRegistry.ts` 125-143: a primary model of unknown cost skips the ceiling, and fallbacks
  are not filtered by it; the preview route omits the filter of registered models.
- `store.ts` askAI: a question that names a conversation which does not exist is recorded under
  another id, so the next one under that name has no previous question. The development store
  searches the web also for a critical request if the mode `web` is asked for.
- `memory.ts` 203-209: of two records that conflict only the later one is flagged.
- `search.ts` 154-164: placeholders and values of the pgvector query are in different orders,
  so that path fails and the fallback is taken; `Search` has one semantic read. `suggest` shows
  titles without the filter of classes, and a search charges the budget also when the cache
  has the vector. `rerank.ts`: "maximum results per distinct document" lowers the score of
  the others by 0.02 each and removes none.
- `knowledgeGraph.ts` 94: the relationships have no unique key, so ON CONFLICT DO NOTHING never
  applies and repeated links repeat rows; traversals go through deleted entities; the upsert
  of `linkToGraph` sets class and attributes of a known entity anew.
- `knowledgeHealth.ts`: every analysis inserts its findings again, and no code resolves one.
- `chunking.ts` 66-75, 99: the limit is tested against the sum of the lines' tokens, and the
  count that is stored is that of the joined lines, which may be more by half a token per
  line. Line 102: a chunk may exceed the limit by an overlap, and one that spans a page
  marker carries the later page. `index.ts` 256-264: a `createDocument` that fails leaves its
  object behind. `worker.ts` passes no OCR engine, so images always fail there.

## 6. Not modelled

In the modelled parts: order of claims, error texts, metrics and audit rows; tenants are one row
set each (the row-level policies keep them apart, and unscoped queries run as the owner);
webhook signatures and destination checks (a failing check is a failed post); model names,
policies and authority of agents, `ai_agents.status`, `update`, `createVersion`,
`assertExecutable` and `assertToolAllowed`; token counts and rates of models; titles, ACLs and
content hashes of synced files; `verify` and `preview` of governed actions;
`kill_switches.last_enforced_at`; `suggest`, highlights and the external rerank client, which
nothing constructs; the context an answer takes from the graph, the agent that answers and
its delegation, which no test of the answer looks at; get, delete and download URLs of
objects; prompts and the wording of answers. The text of documents, what a query matches and
what a parser reads are data or choices: the questions about them are of quality, not of
order.

Whole parts, and why:

- *Learning, operating and value intelligence*: pure sums, ratios and thresholds over rows that
  single statements of `store.ts` insert. A model would repeat the formula it is to check.
- *Evaluation*: scripts that score a server, and are run by hand.
- *Database access, migrations and policies*: the models assume what PostgreSQL promises of a
  transaction, and take the outcome of a lost COMMIT into account where a caller sees one.
- *Observability, configuration, type declarations, seeds*: constants, counters and shapes.
- *User interface and deployment*: a client of the API without state of the server, and the
  restart policy that `Restart` and fairness stand for.

## 7. Plan

Done, in this order: JobQueue with WorkQueue and its proofs; Outbox; Documents; Approvals and
GovernedActions with proofs; KillSwitch, AutonomyGate, Scheduler and Orchestration with
proofs; Webhooks; Connector; AgentLifecycle, CostBudget and Memory; proofs about Outbox,
Connector and CostBudget; Decisions with DecisionBook, and Sessions; Rerank, Search and
KnowledgeHealth; KnowledgeGraph, Meetings and Ingest; Intent, Routing, Recall and Assistant;
proofs about Documents, Decisions, Sessions, Webhooks, AgentLifecycle, Memory, Search with
Rerank, KnowledgeGraph, Meetings, Ingest, and Assistant.

Next:

1. Proofs of what no run repeats yet: that the development store's askAI needs none of the
   premises of PostgreSQL's, and that a record that was forgotten is recalled by no question
   that begins afterwards.
2. The rest of agent governance: `update` and `createVersion` with the policies they write, and
   `assertExecutable` with `assertToolAllowed` over AgentLifecycle and KillSwitch. A call that was
   granted read a deployed, evaluated agent and a released switch, in that order, and each may
   have changed before it acts.
3. The context an answer takes from the graph, and `suggest`.
