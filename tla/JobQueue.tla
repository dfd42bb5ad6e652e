------------------------------ MODULE JobQueue ------------------------------
(***************************************************************************)
(* The durable job queue (src/server/jobs.ts) and the worker processes     *)
(* that serve it (runWorkerLoop in src/server/worker.ts).                  *)
(*                                                                         *)
(* A job row is created by an API transaction, claimed by one worker with  *)
(* SELECT ... FOR UPDATE SKIP LOCKED, processed, and then completed,       *)
(* queued again after a backoff, or moved to dead_letter.  A claim is two  *)
(* steps (the rows are locked, then updated and committed), a job is       *)
(* processed between two statements of its own, and any statement may fail *)
(* or be the last thing its worker does.                                   *)
(*                                                                         *)
(* Abstracted: the ORDER BY of the claim (any available rows may be        *)
(* taken), the clock (a backoff elapses at some time), the tenant, the     *)
(* error text and the columns nothing reads (locked_at, last_error).       *)
(***************************************************************************)
EXTENDS Naturals, FiniteSets

CONSTANTS
    Jobs,         \* the idempotency keys, one row each
    Routable,     \* the jobs whose type has a registered processor
    Workers,      \* the worker processes
    MaxAttempts,  \* maxAttempts of PostgresJobQueue.fail
    BatchLimit,   \* maxJobsPerClaim of runWorkerLoop
    Settings,     \* the combinations of FaultKinds the environment may inject
    NoJob         \* the null job

FaultKinds == {"crash", "dbError", "lostAck", "stop"}

ASSUME RoutableAssumption == Routable \subseteq Jobs
ASSUME AttemptAssumption == MaxAttempts \in Nat \ {0}
ASSUME BatchAssumption == BatchLimit \in Nat \ {0}
ASSUME SettingAssumption == Settings \subseteq SUBSET FaultKinds
ASSUME NoJobAssumption == NoJob \notin Jobs

VARIABLES
    (* rows of document_processing_jobs *)
    status,    \* status, "absent" before the row exists
    attempt,   \* attempt_count
    due,       \* available_at <= now()
    (* the workers *)
    pc,        \* where a worker is in runWorkerLoop
    locked,    \* rows locked by the worker's open claim transaction
    held,      \* attemptCount of the JobRecords in claimed, 0 if none
    current,   \* the loop variable job
    (* observation only *)
    applied,   \* how many times the processor's transaction committed
    doubted,   \* jobs whose commit was applied and its answer lost
    (* the environment *)
    faults     \* what may go wrong in this behaviour

rows == <<status, attempt, due>>
memory == <<pc, locked, held, current>>
observed == <<applied, doubted, faults>>
vars == <<status, attempt, due, pc, locked, held, current, applied, doubted, faults>>

Status == {"absent", "queued", "processing", "completed", "dead_letter"}
Phase == {"polling", "claiming", "batch", "processing", "succeeded", "threw",
          "unroutable", "stopped", "down"}

NoneHeld == [j \in Jobs |-> 0]
Held(w) == {j \in Jobs : held[w][j] > 0}
Waiting(w) == Held(w) \ {current[w]}

Init ==
    /\ status = [j \in Jobs |-> "absent"]
    /\ attempt = [j \in Jobs |-> 0]
    /\ due = [j \in Jobs |-> FALSE]
    /\ pc = [w \in Workers |-> "polling"]
    /\ locked = [w \in Workers |-> {}]
    /\ held = [w \in Workers |-> NoneHeld]
    /\ current = [w \in Workers |-> NoJob]
    /\ applied = [j \in Jobs |-> 0]
    /\ doubted = {}
    /\ faults \in Settings

-----------------------------------------------------------------------------
(* The table                                                               *)

\* enqueue: ON CONFLICT only touches updated_at, so a row that exists,
\* whatever its status, is left as it is.
Enqueue(j) ==
    /\ status[j] = "absent"
    /\ status' = [status EXCEPT ![j] = "queued"]
    /\ due' = [due EXCEPT ![j] = TRUE]
    /\ UNCHANGED <<attempt, memory, observed>>

\* available_at passes for a job that waits out its backoff.
BackoffElapses(j) ==
    /\ status[j] = "queued" /\ ~due[j]
    /\ due' = [due EXCEPT ![j] = TRUE]
    /\ UNCHANGED <<status, attempt, memory, observed>>

\* complete's UPDATE ... WHERE status = 'processing'
CompleteRow(j) ==
    /\ status' = [status EXCEPT ![j] = IF @ = "processing" THEN "completed" ELSE @]
    /\ UNCHANGED <<attempt, due>>

\* Bug: a failed job is always queued again.
FailRowAlwaysRetries(j, n) ==
    /\ UNCHANGED attempt
    /\ status' = [status EXCEPT ![j] = "queued"]
    /\ due' = [due EXCEPT ![j] = FALSE]

\* fail's UPDATE ... WHERE status = 'processing'; n is the caller's attemptCount
FailRow(j, n) ==
    /\ UNCHANGED attempt
    /\ IF status[j] = "processing"
       THEN /\ status' = [status EXCEPT ![j] = IF n >= MaxAttempts
                                               THEN "dead_letter" ELSE "queued"]
            /\ due' = [due EXCEPT ![j] = FALSE]
       ELSE UNCHANGED <<status, due>>

-----------------------------------------------------------------------------
(* claim                                                                   *)

\* Rows another claim transaction has locked are skipped.
Available == {j \in Jobs : /\ status[j] = "queued" /\ due[j]
                           /\ \A w \in Workers : j \notin locked[w]}

ClaimSelect(w) ==
    /\ pc[w] = "polling"
    /\ \E batch \in SUBSET Available :
          /\ batch # {} /\ Cardinality(batch) <= BatchLimit
          /\ locked' = [locked EXCEPT ![w] = batch]
    /\ pc' = [pc EXCEPT ![w] = "claiming"]
    /\ UNCHANGED <<rows, held, current, observed>>

\* The UPDATE of the selected rows and the COMMIT.
ClaimRows(w) ==
    /\ status' = [j \in Jobs |-> IF j \in locked[w] THEN "processing" ELSE status[j]]
    /\ attempt' = [j \in Jobs |-> IF j \in locked[w] THEN attempt[j] + 1 ELSE attempt[j]]
    /\ locked' = [locked EXCEPT ![w] = {}]
    /\ UNCHANGED due

\* The JobRecords carry the attempt count read by the SELECT, plus one.
ClaimCommit(w) ==
    /\ pc[w] = "claiming"
    /\ ClaimRows(w)
    /\ held' = [held EXCEPT ![w] = [j \in Jobs |-> IF j \in locked[w]
                                                   THEN attempt[j] + 1 ELSE 0]]
    /\ pc' = [pc EXCEPT ![w] = "batch"]
    /\ UNCHANGED <<current, observed>>

\* The transaction fails and is rolled back; the loop logs and polls again.
ClaimFails(w) ==
    /\ "dbError" \in faults
    /\ pc[w] = "claiming"
    /\ locked' = [locked EXCEPT ![w] = {}]
    /\ pc' = [pc EXCEPT ![w] = "polling"]
    /\ UNCHANGED <<rows, held, current, observed>>

\* The COMMIT reaches the database and its answer is lost: claim throws.
ClaimAckLost(w) ==
    /\ "lostAck" \in faults
    /\ pc[w] = "claiming"
    /\ ClaimRows(w)
    /\ pc' = [pc EXCEPT ![w] = "polling"]
    /\ UNCHANGED <<held, current, observed>>

-----------------------------------------------------------------------------
(* the for loop over the claimed jobs                                      *)

StartJob(w) ==
    /\ pc[w] = "batch"
    /\ \E j \in Held(w) :
          /\ current' = [current EXCEPT ![w] = j]
          /\ pc' = [pc EXCEPT ![w] = IF j \in Routable
                                     THEN "processing" ELSE "unroutable"]
    /\ UNCHANGED <<rows, locked, held, observed>>

ProcessorCommits(w) ==
    /\ pc[w] = "processing"
    /\ applied' = [applied EXCEPT ![current[w]] = @ + 1]
    /\ pc' = [pc EXCEPT ![w] = "succeeded"]
    /\ UNCHANGED <<rows, locked, held, current, doubted, faults>>

\* Bug: the processor catches its own error.
ProcessorSwallowsError(w) ==
    /\ pc[w] = "processing"
    /\ pc' = [pc EXCEPT ![w] = "succeeded"]
    /\ UNCHANGED <<rows, locked, held, current, observed>>

\* The processor's transaction is rolled back and the error is rethrown.
ProcessorThrows(w) ==
    /\ pc[w] = "processing"
    /\ pc' = [pc EXCEPT ![w] = "threw"]
    /\ UNCHANGED <<rows, locked, held, current, observed>>

\* The transaction commits, its answer is lost: the processor throws.
ProcessorAckLost(w) ==
    /\ "lostAck" \in faults
    /\ pc[w] = "processing"
    /\ applied' = [applied EXCEPT ![current[w]] = @ + 1]
    /\ doubted' = doubted \cup {current[w]}
    /\ pc' = [pc EXCEPT ![w] = "threw"]
    /\ UNCHANGED <<rows, locked, held, current, faults>>

\* The loop goes on with the next job, or to its top after the last one.
NextJob(w) ==
    /\ held' = [held EXCEPT ![w][current[w]] = 0]
    /\ current' = [current EXCEPT ![w] = NoJob]
    /\ pc' = [pc EXCEPT ![w] = IF Waiting(w) = {} THEN "polling" ELSE "batch"]
    /\ UNCHANGED <<locked, observed>>

Complete(w) ==
    /\ pc[w] = "succeeded"
    /\ CompleteRow(current[w])
    /\ NextJob(w)

\* Bug: complete is called in the processor's try block, without its own.
CompleteErrorFailsJob(w) ==
    /\ "dbError" \in faults
    /\ pc[w] = "succeeded"
    /\ pc' = [pc EXCEPT ![w] = "threw"]
    /\ UNCHANGED <<rows, locked, held, current, observed>>

\* completeError and failError are caught and logged; the loop goes on.
CompleteFails(w) ==
    /\ "dbError" \in faults
    /\ pc[w] = "succeeded"
    /\ NextJob(w)
    /\ UNCHANGED rows

FailJob(w) ==
    /\ pc[w] \in {"threw", "unroutable"}
    /\ FailRow(current[w], held[w][current[w]])
    /\ NextJob(w)

FailJobFails(w) ==
    /\ "dbError" \in faults
    /\ pc[w] = "threw"
    /\ NextJob(w)
    /\ UNCHANGED rows

\* The worker forgets what it claimed and has no transaction open.
Forget(w) ==
    /\ locked' = [locked EXCEPT ![w] = {}]
    /\ held' = [held EXCEPT ![w] = NoneHeld]
    /\ current' = [current EXCEPT ![w] = NoJob]
    /\ UNCHANGED <<rows, observed>>

\* The fail of an unroutable job is not in a try block of its own: its error
\* leaves the for loop, and the rest of the batch with it.
AbandonBatch(w) ==
    /\ "dbError" \in faults
    /\ pc[w] = "unroutable"
    /\ pc' = [pc EXCEPT ![w] = "polling"]
    /\ Forget(w)

-----------------------------------------------------------------------------
(* processes come and go                                                   *)

\* Bug: the signal is also checked between the jobs of a batch.
StopMidBatch(w) ==
    /\ "stop" \in faults
    /\ pc[w] \in {"polling", "batch"}
    /\ pc' = [pc EXCEPT ![w] = "stopped"]
    /\ Forget(w)

\* SIGTERM and SIGINT set a flag that is read at the top of the loop only.
Stop(w) ==
    /\ "stop" \in faults
    /\ pc[w] = "polling"
    /\ pc' = [pc EXCEPT ![w] = "stopped"]
    /\ UNCHANGED <<rows, locked, held, current, observed>>

Crash(w) ==
    /\ "crash" \in faults
    /\ pc[w] \notin {"stopped", "down"}
    /\ pc' = [pc EXCEPT ![w] = "down"]
    /\ Forget(w)

Restart(w) ==
    /\ pc[w] \in {"stopped", "down"}
    /\ pc' = [pc EXCEPT ![w] = "polling"]
    /\ UNCHANGED <<rows, locked, held, current, observed>>

Work(w) ==
    \/ ClaimCommit(w)
    \/ StartJob(w)
    \/ ProcessorCommits(w) \/ ProcessorThrows(w) \/ ProcessorAckLost(w)
    \/ Complete(w) \/ CompleteFails(w)
    \/ FailJob(w) \/ FailJobFails(w) \/ AbandonBatch(w)
    \/ ClaimFails(w) \/ ClaimAckLost(w)

Next ==
    \/ \E j \in Jobs : Enqueue(j) \/ BackoffElapses(j)
    \/ \E w \in Workers : \/ ClaimSelect(w) \/ Work(w)
                          \/ Stop(w) \/ Crash(w) \/ Restart(w)

Spec == Init /\ [][Next]_vars

(* A live worker keeps executing, a supervisor restarts a process that     *)
(* ended (restart: unless-stopped), and time passes.                       *)
FairSpec ==
    /\ Spec
    /\ \A w \in Workers : /\ WF_vars(ClaimSelect(w)) /\ WF_vars(Work(w))
                          /\ WF_vars(Restart(w))
    /\ \A j \in Jobs : WF_vars(BackoffElapses(j))

-----------------------------------------------------------------------------
(* Properties                                                              *)

\* Every variable ranges over the values the code gives it; an attempt count
\* never exceeds MaxAttempts, and a worker holds locks or jobs only in the
\* phases that have them.
TypeOK ==
    /\ status \in [Jobs -> Status]
    /\ attempt \in [Jobs -> 0..MaxAttempts]
    /\ due \in [Jobs -> BOOLEAN]
    /\ pc \in [Workers -> Phase]
    /\ locked \in [Workers -> SUBSET Jobs]
    /\ held \in [Workers -> [Jobs -> 0..MaxAttempts]]
    /\ current \in [Workers -> Jobs \cup {NoJob}]
    /\ applied \in [Jobs -> 0..MaxAttempts]
    /\ doubted \subseteq Jobs
    /\ faults \in Settings

\* At most one worker has a given job in its claimed batch, and no job that
\* is being claimed is already in one, whatever crashes and errors interleave.
ExclusiveOwnership ==
    \A v, w \in Workers : v # w =>
        /\ Held(v) \cap Held(w) = {}
        /\ locked[v] \cap locked[w] = {}
        /\ locked[v] \cap Held(w) = {}

\* A JobRecord in memory agrees with its row for as long as the worker has
\* it: the row is still processing and the attempt count was not overtaken,
\* so fail's decision between retry and dead_letter is not a stale one.
RecordIsCurrent ==
    \A w \in Workers : \A j \in Held(w) :
        status[j] = "processing" /\ held[w][j] = attempt[j]

\* The retry budget: a job waits for another attempt only if it has one
\* left, and is dead-lettered only when it has spent them all.
RetryBudget ==
    \A j \in Jobs :
        /\ status[j] = "queued" => attempt[j] < MaxAttempts
        /\ status[j] = "dead_letter" => attempt[j] = MaxAttempts

\* A job is marked completed only if its processor's work is in the database.
CompletedMeansApplied ==
    \A j \in Jobs : status[j] = "completed" => applied[j] >= 1

\* A processor's work commits at most once per job, over all retries,
\* failing statements, crashes and restarts, and work that did commit is
\* never queued again nor dead-lettered: only an answer to the processor's
\* COMMIT that is lost can lead to that.
AppliedAtMostOnce ==
    \A j \in Jobs \ doubted :
        /\ applied[j] <= 1
        /\ status[j] \in {"queued", "dead_letter"} => applied[j] = 0

\* No step takes a job out of completed or dead_letter (not even enqueueing
\* its idempotency key again), and none lowers an attempt count.
TerminalIsFinal ==
    [][\A j \in Jobs :
          /\ status[j] \in {"completed", "dead_letter"} => status'[j] = status[j]
          /\ attempt'[j] >= attempt[j]]_vars

Queue == INSTANCE WorkQueue

\* The rows evolve as the abstract queue says: the two-step claim, the
\* workers' memory and their failures are invisible in it.
ImplementsWorkQueue == Queue!AbsSpec

\* When nothing worse happens than signals to stop, every job that is being
\* processed leaves that status, because the loop drains its batch before it
\* ends; and every queued job is completed or dead-lettered in the end, if
\* from some time on at least one worker is not told to stop.
Settled ==
    faults \subseteq {"stop"} =>
        \A j \in Jobs :
            /\ status[j] = "processing" ~> status[j] # "processing"
            /\ \A w \in Workers : <>[](pc[w] # "stopped") =>
                   (status[j] = "queued" ~> status[j] \in {"completed", "dead_letter"})

\* What docs/DEPLOYMENT.md says of the queue: it "survives restarts".  Once
\* every worker is up again for good, a job that was claimed before a crash
\* is served again.
SurvivesRestarts ==
    <>[](\A w \in Workers : pc[w] \notin {"stopped", "down"}) =>
        \A j \in Jobs : status[j] = "processing" ~> status[j] # "processing"

-----------------------------------------------------------------------------
(* The inductive invariant behind the safety properties                    *)

Idle == {"polling", "claiming", "stopped", "down"}
Busy == {"processing", "succeeded", "threw", "unroutable"}

\* What a worker's phase says of its locks, its batch and its loop variable.
PhaseInv ==
    \A w \in Workers :
        /\ pc[w] # "claiming" => locked[w] = {}
        /\ pc[w] \in Idle => held[w] = NoneHeld
        /\ pc[w] \in Idle \cup {"batch"} => current[w] = NoJob
        /\ pc[w] \in Busy => current[w] \in Held(w)

\* A row that is locked by a claim is still queued when the claim updates it.
LockInv == \A w \in Workers : \A j \in locked[w] : status[j] = "queued"

AttemptInv ==
    \A j \in Jobs : /\ status[j] = "absent" => attempt[j] = 0
                    /\ applied[j] <= attempt[j]

\* The processor has not committed in the current attempt.
NotYetApplied(w, j) == ~(pc[w] \in {"succeeded", "threw"} /\ current[w] = j)

AppliedInv ==
    \A w \in Workers :
        /\ \A j \in Held(w) : NotYetApplied(w, j) => applied[j] < attempt[j]
        /\ pc[w] = "succeeded" => applied[current[w]] >= 1

\* Only the worker that has committed a job, or nobody, can be about to
\* settle it, unless an answer was lost.
OnceInv ==
    /\ \A j \in Jobs : status[j] = "absent" => applied[j] = 0
    /\ \A w \in Workers : \A j \in Held(w) \ doubted :
          ~(pc[w] = "succeeded" /\ current[w] = j) => applied[j] = 0

\* The inductive invariant: the safety properties and what they rest on.
IInv ==
    /\ TypeOK
    /\ PhaseInv
    /\ LockInv
    /\ ExclusiveOwnership
    /\ RecordIsCurrent
    /\ RetryBudget
    /\ AttemptInv
    /\ AppliedInv
    /\ CompletedMeansApplied
    /\ OnceInv
    /\ AppliedAtMostOnce

=============================================================================
