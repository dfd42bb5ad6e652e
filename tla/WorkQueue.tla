------------------------------ MODULE WorkQueue ------------------------------
(***************************************************************************)
(* What the durable document queue promises to the rest of the system,     *)
(* with no worker, no lock and no memory in it: a job is delivered at most *)
(* MaxAttempts times, a delivery that ends is acknowledged, retried or     *)
(* buried, and only the last permitted delivery may be buried.  JobQueue   *)
(* is shown to implement this module under the identity mapping of its job *)
(* rows.                                                                   *)
(***************************************************************************)
EXTENDS Naturals

CONSTANTS Jobs, MaxAttempts

VARIABLES
    status,   \* the status column of document_processing_jobs, by job
    attempt   \* the attempt_count column, by job

qvars == <<status, attempt>>

AbsInit ==
    /\ status = [j \in Jobs |-> "absent"]
    /\ attempt = [j \in Jobs |-> 0]

Submit(j) ==
    /\ status[j] = "absent"
    /\ status' = [status EXCEPT ![j] = "queued"]
    /\ UNCHANGED attempt

\* A batch of waiting jobs is handed out; each one spends one of its attempts.
Deliver(batch) ==
    /\ \A j \in batch : status[j] = "queued" /\ attempt[j] < MaxAttempts
    /\ status' = [j \in Jobs |-> IF j \in batch THEN "processing" ELSE status[j]]
    /\ attempt' = [j \in Jobs |-> IF j \in batch THEN attempt[j] + 1 ELSE attempt[j]]

Acknowledge(j) ==
    /\ status[j] = "processing"
    /\ status' = [status EXCEPT ![j] = "completed"]
    /\ UNCHANGED attempt

Retry(j) ==
    /\ status[j] = "processing"
    /\ attempt[j] < MaxAttempts
    /\ status' = [status EXCEPT ![j] = "queued"]
    /\ UNCHANGED attempt

Bury(j) ==
    /\ status[j] = "processing"
    /\ attempt[j] = MaxAttempts
    /\ status' = [status EXCEPT ![j] = "dead_letter"]
    /\ UNCHANGED attempt

AbsNext ==
    \/ \E j \in Jobs : Submit(j) \/ Acknowledge(j) \/ Retry(j) \/ Bury(j)
    \/ \E batch \in SUBSET Jobs : Deliver(batch)

AbsSpec == AbsInit /\ [][AbsNext]_qvars

=============================================================================
