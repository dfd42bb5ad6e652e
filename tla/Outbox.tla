------------------------------- MODULE Outbox -------------------------------
(***************************************************************************)
(* The transactional outbox (src/server/outbox.ts): events appended inside *)
(* business transactions, relays that claim a batch and dispatch it, and   *)
(* recoverStale, which puts events left in processing back to pending.     *)
(*                                                                         *)
(* A relay is a caller of publishBatch; any number run concurrently, each  *)
(* loads an event after it was claimed, dispatches it outside any          *)
(* transaction and writes the outcome with an UPDATE that tests nothing    *)
(* but the id.                                                             *)
(*                                                                         *)
(* Time is the position of available_at: in the future, due, or stale      *)
(* (older than recoverStale's window).  A claim does not touch it, so an   *)
(* event may be stale while its relay is alive: the fault "overdue".       *)
(***************************************************************************)
EXTENDS Naturals, FiniteSets

CONSTANTS
    Events,       \* the idempotency keys
    Relays,       \* the concurrent callers of publishBatch
    MaxAttempts,  \* MAX_ATTEMPTS
    BatchLimit,   \* limit of publishBatch
    Settings,     \* the combinations of FaultKinds the environment may inject
    ClaimBound,   \* bound: no event is claimed more often than this
    CrashBound,   \* bound: how many crashes there are
    NoEvent

FaultKinds == {"crash", "dbError", "dispatchError", "lostAck", "overdue"}

ASSUME AttemptAssumption == MaxAttempts \in Nat \ {0}
ASSUME BoundAssumption == ClaimBound \in Nat /\ CrashBound \in Nat
ASSUME SettingAssumption == Settings \subseteq SUBSET FaultKinds
ASSUME NoEventAssumption == NoEvent \notin Events

VARIABLES
    (* rows of outbox_events *)
    status,
    attempt,    \* attempt_count
    avail,      \* where available_at lies
    (* the relays *)
    pc,
    locked,     \* rows locked by the open claim transaction
    batch,      \* claimed events not yet settled
    current,    \* the event being dispatched
    seen,       \* its attemptCount, as loadEvent read it
    (* observation only *)
    delivered,  \* how often the consumer has received an event
    crashes,
    (* the environment: what may go wrong in this behaviour *)
    faults

rows == <<status, attempt, avail>>
memory == <<pc, locked, batch, current, seen>>
vars == <<status, attempt, avail, pc, locked, batch, current, seen, delivered, crashes, faults>>

Status == {"absent", "pending", "processing", "published", "dead_letter"}
Phase == {"idle", "claiming", "batch", "loaded", "dispatched", "failing"}

Init ==
    /\ status = [e \in Events |-> "absent"]
    /\ attempt = [e \in Events |-> 0]
    /\ avail = [e \in Events |-> "due"]
    /\ pc = [r \in Relays |-> "idle"]
    /\ locked = [r \in Relays |-> {}]
    /\ batch = [r \in Relays |-> {}]
    /\ current = [r \in Relays |-> NoEvent]
    /\ seen = [r \in Relays |-> 0]
    /\ delivered = [e \in Events |-> 0]
    /\ crashes = 0
    /\ faults \in Settings

-----------------------------------------------------------------------------
(* The table and the clock                                                 *)

\* appendOutboxEvent, with the commit of its transaction: DO NOTHING if the
\* key is there.
Append(e) ==
    /\ status[e] = "absent"
    /\ status' = [status EXCEPT ![e] = "pending"]
    /\ UNCHANGED <<attempt, avail, memory, delivered, crashes, faults>>

BackoffElapses(e) ==
    /\ avail[e] = "future"
    /\ avail' = [avail EXCEPT ![e] = "due"]
    /\ UNCHANGED <<status, attempt, memory, delivered, crashes, faults>>

HeldByNone(e) == \A r \in Relays : e \notin batch[r]

\* An UPDATE of a row waits for the transaction that has locked it.
Unlocked(e) == \A r \in Relays : e \notin locked[r]

\* The window passes: for a crashed relay's event, or for any event if
\* events may be overdue (a backlog, or a slow dispatch).
BecomesStale(e) ==
    /\ status[e] \in {"pending", "processing"} /\ avail[e] = "due"
    /\ "overdue" \in faults \/ (status[e] = "processing" /\ HeldByNone(e))
    /\ avail' = [avail EXCEPT ![e] = "stale"]
    /\ UNCHANGED <<status, attempt, memory, delivered, crashes, faults>>

\* Bug: recoverStale looks for stale pending events.
IsStalePending(e) == status[e] = "pending" /\ avail[e] = "stale"

IsStale(e) == status[e] = "processing" /\ avail[e] = "stale"

RecoverStale ==
    /\ \E e \in Events : IsStale(e)
    /\ status' = [e \in Events |-> IF IsStale(e) THEN "pending" ELSE status[e]]
    /\ avail' = [e \in Events |-> IF IsStale(e) THEN "due" ELSE avail[e]]
    /\ UNCHANGED <<attempt, memory, delivered, crashes, faults>>

-----------------------------------------------------------------------------
(* publishBatch: the claim                                                 *)

\* Bug: SELECT ... WHERE status IN ('pending', 'processing').
AvailableProcessingToo ==
    {e \in Events : /\ status[e] \in {"pending", "processing"} /\ avail[e] # "future" /\ Unlocked(e)}

Available == {e \in Events : /\ status[e] = "pending" /\ avail[e] # "future" /\ Unlocked(e)}

ClaimSelect(r) ==
    /\ pc[r] = "idle"
    /\ \E claim \in SUBSET Available :
          /\ claim # {} /\ Cardinality(claim) <= BatchLimit
          /\ \A e \in claim : attempt[e] < ClaimBound
          /\ locked' = [locked EXCEPT ![r] = claim]
    /\ pc' = [pc EXCEPT ![r] = "claiming"]
    /\ UNCHANGED <<rows, batch, current, seen, delivered, crashes, faults>>

ClaimRows(r) ==
    /\ status' = [e \in Events |-> IF e \in locked[r] THEN "processing" ELSE status[e]]
    /\ attempt' = [e \in Events |-> IF e \in locked[r] THEN attempt[e] + 1 ELSE attempt[e]]
    /\ locked' = [locked EXCEPT ![r] = {}]
    /\ UNCHANGED avail

ClaimCommit(r) ==
    /\ pc[r] = "claiming"
    /\ ClaimRows(r)
    /\ batch' = [batch EXCEPT ![r] = locked[r]]
    /\ pc' = [pc EXCEPT ![r] = "batch"]
    /\ UNCHANGED <<current, seen, delivered, crashes, faults>>

ClaimFails(r) ==
    /\ "dbError" \in faults
    /\ pc[r] = "claiming"
    /\ locked' = [locked EXCEPT ![r] = {}]
    /\ pc' = [pc EXCEPT ![r] = "idle"]
    /\ UNCHANGED <<rows, batch, current, seen, delivered, crashes, faults>>

ClaimAckLost(r) ==
    /\ "lostAck" \in faults
    /\ pc[r] = "claiming"
    /\ ClaimRows(r)
    /\ pc' = [pc EXCEPT ![r] = "idle"]
    /\ UNCHANGED <<batch, current, seen, delivered, crashes, faults>>

-----------------------------------------------------------------------------
(* publishBatch: the loop over the claimed events                          *)

\* loadEvent reads the row as it is now and does not look at its status.
LoadEvent(r) ==
    /\ pc[r] = "batch"
    /\ \E e \in batch[r] :
          /\ current' = [current EXCEPT ![r] = e]
          /\ seen' = [seen EXCEPT ![r] = attempt[e]]
    /\ pc' = [pc EXCEPT ![r] = "loaded"]
    /\ UNCHANGED <<rows, locked, batch, delivered, crashes, faults>>

DispatchReturns(r) ==
    /\ pc[r] = "loaded"
    /\ delivered' = [delivered EXCEPT ![current[r]] = @ + 1]
    /\ pc' = [pc EXCEPT ![r] = "dispatched"]
    /\ UNCHANGED <<rows, locked, batch, current, seen, crashes, faults>>

\* The dispatcher throws, before the consumer has the event or after.
DispatchThrows(r) ==
    /\ pc[r] = "loaded"
    /\ \/ "dispatchError" \in faults /\ UNCHANGED delivered
       \/ "lostAck" \in faults /\ delivered' = [delivered EXCEPT ![current[r]] = @ + 1]
    /\ pc' = [pc EXCEPT ![r] = "failing"]
    /\ UNCHANGED <<rows, locked, batch, current, seen, crashes, faults>>

NextEvent(r) ==
    /\ batch' = [batch EXCEPT ![r] = @ \ {current[r]}]
    /\ current' = [current EXCEPT ![r] = NoEvent]
    /\ seen' = [seen EXCEPT ![r] = 0]
    /\ pc' = [pc EXCEPT ![r] = IF batch[r] = {current[r]} THEN "idle" ELSE "batch"]
    /\ UNCHANGED <<locked, delivered, crashes, faults>>

MarkPublished(r) ==
    /\ pc[r] = "dispatched" /\ Unlocked(current[r])
    /\ status' = [status EXCEPT ![current[r]] = "published"]
    /\ UNCHANGED <<attempt, avail>>
    /\ NextEvent(r)

\* The UPDATE is in the try block of the dispatch: its error is handled as a
\* failed delivery, whether or not the row was written.
MarkPublishedFails(r) ==
    /\ pc[r] = "dispatched"
    /\ \/ "dbError" \in faults /\ UNCHANGED status
       \/ /\ "lostAck" \in faults /\ Unlocked(current[r])
          /\ status' = [status EXCEPT ![current[r]] = "published"]
    /\ pc' = [pc EXCEPT ![r] = "failing"]
    /\ UNCHANGED <<attempt, avail, locked, batch, current, seen, delivered, crashes, faults>>

\* Bug: attemptCount + 1 >= MAX_ATTEMPTS.
MarkFailedTooEarly(r) ==
    /\ pc[r] = "failing" /\ Unlocked(current[r])
    /\ status' = [status EXCEPT ![current[r]] = IF seen[r] + 1 >= MaxAttempts
                                                THEN "dead_letter" ELSE "pending"]
    /\ avail' = [avail EXCEPT ![current[r]] = "future"]
    /\ UNCHANGED attempt
    /\ NextEvent(r)

\* The catch block: WHERE id = $1 and nothing else.
MarkFailed(r) ==
    /\ pc[r] = "failing" /\ Unlocked(current[r])
    /\ status' = [status EXCEPT ![current[r]] = IF seen[r] >= MaxAttempts
                                                THEN "dead_letter" ELSE "pending"]
    /\ avail' = [avail EXCEPT ![current[r]] = "future"]
    /\ UNCHANGED attempt
    /\ NextEvent(r)

\* The call ends and forgets its batch, without writing anything.
Forget(r) ==
    /\ locked' = [locked EXCEPT ![r] = {}]
    /\ batch' = [batch EXCEPT ![r] = {}]
    /\ current' = [current EXCEPT ![r] = NoEvent]
    /\ seen' = [seen EXCEPT ![r] = 0]
    /\ pc' = [pc EXCEPT ![r] = "idle"]
    /\ UNCHANGED <<rows, delivered>>

\* loadEvent, or the UPDATE in the catch block, throws out of publishBatch.
AbandonBatch(r) ==
    /\ "dbError" \in faults
    /\ pc[r] \in {"batch", "failing"}
    /\ Forget(r)
    /\ UNCHANGED <<crashes, faults>>

Crash(r) ==
    /\ "crash" \in faults
    /\ pc[r] # "idle" /\ crashes < CrashBound
    /\ crashes' = crashes + 1 /\ UNCHANGED faults
    /\ Forget(r)

Publish(r) ==
    \/ ClaimCommit(r) \/ ClaimFails(r) \/ ClaimAckLost(r)
    \/ LoadEvent(r) \/ DispatchReturns(r) \/ DispatchThrows(r)
    \/ MarkPublished(r) \/ MarkPublishedFails(r) \/ MarkFailed(r)
    \/ AbandonBatch(r)

Next ==
    \/ \E e \in Events : Append(e) \/ BackoffElapses(e) \/ BecomesStale(e)
    \/ RecoverStale
    \/ \E r \in Relays : ClaimSelect(r) \/ Publish(r) \/ Crash(r)

Spec == Init /\ [][Next]_vars

(* publishBatch and recoverStale are called again and again, a call that   *)
(* was started goes on, and time passes.                                   *)
FairSpec ==
    /\ Spec
    /\ \A r \in Relays : WF_vars(ClaimSelect(r)) /\ WF_vars(Publish(r))
    /\ \A e \in Events : WF_vars(BackoffElapses(e)) /\ WF_vars(BecomesStale(e))
    /\ WF_vars(RecoverStale)

-----------------------------------------------------------------------------
(* Properties                                                              *)

\* Every variable ranges over the values the code gives it.
TypeOK ==
    /\ status \in [Events -> Status]
    /\ attempt \in [Events -> 0..ClaimBound]
    /\ avail \in [Events -> {"future", "due", "stale"}]
    /\ pc \in [Relays -> Phase]
    /\ locked \in [Relays -> SUBSET Events]
    /\ batch \in [Relays -> SUBSET Events]
    /\ current \in [Relays -> Events \cup {NoEvent}]
    /\ seen \in [Relays -> 0..ClaimBound]
    /\ delivered \in [Events -> Nat]
    /\ crashes \in 0..CrashBound
    /\ faults \in Settings

\* An event is marked published only after a consumer received it, and given
\* up only after MaxAttempts claims, even when stale events are taken from
\* live relays, decisions rest on old counts and updates overwrite each other.
OutcomesAreEarned ==
    \A e \in Events :
        /\ status[e] = "published" => delivered[e] >= 1
        /\ status[e] = "dead_letter" => attempt[e] >= MaxAttempts

\* Two relays never have the same event in their batches, and what was
\* published or given up stays so, unless events become overdue (or an answer
\* is lost): the claim's row locks exclude each other and recoverStale takes
\* only what was abandoned.
Prompt == faults \cap {"overdue", "lostAck"} = {}

SingleHolder ==
    Prompt => \A r, s \in Relays : r # s => batch[r] \cap (batch[s] \cup locked[s]) = {}

\* published and dead_letter are final, for the writes that test only the id.
PublishedIsFinal ==
    [][Prompt => \A e \in Events : status[e] \in {"published", "dead_letter"}
                                    => status'[e] = status[e]]_vars

\* The comment on publishBatch: "concurrent relays never double-deliver".
\* They do not if nothing goes wrong but the dispatch itself.
DeliveredAtMostOnce ==
    faults \subseteq {"dispatchError"} => \A e \in Events : delivered[e] <= 1

\* Every event is published or dead-lettered in the end, also when the relays
\* that claimed it crashed.
EventuallySettled ==
    faults \subseteq {"crash", "dispatchError"} =>
        \A e \in Events : status[e] = "pending" ~> status[e] \in {"published", "dead_letter"}

=============================================================================
