-------------------------- MODULE GovernedActions --------------------------
(***************************************************************************)
(* Governed actions on documents (src/server/actions.ts), composed with    *)
(* the approvals they depend on.  execute asserts the approval in a        *)
(* transaction of its own, then looks its idempotency key up, updates the  *)
(* document, inserts the ledger row and appends the outbox event in        *)
(* another; rollback locks the ledger row and writes the inverse.          *)
(***************************************************************************)
EXTENDS Approvals

CONSTANTS
    Docs,
    Keys,      \* idempotency keys
    Callers,   \* concurrent calls of execute and rollback
    NoKey, NoDoc,
    NeedsApproval  \* the actions with approvalRequired

ActionKeys == {"archive_document", "restore_document"}

ASSUME ActionAssumption == NeedsApproval \subseteq ActionKeys
ASSUME NoneAssumption == NoKey \notin Keys /\ NoDoc \notin Docs

VARIABLES
    docStatus,  \* documents.status
    docGone,    \* documents.deleted_at IS NOT NULL
    ledger,     \* governed_actions, by idempotency key
    events,     \* keys of outbox_events this component has appended
    pc,         \* how far a call has come
    call,       \* its arguments
    applied,    \* observation: how often the action of a key took effect
    undone      \* observation: how often it was rolled back

gvars == <<docStatus, docGone, ledger, events, pc, call, applied, undone>>
vars == <<avars, docStatus, docGone, ledger, events, pc, call, applied, undone>>

NoRow == [status |-> "none", action |-> "restore_document", doc |-> NoDoc, approval |-> NoRequest]
Rows == [status : {"completed", "rolled_back"}, action : ActionKeys, doc : Docs,
         approval : Requests \cup {NoRequest}]
NoCall == [action |-> "restore_document", doc |-> NoDoc, key |-> NoKey, approval |-> NoRequest]
Calls == [action : ActionKeys, doc : Docs \cup {NoDoc}, key : Keys,
          approval : Requests \cup {NoRequest}]

InverseAction(action) ==
    IF action = "archive_document" THEN "restore_document" ELSE "archive_document"

GInit ==
    /\ AInit
    /\ docStatus = [d \in Docs |-> "ready"]
    /\ docGone = [d \in Docs |-> FALSE]
    /\ ledger = [k \in Keys |-> NoRow]
    /\ events = {}
    /\ pc = [c \in Callers |-> "idle"]
    /\ call = [c \in Callers |-> NoCall]
    /\ applied = [k \in Keys |-> 0]
    /\ undone = [k \in Keys |-> 0]

GoTo(c, where) == pc' = [pc EXCEPT ![c] = where]

\* The call ends, with a result or an error.
Return(c) ==
    /\ GoTo(c, "idle")
    /\ call' = [call EXCEPT ![c] = NoCall]

Transition(action, d) ==
    /\ docStatus' = [docStatus EXCEPT ![d] = IF action = "archive_document" THEN "archived" ELSE "ready"]
    /\ docGone' = [docGone EXCEPT ![d] = (action = "archive_document")]

-----------------------------------------------------------------------------
(* execute                                                                 *)

\* The permission is tested by the route; the key may be the default one or
\* the client's.
Execute(c) ==
    /\ pc[c] = "idle"
    /\ \E action \in ActionKeys, d \in Docs, k \in Keys :
          IF action \in NeedsApproval
          THEN \E r \in Requests :
                  /\ call' = [call EXCEPT ![c] = [action |-> action, doc |-> d, key |-> k, approval |-> r]]
                  /\ GoTo(c, "approval")
          ELSE /\ call' = [call EXCEPT ![c] = [action |-> action, doc |-> d, key |-> k, approval |-> NoRequest]]
               /\ GoTo(c, "lookup")
    /\ UNCHANGED <<avars, docStatus, docGone, ledger, events, applied, undone>>

\* Bug: everything but a rejection passes.
ApprovedNotRejected(r) == verdict[r] # "rejected"

Approved(r) == verdict[r] = "approved"

AssertApproved(c) ==
    /\ pc[c] = "approval"
    /\ IF Approved(call[c].approval)
       THEN GoTo(c, "lookup") /\ UNCHANGED call
       ELSE Return(c)
    /\ UNCHANGED <<avars, docStatus, docGone, ledger, events, applied, undone>>

\* A row under the key is the result; otherwise the transaction goes on.
Lookup(c) ==
    /\ pc[c] = "lookup"
    /\ IF ledger[call[c].key] # NoRow
       THEN Return(c)
       ELSE GoTo(c, "write") /\ UNCHANGED call
    /\ UNCHANGED <<avars, docStatus, docGone, ledger, events, applied, undone>>

\* Bug: no UNIQUE (tenant_id, idempotency_key): the last row counts.
CommitExecuteTwice(c) ==
    /\ pc[c] = "write"
    /\ LET q == call[c] IN
          /\ Transition(q.action, q.doc)
          /\ ledger' = [ledger EXCEPT ![q.key] =
                [status |-> "completed", action |-> q.action, doc |-> q.doc, approval |-> q.approval]]
          /\ events' = events \cup {<<"completed", q.key>>}
          /\ applied' = [applied EXCEPT ![q.key] = @ + 1]
    /\ Return(c)
    /\ UNCHANGED <<avars, undone>>

\* The update of the document, the ledger row and the event commit together.
CommitExecute(c) ==
    /\ pc[c] = "write"
    /\ LET q == call[c] IN
          /\ ledger[q.key] = NoRow
          /\ Transition(q.action, q.doc)
          /\ ledger' = [ledger EXCEPT ![q.key] =
                [status |-> "completed", action |-> q.action, doc |-> q.doc, approval |-> q.approval]]
          /\ events' = events \cup {<<"completed", q.key>>}
          /\ applied' = [applied EXCEPT ![q.key] = @ + 1]
    /\ Return(c)
    /\ UNCHANGED <<avars, undone>>

\* The key was inserted since the lookup: the INSERT fails, as it may for
\* any other reason, and everything rolls back.
FailExecute(c) ==
    /\ pc[c] = "write"
    /\ Return(c)
    /\ UNCHANGED <<avars, docStatus, docGone, ledger, events, applied, undone>>

-----------------------------------------------------------------------------
(* rollback                                                                *)

RowFree(k) == \A c \in Callers : ~(pc[c] = "rollback" /\ call[c].key = k)

\* SELECT ... FOR UPDATE; a row that is rolled back already is the result.
BeginRollback(c, k) ==
    /\ pc[c] = "idle"
    /\ ledger[k].status = "completed" /\ RowFree(k)
    /\ call' = [call EXCEPT ![c] = [NoCall EXCEPT !.key = k]]
    /\ GoTo(c, "rollback")
    /\ UNCHANGED <<avars, docStatus, docGone, ledger, events, applied, undone>>

CommitRollback(c) ==
    /\ pc[c] = "rollback"
    /\ LET k == call[c].key IN
          /\ Transition(InverseAction(ledger[k].action), ledger[k].doc)
          /\ ledger' = [ledger EXCEPT ![k].status = "rolled_back"]
          /\ events' = events \cup {<<"rolled_back", k>>}
          /\ undone' = [undone EXCEPT ![k] = @ + 1]
    /\ Return(c)
    /\ UNCHANGED <<avars, applied>>

AbortRollback(c) ==
    /\ pc[c] = "rollback"
    /\ Return(c)
    /\ UNCHANGED <<avars, docStatus, docGone, ledger, events, applied, undone>>

-----------------------------------------------------------------------------
CallStep(c) ==
    \/ Execute(c) \/ AssertApproved(c) \/ Lookup(c) \/ CommitExecute(c) \/ FailExecute(c)
    \/ CommitRollback(c) \/ AbortRollback(c)
    \/ \E k \in Keys : BeginRollback(c, k)

ApprovalStep == ANext /\ UNCHANGED gvars

Next == ApprovalStep \/ \E c \in Callers : CallStep(c)

Spec == GInit /\ [][Next]_vars

-----------------------------------------------------------------------------
\* The variables hold values of their columns; a call in progress has its
\* arguments, and the approval of an action that needs one.
TypeOK ==
    /\ ATypeOK
    /\ docStatus \in [Docs -> {"ready", "archived"}]
    /\ docGone \in [Docs -> BOOLEAN]
    /\ ledger \in [Keys -> Rows \cup {NoRow}]
    /\ events \subseteq {"completed", "rolled_back"} \X Keys
    /\ pc \in [Callers -> {"idle", "approval", "lookup", "write", "rollback"}]
    /\ call \in [Callers -> Calls \cup {NoCall}]
    /\ applied \in [Keys -> Nat]
    /\ undone \in [Keys -> Nat]

\* An idempotency key takes effect once, and is rolled back at most once and
\* only after that, however calls with the same key overlap.
EffectsOnce ==
    \A k \in Keys :
        /\ applied[k] = IF ledger[k] = NoRow THEN 0 ELSE 1
        /\ undone[k] = IF ledger[k].status = "rolled_back" THEN 1 ELSE 0

\* An action that needs an approval is in the ledger with one that is still
\* approved: it cannot have been withdrawn between the test and the write.
ExecutedWasApproved ==
    \A k \in Keys :
        (ledger[k] # NoRow /\ ledger[k].action \in NeedsApproval)
            => ledger[k].approval \in Requests /\ verdict[ledger[k].approval] = "approved"

\* The outbox tells consumers what the ledger says, no more and no less.
EventsMatchLedger ==
    \A k \in Keys :
        /\ <<"completed", k>> \in events <=> ledger[k] # NoRow
        /\ <<"rolled_back", k>> \in events <=> ledger[k].status = "rolled_back"

\* A document is archived exactly when it is marked deleted.
ArchivedIffDeleted == \A d \in Docs : docGone[d] <=> docStatus[d] = "archived"

\* What the calls in progress know, for the proofs.
CallsHold ==
    \A c \in Callers :
        /\ pc[c] \in {"approval", "lookup", "write"} =>
              /\ call[c] # NoCall /\ call[c].doc \in Docs
              /\ call[c].action \in NeedsApproval => call[c].approval \in Requests
        /\ (pc[c] \in {"lookup", "write"} /\ call[c].action \in NeedsApproval)
              => verdict[call[c].approval] = "approved"
        /\ pc[c] = "rollback" => (call[c].key \in Keys /\ ledger[call[c].key].status = "completed")

RollbacksExclusive ==
    \A c, e \in Callers :
        (pc[c] = "rollback" /\ pc[e] = "rollback" /\ call[c].key = call[e].key) => c = e

GInv ==
    /\ AInv
    /\ TypeOK
    /\ EffectsOnce
    /\ ExecutedWasApproved
    /\ EventsMatchLedger
    /\ ArchivedIffDeleted
    /\ CallsHold
    /\ RollbacksExclusive

=============================================================================
