------------------------------ MODULE Webhooks ------------------------------
(***************************************************************************)
(* Webhook delivery (src/server/webhook.ts): endpoints, the deliveries     *)
(* enqueued for them, and the calls of dispatchBatch that send them.  A    *)
(* dispatcher selects pending rows without locking or marking them, reads  *)
(* each again, posts it, and writes the outcome with an UPDATE that tests  *)
(* only the id.  The attempt it writes is the one it read, plus one.       *)
(***************************************************************************)
EXTENDS Naturals

CONSTANTS
    Endpoints,
    Messages,      \* payloads, each with its event type: one idempotency key each
    Filters,       \* the values of webhook_endpoints.events, as sets of messages
    Dispatchers,   \* concurrent calls of dispatchBatch
    MAX_ATTEMPTS,
    SendBound,     \* bound: how often a delivery is posted
    WebhookSettings, \* the combinations of WebhookFaults considered
    NoDelivery

\* "overlap": a call of dispatchBatch may begin while another one runs.
WebhookFaults == {"crash", "dbError", "refused", "answerLost", "overlap"}
Deliveries == Endpoints \X Messages

ASSUME AttemptsAssumption == MAX_ATTEMPTS \in Nat \ {0}
ASSUME SendAssumption == SendBound \in Nat
ASSUME FilterAssumption == Filters \subseteq SUBSET Messages
ASSUME WebhookSettingAssumption == WebhookSettings \subseteq SUBSET WebhookFaults
ASSUME NoDeliveryAssumption == NoDelivery \notin Deliveries

VARIABLES
    registered,  \* rows of webhook_endpoints
    events,      \* their filters: none given means every message
    (* rows of webhook_deliveries *)
    outcome,     \* status
    attempts,
    due,         \* available_at <= now()
    (* calls of enqueue, by message: the endpoints still to insert for *)
    owed,
    (* calls of dispatchBatch *)
    phase,       \* where it is in its batch
    todo,
    inHand,
    counted,     \* attempt_count as it was read
    (* observation only *)
    sent,        \* requests posted
    accepted,    \* requests the endpoint took
    failures     \* what may go wrong in this behaviour

deliveries == <<outcome, attempts, due>>
dispatch == <<phase, todo, inHand, counted>>
observed == <<sent, accepted, failures>>
webhookVars == <<registered, events, outcome, attempts, due, owed, phase, todo, inHand, counted, sent, accepted, failures>>

WebhookInit ==
    /\ registered = {}
    /\ events = [e \in Endpoints |-> {}]
    /\ outcome = [d \in Deliveries |-> "absent"]
    /\ attempts = [d \in Deliveries |-> 0]
    /\ due = [d \in Deliveries |-> FALSE]
    /\ owed = [m \in Messages |-> {}]
    /\ phase = [k \in Dispatchers |-> "idle"]
    /\ todo = [k \in Dispatchers |-> {}]
    /\ inHand = [k \in Dispatchers |-> NoDelivery]
    /\ counted = [k \in Dispatchers |-> 0]
    /\ sent = [d \in Deliveries |-> 0]
    /\ accepted = [d \in Deliveries |-> 0]
    /\ failures \in WebhookSettings

-----------------------------------------------------------------------------
(* Endpoints and enqueue                                                   *)

Register(e, filter) ==
    /\ registered' = registered \cup {e}
    /\ events' = [events EXCEPT ![e] = filter]
    /\ UNCHANGED <<deliveries, owed, dispatch, observed>>

Wants(e, m) == e \in registered /\ (events[e] = {} \/ m \in events[e])

\* The list of endpoints is read once; each INSERT is a transaction.
Enqueue(m) ==
    /\ owed[m] = {}
    /\ owed' = [owed EXCEPT ![m] = {e \in Endpoints : Wants(e, m)}]
    /\ UNCHANGED <<registered, events, deliveries, dispatch, observed>>

InsertDelivery(m) ==
    /\ \E e \in owed[m] :
          /\ owed' = [owed EXCEPT ![m] = @ \ {e}]
          /\ IF outcome[<<e, m>>] = "absent"
             THEN /\ outcome' = [outcome EXCEPT ![<<e, m>>] = "pending"]
                  /\ due' = [due EXCEPT ![<<e, m>>] = TRUE]
             ELSE UNCHANGED <<outcome, due>>
    /\ UNCHANGED <<registered, events, attempts, dispatch, observed>>

EnqueueFails(m) ==
    /\ failures \cap {"crash", "dbError"} # {} /\ owed[m] # {}
    /\ owed' = [owed EXCEPT ![m] = {}]
    /\ UNCHANGED <<registered, events, deliveries, dispatch, observed>>

RetryElapses(d) ==
    /\ outcome[d] = "pending" /\ ~due[d]
    /\ due' = [due EXCEPT ![d] = TRUE]
    /\ UNCHANGED <<registered, events, outcome, attempts, owed, dispatch, observed>>

-----------------------------------------------------------------------------
(* dispatchBatch and deliverOne                                            *)

SelectBatch(k) ==
    /\ phase[k] = "idle"
    /\ "overlap" \in failures \/ \A l \in Dispatchers : phase[l] = "idle"
    /\ todo' = [todo EXCEPT ![k] = {d \in Deliveries : outcome[d] = "pending" /\ due[d]}]
    /\ todo'[k] # {}
    /\ phase' = [phase EXCEPT ![k] = "next"]
    /\ UNCHANGED <<registered, events, deliveries, owed, inHand, counted, observed>>

LoadDelivery(k) ==
    /\ phase[k] = "next"
    /\ \E d \in todo[k] :
          /\ todo' = [todo EXCEPT ![k] = @ \ {d}]
          /\ inHand' = [inHand EXCEPT ![k] = d]
          /\ counted' = [counted EXCEPT ![k] = attempts[d]]
    /\ phase' = [phase EXCEPT ![k] = "loaded"]
    /\ UNCHANGED <<registered, events, deliveries, owed, observed>>

\* verifyDestination and fetch.  The endpoint may take the request and the
\* answer be lost, or the request fail, be refused or never be made.
Post(k) ==
    LET d == inHand[k] IN
    /\ phase[k] = "loaded" /\ sent[d] < SendBound
    /\ sent' = [sent EXCEPT ![d] = @ + 1]
    /\ \/ accepted' = [accepted EXCEPT ![d] = @ + 1] /\ phase' = [phase EXCEPT ![k] = "ok"]
       \/ /\ "answerLost" \in failures
          /\ accepted' = [accepted EXCEPT ![d] = @ + 1] /\ phase' = [phase EXCEPT ![k] = "threw"]
       \/ /\ "refused" \in failures
          /\ phase' = [phase EXCEPT ![k] = "threw"] /\ UNCHANGED accepted
    /\ UNCHANGED <<registered, events, deliveries, owed, todo, inHand, counted, failures>>

GoOn(k) ==
    /\ phase' = [phase EXCEPT ![k] = IF todo[k] = {} THEN "idle" ELSE "next"]
    /\ inHand' = [inHand EXCEPT ![k] = NoDelivery]
    /\ counted' = [counted EXCEPT ![k] = 0]

RecordDelivered(k) ==
    /\ phase[k] = "ok"
    /\ outcome' = [outcome EXCEPT ![inHand[k]] = "delivered"]
    /\ GoOn(k)
    /\ UNCHANGED <<registered, events, attempts, due, owed, todo, observed>>

\* The UPDATE of a success is inside the try block of the request.
RecordDeliveredFails(k) ==
    /\ "dbError" \in failures /\ phase[k] = "ok"
    /\ phase' = [phase EXCEPT ![k] = "threw"]
    /\ UNCHANGED <<registered, events, deliveries, owed, todo, inHand, counted, observed>>

\* Bug: attempt_count + 1 is tested, as if this attempt were not counted yet.
RecordFailureEarly(k) ==
    LET d == inHand[k]
        n == counted[k] + 1
    IN
    /\ phase[k] = "threw"
    /\ outcome' = [outcome EXCEPT ![d] = IF n + 1 >= MAX_ATTEMPTS THEN "dead_letter" ELSE "pending"]
    /\ attempts' = [attempts EXCEPT ![d] = n]
    /\ due' = [due EXCEPT ![d] = FALSE]
    /\ GoOn(k)
    /\ UNCHANGED <<registered, events, owed, todo, observed>>

\* Bug: a failed delivery gets a status of its own that no SELECT looks for.
RecordFailureParks(k) ==
    LET d == inHand[k]
        n == counted[k] + 1
    IN
    /\ phase[k] = "threw"
    /\ outcome' = [outcome EXCEPT ![d] = IF n >= MAX_ATTEMPTS THEN "dead_letter" ELSE "failed"]
    /\ attempts' = [attempts EXCEPT ![d] = n]
    /\ due' = [due EXCEPT ![d] = FALSE]
    /\ GoOn(k)
    /\ UNCHANGED <<registered, events, owed, todo, observed>>

RecordFailure(k) ==
    LET d == inHand[k]
        n == counted[k] + 1
    IN
    /\ phase[k] = "threw"
    /\ outcome' = [outcome EXCEPT ![d] = IF n >= MAX_ATTEMPTS THEN "dead_letter" ELSE "pending"]
    /\ attempts' = [attempts EXCEPT ![d] = n]
    /\ due' = [due EXCEPT ![d] = FALSE]
    /\ GoOn(k)
    /\ UNCHANGED <<registered, events, owed, todo, observed>>

\* Any other statement that fails ends the batch, and so does a crash.
DispatchEnds(k) ==
    /\ \/ "dbError" \in failures /\ phase[k] \in {"next", "threw"}
       \/ "crash" \in failures /\ phase[k] # "idle"
    /\ phase' = [phase EXCEPT ![k] = "idle"]
    /\ todo' = [todo EXCEPT ![k] = {}]
    /\ inHand' = [inHand EXCEPT ![k] = NoDelivery]
    /\ counted' = [counted EXCEPT ![k] = 0]
    /\ UNCHANGED <<registered, events, deliveries, owed, observed>>

Dispatch(k) ==
    \/ SelectBatch(k) \/ LoadDelivery(k) \/ Post(k) \/ RecordDelivered(k) \/ RecordFailure(k)

WebhookNext ==
    \/ \E e \in Endpoints, filter \in Filters : Register(e, filter)
    \/ \E m \in Messages : Enqueue(m) \/ InsertDelivery(m) \/ EnqueueFails(m)
    \/ \E d \in Deliveries : RetryElapses(d)
    \/ \E k \in Dispatchers : Dispatch(k) \/ RecordDeliveredFails(k) \/ DispatchEnds(k)

WebhookSpec == WebhookInit /\ [][WebhookNext]_webhookVars

(* For the deliveries to be sent at all, dispatchBatch must be called      *)
(* again and again, and time must pass; the calls themselves go on.        *)
FairWebhookSpec ==
    /\ WebhookSpec
    /\ \A k \in Dispatchers : WF_webhookVars(Dispatch(k))
    /\ \A d \in Deliveries : WF_webhookVars(RetryElapses(d))

-----------------------------------------------------------------------------
\* The variables hold values of their columns; a dispatcher names a delivery
\* exactly while it handles one.  An attempt count may pass MAX_ATTEMPTS: a
\* delivery that was given up is posted again by a batch that selected it before.
WebhookTypeOK ==
    /\ registered \subseteq Endpoints
    /\ events \in [Endpoints -> SUBSET Messages]
    /\ outcome \in [Deliveries -> {"absent", "pending", "delivered", "dead_letter"}]
    /\ attempts \in [Deliveries -> 0..SendBound]
    /\ due \in [Deliveries -> BOOLEAN]
    /\ owed \in [Messages -> SUBSET Endpoints]
    /\ phase \in [Dispatchers -> {"idle", "next", "loaded", "ok", "threw"}]
    /\ todo \in [Dispatchers -> SUBSET Deliveries]
    /\ inHand \in [Dispatchers -> Deliveries \cup {NoDelivery}]
    /\ \A k \in Dispatchers : inHand[k] = NoDelivery <=> phase[k] \in {"idle", "next"}
    /\ counted \in [Dispatchers -> 0..SendBound]
    /\ sent \in [Deliveries -> 0..SendBound]
    /\ accepted \in [Deliveries -> 0..SendBound]
    /\ failures \in WebhookSettings

\* What is recorded as delivered was taken by the endpoint, and a delivery is
\* given up only after MAX_ATTEMPTS requests, though dispatchers overlap,
\* write over each other and count attempts from outdated reads; and it is
\* posted at most that often, and taken once, if no batch overlaps another
\* and no write of an outcome is lost (webhook.ts 91, 170-171).
PostsAreEarned ==
    \A d \in Deliveries :
        /\ outcome[d] = "delivered" => accepted[d] > 0
        /\ outcome[d] = "dead_letter" => sent[d] >= MAX_ATTEMPTS
        /\ failures \subseteq {"refused"} => sent[d] <= MAX_ATTEMPTS /\ accepted[d] <= 1

\* Every delivery that was enqueued is delivered or given up, whatever the
\* endpoints and the network do.
AllSettle ==
    failures \subseteq {"refused", "answerLost"} =>
        \A d \in Deliveries : (outcome[d] = "pending") ~> (outcome[d] \in {"delivered", "dead_letter"})
=============================================================================
