----------------------------- MODULE Approvals -----------------------------
(***************************************************************************)
(* The approval lifecycle (src/server/approvals.ts).  decide is a          *)
(* transaction that locks the row, tests its status and writes it; several *)
(* users decide concurrently, and expireOverdue sweeps at any time.        *)
(***************************************************************************)
EXTENDS Naturals, FiniteSets

CONSTANTS
    Requests,    \* ids of approval requests
    Users,       \* the callers of decide
    Authority,   \* those with org_admin, governance.manage or workflow.approve
    NoUser, NoRequest

ASSUME AuthorityAssumption == Authority \subseteq Users
ASSUME NullAssumption == NoUser \notin Users /\ NoRequest \notin Requests

VARIABLES
    verdict,     \* approvals.status
    decidedBy,   \* approvals.decided_by
    expiry,      \* expires_at: NULL, in the future, or past
    deciding,    \* the row a user's open transaction has locked
    wish         \* the decision that transaction is about to write

avars == <<verdict, decidedBy, expiry, deciding, wish>>

Verdict == {"pending", "approved", "rejected", "escalated", "cancelled", "expired"}
Decision == {"approved", "rejected", "escalated", "cancelled"}

DECISION_TRANSITIONS ==
    [decision \in Decision |->
        IF decision = "escalated" THEN {"pending"} ELSE {"pending", "escalated"}]

AInit ==
    /\ verdict = [r \in Requests |-> "absent"]
    /\ decidedBy = [r \in Requests |-> NoUser]
    /\ expiry = [r \in Requests |-> "never"]
    /\ deciding = [u \in Users |-> NoRequest]
    /\ wish = [u \in Users |-> "cancelled"]

Create(r) ==
    /\ verdict[r] = "absent"
    /\ verdict' = [verdict EXCEPT ![r] = "pending"]
    /\ \E e \in {"never", "future"} : expiry' = [expiry EXCEPT ![r] = e]
    /\ UNCHANGED <<decidedBy, deciding, wish>>

TimePasses(r) ==
    /\ expiry[r] = "future"
    /\ expiry' = [expiry EXCEPT ![r] = "past"]
    /\ UNCHANGED <<verdict, decidedBy, deciding, wish>>

\* Bug: SELECT without FOR UPDATE.
UnlockedAlways(r) == TRUE

Unlocked(r) == \A u \in Users : deciding[u] # r

\* The tests of decide, in its order; expired requests may be cancelled.
MayDecide(u, r, decision) ==
    /\ \/ verdict[r] = "expired" /\ decision = "cancelled"
       \/ verdict[r] \in DECISION_TRANSITIONS[decision]
    /\ decision # "cancelled" => u \in Authority

\* SELECT ... FOR UPDATE and the tests; a refused decision rolls back.
BeginDecide(u, r) ==
    /\ deciding[u] = NoRequest
    /\ verdict[r] # "absent" /\ Unlocked(r)
    /\ \E decision \in Decision :
          /\ MayDecide(u, r, decision)
          /\ wish' = [wish EXCEPT ![u] = decision]
    /\ deciding' = [deciding EXCEPT ![u] = r]
    /\ UNCHANGED <<verdict, decidedBy, expiry>>

CommitDecide(u) ==
    /\ deciding[u] # NoRequest
    /\ verdict' = [verdict EXCEPT ![deciding[u]] = wish[u]]
    /\ decidedBy' = [decidedBy EXCEPT ![deciding[u]] = u]
    /\ deciding' = [deciding EXCEPT ![u] = NoRequest]
    /\ UNCHANGED <<expiry, wish>>

\* The connection is lost, or the process ends: ROLLBACK.
AbortDecide(u) ==
    /\ deciding[u] # NoRequest
    /\ deciding' = [deciding EXCEPT ![u] = NoRequest]
    /\ UNCHANGED <<verdict, decidedBy, expiry, wish>>

\* smart_corp_expire_approvals: one UPDATE, which waits for locked rows.
Overdue == {r \in Requests : verdict[r] = "pending" /\ expiry[r] = "past"}

ExpireOverdue ==
    /\ Overdue # {} /\ \A r \in Overdue : Unlocked(r)
    /\ verdict' = [r \in Requests |-> IF r \in Overdue THEN "expired" ELSE verdict[r]]
    /\ UNCHANGED <<decidedBy, expiry, deciding, wish>>

ANext ==
    \/ ExpireOverdue
    \/ \E r \in Requests : Create(r) \/ TimePasses(r)
    \/ \E u \in Users : \/ CommitDecide(u) \/ AbortDecide(u)
                        \/ \E r \in Requests : BeginDecide(u, r)

ASpec == AInit /\ [][ANext]_avars

-----------------------------------------------------------------------------
\* The variables hold values of their columns, and at most one open
\* transaction has locked a request.
ATypeOK ==
    /\ verdict \in [Requests -> Verdict \cup {"absent"}]
    /\ decidedBy \in [Requests -> Users \cup {NoUser}]
    /\ expiry \in [Requests -> {"never", "future", "past"}]
    /\ deciding \in [Users -> Requests \cup {NoRequest}]
    /\ wish \in [Users -> Decision]

\* A verdict that was given stands: approved, rejected and cancelled are
\* final, and an expired request can only be cancelled, however users and
\* the sweep overlap.
VerdictIsFinal ==
    [][\A r \in Requests :
          /\ verdict[r] \in {"approved", "rejected", "cancelled"} => verdict'[r] = verdict[r]
          /\ verdict[r] = "expired" => verdict'[r] \in {"expired", "cancelled"}]_avars

\* The row of a request that was approved, rejected or escalated names a
\* user who may do so.
VerdictHasAuthority ==
    \A r \in Requests :
        verdict[r] \in {"approved", "rejected", "escalated"} => decidedBy[r] \in Authority

(* What the open transactions know, for the proofs: locks are exclusive    *)
(* and a decision that passed the tests still passes them.                 *)
LocksExclusive ==
    \A u, v \in Users : (deciding[u] = deciding[v] /\ deciding[u] # NoRequest) => u = v

WishesHold ==
    \A u \in Users : deciding[u] # NoRequest => MayDecide(u, deciding[u], wish[u])

AInv ==
    /\ ATypeOK
    /\ VerdictHasAuthority
    /\ LocksExclusive
    /\ WishesHold

=============================================================================
