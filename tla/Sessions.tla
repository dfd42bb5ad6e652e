------------------------------ MODULE Sessions ------------------------------
(***************************************************************************)
(* The account of one user: sign-in with a password or through the         *)
(* identity provider, sessions, and the middleware every request passes    *)
(* (src/server/store.ts, identity.ts, index.ts).  Each statement is a      *)
(* transaction of its own, and verifying a password takes long.            *)
(***************************************************************************)
EXTENDS FiniteSets, Integers, Sequences

CONSTANTS
    Slots,          \* requests under way at a time
    FailureLimit,   \* failures that lock the account (8 in the code)
    RateLimit,      \* sign-ins an address may try in a window (8)
    LockTime, Window, SessionTime,
    RequestBound,   \* bound: how many requests are made
    TimeBound       \* bound: how long the clock runs

ASSUME SessionAssumption ==
    /\ {FailureLimit, RateLimit, LockTime, Window, SessionTime} \subseteq Nat \ {0}
    /\ RequestBound \in Nat /\ TimeBound \in Nat
    /\ IsFiniteSet(Slots)

VARIABLES
    now,
    account,    \* the row of users
    sessions,   \* rows of sessions, in the order of their insertion
    bucket,     \* the rate bucket of login, in the memory of the server
    slot,       \* the requests under way
    requests,   \* how many requests have begun
    guessed     \* observation: failed verifications since the account was last open

svars == <<now, account, sessions, bucket, slot, requests, guessed>>

Idle == [at |-> "idle"]
Locked == account.lockedUntil > now
Valid(t) == ~sessions[t].revoked /\ sessions[t].expires > now

\* What can be wrong with an identity token (identity.ts).
Defects == {"none", "signature", "claims", "mfa", "tenant"}

SInit ==
    /\ now = 0
    /\ account = [active |-> TRUE, failures |-> 0, lockedUntil |-> 0]
    /\ sessions = <<>>
    /\ bucket = [count |-> 0, resetAt |-> 0]
    /\ slot = [s \in Slots |-> Idle]
    /\ requests = 0
    /\ guessed = 0

Goto(s, at) == slot' = [slot EXCEPT ![s].at = at]
End(s) == slot' = [slot EXCEPT ![s] = Idle]

Begin(s, request) ==
    /\ slot[s] = Idle
    /\ requests < RequestBound
    /\ requests' = requests + 1
    /\ slot' = [slot EXCEPT ![s] = request]

\* A bucket counts the requests of its window, the refused ones too.
Counted == LET current == IF bucket.resetAt <= now THEN [count |-> 0, resetAt |-> now + Window] ELSE bucket
           IN [current EXCEPT !.count = @ + 1]

Login(s) ==
    /\ bucket' = Counted
    /\ \E right \in BOOLEAN :
           Begin(s, IF bucket'.count > RateLimit THEN Idle ELSE [at |-> "find", right |-> right])
    /\ UNCHANGED <<now, account, sessions, guessed>>

\* Bug: locked_until is written and not read.
MayVerifyLocked == account.active

\* Whether the account is locked is read before the password is verified.
MayVerify == account.active /\ ~Locked

FindLoginUser(s) ==
    /\ slot[s].at = "find"
    /\ Goto(s, IF MayVerify THEN "verify" ELSE "refuse")
    /\ UNCHANGED <<now, account, sessions, bucket, requests, guessed>>

\* smart_corp_record_login_failure, for any sign-in that is not valid
RecordFailure(s) ==
    /\ \/ slot[s].at = "verify" /\ ~slot[s].right /\ guessed' = IF account.active THEN guessed + 1 ELSE guessed
       \/ slot[s].at = "refuse" /\ UNCHANGED guessed
    /\ account' = IF ~account.active THEN account
                  ELSE [account EXCEPT !.failures = @ + 1,
                                       !.lockedUntil = IF account.failures + 1 >= FailureLimit THEN now + LockTime ELSE @]
    /\ End(s)
    /\ UNCHANGED <<now, sessions, bucket, requests>>

RecordSuccess(s) ==
    /\ slot[s].at = "verify" /\ slot[s].right
    /\ account' = [account EXCEPT !.failures = 0, !.lockedUntil = 0]
    /\ guessed' = 0
    /\ slot' = [slot EXCEPT ![s] = [at |-> "insert", external |-> FALSE]]
    /\ UNCHANGED <<now, sessions, bucket, requests>>

InsertSession(s) ==
    /\ slot[s].at = "insert"
    /\ sessions' = Append(sessions, [revoked |-> FALSE, expires |-> now + SessionTime])
    /\ slot' = [slot EXCEPT ![s] = [at |-> IF slot[s].external THEN "load" ELSE "session", token |-> Len(sessions'), usable |-> TRUE]]
    /\ UNCHANGED <<now, account, bucket, requests, guessed>>

\* The code is exchanged for an identity token, which is verified.
ExchangeCode(s) ==
    /\ \E defect \in Defects : Begin(s, IF defect = "none" THEN [at |-> "insert", external |-> TRUE] ELSE Idle)
    /\ UNCHANGED <<now, account, sessions, bucket, guessed>>

\* A request with the cookie of a session; usable: as it was when it began.
Request(s) ==
    /\ \E t \in DOMAIN sessions : Begin(s, [at |-> "session", token |-> t, usable |-> Valid(t)])
    /\ UNCHANGED <<now, account, sessions, bucket, guessed>>

\* Bug: revoked_at is written and not read.
ReadRevokedSession(s) ==
    /\ slot[s].at = "session"
    /\ IF sessions[slot[s].token].expires > now THEN Goto(s, "user") ELSE End(s)
    /\ UNCHANGED <<now, account, sessions, bucket, requests, guessed>>

\* getSessionByToken reads the session, then the active user.
ReadSession(s) ==
    /\ slot[s].at = "session"
    /\ IF Valid(slot[s].token) THEN Goto(s, "user") ELSE End(s)
    /\ UNCHANGED <<now, account, sessions, bucket, requests, guessed>>

Serve(s) == slot' = [slot EXCEPT ![s] = [at |-> "handler", usable |-> slot[s].usable]]

ReadUser(s) ==
    /\ slot[s].at = "user"
    /\ IF account.active THEN Serve(s) ELSE End(s)
    /\ UNCHANGED <<now, account, sessions, bucket, requests, guessed>>

\* After a sign-in through the provider: the session, then the user, whose
\* status is not read.
LoadSession(s) ==
    /\ \/ slot[s].at = "load" /\ IF Valid(slot[s].token) THEN Goto(s, "loaded") ELSE End(s)
       \/ slot[s].at = "loaded" /\ Serve(s)
    /\ UNCHANGED <<now, account, sessions, bucket, requests, guessed>>

\* Also: the process ends, or a statement fails.
Respond(s) ==
    /\ slot[s] # Idle
    /\ End(s)
    /\ UNCHANGED <<now, account, sessions, bucket, requests, guessed>>

Logout ==
    /\ \E t \in DOMAIN sessions : ~sessions[t].revoked /\ sessions' = [sessions EXCEPT ![t].revoked = TRUE]
    /\ UNCHANGED <<now, account, bucket, slot, requests, guessed>>

\* Administrators suspend and reactivate users.
SetStatus ==
    /\ account' = [account EXCEPT !.active = ~@]
    /\ UNCHANGED <<now, sessions, bucket, slot, requests, guessed>>

Tick ==
    /\ now < TimeBound
    /\ now' = now + 1
    /\ guessed' = IF Locked /\ account.lockedUntil <= now' THEN 0 ELSE guessed
    /\ UNCHANGED <<account, sessions, bucket, slot, requests>>

SNext ==
    \/ \E s \in Slots :
           \/ Login(s) \/ FindLoginUser(s) \/ RecordFailure(s) \/ RecordSuccess(s) \/ InsertSession(s)
           \/ ExchangeCode(s) \/ Request(s) \/ ReadSession(s) \/ ReadUser(s) \/ LoadSession(s)
           \/ Respond(s)
    \/ Logout \/ SetStatus \/ Tick

SSpec == SInit /\ [][SNext]_svars
-----------------------------------------------------------------------------
\* At most FailureLimit wrong passwords are verified before the account
\* locks, and then only those whose lookup came before the lock, one per
\* request under way (store.ts 672-677).
GuessesBounded == guessed < FailureLimit + Cardinality(Slots)

\* A handler runs only for a session that was neither revoked nor expired
\* when its request began, whatever happened since (store.ts 645-668).
EndedSessionsServeNothing == \A s \in Slots : slot[s].at = "handler" => slot[s].usable
=============================================================================
