------------------------------- MODULE Memory -------------------------------
(***************************************************************************)
(* One record of the governed memory (src/server/memory.ts).  correct,     *)
(* forget and expire get the record, and write it in later statements that *)
(* do not test again; correct locks the row while it writes a version.     *)
(* expireOverdue sweeps beside them.  Calls overlap and end between their  *)
(* statements.  Callers are authorised: a refused call changes nothing.    *)
(***************************************************************************)
EXTENDS Integers, Sequences

CONSTANTS
    Writers,          \* concurrent calls about the record
    Contents,
    CorrectionBound   \* bound: how often the record is corrected

VARIABLES
    (* the row of enterprise_memory *)
    state,         \* status
    content,
    revision,      \* version
    expired,       \* expires_at has passed
    outdated,      \* valid_until has passed
    original,      \* observation: the first content
    versions,      \* rows of enterprise_memory_versions, in order of insertion
    (* the calls *)
    at,
    input,         \* the content a correction writes
    seen           \* the content and version it read under the lock

row == <<state, content, revision, expired, outdated>>
writer == <<at, input, seen>>
memoryVars == <<state, content, revision, expired, outdated, original, versions, at, input, seen>>

\* superseded and invalidated are written by no code.
States == {"active", "stale", "expired", "deleted"}
Unread == [content |-> "none", version |-> 0]

\* remember
MemoryInit ==
    /\ state = "active"
    /\ content \in Contents
    /\ revision = 1
    /\ expired = FALSE
    /\ outdated = FALSE
    /\ original = content
    /\ versions = <<>>
    /\ at = [w \in Writers |-> "idle"]
    /\ input = [w \in Writers |-> "none"]
    /\ seen = [w \in Writers |-> Unread]

\* Time passes expires_at or valid_until, where the record has one.
TimePasses ==
    /\ \/ expired' = TRUE /\ UNCHANGED outdated
       \/ outdated' = TRUE /\ UNCHANGED expired
    /\ UNCHANGED <<state, content, revision, original, versions, writer>>

\* A correction holds the lock of the row.
Locked == \E w \in Writers : at[w] = "locked"

-----------------------------------------------------------------------------
\* Each call gets the record, which must not be deleted.
Get(w) ==
    /\ at[w] = "idle" /\ state # "deleted"
    /\ \/ \E op \in {"forgetting", "expiring"} :
             at' = [at EXCEPT ![w] = op] /\ UNCHANGED input
       \/ /\ revision <= CorrectionBound
          /\ at' = [at EXCEPT ![w] = "correcting"]
          /\ \E c \in Contents : input' = [input EXCEPT ![w] = c]
    /\ UNCHANGED <<row, original, versions, seen>>

\* Bug: the row is read without FOR UPDATE.
LockRowNot(w) ==
    /\ at[w] = "correcting"
    /\ at' = [at EXCEPT ![w] = "locked"]
    /\ seen' = [seen EXCEPT ![w] = [content |-> content, version |-> revision]]
    /\ UNCHANGED <<row, original, versions, input>>

LockRow(w) ==
    /\ at[w] = "correcting" /\ ~Locked
    /\ at' = [at EXCEPT ![w] = "locked"]
    /\ seen' = [seen EXCEPT ![w] = [content |-> content, version |-> revision]]
    /\ UNCHANGED <<row, original, versions, input>>

EndCall(w) ==
    /\ at' = [at EXCEPT ![w] = "idle"]
    /\ input' = [input EXCEPT ![w] = "none"]
    /\ seen' = [seen EXCEPT ![w] = Unread]

\* The version and the record are written in one transaction.
CommitCorrection(w) ==
    /\ at[w] = "locked"
    /\ versions' = Append(versions, [version |-> seen[w].version + 1,
                                     prior |-> seen[w].content, new |-> input[w]])
    /\ content' = input[w]
    /\ revision' = revision + 1
    /\ EndCall(w)
    /\ UNCHANGED <<state, expired, outdated, original>>

\* The one statement of forget or expire, which waits for the lock.
UpdateStatus(w) ==
    /\ ~Locked
    /\ \/ at[w] = "forgetting" /\ state' = "deleted"
       \/ at[w] = "expiring" /\ state' = "expired"
    /\ EndCall(w)
    /\ UNCHANGED <<content, revision, expired, outdated, original, versions>>

\* expireOverdue: two statements, of which either may find the record first.
ExpireOverdue ==
    /\ ~Locked /\ state = "active"
    /\ \/ expired /\ state' = "expired"
       \/ outdated /\ state' = "stale"
    /\ UNCHANGED <<content, revision, expired, outdated, original, versions, writer>>

\* A statement fails or the process ends; an open transaction is undone.
AbandonWrite(w) ==
    /\ at[w] # "idle"
    /\ EndCall(w)
    /\ UNCHANGED <<row, original, versions>>

MemoryNext ==
    \/ TimePasses \/ ExpireOverdue
    \/ \E w \in Writers :
          Get(w) \/ LockRow(w) \/ CommitCorrection(w) \/ UpdateStatus(w) \/ AbandonWrite(w)

MemorySpec == MemoryInit /\ [][MemoryNext]_memoryVars

-----------------------------------------------------------------------------
\* Every variable ranges over the values the code gives it; a call has read
\* the row exactly while it holds the lock.
MemoryTypeOK ==
    /\ state \in States /\ content \in Contents /\ original \in Contents
    /\ revision \in Nat \ {0} /\ expired \in BOOLEAN /\ outdated \in BOOLEAN
    /\ versions \in Seq([version : Nat, prior : Contents, new : Contents])
    /\ at \in [Writers -> {"idle", "correcting", "locked", "forgetting", "expiring"}]
    /\ \A w \in Writers :
          /\ input[w] \in IF at[w] \in {"correcting", "locked"} THEN Contents ELSE {"none"}
          /\ seen[w] \in IF at[w] = "locked"
                         THEN [content : Contents, version : Nat \ {0}] ELSE {Unread}

\* The versions tell every content the record had, in order and without gap,
\* whatever corrections overlap: "recording a version (never silent
\* overwrite)" (memory.ts 246).
VersionsChain ==
    /\ revision = Len(versions) + 1
    /\ \A i \in 1..Len(versions) :
          /\ versions[i].version = i + 1
          /\ versions[i].prior = IF i = 1 THEN original ELSE versions[i - 1].new
    /\ content = IF versions = <<>> THEN original ELSE versions[Len(versions)].new
=============================================================================
