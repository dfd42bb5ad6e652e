------------------------- MODULE MCGovernedActions -------------------------
(***************************************************************************)
(* Three parts that share no rows, of what users may do: governed actions  *)
(* (one document, two keys, two concurrent calls and one approval request  *)
(* decided by two users), sign-in and sessions, and a decision with the    *)
(* work started for it.  A behaviour is one of them; the others rest.      *)
(***************************************************************************)
EXTENDS GovernedActions, Sessions, Decisions, TLC

CONSTANTS
    r1, boss, clerk, d1, k1, k2, c1, c2, s1, s2, q1, q2, q3, w1, w2, i1, i2

VARIABLE part

MCRequests == {r1}
MCUsers == {boss, clerk}
MCAuthority == {boss}
MCDocs == {d1}
MCKeys == {k1, k2}
MCCallers == {c1, c2}
MCNeedsApproval == {"archive_document"}
MCSlots == {s1, s2}
MCDeskCalls == {q1, q2, q3}
MCWorkflows == {w1, w2}
MCSupervised == {w1}
MCRequestIds == {i1, i2}
MCSettings == {{}, {"overlap", "crash"}}

Symmetry == UNION {Permutations(S) : S \in {MCKeys, MCCallers, MCSlots}}

\* A part that rests has one initial state.
MCInit ==
    /\ part \in {"action", "session", "decision"}
    /\ GInit /\ SInit /\ DInit
    /\ part # "decision" => faults = {}

MCNext ==
    \/ part = "action" /\ Next /\ UNCHANGED <<part, svars, dvars>>
    \/ part = "session" /\ SNext /\ UNCHANGED <<part, vars, dvars>>
    \/ part = "decision" /\ DNext /\ UNCHANGED <<part, vars, svars>>

MCSpec == MCInit /\ [][MCNext]_<<part, vars, svars, dvars>>
=============================================================================
