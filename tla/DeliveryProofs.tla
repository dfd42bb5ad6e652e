---------------------------- MODULE DeliveryProofs ----------------------------
(***************************************************************************)
(* Proofs about the outbox and about webhooks, which share no state, for   *)
(* any sets of events, relays, endpoints, messages and dispatchers and any *)
(* of the faults.                                                          *)
(*                                                                         *)
(* The outbox: LockInv says what the row locks of the claim give,          *)
(* RecordInv what a relay remembers of the event it dispatches, HolderInv  *)
(* that, as long as no event becomes overdue and no answer is lost, what a *)
(* relay has in its batch is processing and nobody else's, and OnceInv     *)
(* that a delivered event is published or about to be.                     *)
(*                                                                         *)
(* Webhooks, which claim nothing: CountsHold says that no count passes the *)
(* posts, SoleInv that they are equal if endpoints only refuse.            *)
(***************************************************************************)
EXTENDS Outbox, Webhooks, TLAPS

\* The outbox.

USE AttemptAssumption, BoundAssumption, SettingAssumption, NoEventAssumption

AtHand == {"loaded", "dispatched", "failing"}

LockInv ==
    /\ \A r \in Relays : \A e \in locked[r] : status[e] = "pending" /\ attempt[e] < ClaimBound
    /\ \A r, s \in Relays : r # s => \A e \in locked[r] : e \notin locked[s]

RecordInv ==
    /\ \A r \in Relays : pc[r] \in AtHand =>
          current[r] \in batch[r] /\ seen[r] <= attempt[current[r]]
    /\ \A r \in Relays : pc[r] = "dispatched" => delivered[current[r]] >= 1
    /\ OutcomesAreEarned

HolderInv == Prompt =>
    /\ \A r \in Relays : \A e \in batch[r] : status[e] = "processing" /\ avail[e] # "stale"
    /\ \A e \in Events : status[e] \in {"absent", "pending"} => avail[e] # "stale"
    /\ \A r, s \in Relays : r # s => \A e \in batch[r] : e \notin batch[s]

OnceInv == faults \subseteq {"dispatchError"} =>
    \A e \in Events :
        /\ delivered[e] <= 1
        /\ delivered[e] = 1 => \/ status[e] = "published"
                               \/ \E r \in Relays : pc[r] = "dispatched" /\ current[r] = e

IInv == TypeOK /\ LockInv /\ RecordInv /\ HolderInv /\ OnceInv

USE DEF rows, memory, IInv

LEMMA InitInv == Init => IInv
BY DEF Init, TypeOK, LockInv, RecordInv, HolderInv, OnceInv, AtHand, Prompt,
       OutcomesAreEarned, Status, Phase

\* The types rest on the locks: two claims never count the same attempt.
LEMMA TypeStep == IInv /\ [Next]_vars => TypeOK'
<1> SUFFICES ASSUME IInv, [Next]_vars PROVE TypeOK'
  OBVIOUS
<1>1. ASSUME NEW e \in Events, Append(e) PROVE TypeOK'
  BY <1>1 DEF Append, TypeOK, Status
<1>2. ASSUME NEW e \in Events, BackoffElapses(e) PROVE TypeOK'
  BY <1>2 DEF BackoffElapses, TypeOK
<1>3. ASSUME NEW e \in Events, BecomesStale(e) PROVE TypeOK'
  BY <1>3 DEF BecomesStale, TypeOK
<1>4. ASSUME RecoverStale PROVE TypeOK'
  BY <1>4 DEF RecoverStale, TypeOK, Status
<1>5. ASSUME NEW r \in Relays, ClaimSelect(r) PROVE TypeOK'
  BY <1>5 DEF ClaimSelect, Available, TypeOK, Phase
<1>6. ASSUME NEW r \in Relays, ClaimCommit(r) PROVE TypeOK'
  BY <1>6 DEF ClaimCommit, ClaimRows, TypeOK, LockInv, Status, Phase
<1>7. ASSUME NEW r \in Relays, ClaimFails(r) PROVE TypeOK'
  BY <1>7 DEF ClaimFails, TypeOK, Phase
<1>8. ASSUME NEW r \in Relays, ClaimAckLost(r) PROVE TypeOK'
  BY <1>8 DEF ClaimAckLost, ClaimRows, TypeOK, LockInv, Status, Phase
<1>9. ASSUME NEW r \in Relays, LoadEvent(r) PROVE TypeOK'
  BY <1>9 DEF LoadEvent, TypeOK, Phase
<1>10. ASSUME NEW r \in Relays, DispatchReturns(r) PROVE TypeOK'
  BY <1>10 DEF DispatchReturns, TypeOK, RecordInv, AtHand, Phase
<1>11. ASSUME NEW r \in Relays, DispatchThrows(r) PROVE TypeOK'
  BY <1>11 DEF DispatchThrows, TypeOK, Phase
<1>12. ASSUME NEW r \in Relays, MarkPublished(r) PROVE TypeOK'
  BY <1>12 DEF MarkPublished, NextEvent, TypeOK, RecordInv, AtHand, Status, Phase
<1>13. ASSUME NEW r \in Relays, MarkPublishedFails(r) PROVE TypeOK'
  BY <1>13 DEF MarkPublishedFails, TypeOK, Status, Phase
<1>14. ASSUME NEW r \in Relays, MarkFailed(r) PROVE TypeOK'
  BY <1>14 DEF MarkFailed, NextEvent, TypeOK, RecordInv, AtHand, Status, Phase
<1>15. ASSUME NEW r \in Relays, AbandonBatch(r) PROVE TypeOK'
  BY <1>15 DEF AbandonBatch, Forget, TypeOK, Phase
<1>16. ASSUME NEW r \in Relays, Crash(r) PROVE TypeOK'
  BY <1>16 DEF Crash, Forget, TypeOK, Phase
<1>17. CASE UNCHANGED vars
  BY <1>17 DEF vars, TypeOK
<1>. QED BY <1>1, <1>2, <1>3, <1>4, <1>5, <1>6, <1>7, <1>8, <1>9, <1>10, <1>11, <1>12,
            <1>13, <1>14, <1>15, <1>16, <1>17 DEF Next, Publish

\* Only the holder of a lock writes the row, as every UPDATE waits for it.
LEMMA LockStep == IInv /\ [Next]_vars => LockInv'
<1> SUFFICES ASSUME IInv, [Next]_vars PROVE LockInv'
  OBVIOUS
<1>1. ASSUME NEW e \in Events, Append(e) PROVE LockInv'
  BY <1>1 DEF Append, LockInv
<1>2. ASSUME NEW e \in Events, BackoffElapses(e) PROVE LockInv'
  BY <1>2 DEF BackoffElapses, LockInv
<1>3. ASSUME NEW e \in Events, BecomesStale(e) PROVE LockInv'
  BY <1>3 DEF BecomesStale, LockInv
<1>4. ASSUME RecoverStale PROVE LockInv'
  BY <1>4 DEF RecoverStale, TypeOK, LockInv
<1>5. ASSUME NEW r \in Relays, ClaimSelect(r) PROVE LockInv'
  BY <1>5 DEF ClaimSelect, Available, Unlocked, LockInv
<1>6. ASSUME NEW r \in Relays, ClaimCommit(r) PROVE LockInv'
  BY <1>6 DEF ClaimCommit, ClaimRows, TypeOK, LockInv
<1>7. ASSUME NEW r \in Relays, ClaimFails(r) PROVE LockInv'
  BY <1>7 DEF ClaimFails, LockInv
<1>8. ASSUME NEW r \in Relays, ClaimAckLost(r) PROVE LockInv'
  BY <1>8 DEF ClaimAckLost, ClaimRows, TypeOK, LockInv
<1>9. ASSUME NEW r \in Relays, LoadEvent(r) PROVE LockInv'
  BY <1>9 DEF LoadEvent, LockInv
<1>10. ASSUME NEW r \in Relays, DispatchReturns(r) PROVE LockInv'
  BY <1>10 DEF DispatchReturns, LockInv
<1>11. ASSUME NEW r \in Relays, DispatchThrows(r) PROVE LockInv'
  BY <1>11 DEF DispatchThrows, LockInv
<1>12. ASSUME NEW r \in Relays, MarkPublished(r) PROVE LockInv'
  BY <1>12 DEF MarkPublished, NextEvent, Unlocked, LockInv
<1>13. ASSUME NEW r \in Relays, MarkPublishedFails(r) PROVE LockInv'
  BY <1>13 DEF MarkPublishedFails, Unlocked, TypeOK, LockInv
<1>14. ASSUME NEW r \in Relays, MarkFailed(r) PROVE LockInv'
  BY <1>14 DEF MarkFailed, NextEvent, Unlocked, LockInv
<1>15. ASSUME NEW r \in Relays, AbandonBatch(r) PROVE LockInv'
  BY <1>15 DEF AbandonBatch, Forget, LockInv
<1>16. ASSUME NEW r \in Relays, Crash(r) PROVE LockInv'
  BY <1>16 DEF Crash, Forget, LockInv
<1>17. CASE UNCHANGED vars
  BY <1>17 DEF vars, LockInv
<1>. QED BY <1>1, <1>2, <1>3, <1>4, <1>5, <1>6, <1>7, <1>8, <1>9, <1>10, <1>11, <1>12,
            <1>13, <1>14, <1>15, <1>16, <1>17 DEF Next, Publish

\* What a relay has loaded can only grow, whoever writes the row meanwhile.
LEMMA RecordStep == IInv /\ [Next]_vars => RecordInv'
<1> SUFFICES ASSUME IInv, [Next]_vars PROVE RecordInv'
  OBVIOUS
<1>1. ASSUME NEW e \in Events, Append(e) PROVE RecordInv'
  BY <1>1 DEF Append, RecordInv, OutcomesAreEarned
<1>2. ASSUME NEW e \in Events, BackoffElapses(e) PROVE RecordInv'
  BY <1>2 DEF BackoffElapses, RecordInv, OutcomesAreEarned
<1>3. ASSUME NEW e \in Events, BecomesStale(e) PROVE RecordInv'
  BY <1>3 DEF BecomesStale, RecordInv, OutcomesAreEarned
<1>4. ASSUME RecoverStale PROVE RecordInv'
  BY <1>4 DEF RecoverStale, RecordInv, OutcomesAreEarned
<1>5. ASSUME NEW r \in Relays, ClaimSelect(r) PROVE RecordInv'
  BY <1>5 DEF ClaimSelect, RecordInv, AtHand, OutcomesAreEarned
<1>6. ASSUME NEW r \in Relays, ClaimCommit(r) PROVE RecordInv'
  BY <1>6 DEF ClaimCommit, ClaimRows, TypeOK, RecordInv, AtHand, OutcomesAreEarned
<1>7. ASSUME NEW r \in Relays, ClaimFails(r) PROVE RecordInv'
  BY <1>7 DEF ClaimFails, RecordInv, AtHand, OutcomesAreEarned
<1>8. ASSUME NEW r \in Relays, ClaimAckLost(r) PROVE RecordInv'
  BY <1>8 DEF ClaimAckLost, ClaimRows, TypeOK, RecordInv, AtHand, OutcomesAreEarned
<1>9. ASSUME NEW r \in Relays, LoadEvent(r) PROVE RecordInv'
  BY <1>9 DEF LoadEvent, TypeOK, RecordInv, OutcomesAreEarned
<1>10. ASSUME NEW r \in Relays, DispatchReturns(r) PROVE RecordInv'
  BY <1>10 DEF DispatchReturns, TypeOK, RecordInv, AtHand, OutcomesAreEarned
<1>11. ASSUME NEW r \in Relays, DispatchThrows(r) PROVE RecordInv'
  BY <1>11 DEF DispatchThrows, TypeOK, RecordInv, AtHand, OutcomesAreEarned
<1>12. ASSUME NEW r \in Relays, MarkPublished(r) PROVE RecordInv'
  BY <1>12 DEF MarkPublished, NextEvent, TypeOK, RecordInv, AtHand, OutcomesAreEarned
<1>13. ASSUME NEW r \in Relays, MarkPublishedFails(r) PROVE RecordInv'
  BY <1>13 DEF MarkPublishedFails, TypeOK, RecordInv, AtHand, OutcomesAreEarned
<1>14. ASSUME NEW r \in Relays, MarkFailed(r) PROVE RecordInv'
  BY <1>14 DEF MarkFailed, NextEvent, TypeOK, RecordInv, AtHand, OutcomesAreEarned
<1>15. ASSUME NEW r \in Relays, AbandonBatch(r) PROVE RecordInv'
  BY <1>15 DEF AbandonBatch, Forget, TypeOK, RecordInv, AtHand, OutcomesAreEarned
<1>16. ASSUME NEW r \in Relays, Crash(r) PROVE RecordInv'
  BY <1>16 DEF Crash, Forget, TypeOK, RecordInv, AtHand, OutcomesAreEarned
<1>17. CASE UNCHANGED vars
  BY <1>17 DEF vars, RecordInv, OutcomesAreEarned
<1>. QED BY <1>1, <1>2, <1>3, <1>4, <1>5, <1>6, <1>7, <1>8, <1>9, <1>10, <1>11, <1>12,
            <1>13, <1>14, <1>15, <1>16, <1>17 DEF Next, Publish

\* Without overdue events a batch is written by the relay that holds it.
LEMMA HolderStep == IInv /\ [Next]_vars => HolderInv'
<1> SUFFICES ASSUME IInv, [Next]_vars PROVE HolderInv'
  OBVIOUS
<1>1. ASSUME NEW e \in Events, Append(e) PROVE HolderInv'
  BY <1>1 DEF Append, HolderInv, Prompt
<1>2. ASSUME NEW e \in Events, BackoffElapses(e) PROVE HolderInv'
  BY <1>2 DEF BackoffElapses, HolderInv, Prompt
<1>3. ASSUME NEW e \in Events, BecomesStale(e) PROVE HolderInv'
  BY <1>3 DEF BecomesStale, HolderInv, Prompt, HeldByNone
<1>4. ASSUME RecoverStale PROVE HolderInv'
  BY <1>4 DEF RecoverStale, IsStale, TypeOK, HolderInv, Prompt
<1>5. ASSUME NEW r \in Relays, ClaimSelect(r) PROVE HolderInv'
  BY <1>5 DEF ClaimSelect, HolderInv, Prompt
<1>6. ASSUME NEW r \in Relays, ClaimCommit(r) PROVE HolderInv'
  BY <1>6 DEF ClaimCommit, ClaimRows, TypeOK, LockInv, HolderInv, Prompt
<1>7. ASSUME NEW r \in Relays, ClaimFails(r) PROVE HolderInv'
  BY <1>7 DEF ClaimFails, HolderInv, Prompt
<1>8. ASSUME NEW r \in Relays, ClaimAckLost(r) PROVE HolderInv'
  BY <1>8 DEF ClaimAckLost, HolderInv, Prompt
<1>9. ASSUME NEW r \in Relays, LoadEvent(r) PROVE HolderInv'
  BY <1>9 DEF LoadEvent, HolderInv, Prompt
<1>10. ASSUME NEW r \in Relays, DispatchReturns(r) PROVE HolderInv'
  BY <1>10 DEF DispatchReturns, HolderInv, Prompt
<1>11. ASSUME NEW r \in Relays, DispatchThrows(r) PROVE HolderInv'
  BY <1>11 DEF DispatchThrows, HolderInv, Prompt
<1>12. ASSUME NEW r \in Relays, MarkPublished(r) PROVE HolderInv'
  BY <1>12 DEF MarkPublished, NextEvent, TypeOK, RecordInv, HolderInv, AtHand, Prompt
<1>13. ASSUME NEW r \in Relays, MarkPublishedFails(r) PROVE HolderInv'
  BY <1>13 DEF MarkPublishedFails, HolderInv, Prompt
<1>14. ASSUME NEW r \in Relays, MarkFailed(r) PROVE HolderInv'
  BY <1>14 DEF MarkFailed, NextEvent, TypeOK, RecordInv, HolderInv, AtHand, Prompt
<1>15. ASSUME NEW r \in Relays, AbandonBatch(r) PROVE HolderInv'
  BY <1>15 DEF AbandonBatch, Forget, HolderInv, Prompt
<1>16. ASSUME NEW r \in Relays, Crash(r) PROVE HolderInv'
  BY <1>16 DEF Crash, Forget, HolderInv, Prompt
<1>17. CASE UNCHANGED vars
  BY <1>17 DEF vars, HolderInv, Prompt
<1>. QED BY <1>1, <1>2, <1>3, <1>4, <1>5, <1>6, <1>7, <1>8, <1>9, <1>10, <1>11, <1>12,
            <1>13, <1>14, <1>15, <1>16, <1>17 DEF Next, Publish

\* A second dispatch would need a second holder or a published event.
LEMMA OnceStep == IInv /\ [Next]_vars => OnceInv'
<1> SUFFICES ASSUME IInv, [Next]_vars PROVE OnceInv'
  OBVIOUS
<1>1. ASSUME NEW e \in Events, Append(e) PROVE OnceInv'
  BY <1>1 DEF Append, OnceInv
<1>2. ASSUME NEW e \in Events, BackoffElapses(e) PROVE OnceInv'
  BY <1>2 DEF BackoffElapses, OnceInv
<1>3. ASSUME NEW e \in Events, BecomesStale(e) PROVE OnceInv'
  BY <1>3 DEF BecomesStale, OnceInv
<1>4. ASSUME RecoverStale PROVE OnceInv'
  BY <1>4 DEF RecoverStale, IsStale, OnceInv
<1>5. ASSUME NEW r \in Relays, ClaimSelect(r) PROVE OnceInv'
  BY <1>5 DEF ClaimSelect, OnceInv
<1>6. ASSUME NEW r \in Relays, ClaimCommit(r) PROVE OnceInv'
  BY <1>6 DEF ClaimCommit, ClaimRows, LockInv, OnceInv
<1>7. ASSUME NEW r \in Relays, ClaimFails(r) PROVE OnceInv'
  BY <1>7 DEF ClaimFails, OnceInv
<1>8. ASSUME NEW r \in Relays, ClaimAckLost(r) PROVE OnceInv'
  BY <1>8 DEF ClaimAckLost, OnceInv
<1>9. ASSUME NEW r \in Relays, LoadEvent(r) PROVE OnceInv'
  BY <1>9 DEF LoadEvent, OnceInv
<1>10. ASSUME NEW r \in Relays, DispatchReturns(r) PROVE OnceInv'
  <2>1. current[r] \in batch[r] /\ current[r] \in Events
    BY <1>10 DEF DispatchReturns, RecordInv, AtHand, TypeOK
  <2>2. ASSUME faults \subseteq {"dispatchError"} PROVE delivered[current[r]] = 0
    <3>1. Prompt
      BY <2>2 DEF Prompt
    <3>2. status[current[r]] = "processing"
      BY <2>1, <3>1 DEF HolderInv
    <3>3. ASSUME NEW s \in Relays, pc[s] = "dispatched", current[s] = current[r] PROVE FALSE
      <4>1. s # r /\ current[r] \in batch[s]
        BY <1>10, <3>3 DEF DispatchReturns, RecordInv, AtHand
      <4>. QED BY <2>1, <3>1, <4>1 DEF HolderInv
    <3>. QED BY <2>1, <2>2, <3>2, <3>3 DEF OnceInv, TypeOK
  <2>. QED BY <1>10, <2>1, <2>2 DEF DispatchReturns, OnceInv, TypeOK
<1>11. ASSUME NEW r \in Relays, DispatchThrows(r) PROVE OnceInv'
  BY <1>11 DEF DispatchThrows, OnceInv
<1>12. ASSUME NEW r \in Relays, MarkPublished(r) PROVE OnceInv'
  BY <1>12 DEF MarkPublished, NextEvent, TypeOK, OnceInv
<1>13. ASSUME NEW r \in Relays, MarkPublishedFails(r) PROVE OnceInv'
  BY <1>13 DEF MarkPublishedFails, OnceInv
<1>14. ASSUME NEW r \in Relays, MarkFailed(r) PROVE OnceInv'
  BY <1>14 DEF MarkFailed, NextEvent, RecordInv, HolderInv, OnceInv, AtHand, Prompt
<1>15. ASSUME NEW r \in Relays, AbandonBatch(r) PROVE OnceInv'
  BY <1>15 DEF AbandonBatch, OnceInv
<1>16. ASSUME NEW r \in Relays, Crash(r) PROVE OnceInv'
  BY <1>16 DEF Crash, OnceInv
<1>17. CASE UNCHANGED vars
  BY <1>17 DEF vars, OnceInv
<1>. QED BY <1>1, <1>2, <1>3, <1>4, <1>5, <1>6, <1>7, <1>8, <1>9, <1>10, <1>11, <1>12,
            <1>13, <1>14, <1>15, <1>16, <1>17 DEF Next, Publish

LEMMA Invariant == Spec => []IInv
BY InitInv, TypeStep, LockStep, RecordStep, HolderStep, OnceStep, PTL DEF Spec

-----------------------------------------------------------------------------
(* The theorems                                                            *)

\* The rows and the relays hold values of their columns and variables
\* (014_p0_substrate.sql 11-26).
THEOREM TypeCorrect == Spec => []TypeOK
BY Invariant, PTL

\* published is written after a delivery, dead_letter after MaxAttempts
\* claims, whatever the other relays and the recovery do (outbox.ts 93-103).
THEOREM EarnedOutcomes == Spec => []OutcomesAreEarned
<1>1. IInv => OutcomesAreEarned
  BY DEF RecordInv
<1>. QED BY <1>1, Invariant, PTL

\* No two relays hold one event, as long as none is overdue and no answer is
\* lost (outbox.ts 64-85).
THEOREM OneHolder == Spec => []SingleHolder
<1>1. IInv => SingleHolder
  BY DEF SingleHolder, HolderInv, LockInv, TypeOK
<1>. QED BY <1>1, Invariant, PTL

\* An event is delivered once where nothing but the dispatch itself fails
\* (outbox.ts 64-65).
THEOREM DeliveredOnce == Spec => []DeliveredAtMostOnce
<1>1. IInv => DeliveredAtMostOnce
  BY DEF DeliveredAtMostOnce, OnceInv
<1>. QED BY <1>1, Invariant, PTL

\* The UPDATEs that test nothing but the id never overwrite an outcome, as
\* long as no event is overdue and no answer is lost (outbox.ts 95-103).
THEOREM OutcomeFinal == Spec => PublishedIsFinal
<1> DEFINE Final(e) == status[e] \in {"published", "dead_letter"}
<1>1. ASSUME IInv, Next, Prompt, NEW e \in Events, Final(e) PROVE status'[e] = status[e]
  <2>1. ASSUME NEW d \in Events, Append(d) \/ BackoffElapses(d) \/ BecomesStale(d)
        PROVE  status'[e] = status[e]
    BY <1>1, <2>1 DEF Append, BackoffElapses, BecomesStale, TypeOK
  <2>2. ASSUME RecoverStale PROVE status'[e] = status[e]
    BY <1>1, <2>2 DEF RecoverStale, IsStale
  <2>3. ASSUME NEW r \in Relays, ClaimCommit(r) \/ ClaimAckLost(r) PROVE status'[e] = status[e]
    BY <1>1, <2>3 DEF ClaimCommit, ClaimAckLost, ClaimRows, LockInv
  <2>4. ASSUME NEW r \in Relays, pc[r] \in AtHand PROVE e # current[r]
    BY <1>1, <2>4 DEF RecordInv, HolderInv
  <2>5. ASSUME NEW r \in Relays, MarkPublished(r) \/ MarkPublishedFails(r) \/ MarkFailed(r)
        PROVE  status'[e] = status[e]
    BY <1>1, <2>4, <2>5 DEF MarkPublished, MarkPublishedFails, MarkFailed, AtHand, TypeOK
  <2>6. ASSUME NEW r \in Relays,
               \/ ClaimSelect(r) \/ ClaimFails(r) \/ LoadEvent(r) \/ DispatchReturns(r)
               \/ DispatchThrows(r) \/ AbandonBatch(r) \/ Crash(r)
        PROVE  status'[e] = status[e]
    BY <2>6 DEF ClaimSelect, ClaimFails, LoadEvent, DispatchReturns, DispatchThrows,
                AbandonBatch, Crash, Forget
  <2>. QED BY <1>1, <2>1, <2>2, <2>3, <2>5, <2>6 DEF Next, Publish
<1>2. IInv /\ [Next]_vars =>
        [Prompt => \A e \in Events : Final(e) => status'[e] = status[e]]_vars
  BY <1>1
<1>. QED BY <1>2, Invariant, PTL DEF Spec, PublishedIsFinal

-----------------------------------------------------------------------------
\* Webhooks.

Handled(k) == phase[k] \in {"loaded", "ok", "threw"}
Posted(k) == phase[k] \in {"ok", "threw"}

\* What a dispatcher counts is no more than what was posted.
CountsHold ==
    /\ \A d \in Deliveries : attempts[d] <= sent[d] /\ accepted[d] <= sent[d]
    /\ \A k \in Dispatchers :
          /\ phase[k] = "loaded" => counted[k] <= sent[inHand[k]]
          /\ Posted(k) => counted[k] + 1 <= sent[inHand[k]]
          /\ phase[k] = "ok" => accepted[inHand[k]] > 0
    /\ \A d \in Deliveries :
          /\ outcome[d] = "delivered" => accepted[d] > 0
          /\ outcome[d] = "dead_letter" => sent[d] >= MAX_ATTEMPTS

Awaited(d) == outcome[d] \in {"absent", "pending"}

\* If endpoints only refuse, a delivery is in one batch at a time, and every
\* post is counted before the next.
SoleInv == failures \subseteq {"refused"} =>
    /\ \A k, l \in Dispatchers : phase[k] # "idle" /\ phase[l] # "idle" => k = l
    /\ \A k \in Dispatchers : \A d \in todo[k] : outcome[d] = "pending" /\ phase[k] # "idle"
    /\ \A k \in Dispatchers : Handled(k) =>
          /\ outcome[inHand[k]] = "pending" /\ inHand[k] \notin todo[k]
          /\ counted[k] = attempts[inHand[k]]
          /\ Posted(k) => sent[inHand[k]] = attempts[inHand[k]] + 1
          /\ phase[k] # "ok" => accepted[inHand[k]] = 0
    /\ \A d \in Deliveries :
          /\ Awaited(d) => attempts[d] < MAX_ATTEMPTS
          /\ Awaited(d) /\ (\A k \in Dispatchers : ~Posted(k) \/ inHand[k] # d) => sent[d] = attempts[d] /\ accepted[d] = 0
          /\ sent[d] <= MAX_ATTEMPTS /\ accepted[d] <= 1

HookInv == WebhookTypeOK /\ CountsHold /\ SoleInv

LEMMA HookStart == WebhookInit => HookInv
<1> SUFFICES ASSUME WebhookInit PROVE HookInv OBVIOUS
<1> USE DEF WebhookInit, Handled, Posted, Awaited
<1>1. WebhookTypeOK BY AttemptsAssumption, SendAssumption DEF WebhookTypeOK
<1>2. CountsHold BY DEF CountsHold
<1>3. SoleInv BY AttemptsAssumption DEF SoleInv
<1> QED BY <1>1, <1>2, <1>3 DEF HookInv

USE AttemptsAssumption, SendAssumption, NoDeliveryAssumption

\* Registering endpoints and enqueueing touch no row that is there.
LEMMA RowsKeep ==
    ASSUME HookInv, UNCHANGED <<outcome, attempts, dispatch, observed>>,
           registered' \subseteq Endpoints, events' \in [Endpoints -> SUBSET Messages],
           owed' \in [Messages -> SUBSET Endpoints], due' \in [Deliveries -> BOOLEAN]
    PROVE  HookInv'
<1> USE DEF HookInv, dispatch, observed
<1>1. WebhookTypeOK' BY DEF WebhookTypeOK
<1>2. CountsHold' BY DEF CountsHold, Handled, Posted
<1>3. SoleInv' BY DEF SoleInv, Handled, Posted, Awaited
<1> QED BY <1>1, <1>2, <1>3

LEMMA InsertDeliveryKeeps == ASSUME HookInv, NEW m \in Messages, InsertDelivery(m) PROVE HookInv'
<1> USE DEF HookInv
<1>1. PICK e \in owed[m] : /\ owed' = [owed EXCEPT ![m] = @ \ {e}]
                           /\ IF outcome[<<e, m>>] = "absent"
                              THEN /\ outcome' = [outcome EXCEPT ![<<e, m>>] = "pending"]
                                   /\ due' = [due EXCEPT ![<<e, m>>] = TRUE]
                              ELSE UNCHANGED <<outcome, due>>
      BY DEF InsertDelivery
<1>2. UNCHANGED <<registered, events, attempts, phase, todo, inHand, counted, sent, accepted, failures>>
      BY DEF InsertDelivery, dispatch, observed
<1>3. <<e, m>> \in Deliveries BY DEF WebhookTypeOK, Deliveries
<1>4. PICK d \in Deliveries : /\ d = <<e, m>>
                              /\ IF outcome[d] = "absent"
                                 THEN outcome' = [outcome EXCEPT ![d] = "pending"] /\ due' = [due EXCEPT ![d] = TRUE]
                                 ELSE UNCHANGED <<outcome, due>>
      BY <1>1, <1>3
<1>5. owed' \in [Messages -> SUBSET Endpoints] BY <1>1 DEF WebhookTypeOK
<1>6. CASE outcome[d] # "absent" BY <1>2, <1>4, <1>5, <1>6, RowsKeep DEF WebhookTypeOK, dispatch, observed
<1>7. CASE outcome[d] = "absent"
  <2>1. /\ outcome' = [outcome EXCEPT ![d] = "pending"] /\ due' = [due EXCEPT ![d] = TRUE] BY <1>4, <1>7
  <2>2. outcome'[d] = "pending" /\ \A o \in Deliveries : o # d => outcome'[o] = outcome[o] BY <2>1 DEF WebhookTypeOK
  <2>3. WebhookTypeOK' BY <1>2, <1>5, <2>1 DEF WebhookTypeOK
  <2>4. CountsHold' BY <1>2, <2>2 DEF CountsHold, Handled, Posted
  <2>5. SoleInv'
    <3> SUFFICES ASSUME failures \subseteq {"refused"} PROVE SoleInv' BY <1>2 DEF SoleInv
    <3>1. \A o \in Deliveries : Awaited(o)' <=> Awaited(o) BY <1>7, <2>2 DEF Awaited
    <3>2. \A o \in Deliveries : outcome[o] = "pending" => outcome'[o] = "pending" BY <2>2
    <3>3. \A k \in Dispatchers : todo[k] \subseteq Deliveries /\ (Handled(k) => inHand[k] \in Deliveries)
          BY DEF WebhookTypeOK, Handled
    <3> QED BY <1>2, <3>1, <3>2, <3>3 DEF SoleInv, Handled, Posted
  <2> QED BY <2>3, <2>4, <2>5
<1> QED BY <1>6, <1>7

LEMMA SelectBatchKeeps == ASSUME HookInv, NEW k \in Dispatchers, SelectBatch(k) PROVE HookInv'
<1> USE DEF HookInv
<1>1. /\ UNCHANGED <<registered, events, outcome, attempts, due, owed, inHand, counted, sent, accepted, failures>>
      /\ phase[k] = "idle" /\ ("overlap" \in failures \/ \A l \in Dispatchers : phase[l] = "idle")
      /\ todo' = [todo EXCEPT ![k] = {d \in Deliveries : outcome[d] = "pending" /\ due[d]}]
      /\ phase' = [phase EXCEPT ![k] = "next"]
      BY DEF SelectBatch, deliveries, observed
<1>2. /\ phase'[k] = "next" /\ todo'[k] \subseteq Deliveries /\ \A d \in todo'[k] : outcome[d] = "pending"
      /\ \A l \in Dispatchers : l # k => phase'[l] = phase[l] /\ todo'[l] = todo[l]
      BY <1>1 DEF WebhookTypeOK
<1>3. WebhookTypeOK'
  <2>1. /\ todo' \in [Dispatchers -> SUBSET Deliveries]
        /\ phase' \in [Dispatchers -> {"idle", "next", "loaded", "ok", "threw"}]
        BY <1>1 DEF WebhookTypeOK
  <2> QED BY <1>1, <1>2, <2>1 DEF WebhookTypeOK
<1>4. \A l \in Dispatchers : (Handled(l)' <=> Handled(l)) /\ (Posted(l)' <=> Posted(l)) BY <1>1, <1>2 DEF Handled, Posted
<1>5. CountsHold' BY <1>1, <1>2, <1>4 DEF CountsHold
<1>6. SoleInv'
  <2> SUFFICES ASSUME failures \subseteq {"refused"} PROVE SoleInv' BY <1>1 DEF SoleInv
  <2>1. \A l \in Dispatchers : phase[l] = "idle" BY <1>1
  <2>2. \A l \in Dispatchers : ~Handled(l) BY <2>1 DEF Handled
  <2>3. \A l \in Dispatchers : \A d \in todo'[l] : outcome'[d] = "pending" /\ phase'[l] # "idle"
    <3> SUFFICES ASSUME NEW l \in Dispatchers, NEW d \in todo'[l] PROVE outcome'[d] = "pending" /\ phase'[l] # "idle"
        OBVIOUS
    <3>1. CASE l = k BY <1>1, <1>2, <3>1
    <3>2. CASE l # k BY <1>2, <2>1, <3>2 DEF SoleInv
    <3> QED BY <3>1, <3>2
  <2> QED BY <1>1, <1>2, <1>4, <2>1, <2>2, <2>3 DEF SoleInv, Awaited
<1> QED BY <1>3, <1>5, <1>6

LEMMA LoadDeliveryKeeps == ASSUME HookInv, NEW k \in Dispatchers, LoadDelivery(k) PROVE HookInv'
<1> USE DEF HookInv
<1>1. PICK d \in todo[k] : /\ todo' = [todo EXCEPT ![k] = @ \ {d}] /\ inHand' = [inHand EXCEPT ![k] = d]
                           /\ counted' = [counted EXCEPT ![k] = attempts[d]]
      BY DEF LoadDelivery
<1>2. /\ UNCHANGED <<registered, events, outcome, attempts, due, owed, sent, accepted, failures>>
      /\ phase[k] = "next" /\ phase' = [phase EXCEPT ![k] = "loaded"]
      BY DEF LoadDelivery, deliveries, observed
<1>3. d \in Deliveries /\ d # NoDelivery BY <1>1 DEF WebhookTypeOK
<1>4. /\ phase'[k] = "loaded" /\ inHand'[k] = d /\ counted'[k] = attempts[d] /\ todo'[k] = todo[k] \ {d}
      /\ \A l \in Dispatchers : l # k => /\ phase'[l] = phase[l] /\ todo'[l] = todo[l]
                                         /\ inHand'[l] = inHand[l] /\ counted'[l] = counted[l]
      BY <1>1, <1>2 DEF WebhookTypeOK
<1>5. WebhookTypeOK'
  <2>1. attempts[d] \in 0..SendBound BY <1>3 DEF WebhookTypeOK
  <2>2. /\ todo' \in [Dispatchers -> SUBSET Deliveries] /\ inHand' \in [Dispatchers -> Deliveries \cup {NoDelivery}]
        /\ phase' \in [Dispatchers -> {"idle", "next", "loaded", "ok", "threw"}]
        /\ counted' \in [Dispatchers -> 0..SendBound]
        BY <1>1, <1>2, <1>3, <2>1 DEF WebhookTypeOK
  <2>3. \A l \in Dispatchers : inHand'[l] = NoDelivery <=> phase'[l] \in {"idle", "next"}
        BY <1>3, <1>4 DEF WebhookTypeOK
  <2> QED BY <1>2, <2>2, <2>3 DEF WebhookTypeOK
<1>6. \A l \in Dispatchers : (Posted(l)' <=> Posted(l)) /\ ~Posted(k)' BY <1>2, <1>4 DEF Posted
<1>7. CountsHold' BY <1>2, <1>3, <1>4, <1>6 DEF CountsHold
<1>8. SoleInv'
  <2> SUFFICES ASSUME failures \subseteq {"refused"} PROVE SoleInv' BY <1>2 DEF SoleInv
  <2>1. \A l \in Dispatchers : l # k => phase[l] = "idle" /\ phase'[l] = "idle" BY <1>2, <1>4 DEF SoleInv
  <2>2. \A l \in Dispatchers : ~Posted(l) /\ ~Posted(l)' /\ (Handled(l)' => l = k) BY <1>2, <1>4, <2>1 DEF Posted, Handled
  <2>3. outcome[d] = "pending" /\ sent[d] = attempts[d] /\ accepted[d] = 0 /\ attempts[d] < MAX_ATTEMPTS
        BY <1>1, <1>3, <2>2 DEF SoleInv, Awaited
  <2>4. \A l \in Dispatchers : \A o \in todo'[l] : outcome'[o] = "pending" /\ phase'[l] # "idle"
        BY <1>2, <1>4 DEF SoleInv
  <2> QED BY <1>2, <1>4, <2>1, <2>2, <2>3, <2>4 DEF SoleInv, Awaited
<1> QED BY <1>5, <1>7, <1>8

\* A post is counted in 'sent' at once, and in the row when it is recorded.
LEMMA PostKeeps == ASSUME HookInv, NEW k \in Dispatchers, Post(k) PROVE HookInv'
<1> USE DEF HookInv
<1> DEFINE d == inHand[k]
<1>1. /\ UNCHANGED <<registered, events, outcome, attempts, due, owed, todo, inHand, counted, failures>>
      /\ phase[k] = "loaded" /\ sent[d] < SendBound /\ sent' = [sent EXCEPT ![d] = @ + 1]
      BY DEF Post, deliveries
<1>2. \/ accepted' = [accepted EXCEPT ![d] = @ + 1] /\ phase' = [phase EXCEPT ![k] = "ok"]
      \/ /\ "answerLost" \in failures
         /\ accepted' = [accepted EXCEPT ![d] = @ + 1] /\ phase' = [phase EXCEPT ![k] = "threw"]
      \/ phase' = [phase EXCEPT ![k] = "threw"] /\ UNCHANGED accepted
      BY DEF Post
<1>3. d \in Deliveries BY <1>1 DEF WebhookTypeOK
<1> HIDE DEF d
<1>4. /\ phase'[k] \in {"ok", "threw"} /\ \A l \in Dispatchers : l # k => phase'[l] = phase[l]
      /\ phase' \in [Dispatchers -> {"idle", "next", "loaded", "ok", "threw"}]
      BY <1>2 DEF WebhookTypeOK
<1>5. /\ sent \in [Deliveries -> Nat] /\ accepted \in [Deliveries -> Nat] /\ attempts \in [Deliveries -> Nat]
      /\ counted \in [Dispatchers -> Nat]
      BY DEF WebhookTypeOK
<1>6. sent'[d] = sent[d] + 1 /\ \A o \in Deliveries : o # d => sent'[o] = sent[o] BY <1>1, <1>3, <1>5
<1>7. /\ accepted'[d] \in {accepted[d], accepted[d] + 1} /\ \A o \in Deliveries : o # d => accepted'[o] = accepted[o]
      /\ phase'[k] = "ok" => accepted'[d] = accepted[d] + 1
      /\ failures \subseteq {"refused"} /\ phase'[k] = "threw" => accepted'[d] = accepted[d]
      BY <1>2, <1>3, <1>5, <1>1 DEF WebhookTypeOK
<1>8. WebhookTypeOK'
  <2>1. sent[d] + 1 \in 0..SendBound /\ accepted[d] + 1 \in 0..SendBound
        BY <1>1, <1>3, <1>5 DEF CountsHold, WebhookTypeOK
  <2>2. sent' \in [Deliveries -> 0..SendBound] /\ accepted' \in [Deliveries -> 0..SendBound]
        BY <1>1, <1>2, <1>3, <2>1 DEF WebhookTypeOK
  <2>3. \A l \in Dispatchers : inHand'[l] = NoDelivery <=> phase'[l] \in {"idle", "next"}
        BY <1>1, <1>4 DEF WebhookTypeOK
  <2> QED BY <1>1, <1>4, <2>2, <2>3 DEF WebhookTypeOK
<1>9. CountsHold'
  <2>1. ASSUME NEW o \in Deliveries PROVE sent'[o] \in Nat /\ sent[o] <= sent'[o] /\ accepted'[o] \in Nat /\ accepted[o] <= accepted'[o]
                                          /\ accepted'[o] <= sent'[o]
    <3>1. CASE o = d BY <1>3, <1>5, <1>6, <1>7, <3>1 DEF CountsHold
    <3>2. CASE o # d BY <1>5, <1>6, <1>7, <3>2 DEF CountsHold
    <3> QED BY <3>1, <3>2
  <2>2. \A o \in Deliveries : attempts'[o] <= sent'[o] /\ accepted'[o] <= sent'[o] BY <1>1, <1>5, <2>1 DEF CountsHold
  <2>3. ASSUME NEW l \in Dispatchers
        PROVE  /\ phase'[l] = "loaded" => counted'[l] <= sent'[inHand'[l]]
               /\ Posted(l)' => counted'[l] + 1 <= sent'[inHand'[l]]
               /\ phase'[l] = "ok" => accepted'[inHand'[l]] > 0
    <3>1. CASE l = k BY <1>1, <1>3, <1>4, <1>5, <1>6, <1>7, <3>1 DEF CountsHold, d, Posted
    <3>2. CASE l # k /\ inHand[l] \in Deliveries
          BY <1>1, <1>4, <1>5, <2>1, <3>2 DEF CountsHold, Posted
    <3>3. CASE l # k /\ inHand[l] \notin Deliveries
          BY <1>1, <1>4, <3>3 DEF WebhookTypeOK, Posted
    <3> QED BY <3>1, <3>2, <3>3
  <2>4. ASSUME NEW o \in Deliveries
        PROVE  (outcome'[o] = "delivered" => accepted'[o] > 0) /\ (outcome'[o] = "dead_letter" => sent'[o] >= MAX_ATTEMPTS)
        BY <1>1, <1>5, <2>1 DEF CountsHold
  <2> QED BY <2>2, <2>3, <2>4 DEF CountsHold
<1>10. SoleInv'
  <2> SUFFICES ASSUME failures \subseteq {"refused"} PROVE SoleInv' BY <1>1 DEF SoleInv
  <2>1. \A l \in Dispatchers : l # k => phase[l] = "idle" /\ phase'[l] = "idle" BY <1>1, <1>4 DEF SoleInv
  <2>2. \A l \in Dispatchers : ~Posted(l) /\ (Posted(l)' <=> l = k) /\ (Handled(l)' <=> l = k)
        BY <1>1, <1>4, <2>1 DEF Posted, Handled
  <2>3. outcome[d] = "pending" /\ d \notin todo[k] /\ counted[k] = attempts[d] /\ accepted[d] = 0
        BY <1>1 DEF SoleInv, Handled, d
  <2>4. sent[d] = attempts[d] /\ attempts[d] < MAX_ATTEMPTS BY <1>3, <2>2, <2>3 DEF SoleInv, Awaited
  <2>5. \A l, m \in Dispatchers : phase'[l] # "idle" /\ phase'[m] # "idle" => l = m BY <2>1
  <2>6. \A l \in Dispatchers : \A o \in todo'[l] : outcome'[o] = "pending" /\ phase'[l] # "idle"
        BY <1>1, <1>4, <2>1 DEF SoleInv
  <2>7. /\ outcome'[inHand'[k]] = "pending" /\ inHand'[k] \notin todo'[k]
        /\ counted'[k] = attempts'[inHand'[k]]
        /\ sent'[inHand'[k]] = attempts'[inHand'[k]] + 1
        /\ phase'[k] # "ok" => accepted'[inHand'[k]] = 0
        BY <1>1, <1>4, <1>6, <1>7, <2>3, <2>4 DEF d
  <2>8. ASSUME NEW o \in Deliveries
        PROVE  /\ Awaited(o)' => attempts'[o] < MAX_ATTEMPTS
               /\ Awaited(o)' /\ (\A l \in Dispatchers : ~Posted(l)' \/ inHand'[l] # o) => sent'[o] = attempts'[o] /\ accepted'[o] = 0
               /\ sent'[o] <= MAX_ATTEMPTS /\ accepted'[o] <= 1
    <3>1. CASE o = d BY <1>1, <1>5, <1>6, <1>7, <2>2, <2>3, <2>4, <3>1 DEF SoleInv, Awaited, d
    <3>2. CASE o # d BY <1>1, <1>6, <1>7, <2>2, <3>2 DEF SoleInv, Awaited
    <3> QED BY <3>1, <3>2
  <2> QED BY <1>1, <2>2, <2>5, <2>6, <2>7, <2>8 DEF SoleInv
<1> QED BY <1>8, <1>9, <1>10

\* A dispatcher lets go of its delivery, having written its row or not.
LetsGo(k, p, t) ==
    /\ phase[k] # "idle" /\ (p = "idle" => t = {})
    /\ UNCHANGED <<registered, events, owed, sent, accepted, failures>>
    /\ phase' = [phase EXCEPT ![k] = p] /\ todo' = [todo EXCEPT ![k] = t]
    /\ inHand' = [inHand EXCEPT ![k] = NoDelivery] /\ counted' = [counted EXCEPT ![k] = 0]
    /\ outcome' \in [Deliveries -> {"absent", "pending", "delivered", "dead_letter"}]
    /\ attempts' \in [Deliveries -> 0..SendBound] /\ due' \in [Deliveries -> BOOLEAN]
    /\ \A d \in Deliveries : d # inHand[k] => outcome'[d] = outcome[d] /\ attempts'[d] = attempts[d]
    /\ \A d \in Deliveries : /\ attempts'[d] <= sent[d] /\ (outcome'[d] = "delivered" => accepted[d] > 0)
                             /\ (outcome'[d] = "dead_letter" => sent[d] >= MAX_ATTEMPTS)
    /\ failures \subseteq {"refused"} /\ Handled(k) =>
           (outcome'[inHand[k]] \in {"absent", "pending"} =>
               /\ attempts'[inHand[k]] < MAX_ATTEMPTS
               /\ sent[inHand[k]] = attempts'[inHand[k]] /\ accepted[inHand[k]] = 0)

LEMMA LetGo ==
    ASSUME HookInv, NEW k \in Dispatchers, NEW p \in {"idle", "next"}, NEW t \in SUBSET todo[k], LetsGo(k, p, t)
    PROVE  HookInv'
<1> USE DEF HookInv, LetsGo
<1>1. /\ phase'[k] = p /\ todo'[k] = t /\ inHand'[k] = NoDelivery
      /\ \A l \in Dispatchers : l # k => /\ phase'[l] = phase[l] /\ todo'[l] = todo[l]
                                         /\ inHand'[l] = inHand[l] /\ counted'[l] = counted[l]
      BY DEF WebhookTypeOK
<1>2. WebhookTypeOK'
  <2>1. /\ phase' \in [Dispatchers -> {"idle", "next", "loaded", "ok", "threw"}]
        /\ todo' \in [Dispatchers -> SUBSET Deliveries] /\ inHand' \in [Dispatchers -> Deliveries \cup {NoDelivery}]
        /\ counted' \in [Dispatchers -> 0..SendBound]
        BY DEF WebhookTypeOK
  <2>2. \A l \in Dispatchers : inHand'[l] = NoDelivery <=> phase'[l] \in {"idle", "next"} BY <1>1 DEF WebhookTypeOK
  <2> QED BY <2>1, <2>2 DEF WebhookTypeOK
<1>3. CountsHold'
  <2>1. ASSUME NEW l \in Dispatchers
        PROVE  /\ phase'[l] = "loaded" => counted'[l] <= sent'[inHand'[l]]
               /\ Posted(l)' => counted'[l] + 1 <= sent'[inHand'[l]]
               /\ phase'[l] = "ok" => accepted'[inHand'[l]] > 0
        BY <1>1 DEF CountsHold, Posted
  <2> QED BY <2>1 DEF CountsHold
<1>4. ASSUME failures \subseteq {"refused"} PROVE SoleInv'
  <2>1. \A l \in Dispatchers : l # k => phase[l] = "idle" /\ phase'[l] = "idle" BY <1>1, <1>4 DEF SoleInv
  <2>2. \A l \in Dispatchers : ~Posted(l)' /\ ~Handled(l)' /\ (Posted(l) => l = k) BY <1>1, <2>1 DEF Posted, Handled
  <2>3. \A l, m \in Dispatchers : phase'[l] # "idle" /\ phase'[m] # "idle" => l = m BY <2>1
  <2>4. \A l \in Dispatchers : \A o \in todo'[l] : outcome'[o] = "pending" /\ phase'[l] # "idle"
    <3> SUFFICES ASSUME NEW l \in Dispatchers, NEW o \in todo'[l] PROVE outcome'[o] = "pending" /\ phase'[l] # "idle"
        OBVIOUS
    <3>1. CASE l = k
      <4>1. o \in todo[k] /\ o \in Deliveries /\ outcome[o] = "pending" /\ phase'[l] # "idle"
            BY <1>1, <1>4, <3>1 DEF SoleInv, WebhookTypeOK
      <4>2. o # inHand[k]
        <5>1. CASE Handled(k) BY <1>4, <4>1, <5>1 DEF SoleInv
        <5>2. CASE ~Handled(k) BY <4>1, <5>2 DEF WebhookTypeOK, Handled
        <5> QED BY <5>1, <5>2
      <4> QED BY <4>1, <4>2
    <3>2. CASE l # k BY <1>1, <1>4, <2>1, <3>2 DEF SoleInv
    <3> QED BY <3>1, <3>2
  <2>5. ASSUME NEW o \in Deliveries
        PROVE  /\ Awaited(o)' => attempts'[o] < MAX_ATTEMPTS
               /\ Awaited(o)' => sent'[o] = attempts'[o] /\ accepted'[o] = 0
               /\ sent'[o] <= MAX_ATTEMPTS /\ accepted'[o] <= 1
    <3>1. CASE o = inHand[k]
      <4>1. Handled(k) BY <3>1 DEF WebhookTypeOK, Handled
      <4> QED BY <1>4, <3>1, <4>1 DEF SoleInv, Awaited
    <3>2. CASE o # inHand[k] BY <1>4, <2>2, <3>2 DEF SoleInv, Awaited
    <3> QED BY <3>1, <3>2
  <2> QED BY <2>2, <2>3, <2>4, <2>5 DEF SoleInv
<1>5. SoleInv' BY <1>4 DEF SoleInv
<1> QED BY <1>2, <1>3, <1>5

LEMMA RecordDeliveredKeeps == ASSUME HookInv, NEW k \in Dispatchers, RecordDelivered(k) PROVE HookInv'
<1>0. HookInv OBVIOUS
<1> USE DEF HookInv
<1> DEFINE p == IF todo[k] = {} THEN "idle" ELSE "next"
<1>1. /\ phase[k] = "ok" /\ outcome' = [outcome EXCEPT ![inHand[k]] = "delivered"]
      /\ phase' = [phase EXCEPT ![k] = p] /\ inHand' = [inHand EXCEPT ![k] = NoDelivery]
      /\ counted' = [counted EXCEPT ![k] = 0]
      /\ UNCHANGED <<registered, events, attempts, due, owed, todo, sent, accepted, failures>>
      BY DEF RecordDelivered, GoOn, observed
<1>2. inHand[k] \in Deliveries /\ accepted[inHand[k]] > 0 BY <1>1 DEF WebhookTypeOK, CountsHold
<1>3. p \in {"idle", "next"} /\ (p = "idle" => todo[k] = {}) OBVIOUS
<1>4. todo' = [todo EXCEPT ![k] = todo[k]] /\ todo[k] \in SUBSET todo[k] BY <1>1 DEF WebhookTypeOK
<1>5. /\ outcome' \in [Deliveries -> {"absent", "pending", "delivered", "dead_letter"}]
      /\ outcome'[inHand[k]] = "delivered"
      /\ \A d \in Deliveries : d # inHand[k] => outcome'[d] = outcome[d]
      BY <1>1, <1>2 DEF WebhookTypeOK
<1> HIDE DEF p
<1>6. \A d \in Deliveries : /\ attempts'[d] <= sent[d] /\ (outcome'[d] = "delivered" => accepted[d] > 0)
                            /\ (outcome'[d] = "dead_letter" => sent[d] >= MAX_ATTEMPTS)
      BY <1>1, <1>2, <1>5 DEF CountsHold
<1>7. attempts' \in [Deliveries -> 0..SendBound] /\ due' \in [Deliveries -> BOOLEAN] BY <1>1 DEF WebhookTypeOK
<1>8. failures \subseteq {"refused"} /\ Handled(k) =>
          (outcome'[inHand[k]] \in {"absent", "pending"} =>
              /\ attempts'[inHand[k]] < MAX_ATTEMPTS
              /\ sent[inHand[k]] = attempts'[inHand[k]] /\ accepted[inHand[k]] = 0)
      BY <1>5
<1>9. phase[k] # "idle" BY <1>1
<1>10. LetsGo(k, p, todo[k]) BY <1>1, <1>3, <1>4, <1>5, <1>6, <1>7, <1>8, <1>9 DEF LetsGo
<1> QED BY <1>0, <1>3, <1>4, <1>10, LetGo

LEMMA RecordFailureKeeps == ASSUME HookInv, NEW k \in Dispatchers, RecordFailure(k) PROVE HookInv'
<1>0. HookInv OBVIOUS
<1> USE DEF HookInv
<1> DEFINE p == IF todo[k] = {} THEN "idle" ELSE "next"
           d == inHand[k]
           n == counted[k] + 1
           o == IF n >= MAX_ATTEMPTS THEN "dead_letter" ELSE "pending"
<1>1. /\ phase[k] = "threw" /\ outcome' = [outcome EXCEPT ![d] = o]
      /\ attempts' = [attempts EXCEPT ![d] = n] /\ due' = [due EXCEPT ![d] = FALSE]
      /\ phase' = [phase EXCEPT ![k] = p] /\ inHand' = [inHand EXCEPT ![k] = NoDelivery]
      /\ counted' = [counted EXCEPT ![k] = 0]
      /\ UNCHANGED <<registered, events, owed, todo, sent, accepted, failures>>
      BY DEF RecordFailure, GoOn, observed
<1>2. d \in Deliveries /\ n <= sent[d] /\ n \in Nat BY <1>1 DEF WebhookTypeOK, CountsHold, Posted
<1>3. p \in {"idle", "next"} /\ (p = "idle" => todo[k] = {}) OBVIOUS
<1>4. todo' = [todo EXCEPT ![k] = todo[k]] /\ todo[k] \in SUBSET todo[k] BY <1>1 DEF WebhookTypeOK
<1>5. o \in {"pending", "dead_letter"} /\ (o = "dead_letter" <=> n >= MAX_ATTEMPTS) OBVIOUS
<1> HIDE DEF p, o, n
<1>6. n \in 0..SendBound /\ sent[d] \in Nat BY <1>2 DEF WebhookTypeOK
<1>7. /\ outcome' \in [Deliveries -> {"absent", "pending", "delivered", "dead_letter"}]
      /\ attempts' \in [Deliveries -> 0..SendBound] /\ due' \in [Deliveries -> BOOLEAN]
      /\ outcome'[d] = o /\ attempts'[d] = n
      /\ \A q \in Deliveries : q # d => outcome'[q] = outcome[q] /\ attempts'[q] = attempts[q]
      BY <1>1, <1>2, <1>5, <1>6 DEF WebhookTypeOK
<1>8. \A q \in Deliveries : /\ attempts'[q] <= sent[q] /\ (outcome'[q] = "delivered" => accepted[q] > 0)
                            /\ (outcome'[q] = "dead_letter" => sent[q] >= MAX_ATTEMPTS)
      BY <1>2, <1>5, <1>6, <1>7 DEF CountsHold
<1>9. failures \subseteq {"refused"} /\ Handled(k) =>
          (outcome'[inHand[k]] \in {"absent", "pending"} =>
              /\ attempts'[inHand[k]] < MAX_ATTEMPTS
              /\ sent[inHand[k]] = attempts'[inHand[k]] /\ accepted[inHand[k]] = 0)
      BY <1>1, <1>2, <1>5, <1>7 DEF SoleInv, Handled, Posted, n
<1>10. /\ phase[k] # "idle"
       /\ \A q \in Deliveries : q # inHand[k] => outcome'[q] = outcome[q] /\ attempts'[q] = attempts[q]
       BY <1>1, <1>7
<1>11. LetsGo(k, p, todo[k]) BY <1>1, <1>3, <1>4, <1>7, <1>8, <1>9, <1>10 DEF LetsGo
<1> QED BY <1>0, <1>3, <1>4, <1>11, LetGo

LEMMA RecordFailsKeeps == ASSUME HookInv, NEW k \in Dispatchers, RecordDeliveredFails(k) PROVE HookInv'
<1> USE DEF HookInv
<1>1. /\ "dbError" \in failures /\ phase[k] = "ok" /\ phase' = [phase EXCEPT ![k] = "threw"]
      /\ UNCHANGED <<registered, events, outcome, attempts, due, owed, todo, inHand, counted, sent, accepted, failures>>
      BY DEF RecordDeliveredFails, deliveries, observed
<1>2. WebhookTypeOK' BY <1>1 DEF WebhookTypeOK
<1>3. CountsHold' BY <1>1 DEF CountsHold, Posted, WebhookTypeOK
<1>4. SoleInv' BY <1>1 DEF SoleInv
<1> QED BY <1>2, <1>3, <1>4

\* A batch that ends early leaves the rows as they are.
LEMMA DispatchEndsKeeps == ASSUME HookInv, NEW k \in Dispatchers, DispatchEnds(k) PROVE HookInv'
<1> USE DEF HookInv
<1>1. /\ phase[k] # "idle" /\ ("dbError" \in failures \/ "crash" \in failures)
      /\ phase' = [phase EXCEPT ![k] = "idle"] /\ todo' = [todo EXCEPT ![k] = {}]
      /\ inHand' = [inHand EXCEPT ![k] = NoDelivery] /\ counted' = [counted EXCEPT ![k] = 0]
      /\ UNCHANGED <<registered, events, outcome, attempts, due, owed, sent, accepted, failures>>
      BY DEF DispatchEnds, deliveries, observed
<1>2. {} \in SUBSET todo[k] /\ "idle" \in {"idle", "next"} OBVIOUS
<1>3. /\ outcome' \in [Deliveries -> {"absent", "pending", "delivered", "dead_letter"}]
      /\ attempts' \in [Deliveries -> 0..SendBound] /\ due' \in [Deliveries -> BOOLEAN]
      /\ \A d \in Deliveries : /\ attempts'[d] <= sent[d] /\ (outcome'[d] = "delivered" => accepted[d] > 0)
                               /\ (outcome'[d] = "dead_letter" => sent[d] >= MAX_ATTEMPTS)
      /\ ~(failures \subseteq {"refused"})
      BY <1>1 DEF WebhookTypeOK, CountsHold
<1>4. LetsGo(k, "idle", {}) BY <1>1, <1>3 DEF LetsGo
<1> QED BY <1>2, <1>4, LetGo

LEMMA HookStep == HookInv /\ [WebhookNext]_webhookVars => HookInv'
<1> SUFFICES ASSUME HookInv, [WebhookNext]_webhookVars PROVE HookInv' OBVIOUS
<1>1. CASE UNCHANGED webhookVars
      BY <1>1, RowsKeep DEF webhookVars, dispatch, observed, HookInv, WebhookTypeOK
<1>2. ASSUME NEW e \in Endpoints, NEW filter \in Filters, Register(e, filter) PROVE HookInv'
  <2>1. registered' \subseteq Endpoints /\ events' \in [Endpoints -> SUBSET Messages]
        BY <1>2, FilterAssumption DEF Register, HookInv, WebhookTypeOK
  <2> QED BY <1>2, <2>1, RowsKeep DEF Register, deliveries, HookInv, WebhookTypeOK
<1>3. ASSUME NEW m \in Messages, Enqueue(m) PROVE HookInv'
      BY <1>3, RowsKeep DEF Enqueue, deliveries, HookInv, WebhookTypeOK
<1>4. ASSUME NEW m \in Messages, InsertDelivery(m) PROVE HookInv' BY <1>4, InsertDeliveryKeeps
<1>5. ASSUME NEW m \in Messages, EnqueueFails(m) PROVE HookInv'
      BY <1>5, RowsKeep DEF EnqueueFails, deliveries, HookInv, WebhookTypeOK
<1>6. ASSUME NEW d \in Deliveries, RetryElapses(d) PROVE HookInv'
      BY <1>6, RowsKeep DEF RetryElapses, HookInv, WebhookTypeOK
<1>7. ASSUME NEW k \in Dispatchers, SelectBatch(k) PROVE HookInv' BY <1>7, SelectBatchKeeps
<1>8. ASSUME NEW k \in Dispatchers, LoadDelivery(k) PROVE HookInv' BY <1>8, LoadDeliveryKeeps
<1>9. ASSUME NEW k \in Dispatchers, Post(k) PROVE HookInv' BY <1>9, PostKeeps
<1>10. ASSUME NEW k \in Dispatchers, RecordDelivered(k) PROVE HookInv' BY <1>10, RecordDeliveredKeeps
<1>11. ASSUME NEW k \in Dispatchers, RecordFailure(k) PROVE HookInv' BY <1>11, RecordFailureKeeps
<1>12. ASSUME NEW k \in Dispatchers, RecordDeliveredFails(k) PROVE HookInv' BY <1>12, RecordFailsKeeps
<1>13. ASSUME NEW k \in Dispatchers, DispatchEnds(k) PROVE HookInv' BY <1>13, DispatchEndsKeeps
<1> QED BY <1>1, <1>2, <1>3, <1>4, <1>5, <1>6, <1>7, <1>8, <1>9, <1>10, <1>11, <1>12, <1>13
        DEF WebhookNext, Dispatch

LEMMA HookInvariance == WebhookSpec => []HookInv
  BY HookStart, HookStep, PTL DEF WebhookSpec

\* Deliveries, batches and their counts hold values of their columns, and no
\* count passes what was posted.
THEOREM WebhookTypes == WebhookSpec => []WebhookTypeOK
<1>1. HookInv => WebhookTypeOK BY DEF HookInv
<1> QED BY <1>1, HookInvariance, PTL

\* What is recorded of a delivery was earned by its posts, for any endpoints,
\* messages and dispatchers, though batches overlap; and it is posted at most
\* MAX_ATTEMPTS times, and taken once, if endpoints only refuse (webhook.ts
\* 91, 170-171).
THEOREM PostsEarnOutcomes == WebhookSpec => []PostsAreEarned
<1>1. HookInv => PostsAreEarned BY DEF HookInv, CountsHold, SoleInv, PostsAreEarned
<1> QED BY <1>1, HookInvariance, PTL
==============================================================================
