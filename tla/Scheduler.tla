----------------------------- MODULE Scheduler -----------------------------
(***************************************************************************)
(* Scheduled executions (src/server/scheduler.ts), composed with the kill  *)
(* switch.  A ticker is a concurrent call of tick: it selects the due rows *)
(* without locking them, and for each reads the switch, marks the row      *)
(* running if it is idle, whether or not that changed anything, runs it    *)
(* and records the outcome with an UPDATE that tests only the id.          *)
(***************************************************************************)
EXTENDS KillSwitch, FiniteSets

CONSTANTS
    Schedules,
    TenantOf,     \* the tenant of each schedule
    Settings,     \* the combinations of FaultKinds considered
    NoSchedule

Tickers == Callers

FaultKinds == {"crash", "dbError", "runnerError"}

ASSUME TenantAssumption == TenantOf \in [Schedules -> Tenants]
ASSUME SettingAssumption == Settings \subseteq SUBSET FaultKinds
ASSUME NoScheduleAssumption == NoSchedule \notin Schedules

VARIABLES
    (* rows of scheduled_executions *)
    status,
    enabled,
    due,       \* next_run_at <= now()
    (* the calls of tick *)
    pc,
    todo,      \* selected rows not yet handled
    current,
    (* observation only *)
    fired,     \* runs of the present occurrence of a schedule, by ticker
    (* the environment *)
    faults     \* what may go wrong in this behaviour

rows == <<status, enabled, due>>
memory == <<pc, todo, current>>
vars == <<kvars, status, enabled, due, pc, todo, current, fired, faults>>

Phase == {"idle", "next", "skip", "claim", "running", "succeeded", "failed"}

Init ==
    /\ KInit
    /\ status = [s \in Schedules |-> "absent"]
    /\ enabled = [s \in Schedules |-> FALSE]
    /\ due = [s \in Schedules |-> FALSE]
    /\ pc = [k \in Tickers |-> "idle"]
    /\ todo = [k \in Tickers |-> {}]
    /\ current = [k \in Tickers |-> NoSchedule]
    /\ fired = [s \in Schedules |-> [k \in Tickers |-> 0]]
    /\ faults \in Settings

-----------------------------------------------------------------------------
(* Users and the clock                                                     *)

Switch(n, on) ==
    /\ SetEnabled(n, on)
    /\ UNCHANGED <<rows, memory, fired, faults>>

Create(s) ==
    /\ status[s] = "absent"
    /\ status' = [status EXCEPT ![s] = "idle"]
    /\ enabled' = [enabled EXCEPT ![s] = TRUE]
    /\ due' = [due EXCEPT ![s] = TRUE]
    /\ UNCHANGED <<kvars, memory, fired, faults>>

SetScheduleEnabled(s, on) ==
    /\ status[s] # "absent" /\ enabled[s] # on
    /\ enabled' = [enabled EXCEPT ![s] = on]
    /\ UNCHANGED <<kvars, status, due, memory, fired, faults>>

BecomesDue(s) ==
    /\ status[s] # "absent" /\ ~due[s]
    /\ due' = [due EXCEPT ![s] = TRUE]
    /\ fired' = [fired EXCEPT ![s] = [k \in Tickers |-> 0]]
    /\ UNCHANGED <<kvars, status, enabled, memory, faults>>

-----------------------------------------------------------------------------
(* tick                                                                    *)

TickSelect(k) ==
    /\ pc[k] = "idle"
    /\ todo' = [todo EXCEPT ![k] = {s \in Schedules : enabled[s] /\ status[s] = "idle" /\ due[s]}]
    /\ todo'[k] # {}
    /\ pc' = [pc EXCEPT ![k] = "next"]
    /\ UNCHANGED <<kvars, rows, current, fired, faults>>

GoOn(k) ==
    /\ pc' = [pc EXCEPT ![k] = IF todo[k] = {} THEN "idle" ELSE "next"]
    /\ current' = [current EXCEPT ![k] = NoSchedule]

\* Bug: the switch is read once, before the loop.
ReadSwitchNever(k) ==
    /\ pc[k] = "next"
    /\ \E s \in todo[k] :
          /\ current' = [current EXCEPT ![k] = s]
          /\ todo' = [todo EXCEPT ![k] = @ \ {s}]
          /\ pc' = [pc EXCEPT ![k] = "claim"]
    /\ UNCHANGED <<kvars, rows, fired, faults>>

ReadSwitch(k) ==
    /\ pc[k] = "next"
    /\ \E s \in todo[k] :
          /\ current' = [current EXCEPT ![k] = s]
          /\ todo' = [todo EXCEPT ![k] = @ \ {s}]
          /\ pc' = [pc EXCEPT ![k] = IF IsHalted(TenantOf[s]) THEN "skip" ELSE "claim"]
    /\ UNCHANGED <<kvars, rows, fired, faults>>

Skip(k) ==
    /\ pc[k] = "skip"
    /\ due' = [due EXCEPT ![current[k]] = FALSE]
    /\ GoOn(k)
    /\ UNCHANGED <<kvars, status, enabled, todo, fired, faults>>

\* UPDATE ... WHERE status = 'idle', its result unused, and the runner starts.
Claim(k) ==
    LET s == current[k] IN
    /\ pc[k] = "claim"
    /\ status' = [status EXCEPT ![s] = "running"]
    /\ fired' = [fired EXCEPT ![s][k] = @ + 1]
    /\ StartsWork(k, TenantOf[s])
    /\ pc' = [pc EXCEPT ![k] = "running"]
    /\ UNCHANGED <<enabled, due, todo, current, faults>>

RunnerEnds(k) ==
    /\ pc[k] = "running"
    /\ \E p \in {"succeeded"} \cup (IF "runnerError" \in faults THEN {"failed"} ELSE {}) :
          pc' = [pc EXCEPT ![k] = p]
    /\ UNCHANGED <<kvars, rows, todo, current, fired, faults>>

\* Bug: the failure does not make the row idle again.
RecordStaysRunning(k) ==
    /\ pc[k] \in {"succeeded", "failed"}
    /\ status' = IF pc[k] = "failed" THEN status ELSE [status EXCEPT ![current[k]] = "idle"]
    /\ due' = [due EXCEPT ![current[k]] = FALSE]
    /\ GoOn(k)
    /\ UNCHANGED <<kvars, enabled, todo, fired, faults>>

\* Success and failure differ in last_run_status only.
Record(k) ==
    /\ pc[k] \in {"succeeded", "failed"}
    /\ status' = [status EXCEPT ![current[k]] = "idle"]
    /\ due' = [due EXCEPT ![current[k]] = FALSE]
    /\ GoOn(k)
    /\ UNCHANGED <<kvars, enabled, todo, fired, faults>>

\* The UPDATE of a success is inside the try block of the runner.
RecordSuccessFails(k) ==
    /\ "dbError" \in faults /\ pc[k] = "succeeded"
    /\ pc' = [pc EXCEPT ![k] = "failed"]
    /\ UNCHANGED <<kvars, rows, todo, current, fired, faults>>

\* Any other statement that fails ends the tick, and so does a crash.
Forget(k) ==
    /\ pc' = [pc EXCEPT ![k] = "idle"]
    /\ todo' = [todo EXCEPT ![k] = {}]
    /\ current' = [current EXCEPT ![k] = NoSchedule]

TickFails(k) ==
    /\ "dbError" \in faults /\ pc[k] \in {"next", "skip", "claim", "failed"}
    /\ Forget(k)
    /\ UNCHANGED <<kvars, rows, fired, faults>>

Crash(k) ==
    /\ "crash" \in faults /\ pc[k] # "idle"
    /\ Forget(k)
    /\ UNCHANGED <<kvars, rows, fired, faults>>

Tick(k) ==
    \/ TickSelect(k) \/ ReadSwitch(k) \/ Skip(k) \/ Claim(k) \/ RunnerEnds(k)
    \/ Record(k) \/ RecordSuccessFails(k) \/ TickFails(k) \/ Crash(k)

Next ==
    \/ \E n \in Tenants, on \in BOOLEAN : Switch(n, on)
    \/ \E s \in Schedules : \/ Create(s) \/ BecomesDue(s)
                            \/ \E on \in BOOLEAN : SetScheduleEnabled(s, on)
    \/ \E k \in Tickers : Tick(k)

Spec == Init /\ [][Next]_vars

(* A tick that has begun goes on (Node runs what is ready, and runners     *)
(* return); that somebody calls tick again is nobody's promise here.       *)
FairSpec ==
    Spec /\ \A k \in Tickers :
        WF_vars(ReadSwitch(k) \/ Skip(k) \/ Claim(k) \/ RunnerEnds(k) \/ Record(k))

-----------------------------------------------------------------------------
\* The variables hold values of their columns; a ticker handles a row from
\* the read of the switch to the record.
TypeOK ==
    /\ KTypeOK
    /\ status \in [Schedules -> {"absent", "idle", "running"}]
    /\ enabled \in [Schedules -> BOOLEAN]
    /\ due \in [Schedules -> BOOLEAN]
    /\ pc \in [Tickers -> Phase]
    /\ todo \in [Tickers -> SUBSET Schedules]
    /\ current \in [Tickers -> Schedules \cup {NoSchedule}]
    /\ \A k \in Tickers : current[k] = NoSchedule <=> pc[k] \in {"idle", "next"}
    /\ fired \in [Schedules -> [Tickers -> Nat]]
    /\ faults \in Settings

\* No ticker runs one occurrence of a schedule twice, whatever fails.
OncePerTicker == \A s \in Schedules, k \in Tickers : fired[s][k] <= 1

\* A run that was started is recorded, unless its process or a statement
\* fails: the row does not stay running, and so out of every later tick.
RunsAreRecorded ==
    faults \subseteq {"runnerError"} =>
        \A s \in Schedules : (status[s] = "running") ~> (status[s] = "idle")

-----------------------------------------------------------------------------
\* What the kill switch promises: between the read of the switch and the
\* claim, a ticker holds a permit for the tenant of its row.
Gate == INSTANCE AutonomyGate WITH
    permit <- [k \in Tickers |-> IF pc[k] = "claim" THEN {TenantOf[current[k]]} ELSE {}]

\* Every run is started on a permit of its own, given while the tenant was
\* not halted: "a halted tenant's scheduled runs are skipped" (scheduler.ts
\* 59), up to the run whose read of the switch came before the halt.
ImplementsGate == Gate!Spec
=============================================================================
