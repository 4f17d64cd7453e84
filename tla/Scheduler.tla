------------------------------ MODULE Scheduler ------------------------------
(***************************************************************************)
(* The scheduled tasks: the scheduled_tasks and task_runs tables of        *)
(* crates/library/src/queries.rs, the tick loop and the executions of      *)
(* crates/server/src/scheduler/mod.rs, and the two admin routes that touch *)
(* a task (api/admin/tasks_overview.rs).                                   *)
(*                                                                         *)
(* A task is claimed by flipping its last_status to 'running'; everything  *)
(* afterwards is done by an execution with the copy of the row it was      *)
(* spawned with, and writes WHERE id = ? only.  next_run_at is abstracted  *)
(* to what the claim sees of it: the tasks that are due, oldest first, and *)
(* those that are never; the others are due some time.                     *)
(***************************************************************************)
EXTENDS Naturals, FiniteSets

CONSTANTS
    Tasks,
    Manual,         \* tasks whose frequency is "manual" at first
    Requests,       \* bound: admin requests under way at once
    ClaimLimit,     \* LIMIT of claim_due_tasks (16)
    Outcomes,       \* how dispatch may end: "success", "failed", "panic"
    MaxEdits,       \* bound: schedule changes by an admin
    MaxRunNow,      \* bound: Run Now requests
    MaxSwitches,    \* bound: changes of enabled, and raises of the gate
    MaxCrashes,     \* bound: deaths of the process
    MaxLostWrites   \* bound: writes that fail for good, or whose caller is gone

ASSUME TasksAssumption == Manual \subseteq Tasks

ASSUME ClaimLimitAssumption == ClaimLimit \in Nat \ {0}

ASSUME OutcomesAssumption == Outcomes \subseteq {"success", "failed", "panic"}

ASSUME SchedulerBoundsAssumption ==
    /\ MaxEdits \in Nat /\ MaxRunNow \in Nat /\ MaxSwitches \in Nat
    /\ MaxCrashes \in Nat /\ MaxLostWrites \in Nat

Frequency == {"interval", "manual"}

\* Executions of one task that the model can tell apart.
Executions == Tasks \X {1, 2}

VARIABLES
    last_status,  \* of each task: none, running, success or failed
    frequency,
    enabled,
    due,          \* tasks with next_run_at <= now
    older,        \* pairs of them in the order of next_run_at
    never,        \* tasks at NEVER_RUN_AT_MS
    openRuns,     \* task_runs rows of each task with status running
    up,           \* the server process is running, past its start
    booting,      \* it is starting, and has settled the claims left behind
    gate,         \* the scan gate is raised
    ticking,      \* a tick found the gate down and is about to claim
    pc,           \* where each execution is
    copy,         \* the frequency in the row an execution was spawned with
    request,      \* what each admin request has read
    edits, runNows, switches, crashes, lostWrites

settings == <<frequency, enabled>>
next_run_at == <<due, older, never>>
alive == <<up, booting>>
server == <<alive, gate, ticking>>
rows == <<last_status, settings, next_run_at, openRuns>>
process == <<server, pc, copy, request>>
bounds == <<edits, runNows, switches, crashes, lostWrites>>
vars == <<rows, process, bounds>>

\* claimed: spawned.  dispatching: the run row exists.  unmarked: it could not
\* be written.  The others say how dispatch ended.
Place == {"idle", "claimed", "unmarked", "dispatching", "success", "failed", "panic"}

NoRequest == [op |-> "none"]

Request ==
    {NoRequest}
    \cup [op : {"run", "window"}, task : Tasks, read : Frequency]
    \cup [op : {"edit"}, task : Tasks, value : Frequency]

TypeOK ==
    /\ last_status \in [Tasks -> {"none", "running", "success", "failed"}]
    /\ frequency \in [Tasks -> Frequency]
    /\ enabled \in [Tasks -> BOOLEAN]
    /\ due \subseteq Tasks /\ older \subseteq due \X due
    /\ never \subseteq Tasks \ due
    /\ openRuns \in [Tasks -> Nat]
    /\ up \in BOOLEAN /\ booting \in BOOLEAN /\ gate \in BOOLEAN /\ ticking \in BOOLEAN
    /\ pc \in [Executions -> Place]
    /\ copy \in [Executions -> Frequency]
    /\ request \in [Requests -> Request]
    /\ edits \in 0..MaxEdits /\ runNows \in 0..MaxRunNow
    /\ switches \in 0..MaxSwitches
    /\ crashes \in 0..MaxCrashes /\ lostWrites \in 0..MaxLostWrites

Init ==
    /\ last_status = [t \in Tasks |-> "none"]
    /\ frequency = [t \in Tasks |-> IF t \in Manual THEN "manual" ELSE "interval"]
    /\ enabled = [t \in Tasks |-> TRUE]
    /\ due = {} /\ older = {}
    /\ never = Manual
    /\ openRuns = [t \in Tasks |-> 0]
    /\ up = TRUE /\ booting = FALSE /\ gate = FALSE /\ ticking = FALSE
    /\ pc = [e \in Executions |-> "idle"]
    /\ copy = [e \in Executions |-> "interval"]
    /\ request = [r \in Requests |-> NoRequest]
    /\ edits = 0 /\ runNows = 0 /\ switches = 0 /\ crashes = 0 /\ lostWrites = 0

-----------------------------------------------------------------------------
(* next_run_at *)

\* The row's next_run_at moves into the future.
Advance(t) ==
    /\ due' = due \ {t}
    /\ older' = {p \in older : p[1] # t /\ p[2] # t}

\* compute_next_run: never for manual tasks, else a time still to come.
Schedule(t, f) ==
    /\ Advance(t)
    /\ never' = IF f = "manual" THEN never \cup {t} ELSE never \ {t}

\* The clock passes next_run_at.
Elapse(t) ==
    /\ t \notin due \cup never
    /\ due' = due \cup {t}
    /\ older' = older \cup (due \X {t})
    /\ UNCHANGED <<last_status, frequency, enabled, never, openRuns, process, bounds>>

-----------------------------------------------------------------------------
(* Claims. *)

Claimable == {t \in due : enabled[t] /\ last_status[t] # "running"}

\* Mutant: the newest first.
OldestNewest(S) ==
    /\ S \subseteq Claimable
    /\ S = Claimable \/ Cardinality(S) = ClaimLimit
    /\ Cardinality(S) <= ClaimLimit
    /\ \A t \in S, u \in Claimable \ S : <<u, t>> \in older

\* claim_due_tasks takes the oldest, up to its limit.
Oldest(S) ==
    /\ S \subseteq Claimable
    /\ S = Claimable \/ Cardinality(S) = ClaimLimit
    /\ Cardinality(S) <= ClaimLimit
    /\ \A t \in S, u \in Claimable \ S : <<t, u>> \in older

\* spawn_execute_caught: a task that moves the row into a new execution.
Spawned(S, f) ==
    LET new == {e \in Executions :
                   /\ e[1] \in S
                   /\ pc[e] = "idle"
                   /\ e[2] = 2 => pc[<<e[1], 1>>] # "idle"}
    IN  /\ pc' = [e \in Executions |-> IF e \in new THEN "claimed" ELSE pc[e]]
        /\ copy' = [e \in Executions |-> IF e \in new THEN f[e[1]] ELSE copy[e]]

\* A tick is skipped while the gate is up ...
TickBegin ==
    /\ up
    /\ ~gate /\ ~ticking
    /\ ticking' = TRUE
    /\ UNCHANGED <<rows, alive, gate, pc, copy, request, bounds>>

\* ... and otherwise claims in one UPDATE, without another look at the gate.
Tick ==
    /\ ticking
    /\ ticking' = FALSE
    /\ \E S \in SUBSET Tasks :
          /\ Oldest(S)
          /\ last_status' = [t \in Tasks |->
                                IF t \in S THEN "running" ELSE last_status[t]]
          /\ Spawned(S, frequency)
    /\ UNCHANGED <<settings, next_run_at, openRuns, alive, gate, request, bounds>>

\* run_now reads the row ...
AskRun(r, t) ==
    /\ up
    /\ runNows < MaxRunNow
    /\ runNows' = runNows + 1
    /\ request[r] = NoRequest
    /\ request' =
          [request EXCEPT ![r] = [op |-> "run", task |-> t, read |-> frequency[t]]]
    /\ UNCHANGED <<rows, server, pc, copy, edits, switches, crashes, lostWrites>>

\* Mutant: and believes what it has read.
RunNowUnguarded(r) ==
    /\ request[r].op = "run"
    /\ request' = [request EXCEPT ![r] = NoRequest]
    /\ LET t == request[r].task
       IN  /\ last_status' = [last_status EXCEPT ![t] = "running"]
           /\ Spawned({t}, [frequency EXCEPT ![t] = request[r].read])
    /\ UNCHANGED <<settings, next_run_at, openRuns, server, bounds>>

\* ... and claims the task unless it is running by then: otherwise it bails.
RunNow(r) ==
    /\ request[r].op = "run"
    /\ request' = [request EXCEPT ![r] = NoRequest]
    /\ LET t == request[r].task
       IN  IF last_status[t] # "running"
           THEN /\ last_status' = [last_status EXCEPT ![t] = "running"]
                /\ Spawned({t}, [frequency EXCEPT ![t] = request[r].read])
           ELSE UNCHANGED <<last_status, pc, copy>>
    /\ UNCHANGED <<settings, next_run_at, openRuns, server, bounds>>

Status(t, s) == last_status' = [last_status EXCEPT ![t] = s]

LoseWrite == lostWrites < MaxLostWrites /\ lostWrites' = lostWrites + 1

\* The client hangs up while run_now awaits its UPDATE: the claim is made, and
\* the handler that was to spawn the execution is gone.
RunNowDropped(r) ==
    /\ request[r].op = "run"
    /\ last_status[request[r].task] # "running"
    /\ LoseWrite
    /\ Status(request[r].task, "running")
    /\ request' = [request EXCEPT ![r] = NoRequest]
    /\ UNCHANGED <<settings, next_run_at, openRuns, server, pc, copy,
                   edits, runNows, switches, crashes>>

-----------------------------------------------------------------------------
(* execute *)

At(e, place) == pc' = [pc EXCEPT ![e] = place]

\* mark_task_running: the status again, and the run row.
MarkRunning(e) ==
    /\ pc[e] = "claimed"
    /\ Status(e[1], "running")
    /\ openRuns' = [openRuns EXCEPT ![e[1]] = @ + 1]
    /\ At(e, "dispatching")
    /\ UNCHANGED <<settings, next_run_at, server, copy, request, bounds>>

MarkRunningFails(e) ==
    /\ pc[e] = "claimed"
    /\ LoseWrite
    /\ At(e, "unmarked")
    /\ UNCHANGED <<rows, server, copy, request, edits, runNows, switches, crashes>>

\* Then the claim is undone, or that fails as well.
Reset(e) ==
    /\ pc[e] = "unmarked"
    /\ Status(e[1], "none")
    /\ At(e, "idle")
    /\ UNCHANGED <<settings, next_run_at, openRuns, server, copy, request, bounds>>

Dispatched(e, outcome) ==
    /\ pc[e] = "dispatching"
    /\ At(e, outcome)
    /\ UNCHANGED <<rows, server, copy, request, bounds>>

\* mark_task_finished closes the run and schedules the next one, from the
\* frequency in the execution's copy; the backoff of a failure only delays it.
Finish(e) ==
    /\ pc[e] \in {"success", "failed"}
    /\ openRuns' = [openRuns EXCEPT ![e[1]] = @ - 1]
    /\ Status(e[1], pc[e])
    /\ Schedule(e[1], copy[e])
    /\ At(e, "idle")
    /\ UNCHANGED <<settings, server, copy, request, bounds>>

\* Mutant: the panic is caught but not recorded.
PanickedUnrecorded(e) ==
    /\ pc[e] = "panic"
    /\ At(e, "idle")
    /\ UNCHANGED <<rows, server, copy, request, bounds>>

\* mark_task_panicked closes every open run of the task and retries it in an
\* hour, whatever its frequency.
Panicked(e) ==
    /\ pc[e] = "panic"
    /\ openRuns' = [openRuns EXCEPT ![e[1]] = 0]
    /\ Status(e[1], "failed")
    /\ Schedule(e[1], "interval")
    /\ At(e, "idle")
    /\ UNCHANGED <<settings, server, copy, request, bounds>>

\* The write that ends an execution fails: logged only.
EndLost(e) ==
    /\ pc[e] \in {"unmarked", "success", "failed", "panic"}
    /\ LoseWrite
    /\ At(e, "idle")
    /\ UNCHANGED <<rows, server, copy, request, edits, runNows, switches, crashes>>

Execute(e) ==
    \/ MarkRunning(e) \/ MarkRunningFails(e) \/ Reset(e)
    \/ \E outcome \in Outcomes : Dispatched(e, outcome)
    \/ Finish(e) \/ Panicked(e) \/ EndLost(e)

-----------------------------------------------------------------------------
(* Admin edits, the gate, the process. *)

\* update_kind_schedule with a new frequency, which needs nothing it read ...
AskEdit(r, t, f) ==
    /\ up
    /\ edits < MaxEdits
    /\ edits' = edits + 1
    /\ request[r] = NoRequest
    /\ request' = [request EXCEPT ![r] = [op |-> "edit", task |-> t, value |-> f]]
    /\ UNCHANGED <<rows, server, pc, copy, runNows, switches, crashes, lostWrites>>

\* ... or with a new requires_maintenance_window only, which computes
\* next_run_at from the frequency it read.
AskWindow(r, t) ==
    /\ up
    /\ edits < MaxEdits
    /\ edits' = edits + 1
    /\ request[r] = NoRequest
    /\ request' =
          [request EXCEPT ![r] = [op |-> "window", task |-> t, read |-> frequency[t]]]
    /\ UNCHANGED <<rows, server, pc, copy, runNows, switches, crashes, lostWrites>>

Edit(r) ==
    /\ request[r].op = "edit"
    /\ frequency' = [frequency EXCEPT ![request[r].task] = request[r].value]
    /\ Schedule(request[r].task, request[r].value)
    /\ request' = [request EXCEPT ![r] = NoRequest]
    /\ UNCHANGED <<last_status, enabled, openRuns, server, pc, copy, bounds>>

EditWindow(r) ==
    /\ request[r].op = "window"
    /\ Schedule(request[r].task, request[r].read)
    /\ request' = [request EXCEPT ![r] = NoRequest]
    /\ UNCHANGED <<last_status, frequency, enabled, openRuns, server, pc, copy, bounds>>

\* The client hangs up before the write.
HangUp(r) ==
    /\ request[r] # NoRequest
    /\ request' = [request EXCEPT ![r] = NoRequest]
    /\ UNCHANGED <<rows, server, pc, copy, bounds>>

Switch(t) ==
    /\ up
    /\ switches < MaxSwitches
    /\ switches' = switches + 1
    /\ enabled' = [enabled EXCEPT ![t] = ~@]
    /\ UNCHANGED <<last_status, frequency, next_run_at, openRuns, process,
                   edits, runNows, crashes, lostWrites>>

RaiseGate ==
    /\ up /\ ~gate
    /\ switches < MaxSwitches
    /\ switches' = switches + 1
    /\ gate' = TRUE
    /\ UNCHANGED <<rows, alive, ticking, pc, copy, request,
                   edits, runNows, crashes, lostWrites>>

LowerGate ==
    /\ gate
    /\ gate' = FALSE
    /\ UNCHANGED <<rows, alive, ticking, pc, copy, request, bounds>>

Crash ==
    /\ up
    /\ crashes < MaxCrashes
    /\ crashes' = crashes + 1
    /\ up' = FALSE /\ gate' = FALSE /\ ticking' = FALSE
    /\ pc' = [e \in Executions |-> "idle"]
    /\ request' = [r \in Requests |-> NoRequest]
    /\ UNCHANGED <<rows, booting, copy, edits, runNows, switches, lostWrites>>

\* Mutant: the claims stay.
BootTasksKeepingClaims ==
    /\ ~up /\ ~booting
    /\ booting' = TRUE
    /\ UNCHANGED <<rows, up, gate, ticking, pc, copy, request, bounds>>

\* mark_interrupted_tasks, first statement: the claims of the last process are
\* settled.  If it fails nothing has happened.
BootTasks ==
    /\ ~up /\ ~booting
    /\ booting' = TRUE
    /\ last_status' = [t \in Tasks |-> IF last_status[t] = "running" THEN "failed"
                                       ELSE last_status[t]]
    /\ UNCHANGED <<settings, next_run_at, openRuns, up,
                   gate, ticking, pc, copy, request, bounds>>

\* Second statement: their runs.  Then the start goes on.
BootRuns ==
    /\ booting
    /\ booting' = FALSE /\ up' = TRUE
    /\ openRuns' = [t \in Tasks |-> 0]
    /\ UNCHANGED <<last_status, settings, next_run_at,
                   gate, ticking, pc, copy, request, bounds>>

\* It fails, which ends the start as `?` hands the error up to main, or the
\* process dies before it: the claims are settled, the runs still open.
BootFails ==
    /\ booting
    /\ booting' = FALSE
    /\ UNCHANGED <<rows, up, gate, ticking, pc, copy, request, bounds>>

Admin(r) ==
    \/ \E t \in Tasks :
          AskRun(r, t) \/ AskWindow(r, t) \/ \E f \in Frequency : AskEdit(r, t, f)
    \/ RunNow(r) \/ RunNowDropped(r) \/ Edit(r) \/ EditWindow(r) \/ HangUp(r)

Next ==
    \/ TickBegin \/ Tick
    \/ \E e \in Executions : Execute(e)
    \/ \E r \in Requests : Admin(r)
    \/ \E t \in Tasks : Elapse(t) \/ Switch(t)
    \/ RaiseGate \/ LowerGate
    \/ Crash \/ BootTasks \/ BootRuns \/ BootFails

Spec == Init /\ [][Next]_vars

\* The runner ticks, time passes, executions are polled and their handlers end
\* (they call other services with timeouts), a scan ends and lowers the gate, a
\* process that is down is started again and its start goes on or fails.
FairSpec ==
    /\ Spec
    /\ WF_vars(TickBegin) /\ WF_vars(Tick) /\ WF_vars(LowerGate)
    /\ WF_vars(BootTasks) /\ WF_vars(BootRuns)
    /\ \A t \in Tasks : WF_vars(Elapse(t))
    /\ \A e \in Executions : WF_vars(Execute(e))

-----------------------------------------------------------------------------

Active(e) == pc[e] # "idle"

\* A task is executed once at a time, whoever claimed it, and is 'running' for
\* as long: two double-clicked Run Now requests, or one and a tick, never race
\* on a task or overwrite each other's outcome (scheduler/mod.rs:667-673).
OneExecution ==
    \A e \in Executions : Active(e) =>
        /\ last_status[e[1]] = "running"
        /\ \A d \in Executions : Active(d) /\ d[1] = e[1] => d = e

\* The open runs in the history are those of the running task, at most one: the
\* recovery from a panic, which closes them by task, closes no other
\* (queries.rs:13346-13348), and the history shows no run that never ended: a
\* start that settled the claims but not the runs does not go on
\* (queries.rs:13385-13406, main.rs:530).
OneOpenRun ==
    \A t \in Tasks :
        /\ openRuns[t] <= 1
        /\ openRuns[t] = 1 => last_status[t] = "running" \/ ~up
        /\ \A e \in Executions :
              e[1] = t /\ pc[e] \in {"dispatching", "success", "failed", "panic"}
                  => openRuns[t] = 1

\* Task, execution and history row go together.
RunsAddUp == TypeOK /\ OneExecution /\ OneOpenRun

\* A task is stuck in 'running' with nobody executing it only while the process
\* is down, after a write failed for good, or after the client of a Run Now hung
\* up during its claim (scheduler/mod.rs:708-712, 644-649, 683-693).
WedgedOnlyByLostWrite ==
    \A t \in Tasks :
        last_status[t] = "running" /\ (\A e \in Executions : e[1] = t => ~Active(e))
            => ~up \/ lostWrites > 0

\* Every execution ends or is cleaned up after a restart, whatever its handler
\* does, unless a write was lost.
RunsEnd ==
    \A t \in Tasks :
        last_status[t] = "running" ~> last_status[t] # "running" \/ lostWrites > 0

\* Every enabled task on an interval keeps being run, though a tick claims no
\* more than its limit and skips whatever is running, unless every start fails.
TasksKeepRunning ==
    \A t \in Tasks :
        []<>(\/ last_status[t] = "running" \/ ~enabled[t]
             \/ t \in never \/ lostWrites > 0 \/ ~up)

\* "manual / on_change: ... don't ever auto-fire - these only run via the Run Now
\* button" (scheduler/mod.rs:212-214): no manual task becomes due.
ManualNeverDue == \A t \in Manual : t \notin due
=============================================================================
