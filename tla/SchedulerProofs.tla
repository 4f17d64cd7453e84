-------------------------- MODULE SchedulerProofs --------------------------
(***************************************************************************)
(* What holds of the scheduled tasks of Scheduler.tla for any tasks, any   *)
(* claim limit and any number of requests, crashes and lost writes.        *)
(***************************************************************************)
EXTENDS Scheduler, TLAPS

\* The executions that have a row in task_runs.
HasRun(e) == pc[e] \in {"dispatching", "success", "failed", "panic"}

\* What a claim relies on: nobody executes a task that is not running, and an
\* execution that has not written its run yet finds none open.
Quiet ==
    /\ ~up => \A e \in Executions : ~Active(e)
    /\ \A e \in Executions : Active(e) /\ ~HasRun(e) => openRuns[e[1]] = 0

\* OneExecution, OneOpenRun and WedgedOnlyByLostWrite are not inductive without
\* Quiet: from a claimed task with an open run, MarkRunning would open a second.
SafeInv == OneExecution /\ OneOpenRun /\ WedgedOnlyByLostWrite /\ Quiet

\* No tick and no request outlives the process that serves it.
Stopped == ~up => ~ticking /\ \A r \in Requests : request[r] = NoRequest

\* Between the two statements of a start no claim is left, and nobody claims.
Settled == booting => ~up /\ \A t \in Tasks : last_status[t] # "running"

IInv == TypeOK /\ SafeInv /\ Stopped /\ Settled

\* An action that moves neither a claim nor an execution preserves SafeInv.
LEMMA Idle ==
    SafeInv /\ UNCHANGED <<last_status, openRuns, pc, up, lostWrites>> => SafeInv'
BY DEF SafeInv, OneExecution, OneOpenRun, WedgedOnlyByLostWrite, Quiet, Active, HasRun

\* Scheduling a task keeps due, older and never well-typed.
LEMMA ScheduleType ==
    ASSUME TypeOK, NEW t \in Tasks, NEW f \in Frequency, Schedule(t, f)
    PROVE  /\ due' \subseteq Tasks
           /\ older' \subseteq due' \X due'
           /\ never' \subseteq Tasks \ due'
<1>1. due' = due \ {t} /\ due' \subseteq Tasks
  BY DEF TypeOK, Schedule, Advance
<1>2. ASSUME NEW p \in older' PROVE p \in due' \X due'
  <2>1. p \in older /\ p[1] # t /\ p[2] # t /\ p \in due \X due
    BY <1>2 DEF TypeOK, Schedule, Advance
  <2> QED BY <2>1, <1>1
<1>3. never' \subseteq Tasks \ due'
  BY <1>1 DEF TypeOK, Schedule
<1> QED BY <1>1, <1>2, <1>3

\* Spawning executions keeps pc and copy well-typed.
LEMMA SpawnedType ==
    ASSUME TypeOK, NEW S \in SUBSET Tasks, NEW f \in [Tasks -> Frequency], Spawned(S, f)
    PROVE  pc' \in [Executions -> Place] /\ copy' \in [Executions -> Frequency]
BY DEF TypeOK, Spawned, Place, Executions

-----------------------------------------------------------------------------
(* TypeOK. *)

\* What most of the actions that write a task have in common.
LEMMA RowTypes ==
    ASSUME TypeOK
    PROVE  /\ \A t \in Tasks, s \in {"none", "running", "success", "failed"} :
                 [last_status EXCEPT ![t] = s]
                     \in [Tasks -> {"none", "running", "success", "failed"}]
           /\ \A e \in Executions, p \in Place :
                 [pc EXCEPT ![e] = p] \in [Executions -> Place]
           /\ \A e \in Executions : e[1] \in Tasks /\ copy[e] \in Frequency
           /\ \A r \in Requests, q \in Request :
                 [request EXCEPT ![r] = q] \in [Requests -> Request]
BY DEF TypeOK, Executions

LEMMA TypeInit == Init => TypeOK
<1> SUFFICES ASSUME Init PROVE TypeOK
  OBVIOUS
<1>1. due \subseteq Tasks /\ older \subseteq due \X due /\ never \subseteq Tasks \ due
  BY TasksAssumption DEF Init
<1>2. /\ frequency \in [Tasks -> Frequency]
      /\ copy \in [Executions -> Frequency]
      /\ pc \in [Executions -> Place]
      /\ request \in [Requests -> Request]
  BY DEF Init, Place, Frequency, Request
<1>3. /\ last_status \in [Tasks -> {"none", "running", "success", "failed"}]
      /\ enabled \in [Tasks -> BOOLEAN]
      /\ openRuns \in [Tasks -> Nat]
      /\ up \in BOOLEAN /\ booting \in BOOLEAN /\ gate \in BOOLEAN /\ ticking \in BOOLEAN
  BY DEF Init
<1>4. /\ edits \in 0..MaxEdits /\ runNows \in 0..MaxRunNow
      /\ switches \in 0..MaxSwitches
      /\ crashes \in 0..MaxCrashes /\ lostWrites \in 0..MaxLostWrites
  BY SchedulerBoundsAssumption DEF Init
<1> QED
  BY <1>1, <1>2, <1>3, <1>4 DEF TypeOK

\* A claim, and every request that only reads or only moves a timer.
LEMMA TypeClaims ==
    ASSUME TypeOK
    PROVE  /\ Tick => TypeOK'
           /\ \A r \in Requests : RunNow(r) => TypeOK'
<1>1. ASSUME Tick PROVE TypeOK'
  <2>1. PICK S \in SUBSET Tasks :
           /\ last_status' = [t \in Tasks |->
                                 IF t \in S THEN "running" ELSE last_status[t]]
           /\ Spawned(S, frequency)
    BY <1>1 DEF Tick
  <2>2. pc' \in [Executions -> Place] /\ copy' \in [Executions -> Frequency]
    BY <2>1, SpawnedType DEF TypeOK
  <2>3. last_status' \in [Tasks -> {"none", "running", "success", "failed"}]
    BY <2>1 DEF TypeOK
  <2> QED
    BY <1>1, <2>2, <2>3
    DEF Tick, TypeOK, settings, next_run_at, bounds, alive
<1>2. ASSUME NEW r \in Requests, RunNow(r) PROVE TypeOK'
  <2> DEFINE t == request[r].task
             f == [frequency EXCEPT ![t] = request[r].read]
  <2>1. t \in Tasks /\ request[r].read \in Frequency
    BY <1>2 DEF RunNow, TypeOK, Request, NoRequest
  <2>2. f \in [Tasks -> Frequency]
    BY <2>1 DEF TypeOK
  <2>3. request' \in [Requests -> Request]
    BY <1>2, RowTypes DEF RunNow, Request
  <2>4. /\ last_status' \in [Tasks -> {"none", "running", "success", "failed"}]
        /\ pc' \in [Executions -> Place] /\ copy' \in [Executions -> Frequency]
    <3>1. CASE last_status[t] # "running"
      <4>1. Spawned({t}, f) /\ last_status' = [last_status EXCEPT ![t] = "running"]
        BY <1>2, <3>1 DEF RunNow
      <4>2. {t} \in SUBSET Tasks
        BY <2>1
      <4> QED
        BY <4>1, <4>2, <2>1, <2>2, SpawnedType, RowTypes
    <3>2. CASE last_status[t] = "running"
      BY <1>2, <3>2 DEF RunNow, TypeOK
    <3> QED BY <3>1, <3>2
  <2> QED
    BY <1>2, <2>3, <2>4
    DEF RunNow, TypeOK, settings, next_run_at, server, alive, bounds
<1> QED BY <1>1, <1>2

\* The steps of an execution; Finish stays in Nat because its run is open.
LEMMA TypeExecute ==
    ASSUME TypeOK, OneOpenRun, NEW e \in Executions, Execute(e)
    PROVE  TypeOK'
<1> DEFINE t == e[1]
<1>1. t \in Tasks /\ copy[e] \in Frequency /\ "interval" \in Frequency
  BY RowTypes DEF Frequency
<1>2. /\ \A p \in Place : At(e, p) => pc' \in [Executions -> Place]
      /\ \A s \in {"none", "running", "success", "failed"} :
            Status(t, s) =>
                last_status' \in [Tasks -> {"none", "running", "success", "failed"}]
  BY <1>1, RowTypes DEF At, Status
<1>3. LoseWrite => lostWrites' \in 0..MaxLostWrites
  BY SchedulerBoundsAssumption DEF LoseWrite, TypeOK
<1>4. CASE MarkRunning(e)
  <2>1. openRuns' \in [Tasks -> Nat]
    BY <1>1, <1>4 DEF MarkRunning, TypeOK
  <2> QED
    BY <1>1, <1>2, <1>4, <2>1
    DEF MarkRunning, TypeOK, Place, settings, next_run_at, server, alive, bounds
<1>5. CASE MarkRunningFails(e)
  BY <1>2, <1>3, <1>5
  DEF MarkRunningFails, TypeOK, Place, rows, settings, next_run_at, server, alive
<1>6. CASE Reset(e)
  BY <1>1, <1>2, <1>6 DEF Reset, TypeOK, Place, settings, next_run_at, server, alive, bounds
<1>7. ASSUME NEW outcome \in Outcomes, Dispatched(e, outcome) PROVE TypeOK'
  <2>1. outcome \in Place
    BY OutcomesAssumption DEF Place
  <2> QED
    BY <1>2, <1>7, <2>1 DEF Dispatched, TypeOK, rows, settings, next_run_at, server, alive, bounds
<1>8. CASE Finish(e)
  <2>1. openRuns[t] = 1
    BY <1>1, <1>8 DEF Finish, OneOpenRun
  <2>2. openRuns' \in [Tasks -> Nat]
    BY <1>1, <1>8, <2>1 DEF Finish, TypeOK
  <2>3. /\ due' \subseteq Tasks
        /\ older' \subseteq due' \X due'
        /\ never' \subseteq Tasks \ due'
    BY <1>1, <1>8, ScheduleType DEF Finish
  <2> QED
    BY <1>1, <1>2, <1>8, <2>2, <2>3 DEF Finish, TypeOK, Place, settings, server, alive, bounds
<1>9. CASE Panicked(e)
  <2>1. openRuns' \in [Tasks -> Nat]
    BY <1>1, <1>9 DEF Panicked, TypeOK
  <2>2. /\ due' \subseteq Tasks
        /\ older' \subseteq due' \X due'
        /\ never' \subseteq Tasks \ due'
    BY <1>1, <1>9, ScheduleType DEF Panicked
  <2> QED
    BY <1>1, <1>2, <1>9, <2>1, <2>2 DEF Panicked, TypeOK, Place, settings, server, alive, bounds
<1>10. CASE EndLost(e)
  BY <1>2, <1>3, <1>10 DEF EndLost, TypeOK, Place, rows, settings, next_run_at, server, alive
<1> QED
  BY <1>4, <1>5, <1>6, <1>7, <1>8, <1>9, <1>10 DEF Execute
\* The other steps of an admin request.
LEMMA TypeAdmin ==
    ASSUME TypeOK, NEW r \in Requests, Admin(r)
    PROVE  TypeOK'
<1>1. ASSUME NEW t \in Tasks, AskRun(r, t) PROVE TypeOK'
  <2>1. request' \in [Requests -> Request]
    BY <1>1 DEF AskRun, TypeOK, Request
  <2> QED
    BY <1>1, <2>1, SchedulerBoundsAssumption
    DEF AskRun, TypeOK, rows, settings, next_run_at, server, alive
<1>2. ASSUME NEW t \in Tasks, AskWindow(r, t) PROVE TypeOK'
  <2>1. request' \in [Requests -> Request]
    BY <1>2 DEF AskWindow, TypeOK, Request
  <2> QED
    BY <1>2, <2>1, SchedulerBoundsAssumption
    DEF AskWindow, TypeOK, rows, settings, next_run_at, server, alive
<1>3. ASSUME NEW t \in Tasks, NEW f \in Frequency, AskEdit(r, t, f) PROVE TypeOK'
  <2>1. request' \in [Requests -> Request]
    BY <1>3 DEF AskEdit, TypeOK, Request
  <2> QED
    BY <1>3, <2>1, SchedulerBoundsAssumption
    DEF AskEdit, TypeOK, rows, settings, next_run_at, server, alive
<1>4. CASE RunNow(r)
  BY <1>4, TypeClaims
<1>5. CASE Edit(r)
  <2>1. request[r].task \in Tasks /\ request[r].value \in Frequency
    BY <1>5 DEF Edit, TypeOK, Request, NoRequest
  <2>2. /\ due' \subseteq Tasks
        /\ older' \subseteq due' \X due'
        /\ never' \subseteq Tasks \ due'
    BY <1>5, <2>1, ScheduleType DEF Edit
  <2>3. frequency' \in [Tasks -> Frequency] /\ request' \in [Requests -> Request]
    BY <1>5, <2>1 DEF Edit, TypeOK, Request
  <2> QED
    BY <1>5, <2>2, <2>3 DEF Edit, TypeOK, server, alive, bounds
<1>6. CASE EditWindow(r)
  <2>1. request[r].task \in Tasks /\ request[r].read \in Frequency
    BY <1>6 DEF EditWindow, TypeOK, Request, NoRequest
  <2>2. /\ due' \subseteq Tasks
        /\ older' \subseteq due' \X due'
        /\ never' \subseteq Tasks \ due'
    BY <1>6, <2>1, ScheduleType DEF EditWindow
  <2>3. request' \in [Requests -> Request]
    BY <1>6 DEF EditWindow, TypeOK, Request
  <2> QED
    BY <1>6, <2>2, <2>3 DEF EditWindow, TypeOK, settings, server, alive, bounds
<1>7. CASE RunNowDropped(r)
  <2>1. request[r].task \in Tasks
    BY <1>7 DEF RunNowDropped, TypeOK, Request, NoRequest
  <2>2. /\ last_status' \in [Tasks -> {"none", "running", "success", "failed"}]
        /\ request' \in [Requests -> Request]
    BY <1>7, <2>1, RowTypes DEF RunNowDropped, Status, Request
  <2>3. lostWrites' \in 0..MaxLostWrites
    BY <1>7, SchedulerBoundsAssumption DEF RunNowDropped, LoseWrite, TypeOK
  <2> QED
    BY <1>7, <2>2, <2>3 DEF RunNowDropped, TypeOK, settings, next_run_at, server, alive
<1>8. CASE HangUp(r)
  <2>1. request' \in [Requests -> Request]
    BY <1>8, RowTypes DEF HangUp, Request
  <2> QED
    BY <1>8, <2>1 DEF HangUp, TypeOK, rows, settings, next_run_at, server, alive, bounds
<1> QED
  BY <1>1, <1>2, <1>3, <1>4, <1>5, <1>6, <1>7, <1>8 DEF Admin

\* The clock, the switches, the gate and the process.
LEMMA TypeRest ==
    ASSUME TypeOK
    PROVE  /\ TickBegin \/ RaiseGate \/ LowerGate => TypeOK'
           /\ \A t \in Tasks : Elapse(t) \/ Switch(t) => TypeOK'
           /\ Crash \/ BootTasks \/ BootRuns \/ BootFails => TypeOK'
<1>1. TickBegin => TypeOK'
  BY DEF TickBegin, TypeOK, rows, settings, next_run_at, bounds, alive
<1>2. RaiseGate => TypeOK'
  BY SchedulerBoundsAssumption DEF RaiseGate, TypeOK, rows, settings, next_run_at, alive
<1>3. LowerGate => TypeOK'
  BY DEF LowerGate, TypeOK, rows, settings, next_run_at, bounds, alive
<1>4. ASSUME NEW t \in Tasks, Elapse(t) PROVE TypeOK'
  <2>1. /\ due' \subseteq Tasks
        /\ older' \subseteq due' \X due'
        /\ never' \subseteq Tasks \ due'
    <3>1. due' = due \cup {t} /\ t \notin never /\ never' = never
      BY <1>4 DEF Elapse
    <3>2. older' = older \cup (due \X {t}) /\ older \subseteq due \X due
      BY <1>4 DEF Elapse, TypeOK
    <3>3. ASSUME NEW p \in older' PROVE p \in due' \X due'
      <4>1. p \in due \X due \/ p \in due \X {t}
        BY <3>2, <3>3
      <4> QED BY <4>1, <3>1
    <3> QED BY <3>1, <3>3 DEF TypeOK
  <2> QED
    BY <1>4, <2>1 DEF Elapse, TypeOK, process, server, alive, bounds
<1>5. ASSUME NEW t \in Tasks, Switch(t) PROVE TypeOK'
  <2>1. enabled' \in [Tasks -> BOOLEAN]
    BY <1>5 DEF Switch, TypeOK
  <2> QED
    BY <1>5, <2>1, SchedulerBoundsAssumption
    DEF Switch, TypeOK, next_run_at, process, server, alive
<1>6. ASSUME Crash PROVE TypeOK'
  <2>1. pc' \in [Executions -> Place] /\ request' \in [Requests -> Request]
    BY <1>6 DEF Crash, Place, Request
  <2>2. crashes' \in 0..MaxCrashes
    BY <1>6, SchedulerBoundsAssumption DEF Crash, TypeOK
  <2>3. UNCHANGED <<last_status, frequency, enabled, due, older, never, openRuns>>
    BY <1>6 DEF Crash, rows, settings, next_run_at
  <2> QED
    BY <1>6, <2>1, <2>2, <2>3 DEF Crash, TypeOK
<1>7. ASSUME BootTasks PROVE TypeOK'
  <2>1. /\ last_status' \in [Tasks -> {"none", "running", "success", "failed"}]
        /\ booting' \in BOOLEAN
    BY <1>7 DEF BootTasks, TypeOK
  <2> QED
    BY <1>7, <2>1 DEF BootTasks, TypeOK, settings, next_run_at, bounds
<1>8. ASSUME BootRuns PROVE TypeOK'
  <2>1. openRuns' \in [Tasks -> Nat] /\ booting' \in BOOLEAN /\ up' \in BOOLEAN
    BY <1>8 DEF BootRuns, TypeOK
  <2> QED
    BY <1>8, <2>1 DEF BootRuns, TypeOK, settings, next_run_at, bounds
<1>9. BootFails => TypeOK'
  BY DEF BootFails, TypeOK, rows, settings, next_run_at, bounds
<1> QED
  BY <1>1, <1>2, <1>3, <1>4, <1>5, <1>6, <1>7, <1>8, <1>9
-----------------------------------------------------------------------------
(* SafeInv. *)

LEMMA SafeInit == Init => SafeInv
<1> SUFFICES ASSUME Init PROVE SafeInv
  OBVIOUS
<1>1. \A e \in Executions : pc[e] = "idle"
  BY DEF Init
<1>2. \A t \in Tasks : openRuns[t] = 0 /\ last_status[t] = "none"
  BY DEF Init
<1> QED
  BY <1>1, <1>2
  DEF SafeInv, OneExecution, OneOpenRun, WedgedOnlyByLostWrite, Quiet, Active, HasRun

\* A claim of a task that is not running gives it its only execution.
LEMMA SafeClaim ==
    ASSUME IInv, up,
           NEW S \in SUBSET Tasks, NEW f,
           \A t \in S : last_status[t] # "running",
           last_status' = [t \in Tasks |-> IF t \in S THEN "running" ELSE last_status[t]],
           Spawned(S, f),
           UNCHANGED <<openRuns, up, lostWrites>>
    PROVE  SafeInv'
<1>1. \A e \in Executions : e[1] \in S => pc[e] = "idle"
  BY DEF IInv, SafeInv, OneExecution, Active
<1>2. \A e \in Executions : e \in Tasks \X {1, 2} /\ e = <<e[1], e[2]>> /\ e[1] \in Tasks
  BY DEF Executions
<1>3. \A t \in Tasks : <<t, 1>> \in Executions
  BY DEF Executions
<1>4. /\ \A e \in Executions : e[1] \notin S => pc'[e] = pc[e]
      /\ \A t \in S : pc'[<<t, 1>>] = "claimed"
      /\ \A e \in Executions : e[1] \in S /\ e # <<e[1], 1>> => pc'[e] = "idle"
  BY <1>1, <1>2, <1>3 DEF Spawned, Executions
<1>5. ASSUME NEW t \in S PROVE openRuns[t] = 0
  <2>1. openRuns[t] \in Nat /\ openRuns[t] <= 1 /\ openRuns[t] # 1
    BY DEF IInv, SafeInv, OneOpenRun, TypeOK
  <2> QED BY <2>1
<1>6. OneExecution'
  BY <1>2, <1>3, <1>4 DEF IInv, SafeInv, OneExecution, Active, TypeOK
<1>7. OneOpenRun'
  <2>1. \A t \in Tasks :
           openRuns[t] <= 1 /\ (openRuns[t] = 1 => last_status'[t] = "running")
    BY DEF IInv, SafeInv, OneOpenRun
  <2>2. ASSUME NEW e \in Executions,
               pc'[e] \in {"dispatching", "success", "failed", "panic"}
        PROVE  openRuns[e[1]] = 1
    <3>1. pc'[e] = pc[e]
      BY <1>2, <1>4, <2>2
    <3> QED BY <1>2, <2>2, <3>1 DEF IInv, SafeInv, OneOpenRun
  <2> QED BY <2>1, <2>2 DEF OneOpenRun
<1>8. WedgedOnlyByLostWrite'
  <2>1. SUFFICES ASSUME NEW t \in Tasks, last_status'[t] = "running",
                        \A e \in Executions : e[1] = t => ~Active(e)'
                 PROVE  lostWrites > 0
    BY DEF WedgedOnlyByLostWrite
  <2>2. t \notin S
    <3>1. <<t, 1>>[1] = t
      OBVIOUS
    <3>2. pc'[<<t, 1>>] = "idle"
      BY <1>3, <2>1, <3>1 DEF Active
    <3> QED BY <1>4, <3>2
  <2>3. last_status[t] = "running" /\ \A e \in Executions : e[1] = t => ~Active(e)
    BY <1>4, <2>1, <2>2 DEF Active
  <2> QED BY <2>3 DEF IInv, SafeInv, WedgedOnlyByLostWrite
<1>9. Quiet'
  BY <1>2, <1>4, <1>5 DEF IInv, SafeInv, Quiet, Active, HasRun
<1> QED
  BY <1>6, <1>7, <1>8, <1>9 DEF SafeInv

\* An execution that ends leaves its task not running, and no run of it open.
LEMMA SafeEnd ==
    ASSUME IInv, NEW e \in Executions, Active(e), At(e, "idle"),
           NEW s \in {"none", "success", "failed"}, Status(e[1], s),
           openRuns' = [openRuns EXCEPT ![e[1]] = 0],
           UNCHANGED <<up, lostWrites>>
    PROVE  SafeInv'
<1>1. \A d \in Executions : d[1] \in Tasks
  BY DEF Executions
<1>2. \A d \in Executions : d[1] = e[1] => pc'[d] = "idle"
  BY DEF IInv, SafeInv, TypeOK, OneExecution, Active, At
<1>3. \A d \in Executions : d[1] # e[1] => pc'[d] = pc[d]
  BY DEF IInv, TypeOK, At
<1>4. /\ last_status'[e[1]] = s /\ openRuns'[e[1]] = 0
      /\ \A t \in Tasks : t # e[1] => last_status'[t] = last_status[t]
                                      /\ openRuns'[t] = openRuns[t]
  BY <1>1 DEF IInv, TypeOK, Status
<1>5. OneExecution'
  BY <1>1, <1>2, <1>3, <1>4 DEF IInv, SafeInv, OneExecution, Active
<1>6. OneOpenRun'
  BY <1>1, <1>2, <1>3, <1>4 DEF IInv, SafeInv, OneOpenRun
<1>7. WedgedOnlyByLostWrite'
  BY <1>1, <1>2, <1>3, <1>4 DEF IInv, SafeInv, WedgedOnlyByLostWrite, Active
<1>8. Quiet'
  BY <1>1, <1>2, <1>3, <1>4 DEF IInv, SafeInv, Quiet, Active, HasRun
<1> QED
  BY <1>5, <1>6, <1>7, <1>8 DEF SafeInv

\* An execution that goes on keeps the task running and, from its mark on, the
\* run open.
LEMMA SafeGoOn ==
    ASSUME IInv, NEW e \in Executions, Active(e),
           NEW p \in Place \ {"idle"}, At(e, p),
           UNCHANGED <<last_status, up>>,
           \/ HasRun(e) /\ p \in {"dispatching", "success", "failed", "panic"}
              /\ UNCHANGED <<openRuns, lostWrites>>
           \/ ~HasRun(e) /\ p = "dispatching"
              /\ openRuns' = [openRuns EXCEPT ![e[1]] = @ + 1]
              /\ UNCHANGED lostWrites
           \/ ~HasRun(e) /\ p = "unmarked"
              /\ lostWrites' = lostWrites + 1
              /\ UNCHANGED openRuns
    PROVE  SafeInv'
<1>1. \A d \in Executions : d[1] \in Tasks
  BY DEF Executions
<1>2. pc'[e] = p /\ \A d \in Executions : d # e => pc'[d] = pc[d]
  BY DEF IInv, TypeOK, At
<1>3. /\ last_status[e[1]] = "running"
      /\ \A d \in Executions : Active(d) /\ d[1] = e[1] => d = e
  BY DEF IInv, SafeInv, OneExecution
<1>4. \A d \in Executions : Active(d)' <=> Active(d)
  BY <1>2 DEF Active
<1>5. /\ \A t \in Tasks : t # e[1] => openRuns'[t] = openRuns[t]
      /\ openRuns'[e[1]] = IF p = "unmarked" THEN 0 ELSE 1
  BY <1>1 DEF IInv, SafeInv, TypeOK, Quiet, OneOpenRun, HasRun
<1>6. lostWrites \in Nat /\ (lostWrites > 0 => lostWrites' > 0)
  BY SchedulerBoundsAssumption DEF IInv, TypeOK
<1>7. OneExecution'
  BY <1>4 DEF IInv, SafeInv, OneExecution
<1>8. OneOpenRun'
  BY <1>1, <1>2, <1>3, <1>4, <1>5 DEF IInv, SafeInv, OneOpenRun, Active
<1>9. WedgedOnlyByLostWrite'
  BY <1>4, <1>6 DEF IInv, SafeInv, WedgedOnlyByLostWrite
<1>10. Quiet'
  BY <1>1, <1>2, <1>3, <1>4, <1>5 DEF IInv, SafeInv, Quiet, Active, HasRun
<1> QED
  BY <1>7, <1>8, <1>9, <1>10 DEF SafeInv
\* A write that fails for good ends an execution, and is counted.
LEMMA SafeLost ==
    ASSUME IInv, NEW e \in Executions, At(e, "idle"),
           lostWrites' = lostWrites + 1,
           UNCHANGED <<last_status, openRuns, up>>
    PROVE  SafeInv'
<1>1. pc'[e] = "idle" /\ \A d \in Executions : d # e => pc'[d] = pc[d]
  BY DEF IInv, TypeOK, At
<1>2. lostWrites \in Nat /\ lostWrites' > 0
  BY SchedulerBoundsAssumption DEF IInv, TypeOK
<1>3. OneExecution'
  BY <1>1 DEF IInv, SafeInv, OneExecution, Active
<1>4. OneOpenRun'
  BY <1>1 DEF IInv, SafeInv, OneOpenRun
<1>5. WedgedOnlyByLostWrite'
  BY <1>2 DEF WedgedOnlyByLostWrite
<1>6. Quiet'
  BY <1>1 DEF IInv, SafeInv, Quiet, Active, HasRun
<1> QED
  BY <1>3, <1>4, <1>5, <1>6 DEF SafeInv

LEMMA SafeExecute ==
    ASSUME IInv, NEW e \in Executions, Execute(e)
    PROVE  SafeInv'
<1>1. e[1] \in Tasks
  BY DEF Executions
<1>2. openRuns \in [Tasks -> Nat]
  BY DEF IInv, TypeOK
<1>3. CASE MarkRunning(e)
  <2>1. last_status' = last_status
    BY <1>1, <1>3 DEF MarkRunning, Status, IInv, SafeInv, OneExecution, Active, TypeOK
  <2> QED
    BY <1>3, <2>1, SafeGoOn DEF MarkRunning, Active, HasRun, Place, server, alive, bounds
<1>4. CASE MarkRunningFails(e)
  BY <1>4, SafeGoOn DEF MarkRunningFails, LoseWrite, Active, HasRun, Place, rows, server, alive
<1>5. CASE Reset(e)
  <2>1. openRuns[e[1]] = 0
    BY <1>5 DEF Reset, IInv, SafeInv, Quiet, Active, HasRun
  <2>2. openRuns' = [openRuns EXCEPT ![e[1]] = 0]
    BY <1>2, <1>5, <2>1 DEF Reset
  <2> QED
    BY <1>5, <2>2, SafeEnd DEF Reset, Active, server, alive, bounds
<1>6. ASSUME NEW outcome \in Outcomes, Dispatched(e, outcome) PROVE SafeInv'
  <2>1. outcome \in {"success", "failed", "panic"} /\ outcome \in Place \ {"idle"}
    BY OutcomesAssumption DEF Place
  <2> QED
    BY <1>6, <2>1, SafeGoOn DEF Dispatched, Active, HasRun, rows, server, alive, bounds
<1>7. CASE Finish(e)
  <2>1. openRuns[e[1]] = 1
    BY <1>1, <1>7 DEF Finish, IInv, SafeInv, OneOpenRun
  <2>2. openRuns' = [openRuns EXCEPT ![e[1]] = 0]
    BY <1>2, <1>7, <2>1 DEF Finish
  <2> QED
    BY <1>7, <2>2, SafeEnd DEF Finish, Active, server, alive, bounds
<1>8. CASE Panicked(e)
  BY <1>8, SafeEnd DEF Panicked, Active, server, alive, bounds
<1>9. CASE EndLost(e)
  BY <1>9, SafeLost DEF EndLost, LoseWrite, rows, server, alive
<1> QED
  BY <1>3, <1>4, <1>5, <1>6, <1>7, <1>8, <1>9 DEF Execute

LEMMA SafeTick == IInv /\ Tick => SafeInv'
<1> SUFFICES ASSUME IInv, Tick PROVE SafeInv'
  OBVIOUS
<1>1. PICK S \in SUBSET Tasks :
         /\ Oldest(S)
         /\ last_status' = [t \in Tasks |-> IF t \in S THEN "running" ELSE last_status[t]]
         /\ Spawned(S, frequency)
  BY DEF Tick
<1>2. \A t \in S : last_status[t] # "running"
  BY <1>1 DEF Oldest, Claimable
<1>3. UNCHANGED <<openRuns, up, lostWrites>>
  BY DEF Tick, bounds, alive
<1>4. up
  BY DEF Tick, IInv, Stopped
<1> QED
  BY <1>1, <1>2, <1>3, <1>4, SafeClaim
LEMMA SafeAdmin ==
    ASSUME IInv, NEW r \in Requests, Admin(r)
    PROVE  SafeInv'
<1>1. ASSUME NEW t \in Tasks, AskRun(r, t) PROVE SafeInv'
  BY <1>1, Idle DEF IInv, AskRun, rows, server, alive
<1>2. ASSUME NEW t \in Tasks, AskWindow(r, t) PROVE SafeInv'
  BY <1>2, Idle DEF IInv, AskWindow, rows, server, alive
<1>3. ASSUME NEW t \in Tasks, NEW f \in Frequency, AskEdit(r, t, f) PROVE SafeInv'
  BY <1>3, Idle DEF IInv, AskEdit, rows, server, alive
<1>4. CASE RunNow(r)
  <2> DEFINE t == request[r].task
             f == [frequency EXCEPT ![t] = request[r].read]
  <2>1. t \in Tasks /\ up
    BY <1>4 DEF RunNow, IInv, TypeOK, Stopped, Request, NoRequest
  <2>2. UNCHANGED <<openRuns, up, lostWrites>>
    BY <1>4 DEF RunNow, server, alive, bounds
  <2>3. CASE last_status[t] # "running"
    <3>1. Spawned({t}, f) /\ last_status' = [last_status EXCEPT ![t] = "running"]
      BY <1>4, <2>3 DEF RunNow
    <3>2. last_status' = [u \in Tasks |-> IF u \in {t} THEN "running" ELSE last_status[u]]
      BY <2>1, <3>1 DEF IInv, TypeOK
    <3>3. {t} \in SUBSET Tasks /\ \A u \in {t} : last_status[u] # "running"
      BY <2>1, <2>3
    <3> QED
      BY <2>1, <2>2, <3>1, <3>2, <3>3, SafeClaim
  <2>4. CASE last_status[t] = "running"
    BY <1>4, <2>2, <2>4, Idle DEF RunNow, IInv
  <2> QED BY <2>3, <2>4
<1>5. CASE Edit(r)
  BY <1>5, Idle DEF IInv, Edit, server, alive, bounds
<1>6. CASE EditWindow(r)
  BY <1>6, Idle DEF IInv, EditWindow, server, alive, bounds
<1>7. CASE RunNowDropped(r)
  <2>1. /\ UNCHANGED <<openRuns, up, pc>> /\ lostWrites' = lostWrites + 1
        /\ last_status' = [last_status EXCEPT ![request[r].task] = "running"]
    BY <1>7 DEF RunNowDropped, Status, LoseWrite, server, alive
  <2>2. \A t \in Tasks : last_status[t] = "running" => last_status'[t] = "running"
    BY <2>1 DEF IInv, TypeOK
  <2>3. lostWrites' > 0
    BY <2>1, SchedulerBoundsAssumption DEF IInv, TypeOK
  <2>4. \A e \in Executions : e[1] \in Tasks
    BY DEF Executions
  <2> QED
    BY <2>1, <2>2, <2>3, <2>4
    DEF IInv, SafeInv, OneExecution, OneOpenRun, WedgedOnlyByLostWrite, Quiet, Active,
        HasRun
<1>8. CASE HangUp(r)
  BY <1>8, Idle DEF IInv, HangUp, rows, server, alive, bounds
<1> QED
  BY <1>1, <1>2, <1>3, <1>4, <1>5, <1>6, <1>7, <1>8 DEF Admin

LEMMA SafeRest ==
    ASSUME IInv
    PROVE  /\ TickBegin \/ RaiseGate \/ LowerGate => SafeInv'
           /\ \A t \in Tasks : Elapse(t) \/ Switch(t) => SafeInv'
           /\ Crash \/ BootTasks \/ BootRuns \/ BootFails => SafeInv'
<1>1. TickBegin => SafeInv'
  BY Idle DEF IInv, TickBegin, rows, bounds, alive
<1>2. RaiseGate => SafeInv'
  BY Idle DEF IInv, RaiseGate, rows, alive
<1>3. LowerGate => SafeInv'
  BY Idle DEF IInv, LowerGate, rows, bounds, alive
<1>4. ASSUME NEW t \in Tasks, Elapse(t) PROVE SafeInv'
  BY <1>4, Idle DEF IInv, Elapse, process, server, alive, bounds
<1>5. ASSUME NEW t \in Tasks, Switch(t) PROVE SafeInv'
  BY <1>5, Idle DEF IInv, Switch, process, server, alive
<1>6. ASSUME Crash PROVE SafeInv'
  <2>1. \A e \in Executions : pc'[e] = "idle"
    BY <1>6 DEF Crash
  <2>2. ~up' /\ UNCHANGED <<last_status, openRuns>>
    BY <1>6 DEF Crash, rows
  <2> QED
    BY <2>1, <2>2
    DEF IInv, SafeInv, OneExecution, OneOpenRun, WedgedOnlyByLostWrite, Quiet, Active,
        HasRun
<1>7. ASSUME BootTasks PROVE SafeInv'
  <2>1. \A e \in Executions : pc'[e] = "idle"
    BY <1>7 DEF BootTasks, IInv, SafeInv, Quiet, Active
  <2>2. ~up' /\ openRuns' = openRuns
    BY <1>7 DEF BootTasks
  <2> QED
    BY <2>1, <2>2
    DEF IInv, SafeInv, OneExecution, OneOpenRun, WedgedOnlyByLostWrite, Quiet, Active, HasRun
<1>8. ASSUME BootRuns PROVE SafeInv'
  <2>1. ~up /\ \A e \in Executions : pc'[e] = "idle"
    BY <1>8 DEF BootRuns, IInv, SafeInv, Settled, Quiet, Active
  <2>2. /\ up' /\ last_status' = last_status /\ lostWrites' = lostWrites
        /\ \A t \in Tasks : openRuns'[t] = 0
    BY <1>8 DEF BootRuns, bounds
  <2>3. WedgedOnlyByLostWrite'
    BY <1>8, <2>2 DEF BootRuns, IInv, Settled, WedgedOnlyByLostWrite
  <2> QED
    BY <2>1, <2>2, <2>3 DEF SafeInv, OneExecution, OneOpenRun, Quiet, Active, HasRun
<1>9. BootFails => SafeInv'
  BY Idle DEF IInv, BootFails, rows, bounds
<1> QED
  BY <1>1, <1>2, <1>3, <1>4, <1>5, <1>6, <1>7, <1>8, <1>9

-----------------------------------------------------------------------------
(* The invariant and the theorems. *)

LEMMA StoppedStep ==
    ASSUME TypeOK, Stopped, Next
    PROVE  Stopped'
<1>1. ASSUME NEW e \in Executions, Execute(e) PROVE Stopped'
  BY <1>1
  DEF Stopped, Execute, MarkRunning, MarkRunningFails, Reset, Dispatched, Finish, Panicked,
      EndLost, server, alive
<1>2. ASSUME NEW r \in Requests, Admin(r) PROVE Stopped'
  BY <1>2
  DEF Stopped, Admin, AskRun, AskWindow, AskEdit, RunNow, RunNowDropped, Edit, EditWindow,
      HangUp, server, alive, TypeOK
<1>3. ASSUME NEW t \in Tasks, Elapse(t) \/ Switch(t) PROVE Stopped'
  BY <1>3 DEF Stopped, Elapse, Switch, process, server, alive
<1>4. TickBegin \/ Tick \/ RaiseGate \/ LowerGate \/ Crash => Stopped'
  BY DEF Stopped, TickBegin, Tick, RaiseGate, LowerGate, Crash, alive, TypeOK
<1>5. BootTasks \/ BootRuns \/ BootFails => Stopped'
  BY DEF Stopped, BootTasks, BootRuns, BootFails, TypeOK
<1> QED
  BY <1>1, <1>2, <1>3, <1>4, <1>5 DEF Next

LEMMA SettledStep ==
    ASSUME IInv, Next
    PROVE  Settled'
<1>1. ASSUME NEW e \in Executions, Execute(e) PROVE Settled'
  <2>1. up /\ up' = up /\ booting' = booting
    BY <1>1
    DEF IInv, SafeInv, Quiet, Active, Execute, MarkRunning, MarkRunningFails, Reset, Dispatched,
        Finish, Panicked, EndLost, server, alive
  <2> QED BY <2>1 DEF IInv, Settled
<1>2. ASSUME NEW r \in Requests, Admin(r) PROVE Settled'
  <2>1. up /\ up' = up /\ booting' = booting
    BY <1>2
    DEF IInv, Stopped, Admin, AskRun, AskWindow, AskEdit, RunNow, RunNowDropped, Edit,
        EditWindow, HangUp, NoRequest, server, alive
  <2> QED BY <2>1 DEF IInv, Settled
<1>3. ASSUME NEW t \in Tasks, Elapse(t) \/ Switch(t) PROVE Settled'
  BY <1>3 DEF IInv, Settled, Elapse, Switch, process, server, alive
<1>4. CASE Tick
  <2>1. up /\ up' = up /\ booting' = booting
    BY <1>4 DEF Tick, IInv, Stopped, alive
  <2> QED BY <2>1 DEF IInv, Settled
<1>5. CASE TickBegin \/ RaiseGate \/ LowerGate \/ Crash
  <2>1. UNCHANGED <<last_status, booting>> /\ (booting /\ ~up => ~up')
    BY <1>5 DEF TickBegin, RaiseGate, LowerGate, Crash, rows, alive
  <2> QED BY <2>1 DEF IInv, Settled
<1>6. CASE BootTasks
  <2>1. ~up' /\ \A t \in Tasks : last_status'[t] # "running"
    BY <1>6 DEF BootTasks
  <2> QED BY <2>1 DEF Settled
<1>7. BootRuns \/ BootFails => Settled'
  BY DEF Settled, BootRuns, BootFails
<1> QED
  BY <1>1, <1>2, <1>3, <1>4, <1>5, <1>6, <1>7 DEF Next

LEMMA Invariance == Spec => []IInv
<1>1. Init => IInv
  BY TypeInit, SafeInit DEF IInv, Init, Stopped, Settled
<1>2. IInv /\ [Next]_vars => IInv'
  <2> SUFFICES ASSUME IInv, [Next]_vars PROVE IInv'
    OBVIOUS
  <2>1. CASE UNCHANGED vars
    BY <2>1
    DEF vars, rows, settings, next_run_at, process, server, alive, bounds, IInv, TypeOK, SafeInv,
        OneExecution, OneOpenRun, WedgedOnlyByLostWrite, Quiet, Active, HasRun, Stopped,
        Settled
  <2>2. ASSUME NEW e \in Executions, Execute(e) PROVE TypeOK' /\ SafeInv'
    BY <2>2, TypeExecute, SafeExecute DEF IInv, SafeInv
  <2>3. ASSUME NEW r \in Requests, Admin(r) PROVE TypeOK' /\ SafeInv'
    BY <2>3, TypeAdmin, SafeAdmin DEF IInv
  <2>4. Tick => TypeOK' /\ SafeInv'
    BY TypeClaims, SafeTick DEF IInv
  <2>5. CASE Next
    <3>1. TypeOK' /\ SafeInv'
      BY <2>2, <2>3, <2>4, <2>5, TypeRest, SafeRest DEF Next, IInv
    <3> QED BY <2>5, <3>1, StoppedStep, SettledStep DEF IInv
  <2> QED BY <2>1, <2>5
<1> QED
  BY <1>1, <1>2, PTL DEF Spec

\* Whatever ticks, admins, panics, lost writes and crashes do, the tables and
\* the executions stay well-formed.
THEOREM TypeCorrect == Spec => []TypeOK
<1>1. IInv => TypeOK
  BY DEF IInv
<1> QED
  BY <1>1, Invariance, PTL

\* A task is executed once at a time, and is 'running' for as long, although
\* execute and its writes check nothing but the id (scheduler/mod.rs:702-817).
THEOREM OneExecutionCorrect == Spec => []OneExecution
<1>1. IInv => OneExecution
  BY DEF IInv, SafeInv
<1> QED
  BY <1>1, Invariance, PTL

\* A task has at most one open run, that of its execution: closing the open runs
\* by task after a panic closes no other (queries.rs:13340-13380).
THEOREM OneOpenRunCorrect == Spec => []OneOpenRun
<1>1. IInv => OneOpenRun
  BY DEF IInv, SafeInv
<1> QED
  BY <1>1, Invariance, PTL

\* While the server is up, no write has failed for good and no Run Now was dropped
\* during its claim, a running task has an execution (scheduler/mod.rs:615-665, 704-728).
THEOREM WedgedCorrect == Spec => []WedgedOnlyByLostWrite
<1>1. IInv => WedgedOnlyByLostWrite
  BY DEF IInv, SafeInv
<1> QED
  BY <1>1, Invariance, PTL

\* Task, execution and history row go together in every reachable state.
THEOREM RunsAddUpCorrect == Spec => []RunsAddUp
<1>1. TypeOK /\ OneExecution /\ OneOpenRun => RunsAddUp
  BY DEF RunsAddUp
<1> QED
  BY <1>1, TypeCorrect, OneExecutionCorrect, OneOpenRunCorrect, PTL
=============================================================================
