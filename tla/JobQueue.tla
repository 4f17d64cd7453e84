------------------------------ MODULE JobQueue ------------------------------
(***************************************************************************)
(* The durable background job queue: the jobs table of                     *)
(* crates/library/src/queries.rs and the worker_loop of                    *)
(* crates/server/src/jobs/mod.rs that drains it.                           *)
(*                                                                         *)
(* Every statement on the table is one SQLite write and so is atomic; what *)
(* interleaves is what a worker does between two of them (claim, run the   *)
(* handler, write the outcome, alert), the admin endpoints that rewrite or *)
(* delete rows meanwhile, and a crash of the process at any point.  None   *)
(* of the outcome writes checks that the row is still the one the worker   *)
(* claimed: that it is must follow from the rest.                          *)
(*                                                                         *)
(* Which kinds a poll leaves out is open here: module WorkerPool adds the  *)
(* permits, the scan gate and the resizing that decide it.                 *)
(***************************************************************************)
EXTENDS Integers, FiniteSets

CONSTANTS
    Workers,           \* worker_loop tasks
    Kinds,             \* job kinds
    Handled,           \* kinds JobRouter::lookup knows
    UniqueKinds,       \* kinds only ever enqueued by enqueue_job_unique
    Targets,           \* values of the dedup field (a file, item or user id)
    Priorities,        \* values of JobInput.priority
    MaxAttempts,       \* JobInput.max_attempts (3 for every caller)
    MaxJobs,           \* bound: rows ever inserted
    MaxRequeues,       \* bound: admin retries
    MaxCrashes,        \* bound: deaths of the process
    MaxLostWrites      \* bound: outcome writes that fail for good

ASSUME KindsAssumption == Handled \subseteq Kinds /\ UniqueKinds \subseteq Kinds

ASSUME DataAssumption ==
    /\ Kinds # {} /\ Targets # {} /\ Priorities # {}
    /\ Priorities \subseteq Int

ASSUME MaxAttemptsAssumption == MaxAttempts \in Nat \ {0}

ASSUME BoundsAssumption ==
    /\ MaxJobs \in Nat
    /\ MaxRequeues \in Nat
    /\ MaxCrashes \in Nat
    /\ MaxLostWrites \in Nat

VARIABLES
    jobs,        \* the table: row id -> row, absent before insert and after delete
    nextId,      \* the AUTOINCREMENT sequence
    up,          \* the server process is running
    phase,       \* where each worker is in worker_loop
    holder,      \* the row each worker claimed, 0 when it has none
    requeues,    \* admin retries so far
    crashes,     \* deaths of the process so far
    lostWrites,  \* outcome writes that failed for good so far
    reclaims,    \* history: boot reclaims of a row since it was (re)queued
    revived,     \* history: rows an admin brought back from dead
    alerted      \* history: rows whose death was sent to the notifier

table == <<jobs, nextId>>
faults == <<requeues, crashes, lostWrites>>
history == <<reclaims, revived, alerted>>
vars == <<jobs, nextId, up, phase, holder, faults, history>>

Ids == 1..MaxJobs

Status == {"absent", "queued", "running", "failed", "succeeded", "dead"}

\* due: run_after <= now.  locked, finished: locked_at, finished_at is not NULL.
Row == [status : Status, kind : Kinds, target : Targets, priority : Priorities,
        attempts : Nat, due : BOOLEAN, locked : BOOLEAN, finished : BOOLEAN]

Live(j) == jobs[j].status \in {"queued", "running", "failed"}

Terminal(j) == jobs[j].status \in {"succeeded", "dead"}

Absent(j) == jobs[j].status = "absent"

Key(j) == <<jobs[j].kind, jobs[j].target>>

\* Phases in which a worker owns the row it claimed.
Owning == {"claimed", "handling", "ok", "retryable", "terminal"}

Phase == Owning \cup {"idle", "alerting", "down"}

Owns(w, j) == phase[w] \in Owning /\ holder[w] = j

\* A row marked running that no worker is working on.
Orphan(j) == jobs[j].status = "running" /\ \A w \in Workers : ~Owns(w, j)

TypeOK ==
    /\ jobs \in [Ids -> Row]
    /\ nextId \in 1..(MaxJobs + 1)
    /\ up \in BOOLEAN
    /\ phase \in [Workers -> Phase]
    /\ holder \in [Workers -> 0..MaxJobs]
    /\ requeues \in 0..MaxRequeues
    /\ crashes \in 0..MaxCrashes
    /\ lostWrites \in 0..MaxLostWrites
    /\ reclaims \in [Ids -> Nat]
    /\ revived \subseteq Ids
    /\ alerted \subseteq Ids

\* What the table holds under an id that has no row.
NoRow == [status |-> "absent", kind |-> CHOOSE k \in Kinds : TRUE,
          target |-> CHOOSE t \in Targets : TRUE,
          priority |-> CHOOSE p \in Priorities : TRUE,
          attempts |-> 0, due |-> FALSE, locked |-> FALSE, finished |-> FALSE]

\* The SET clauses of the statements on one row.

Due(r) == [r EXCEPT !.due = TRUE]

Claimed(r) == [r EXCEPT !.status = "running", !.locked = TRUE, !.attempts = @ + 1]

Settled(r, s) == [r EXCEPT !.status = s, !.locked = FALSE, !.finished = TRUE]

BackedOff(r) == [r EXCEPT !.status = "failed", !.locked = FALSE, !.due = FALSE]

Reclaimed(r) == [r EXCEPT !.status = "queued", !.locked = FALSE]

Requeued(r) ==
    [r EXCEPT !.status = "queued", !.attempts = 0, !.due = TRUE,
              !.locked = FALSE, !.finished = FALSE]

Update(j, r) == jobs' = [jobs EXCEPT ![j] = r]

Init ==
    /\ jobs = [j \in Ids |-> NoRow]
    /\ nextId = 1
    /\ up = TRUE
    /\ phase = [w \in Workers |-> "idle"]
    /\ holder = [w \in Workers |-> 0]
    /\ requeues = 0 /\ crashes = 0 /\ lostWrites = 0
    /\ reclaims = [j \in Ids |-> 0]
    /\ revived = {}
    /\ alerted = {}

-----------------------------------------------------------------------------
(* Producers.  Every caller leaves run_after at "now" and max_attempts at   *)
(* its default, so a new row is due and has its whole budget.               *)

NewRow(k, t, p) ==
    [status |-> "queued", kind |-> k, target |-> t, priority |-> p,
     attempts |-> 0, due |-> TRUE, locked |-> FALSE, finished |-> FALSE]

Insert(k, t, p) ==
    /\ nextId <= MaxJobs
    /\ Update(nextId, NewRow(k, t, p))
    /\ nextId' = nextId + 1
    /\ UNCHANGED <<up, phase, holder, faults, history>>

\* enqueue_job: no look at what is already there.
Enqueue(k, t, p) ==
    /\ up
    /\ k \notin UniqueKinds
    /\ Insert(k, t, p)

\* Mutant: the dedup forgets rows waiting for a retry.
EnqueueUniqueOverFailed(k, t, p) ==
    /\ up
    /\ \A j \in Ids : ~(jobs[j].status \in {"queued", "running"} /\ Key(j) = <<k, t>>)
    /\ Insert(k, t, p)

\* enqueue_job_unique: the SELECT and the INSERT share one BEGIN IMMEDIATE
\* transaction; a live row of the same kind and target makes it a no-op.
EnqueueUnique(k, t, p) ==
    /\ up
    /\ \A j \in Ids : ~(Live(j) /\ Key(j) = <<k, t>>)
    /\ Insert(k, t, p)

\* Time passes run_after.
BackoffElapses(j) ==
    /\ jobs[j].status = "failed"
    /\ ~jobs[j].due
    /\ Update(j, Due(jobs[j]))
    /\ UNCHANGED <<nextId, up, phase, holder, faults, history>>

-----------------------------------------------------------------------------
(* The worker loop. *)

Goto(w, p) == phase' = [phase EXCEPT ![w] = p]

Release(w) == Goto(w, "idle") /\ holder' = [holder EXCEPT ![w] = 0]

\* Mutant: the claim drops its status filter for running rows.
ClaimableRunning(X) ==
    {j \in Ids : /\ Live(j)
                 /\ jobs[j].due
                 /\ jobs[j].kind \notin X}

\* Mutant: the claim looks at queued rows only, as its index does.
ClaimableQueuedOnly(X) ==
    {j \in Ids : /\ jobs[j].status = "queued"
                 /\ jobs[j].due
                 /\ jobs[j].kind \notin X}

\* Rows the claim's subquery selects from when the kinds X are left out.
Claimable(X) ==
    {j \in Ids : /\ jobs[j].status \in {"queued", "failed"}
                 /\ jobs[j].due
                 /\ jobs[j].kind \notin X}

\* ORDER BY priority DESC, id ASC
Before(i, j) ==
    \/ jobs[i].priority > jobs[j].priority
    \/ jobs[i].priority = jobs[j].priority /\ i <= j

\* claim_next_job_excluding_kinds: one UPDATE ... RETURNING behind the write
\* gate.  The budget is not consulted: attempts only grows.
ClaimRow(w, j, X) ==
    /\ phase[w] = "idle"
    /\ j \in Claimable(X)
    /\ \A i \in Claimable(X) : Before(j, i)
    /\ Update(j, Claimed(jobs[j]))
    /\ holder' = [holder EXCEPT ![w] = j]
    /\ Goto(w, "claimed")
    /\ UNCHANGED <<nextId, up, faults, history>>

Claim(w, X) == \E j \in Ids : ClaimRow(w, j, X)

\* No handler: mark_job_dead, whose error is dropped, then the alert.
MarkDead(w) ==
    /\ phase[w] = "claimed"
    /\ jobs[holder[w]].kind \notin Handled
    /\ Update(holder[w], Settled(jobs[holder[w]], "dead"))
    /\ Goto(w, "alerting")
    /\ UNCHANGED <<nextId, up, holder, faults, history>>

MarkDeadLost(w) ==
    /\ phase[w] = "claimed"
    /\ jobs[holder[w]].kind \notin Handled
    /\ lostWrites < MaxLostWrites
    /\ lostWrites' = lostWrites + 1
    /\ Goto(w, "alerting")
    /\ UNCHANGED <<table, up, holder, requeues, crashes, history>>

\* The permit of the kind is in hand: the handler starts.
StartHandler(w) ==
    /\ phase[w] = "claimed"
    /\ jobs[holder[w]].kind \in Handled
    /\ Goto(w, "handling")
    /\ UNCHANGED <<table, up, holder, faults, history>>

\* The handler's task ends: Ok, a panic or error classed retryable
\* (rate limit, timeout, transient), or one classed terminal (auth, permanent).
FinishHandler(w, outcome) ==
    /\ phase[w] = "handling"
    /\ outcome \in {"ok", "retryable", "terminal"}
    /\ Goto(w, outcome)
    /\ UNCHANGED <<table, up, holder, faults, history>>

MarkSucceeded(w) ==
    /\ phase[w] = "ok"
    /\ Update(holder[w], Settled(jobs[holder[w]], "succeeded"))
    /\ Release(w)
    /\ UNCHANGED <<nextId, up, faults, history>>

\* Mutant: the budget is compared with > instead of >=.
GoesDeadLate(w) ==
    \/ phase[w] = "terminal"
    \/ jobs[holder[w]].attempts > MaxAttempts

\* mark_job_failed_with_class: one UPDATE decides between dead and failed.
\* Every class that retries backs off by more than zero.
GoesDead(w) ==
    \/ phase[w] = "terminal"
    \/ jobs[holder[w]].attempts >= MaxAttempts

MarkFailed(w) ==
    /\ phase[w] \in {"retryable", "terminal"}
    /\ ~GoesDead(w)
    /\ Update(holder[w], BackedOff(jobs[holder[w]]))
    /\ Release(w)
    /\ UNCHANGED <<nextId, up, faults, history>>

\* Mutant: the worker ignores the "went terminal" result.
MarkExhaustedSilently(w) ==
    /\ phase[w] \in {"retryable", "terminal"}
    /\ GoesDead(w)
    /\ Update(holder[w], Settled(jobs[holder[w]], "dead"))
    /\ Release(w)
    /\ UNCHANGED <<nextId, up, faults, history>>

MarkExhausted(w) ==
    /\ phase[w] \in {"retryable", "terminal"}
    /\ GoesDead(w)
    /\ Update(holder[w], Settled(jobs[holder[w]], "dead"))
    /\ Goto(w, "alerting")
    /\ UNCHANGED <<nextId, up, holder, faults, history>>

\* The outcome write fails past every busy retry: logged, and the worker
\* goes back to polling with the row still running.
MarkLost(w) ==
    /\ phase[w] \in {"ok", "retryable", "terminal"}
    /\ lostWrites < MaxLostWrites
    /\ lostWrites' = lostWrites + 1
    /\ Release(w)
    /\ UNCHANGED <<table, up, requeues, crashes, history>>

\* notify_job_failed, after the row is dead.
Alert(w) ==
    /\ phase[w] = "alerting"
    /\ alerted' = alerted \cup {holder[w]}
    /\ Release(w)
    /\ UNCHANGED <<table, up, faults, reclaims, revived>>

Work(w) ==
    \/ \E X \in SUBSET Kinds : Claim(w, X)
    \/ StartHandler(w)
    \/ \E outcome \in {"ok", "retryable", "terminal"} : FinishHandler(w, outcome)
    \/ MarkDead(w) \/ MarkSucceeded(w) \/ MarkFailed(w) \/ MarkExhausted(w)
    \/ MarkDeadLost(w) \/ MarkLost(w)
    \/ Alert(w)

-----------------------------------------------------------------------------
(* Admin endpoints and the cleanup task. *)

\* requeue_job: a failed or dead row starts over; live rows of the same key
\* are not looked for.
Requeue(j) ==
    /\ up
    /\ jobs[j].status \in {"failed", "dead"}
    /\ requeues < MaxRequeues
    /\ requeues' = requeues + 1
    /\ Update(j, Requeued(jobs[j]))
    /\ revived' = IF jobs[j].status = "dead" THEN revived \cup {j} ELSE revived
    /\ reclaims' = [reclaims EXCEPT ![j] = 0]
    /\ alerted' = alerted \ {j}
    /\ UNCHANGED <<nextId, up, phase, holder, crashes, lostWrites>>

Delete(S) ==
    /\ S # {}
    /\ jobs' = [j \in Ids |-> IF j \in S THEN NoRow ELSE jobs[j]]
    /\ UNCHANGED <<nextId, up, phase, holder, faults, history>>

\* Mutant: the wipe does not spare running and failed rows.
WipeKind(K) ==
    /\ up
    /\ Delete({j \in Ids : Live(j) /\ jobs[j].kind \in K})

\* wipe_queued_jobs: the queued rows, of one kind or of all.
WipeQueued(K) ==
    /\ up
    /\ Delete({j \in Ids : jobs[j].status = "queued" /\ jobs[j].kind \in K})

\* clear_dead_jobs
ClearDead ==
    /\ up
    /\ Delete({j \in Ids : jobs[j].status = "dead"})

\* cleanup_old_jobs: terminal rows whose finished_at is older than the
\* retention of their status; which ones are is left open.
CleanupOld(S) ==
    /\ up
    /\ S \subseteq {j \in Ids : Terminal(j) /\ jobs[j].finished}
    /\ Delete(S)

Admin ==
    \/ \E j \in Ids : Requeue(j)
    \/ \E K \in {Kinds} \cup {{k} : k \in Kinds} : WipeQueued(K)
    \/ ClearDead
    \/ \E S \in SUBSET Ids : CleanupOld(S)

-----------------------------------------------------------------------------
(* The process. *)

Crash ==
    /\ up
    /\ crashes < MaxCrashes
    /\ crashes' = crashes + 1
    /\ up' = FALSE
    /\ phase' = [w \in Workers |-> "down"]
    /\ holder' = [w \in Workers |-> 0]
    /\ UNCHANGED <<table, requeues, lostWrites, history>>

Running == {j \in Ids : jobs[j].status = "running"}

\* start(): reclaim_orphan_jobs with a lease of 0, then the workers.  attempts
\* is kept.
Boot ==
    /\ ~up
    /\ up' = TRUE
    /\ phase' = [w \in Workers |-> "idle"]
    /\ jobs' = [j \in Ids |-> IF j \in Running THEN Reclaimed(jobs[j]) ELSE jobs[j]]
    /\ reclaims' = [j \in Ids |-> IF j \in Running THEN reclaims[j] + 1
                                                   ELSE reclaims[j]]
    /\ UNCHANGED <<nextId, holder, faults, revived, alerted>>

\* The reclaim fails: a warning, and the workers start all the same.
BootUnreclaimed ==
    /\ ~up
    /\ lostWrites < MaxLostWrites
    /\ lostWrites' = lostWrites + 1
    /\ up' = TRUE
    /\ phase' = [w \in Workers |-> "idle"]
    /\ UNCHANGED <<table, holder, requeues, crashes, history>>

Next ==
    \/ \E k \in Kinds, t \in Targets, p \in Priorities :
          Enqueue(k, t, p) \/ EnqueueUnique(k, t, p)
    \/ \E j \in Ids : BackoffElapses(j)
    \/ \E w \in Workers : Work(w)
    \/ Admin
    \/ Crash \/ Boot \/ BootUnreclaimed

Spec == Init /\ [][Next]_vars

\* What the code's scheduling justifies: tokio runs every worker and timers
\* fire, so no worker stays at a step it can take and every backoff ends, and
\* the container is restarted after a crash (docker-compose.yml:21).
FairSpec ==
    /\ Spec
    /\ \A w \in Workers : WF_vars(Work(w))
    /\ \A j \in Ids : WF_vars(BackoffElapses(j))
    /\ WF_vars(Boot \/ BootUnreclaimed)

-----------------------------------------------------------------------------
(* Properties. *)

\* The outcome writes say only WHERE id = ?.  They hit the right row because a
\* worker's row is running for as long as the worker owns it, and no other
\* worker owns it: at-most-once delivery per claim (jobs/mod.rs:23).
ExclusiveOwnership ==
    \A w \in Workers : phase[w] \in Owning =>
        /\ jobs[holder[w]].status = "running"
        /\ \A v \in Workers \ {w} : ~Owns(v, holder[w])

\* A job uses no more attempts than its budget plus one for every restart that
\* found it running (claim_next_job never looks at max_attempts): a row still
\* to be claimed has an attempt left.
BudgetRespected ==
    \A j \in Ids : Live(j) =>
        jobs[j].attempts + (IF jobs[j].status = "running" THEN 0 ELSE 1)
            <= MaxAttempts + reclaims[j]

\* locked_at is set on the running rows and only there, finished_at on the
\* terminal rows and only there: cleanup_old_jobs, which goes by finished_at,
\* misses no terminal row and reclaim_orphan_jobs no running one.
RowBookkeeping ==
    \A j \in Ids :
        /\ jobs[j].locked <=> jobs[j].status = "running"
        /\ jobs[j].finished <=> Terminal(j)

\* The table adds up, whatever interleaving, fault or admin endpoint wrote it:
\* every row is well-formed, its two timestamps say what its status says, and
\* no row has used more attempts than it was given.
RowsKept == TypeOK /\ RowBookkeeping /\ BudgetRespected

\* Two live rows of one key and of a kind that is always deduplicated exist
\* only when an admin brought one of them back from dead: requeue_job is the
\* one way around the dedup of enqueue_job_unique.
DuplicateOnlyByRevival ==
    \A i, j \in Ids :
        (i # j /\ Live(i) /\ Live(j) /\ Key(i) = Key(j)
            /\ jobs[i].kind \in UniqueKinds)
        => (i \in revived \/ j \in revived)

\* Nothing dies in silence while the process stays up: a dead row was sent to
\* the notifier or its worker is about to (jobs/mod.rs:481-503, 691-712).
NoSilentDeath ==
    \A j \in Ids : jobs[j].status = "dead" =>
        \/ j \in alerted
        \/ crashes > 0
        \/ \E w \in Workers : phase[w] = "alerting" /\ holder[w] = j

\* A row is running without a worker only while the process is down or after
\* a write failed for good: a restart whose reclaim succeeds leaves none.
OrphansOnlyAfterFaults ==
    \A j \in Ids : Orphan(j) => (~up \/ lostWrites > 0)

\* Rows and workers belong together: a worker's row is its own and running, a
\* running row has its worker, unless a fault took one of them.
OwnersKept == ExclusiveOwnership /\ OrphansOnlyAfterFaults

\* A succeeded or dead row is never written again by a worker: it leaves its
\* state only by deletion or, from dead, by an admin retry with a new budget.
TerminalIsFinal ==
    [][\A j \in Ids : Terminal(j) =>
          \/ jobs'[j] = jobs[j]
          \/ jobs'[j] = NoRow
          \/ /\ jobs[j].status = "dead"
             /\ jobs'[j].status = "queued"
             /\ jobs'[j].attempts = 0]_vars

\* Every row is worked off: it succeeds, dies or is deleted, unless its outcome
\* write was lost, in which case it stays running until the next restart.
EveryJobSettles ==
    \A j \in Ids : Live(j) ~> (Terminal(j) \/ Absent(j) \/ (up /\ Orphan(j)))

\* The queue implements the contract: a row waits while it is queued or failed,
\* is being worked on while it is running, whatever the worker is doing.
StageOf(j) ==
    CASE jobs[j].status = "absent" -> "none"
      [] jobs[j].status \in {"queued", "failed"} -> "waiting"
      [] jobs[j].status = "running" -> "working"
      [] jobs[j].status = "succeeded" -> "done"
      [] OTHER -> "dead"

Contract == INSTANCE JobContract WITH
    stage <- [j \in Ids |-> StageOf(j)],
    tries <- [j \in Ids |-> jobs[j].attempts],
    issued <- nextId

\* Every step of the queue is a step its contract allows, or invisible to it:
\* crashes, lost writes and admin endpoints included.
ImplementsContract == Contract!Promise

\* The contract, and of the rows behind it that a terminal one stays as it is.
KeepsContract == ImplementsContract /\ TerminalIsFinal

\* What reclaim_orphan_jobs promises (queries.rs:10547-10550): "a job that
\* keeps crashing the worker still hits max_attempts instead of looping
\* forever".
CrashLoopHitsMaxAttempts ==
    \A j \in Ids : jobs[j].attempts <= MaxAttempts
=============================================================================
