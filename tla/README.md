# TLA+ specifications of the ChimpFlix server

ChimpFlix is a self-hosted media server in Rust: an axum API, a SQLite database
and a number of long-lived tokio tasks in one process, restarted by Docker when
it dies. The interesting state is shared between those tasks, the API handlers,
the database and services outside, and most of what can go wrong there needs
three or four steps of different tasks in an unlucky order. These specifications
cover that part.

Paths below are relative to `src/crates/`. `queries.rs` is
`library/src/queries.rs`, `session.rs` is `transcoder/src/session.rs`,
`scanner.rs` is `library/src/scanner.rs`; other files are in `server/src/`
unless a crate is named.

## Inventory

| Component | State | Operations | Hard behaviour | What makes it correct |
|---|---|---|---|---|
| Durable job queue (`queries.rs` 10028-11012, `jobs/mod.rs`) | table `jobs` | enqueue (plain, unique), claim, succeed / fail / dead, admin retry, wipe, clear, cleanup, boot reclaim | outcome writes say only `WHERE id = ?`; a crash or a failed write at any point; the admin rewrites rows under the workers | one owner per running row, a bounded number of attempts, no row that is neither worked off nor reclaimable, no silent death |
| Worker pool (`jobs/mod.rs`) | `desired` count, worker ids, semaphore per kind | worker loop, resize, resize of a kind, parking behind the gate | the size, the gate and the permits are read before the claim and not again; old semaphores outlive a resize | workers that should stop claim at most once more, permits hold, nobody leaves with a row |
| Scan locks and scan gate (`state.rs`, `jobs/scan_gate.rs`, three callers) | set of libraries being scanned; counter and watch | take and release a lock, raise and lower the gate | releases run later, in tasks spawned by `Drop`; handlers can be dropped, scans can panic | scans of a library exclude each other, the gate covers every scan and always comes down |
| File watcher (`file_watcher.rs`) | bounded channel, overflow flag, debounce buckets | dispatch, receive, tick, pause, start or defer a scan | a callback thread and a task share the flag; a change may come during the scan that will not see it | no change is forgotten; each is scanned |
| Scheduler (`scheduler/mod.rs`, `queries.rs` 13162-13406, `api/admin/tasks_overview.rs`) | tables `scheduled_tasks`, `task_runs` | tick, Run Now, execution, panic recovery, schedule edit, boot recovery | executions write with a stale copy of the row; claims race | one execution per task, one open run, no task wedged or starved |
| Circuit breakers (`circuit_breaker.rs`) | state, failure streak, time of opening | allow, record success / failure, run | calls admitted in one state report in another, or never | it trips when it should and tests the provider with one call at a time |
| Discovery (`scanner.rs`, `jobs/pipeline.rs`, `jobs/handlers/notify_new_content.rs`) | `media_files`, bounded channel, batches, the announcement ledger | snapshot, walk, upsert, reconcile, report; verify, purge, sweep; announce | volumes come and go during a walk; the channel drops, a batch is lost as a whole; ledger and messages are two steps | no file is removed because its volume was away, none stays without analysis unless its event was lost, none is announced twice |
| Transcode sessions (`session.rs`, `api/stream.rs`) | registry of sessions, reference counts, one ffmpeg each, start gate | create, adopt, pause, resume, fetch, delete, reap | handlers run on several threads; the reaper works from a stale list; a flag and a signal are two steps; clients hang up | caps hold, at most one stop event per session and none but by a failure, the flag says what the encoder does, every encoder dies, every request is answered |
| Webhook delivery (`webhooks.rs`) | broadcast bus, `webhooks`, `webhook_deliveries`, in-process drivers | fan out, insert, attempt, record, sleep, retry tick, test fire, edit, delete | driver and tick share a row and do not know of each other; a restart takes the drivers | a delivery is sent at most MAX times, the log is true, nothing is forgotten |
| Trakt sync (`trakt_sync.rs`, `api/trakt.rs`, `jobs/handlers/trakt_pull_user.rs`, `jobs/pipeline.rs`) | token pair, cursors, mirror of the history, two atomics of a debounce | link, refresh under a lock, call, revoke on 401, pull, push, reconcile | a refresh spends the pair of everybody else; a cursor is stamped after a read that may be old or cut short | the stored pair is the live one, no play is passed by, the mirror reaches the library |
| Accounts, invites, sessions (`api/auth.rs`, `api/admin/users.rs`, `queries.rs`) | `users`, `invites`, `sessions`, reset tokens | set up, register and roll back, remove, demote, lock, log in, rehash, change and reset a password | each handler is several statements with nothing held between; ids are reused | an owner remains, an invite makes one account, a session does not outlive its password |
| Database access (`library/src/db.rs`) | write gate, connection pool | begin, commit, busy retry | one permit, two pools, dropped transactions | no deadlock; no connection returned inside a transaction |
| Play state (`api/play_state.rs`) | positions | batch, toggle, scrobble | reports out of order | the latest report wins |
| Web sockets and events | hub, broadcast, per-user caps | subscribe, publish, lag | a lagging subscriber | caps hold, slots are returned |
| Second factor, rate limits, CSRF | counters, codes | check, count, redeem | check and count are two steps | limits hold under parallel attempts |
| Everything else (catalogue, probing and parsing, metadata clients, mail, admin settings, backup, CLI, web client) | rows | single statements, pure data processing | none worth a model | - |

How they interact: the scheduler, the API and the file watcher start library
scans, which take a lock per library and raise the gate. The gate parks the
workers and the scheduler. Scans feed the pipeline, which enqueues jobs, asks for
an announcement and lets the Trakt mirror catch up with the library. Workers run
handlers, which call providers through the breakers. Playback goes through the
transcode sessions, whose ends are events on the bus; the webhook dispatcher and
the web sockets subscribe to it. All of them meet in the database. `PROJECT.json`
lists each component with what is modelled of it, and under `hazards` each place
where the code is exposed.

## Modules

| Module | Models | Builds on |
|---|---|---|
| `JobContract` | what the queue promises, without workers, locks or backoffs | - |
| `JobQueue` | the jobs table and the claim-to-outcome part of `worker_loop` | implements `JobContract` |
| `WorkerPool` | which workers live and when they may claim | extends `JobQueue`; implements it |
| `CircuitBreaker` | one breaker and its callers | - |
| `LibraryScans` | scan locks and the gate, as the API and the scheduler use them | - |
| `FileWatcher` | the watcher's channel, buckets and pause | extends `LibraryScans` |
| `Scheduler` | the tasks' tables, executions, admin routes | - |
| `Discovery` | from a file on a volume to an analysed, announced title | - |
| `SessionContract` | what the sessions promise, without handlers, gate or encoders | - |
| `Transcode` | session registry, handlers, reaper, encoder processes | implements `SessionContract` |
| `Webhooks` | bus, fan-out, deliveries, drivers, retry tick | - |
| `Accounts` | accounts, invites and sign-in sessions, statement by statement | - |
| `Trakt` | one user's link: tokens, pull, push, reconcile | - |
| `WorkerPoolProofs`, `FileWatcherProofs`, `OutboundProofs`, `SchedulerProofs`, `DiscoveryProofs`, `TranscodeProofs`, `WebhooksProofs`, `AccountsProofs` | theorems and proofs | the module they are named after; `WorkerPoolProofs` also about `JobQueue`, `FileWatcherProofs` about `LibraryScans`, `OutboundProofs` about `CircuitBreaker` and `Trakt` |

**What is a step.** A SQL statement, or a transaction under `BEGIN IMMEDIATE`, is
one atomic step: SQLite serialises writers. So is a section under a mutex without
an await. Between two awaits of a task every other task may run. A write that
fails past its retries is a step of its own (`...Lost`, `...Fails`), bounded by
a constant. A crash may come at any point; it clears what lives in memory
and keeps the tables. A handler that hyper drops because its client went away
stops at an await (`Cancel`, `HangUp`, `RunNowDropped`, `Drop`).

**Data.** Times are reduced to what the code compares: `due` (run_after,
next_run_at or next_retry_at has passed), `cooled`, `waiting` and `due` buckets,
`recent`, `old`, `aging`. Payloads are a dedup target, passwords and token pairs a
value or the number of the grant, titles the file that made them. Errors are the
class the code branches on. Handlers, scans and dispatched tasks are their outcome
unless a module is about them.

**Mutants.** A definition introduced by "Mutant:" is a plausible bug in the one
that follows it, kept to show that the property listed with it in `PROJECT.json`
can fail.

### JobQueue

`jobs` is the table; `phase` and `holder` say where each worker is between claim
and outcome. `ClaimRow` is the `UPDATE ... RETURNING` with its ORDER BY;
`MarkSucceeded`, `MarkFailed`, `MarkExhausted`, `MarkDead` are the four outcomes,
`MarkLost` and `MarkDeadLost` their failures, `Alert` the notification.
`Requeue`, `WipeQueued`, `ClearDead`, `CleanupOld` are the admin endpoints and the
cleanup. `Boot` reclaims every running row, `BootUnreclaimed` is a boot whose
reclaim fails, which the code only logs. Which kinds a poll skips is left open, as
it is decided by the pool. Three history variables: `reclaims`, `revived`,
`alerted`.

Not in the model: `error_class` and the other display columns, progress, the
clock (a step backwards leaves rows of a dead process unreclaimed), and the
handlers' own effects.

### WorkerPool

Adds the worker's place in the loop around a claim (`at`), the published size,
the id allocator, the saturated kinds a worker saw (`skip`), and for each kind the
list of semaphores `KindLimiter::resize` has put in the map; a `ticket` names the
one a worker waits for or holds. `Resize` keeps the code's arithmetic on ids.
`Unpark` and `Resume` are the gate's wait and the stagger after it. The gate is an
environment here: what raises it is `LibraryScans`.

### CircuitBreaker

Every caller is idle, calling or probing. `AllowClosed` and `AllowProbe` are the
two ways `allow` says yes. `Succeed`, `Trip` and `EndUnrecorded` are the ways a
call leaves `run`, the last one standing for an error that is no trip and for a
dropped future. Calls may last any time; `outlasted` is a history variable that
names those a cooldown ended under.

### LibraryScans and FileWatcher

A scan takes a slot through `creating` (lock held, row being written), `spawned`,
`scanning` (gate held), `ended`. The guards' releases are counted in `unlocks` and
`lowers` until the task that `Drop` spawned has run. The scheduler holds its lock
through a guard, the API and the watcher release it in their last line: `Finish`
and `Panic` tell them apart.

The watcher receives or ticks: the `select!` of the two is not biased, so a tick may
act while events are still queued (`Queued`). It reads the pause setting once per
turn of its loop (`auto_scan`), and handles the due libraries one after another
(`todo`). Two history variables are what the properties speak of: `unseen`, the
libraries changed since their last scan started and not dropped by a pause, which
drops events on purpose, and `stirred`, those that changed since the last paused
tick, had an event in the channel then, or were all caught by an overflow.

### Scheduler

`last_status = "running"` is the claim. An execution keeps a copy of the
frequency it was spawned with. `TickBegin` looks at the gate and `Tick` claims,
up to a limit, oldest first. `RunNow` and the schedule edits act on a row read
earlier (`request`). `Finish`, `Panicked`, `Reset` and `EndLost` are the ways an
execution ends. A start is `BootTasks` and `BootRuns`, the two statements of
`mark_interrupted_tasks`; `BootFails` is the failure of either, which ends the
process again (both statements end in `?`, and `main` propagates). So a server that
is up has no open run of an earlier process, and one that is starting may.
Of `next_run_at` the model keeps the order among the due tasks
and whether a task is at `NEVER_RUN_AT_MS`.

### Discovery

One library and one scan of it at a time (`LibraryScans` is about several). A scan
goes `walk`, `process`, `report`: `StartScan` takes the snapshot of known rows,
`Walk` lists a root as it is at that moment or breaks off (`WalkCutShort`), `Process` upserts a file, `Reconcile` soft-deletes what the
snapshot knew under the reached roots and the walk did not see, `Report` fills the
channel as far as it goes and asks for the announcement. `VerifyStats` and
`VerifyMarks` are the two halves of the verify pass, `PurgeRemoved` the grace
sweep, `Sweep` the full sweep that an admin may ask for: no schedule runs `detect_markers`,
and nothing in the model obliges anybody to ask. `Receive` and `Flush` are
the drainer and its batch, `Drain` both for one file; `lost` is the history of files
whose event found the channel full, whose batch was not written, whose job died or
that a restart took out of memory; `StartJob` to `FailJob` a marker job. `Ask`, `List`,
`Record`, `Send` are the announcement job; `Record` writes the ledger before
`Send` tells anybody, and a crash puts the job back to queued. A volume can go
away, come back and change its files at any time.

### Transcode

A session is shared by reference count: the registry holds one reference, the
handlers at work on it (`Holding`) one each, and `Dropped` kills the process with
the last. A handler is a client's `call` with a place. `Create` queues at the start
gate, then `CheckCpu`, `Find`, `AdoptSwap` / `AdoptCont` / `AdoptTouch` or
`CheckCaps`, `Start`, each one a section between two awaits or two operations on
shared atomics. `Pause` and `Resume` swap the flag; `PauseSignal` and
`ResumeSignal` send what they owe. `Remove` takes a session out of the map, `Rmdir`
removes its directory and spawns the task that records the stop event: `RecordStop`
is that task, whose write may fail with no more than a warning. `stops` has for each
session the tasks that are due and the events that are kept, `cut` the sessions whose
stop was lost. A cap of 0 for one user is none (`EachCap`). The reaper lists (`ReapList`),
removes one by one (`ReapRemove`, `ReapRmdir`) and emits at the end (`ReapHook`).
`Exit` is the end of ffmpeg, `Drain` the end of its stderr with the one
`waitpid(WNOHANG)` that follows. `Drop` is a client that hangs up, at any await.
`SessionContract` sees a session as none, open, ended or closed, with an owner and the
number of times its end was recorded; it leaves out why a session ends, who ends it
and what happens to the process.

### Webhooks

A delivery is an event and a hook. `Publish` pushes on the bounded broadcast
channel, which forgets its oldest value when full; `PublishOther` is everything else
that travels there. `FanOut` spawns a task per hook that wants the event, `Deliver`
inserts its row and starts a driver. A driver is `Attempt` (the answer), `Record`
(the UPDATE), `Wake` (the end of the backoff). `TickRead` is the SELECT of
`retry_pending`, `TickFire` the driver it starts from a row that may have moved on.
`fate` is the history the properties speak of: what the receiver said, and which
of the known accidents (`raced`, `lost`, `cut`, `refused`) a delivery has met.

### Accounts

A request is a slot with a program counter; each step is one statement or one
transaction of its handler. `ReadRole`, `CountOwners` and `Remove` or `SetRole` are
the three statements of a guarded removal; `RegisterCheck`, `RegisterCreate`,
`RegisterConsume` and `RegisterUndo` a registration with its rollback; `Login`,
`NeedsRehash`, `Rehash`, `IssueSession` a login; `ChangeSet` and `ChangeSweep` a
password change; `Reset` a redeemed reset token. Ids are reused as SQLite does it,
so an account's `birth` tells two of them apart, and `odd` records the accidents
that properties exempt.

### Trakt

`row` is the stored pair, by the number of the grant that minted it, `minted` what
Trakt honours. A caller goes through `with_user_client`: `Ask`, the lock and the
second look (`Reread`, `RereadLate`), `Mint`, `Save`, the call, and what a 401
does (`CallRefused`). `MintRefused` is a refresh that Trakt turns down, `MintFails` one
whose request or whose answer is lost, for the newest pair as well; `LinkLost` is the
same for the grant of a link poll. `Seed`, `Check`, `Read`, `Store`, `Match`, `Stamp` and `Note`
are the pull job; `Push` a toggle's task. `Completed`, `Cool`, `Wake` and
`Reconcile` are the debounce with its two atomics. Plays are numbered in the order
they are made, and a cursor is the number of plays made when it was stamped.

## Runs

| Run | Question | Bounds |
|---|---|---|
| `JobQueue` | the table adds up (`RowsKept`); rows and workers belong together (`OwnersKept`); duplicates only by revival; no silent death; the contract is kept; every row settles | 2 workers, 2 kinds (one without a handler), 2 rows, 2 attempts, 1 retry, crash and lost write |
| `WorkerPool` | one late claim after a raised gate or a shrink; permits, claims and places go together (`NothingLeaks`); every behaviour is one of the queue; every row settles | 3 worker ids, pool sizes 0 to 2, 2 rows, 2 resizes of the pool or a cap, 1 scan, crash and failing poll, 2 turns of the loop |
| `CircuitBreaker` | closed iff below the threshold; one fresh probe | 4 callers, threshold 2, 6 trips |
| `LibraryScans` | one scan per library; the gate covers scans, is counted exactly and comes down; scheduled scans return their lock | 2 libraries, 3 slots, 4 scans, 2 late releases, every fault |
| `FileWatcher` | no change is forgotten, and a paused tick keeps nothing of what the buckets held (`ChangesKept`); every change is scanned | 2 libraries, 3 changes, channel of 1, 2 toggles, 1 scan by the scheduler |
| `Scheduler` | one execution and, while the server is up, one open run (`RunsAddUp`); wedged only by a lost write; runs end; tasks keep running | 2 tasks (one manual), claim limit 1, 1 of each fault and request; starts may fail |
| `Discovery` | announced once; reconciliation spares what stayed; every file is analysed whose event, batch and job got through | 2 roots with 1 file, channel of 1, 2 scans, 2 mishaps |
| `Transcode` | at most one stop event per session, and one unless it was lost; the flag tells whether the encoder is stopped; the contract is kept, caps included; encoders are released; calls return | 1 user with 2 tabs, 1 title, 2 sessions, caps 1 (all and per user) and 2 (software) |
| `Webhooks` | the log is true; at most 3 requests and none after a confirmation; nothing forgotten; every delivery settles | 1 hook, 1 event, channel of 1, 3 attempts, 2 drivers, 1 failed statement, restart and edit |
| `Accounts` | an owner remains; an invite makes one account; sessions follow the password | 1 invite, 2 passwords, 3 users, 3 sessions, 3 accounts ever, 2 requests in flight and 3 in all (a session that ends is one), 2 dropped |
| `Trakt` | the stored pair is current; the cursor keeps plays; the mirror reaches the library | 2 callers, 3 pairs, 1 play, 2 jobs, 2 scans, 1 fault, 5 of these in all |
| `Trakt_play_passed_by` | no play is passed by (violated) | 1 caller, 1 pair, 1 play, 1 job, no scan and no fault |

**Why the bounds are enough.** Each bound is the smallest at which the cases
happen. Two workers and two rows give every race for a row and for its key;
three worker ids are needed to shrink and grow; a channel of one overflows with
two changes (in `Webhooks` with one event and the noise beside it); a claim limit
of one makes two tasks compete; two callers beside a probe are enough to reopen
the breaker under it; two roots let one volume go while the other stays; two tabs
and two sessions let an adoption, a pause and a delete meet the reaper on one
session while a second one waits for its room; two drivers are the in-process one
and the tick's; two requests in flight give each pair of handlers, and three users
an owner to remove, one to promote and one who comes in by the invite while an id
is reused. Each fault a run allows occurs once, alone and together with the others.
The safety part does not rest on the bounds at all: it is proved for all values
(below). In `Scheduler` the run has one admin request under
way at a time, racing with the tick; two requests at once, the double-clicked
button, are covered by the theorem `RunsAddUpCorrect`, which holds for any number
of them. In the same way `Transcode` runs with one user and one title and
`Webhooks` with one hook, and their theorems are about any number.

Deadlock is not checked: with the bounds used up and the work done these systems
have nothing left to do.

**Fairness.** Weak fairness, with one exception below, of: each worker, execution, driver, handler and
the watcher (tokio polls ready tasks); timers, that is backoffs, buckets, due times
and cooldowns; the intervals that tick for ever (the retry tick, the session reaper);
the end of a scan, of a job and of a call to another
service (they have timeouts); spawned releases; and the restart after a crash
(`docker-compose.yml`, restart policy). A start may fail any number of
times: `TasksKeepRunning` speaks of a server that comes up. No fairness is assumed of an admin, of a
client or a producer, of changes in a library, of a user who goes on watching, or of
the outcome of anything: a handler, a receiver or a batch may fail whenever it is
allowed to. `Discovery` assumes that the drainer receives and flushes and that the
workers claim; of a sweep it assumes nothing, so a lost event stays lost until an
admin asks for one. `Transcode` does not need an
encoder to exit or a client to hang up, nor a stop event to be written.
`FileWatcher` has one strong fairness, of receiving: a tick and a queued event race in
a turn of the unbiased `select!` when the event comes as the sleep ends, but the sleep
of the next turn is made anew, and there the event wins. Its
changes are bounded; see `DueIsHandled` below for
what happens when they are not. `Trakt` assumes less than that: one condition, that
the process does not stand still while any task of it can go on. `Accounts` claims no liveness: each of its requests
ends or is dropped. `GateComesDown` and `ScheduledLocksReturn` say "eventually" of a
bounded number of scans: scans that never stopped overlapping would hold the gate up
for good, as they should.

## Where the code and its comments part

Kept as a run, with its counterexample:

- `Trakt_play_passed_by`. `trakt_pull_user.rs` 55-57 and `trakt.rs` 900-901 have
  the delta pull carry on from the cursor, but the cursor is stamped with the clock
  after the read (`trakt_sync.rs` 892): a play made between the read and the stamp
  lies behind the cursor and is in no later delta. `CursorKeepsPlays` is what does
  hold.

Stated in a module, and left out of the runs; TLC finds a counterexample for each
when it is added to the module's run (for `DueIsHandled` with `Endless = {movies}`):

- `JobQueue!CrashLoopHitsMaxAttempts`. The comment on `reclaim_orphan_jobs` promises
  that a job which keeps crashing the worker hits `max_attempts`. The claim never
  looks at the budget and only a handler that returns compares it, so such a job is
  claimed after every restart (`queries.rs` 10288, 10547-10549).
- `CircuitBreaker!HalfOpenHasProbe`. A probe that ends in an error that is no trip,
  or whose future is dropped, leaves the breaker HalfOpen; `allow` refuses from then
  on (`circuit_breaker.rs` 83).
- `LibraryScans!NoLockLeaks`. `state.rs` 420-422 asks its callers for a guard; the
  API and the watcher have none for the lock, so a panic locks the library until a
  restart (`libraries.rs` 221).
- `FileWatcher!DueIsHandled`. The one-second sleep is made anew in each turn of
  `select!`; steady events postpone the check of the buckets for ever
  (`file_watcher.rs` 206, 156-158).
- `Scheduler!ManualNeverDue`. A manual task that panics is scheduled an hour later,
  though manual tasks "don't ever auto-fire" (`queries.rs` 13368, `scheduler/mod.rs`
  212-214).
- `Discovery!UnmountSurvives`. A purge is promised a grace window so that an unmount
  destroys nothing (`scheduler/mod.rs` 2113-2116), but the optional empty-trash pass
  of a scan purges what a verify pass has just marked on a volume that is away.
- `Discovery!SafetyNet`. `pipeline.rs` 98-100 and 139-143 have the scheduled
  `detect_markers` task catch every file whose event was dropped. That task is not
  among the seeded ones (`scheduler/mod.rs` 305-535), no route creates tasks
  (`api/admin/tasks.rs` 1-5), and Run Now answers 404 without a row: such a file stays
  without markers until an admin asks for the full sweep. `EveryFileAnalysed` is what
  does hold, and `OnItsWay`, which is proved, says that nothing else is missed.
- `Transcode!SuspendedSpared`. The text at the paused flag says the reaper uses it "to
  avoid killing a session that's intentionally suspended" (`session.rs` 453-454).
  `reap_idle` does not read it, and says why (`session.rs` 1373-1382): a session whose
  client has gone silent is removed, paused or not, as `EncodersReleased` has it.
- `Transcode!StoppedMeansPaused`. A pause and a resume that run into each other can
  signal in the other order than they swapped the flag, and leave the encoder stopped
  with the flag down (`session.rs` 452, 571).
- `Accounts!AlwaysAnOwner`. Two owners who remove each other at once both pass the
  count (`queries.rs` 3182-3184).

Met on the way and visible in the models, without a property:

- `Resize` after a shrink hands new workers ids beyond the window
  `0..desired`, so they exit and the pool stays small (`jobs/mod.rs` 326-350).
- `ResizeKind` installs a semaphore with all its permits while the old ones are
  out; for a while up to old + new handlers run, not just the old
  (`jobs/mod.rs` 130-143). `PermitsRespected` is therefore per semaphore.
- A call admitted before the breaker opened closes it when it succeeds, without a
  cooldown (`circuit_breaker.rs` 99-104). One that outlasts the cooldown can reopen
  it under a probe: hence the exception in `OneProbe`.
- An overflow during a pause is remembered and scans everything on resume, and an
  event that is queued while a paused tick clears the buckets is received after it
  (`file_watcher.rs` 168-226): not quite the "cold start" of lines 208-211, which is
  why `ResumesCold` has both in `stirred`.
- `execute` reschedules from the copy of the row it was spawned with and overwrites
  what an edit computed meanwhile (`scheduler/mod.rs` 743): a task made manual while
  it runs fires once more, one taken off manual is not scheduled.
- `Webhooks`: a retry tick that meets a driver about to wake starts a second one, and
  the two exceed MAX_ATTEMPTS (`webhooks.rs` 349): `raced` in `NoExtraPosts`. A row
  whose process died before the first attempt is never sent (`webhooks.rs` 114). One
  secret that cannot be decrypted stops the fan-out for every hook, and each retry
  tick at the first delivery that needs it; the model has a failing statement now and
  then, not one that fails for ever. An address check counts a lookup that fails for a
  moment as a refusal, and the delivery is given up.
- `Transcode`: the software cap comes before the look for a session to adopt, so a
  reload at the cap is refused (`stream.rs` 658-661 says otherwise); copied streams of
  720 lines or more are never adopted; an encoder that closed stderr before it could
  be waited for stays unnoticed (`session.rs` 2364-2366); the reaper deletes a session
  that was touched since it was listed (`session.rs` 1368); a DELETE dropped while it
  removes the directory sends no stop event, and one whose write fails is not
  repeated (`main.rs` 987-993).
- `Accounts`: a login's rehash can put the older password back (`auth.rs` 296-335);
  deleting an account makes the invite it consumed redeemable again; a password change
  ignores a failed sweep of the sessions (`auth.rs` 757-759).
- `Discovery`: a walk cut short counts its root as reached; a file whose streams could
  not be written is known to every later scan and not reported by any.
- `Trakt`: a title the user un-marked is marked again by the next reconcile; the rollup
  is stored before the pulls, so a failed pull is not repeated until Trakt changes
  again; an unlink takes no lock, so a refresh in flight brings the link back; a refresh
  whose answer is lost leaves a spent pair on file (`trakt_sync.rs` 84-86). The history
  is read in one step, where the code awaits between pages (`metadata/src/trakt.rs`
  846-931): what a page boundary can hide does not show with one title. That a
  reconcile or the note of a scan's completion fails (`trakt_sync.rs` 1058-1073,
  `scanner.rs` 272-281) has no action.

## What is proved

All theorems hold for every value of the constants under the modules' `ASSUME`s,
which say only that bounds are naturals, sets are related as the code relates them
(a password is not an invite code, the watcher is an origin of scans), and the state
the runs begin in exists (a user id besides the placeholder's, a pair for the link).
The provers are Z3, Zenon and, for the last temporal step, LS4. Every safety
property that a passing run checks, invariant or action property, is a theorem, and
so are the four refinements (`KeepsContract` of the queue and of the sessions,
`PoolIsAQueue`, `WatcherKeepsToTheLocks`). `ChangesKeptCorrect` has a hypothesis, that the fault `db`
does not occur: `start_scan` takes the changes out of their bucket before the INSERT
of the scan's row, and when that fails they wait for the next event (the run has no
faults of this kind either).

**WorkerPoolProofs**, first part: the queue. `TypeCorrect` needs that a worker beyond a claim holds the id
of a row (`HolderIsRow`). `OwnershipCorrect` is inductive with `Fresh` (ids not yet
issued have no row): a worker can lose its row only through a statement that
touches running rows, and the only one is the boot reclaim, which finds every
worker down. From it `NextRowStep` classifies what any step does to any row; the
rest follows row by row: `BookkeepingCorrect`, `BudgetCorrect`, `DuplicatesCorrect`,
`TerminalRowsFinal`; together they are `RowsKeptCorrect`. `NoSilentDeathCorrect`
adds who is about to alert. `KeepsContractCorrect` is the refinement: initial states
map to initial states of `JobContract`, and each step to a step of it or a stutter.

**WorkerPoolProofs**, second part: the pool. `PoolIsAQueueCorrect` comes first: every step of the pool is a
step of the queue or leaves the queue alone, so the queue's invariants hold under
the pool and are used in the rest. `OneLateClaimCorrect` needs `LateInv`: a worker
that has made its late claim is past the places from which another could be made.
`NothingLeaksCorrect` needs `PlaceInv` (in the middle of an iteration exactly while
it has a job, and ids not given out have no worker), `TicketInv` (the ticket is of
the job's kind, which no statement changes while the row is owned) and `CapInv`
(holders of every semaphore ever installed, by cardinality).

**OutboundProofs**, first part: the breaker. `TripsCorrect` is inductive as it stands
together with the types. `OneProbeCorrect` needs `Alone`: where the next probe could
be admitted no fresh call is left, and in HalfOpen there is at most one, the probe.

**OutboundProofs**, second part: the link with Trakt. The callers are all alike, so
the invariant says of a single record what it may look like (`Sound`), each handler
has a lemma about the record it leaves (`Quiet`: it rests, begins a refresh under a
free lock, or takes a pull one step on), and `Grows` lists what no step of anybody
takes back, from which `SoundStays` follows for the records of the others.
`TokensCurrentCorrect` needs `Locked` (one caller between its re-read and the end of
its upsert; link polls excepted) and `Pair`: unless a pair is astray, at most one
caller is about to store one, it has the newest, and when there is none the newest is
on file; a failure that loses a pair, or mints none, is `Strays` or `Quiet`. `CursorKeepsPlaysCorrect` needs `Told`: what Trakt listed up to the read of a
pull is behind the cursor, in the mirror or in the pull's hands, and stays so while
other pulls, plays and removals go on. It needs `row = 0 => unlinked` as well, because
a seed without a row goes straight to its stamp.

**FileWatcherProofs**, first part: locks and gate. `LocksKeptCorrect` needs
`LateUnlocksAreSafe`: a release that is still to come concerns a library which is
locked and which no scan holds, and there is one of them per library, so it cannot
free the lock of the next scan. `GateIsTrueCorrect` is about cardinalities and rests
on `FiniteSetTheorems`.

**FileWatcherProofs**, second part: the watcher. `WatcherKeepsToTheLocks` is the
refinement: each step of the watcher is a step of the locks or leaves them alone, so
the first part holds under it. `ResumesColdCorrect` needs `Cold`, which has the
libraries already taken out of their buckets in it: one that is put off again after a
pause would start a scan, and events in the channel, which the tick does not wait for.
`ChangesKeptCorrect` needs `Underway`: a change that counts
is in the channel, in a bucket, under the overflow flag, or with a scan that the
watcher itself started. The property allows any scan that is yet to walk the library;
the invariant must not, because a scan of the scheduler's may fail before it does.

**SchedulerProofs.** One inductive invariant, `IInv`, carries `RunsAddUpCorrect` and
`WedgedCorrect`: the properties themselves, `Quiet` (no execution is active while the
process is down, and one that has not written its run yet finds none open, or it
would open a second), `Stopped` (no tick or request survives a crash) and `Settled`
(between the two statements of a start no claim is left and nobody makes one, so the
runs that are still open are closed before the next is opened).

**DiscoveryProofs.** `AnnouncedOnceCorrect` needs `AnnounceInv`: a title in the job's
hands is untold, and in the ledger by the time it is sent, which is where the order
of the two steps matters. `ReconcileSparesCorrect` is an action property and rests on
`WalkInv`: of a root that counts as reached, everything that stayed was seen.
`OnItsWayCorrect` is the safety half of `EveryFileAnalysed`: what lacks its markers is
in the channel, in a batch or in a job, or known to be lost.

**TranscodeProofs.** `GateInv` says that who is past the gate is first in its queue,
so there is one; `CapInv` that who is at the spawn has room. Together they give
`CapsHoldCorrect`, which the run has through the contract, whose `Begin` needs room.
`StopInv` says that who took a session out of the map has it for
himself until he spawns the record, that one task at most is spawned for it (`Sent`),
and that a session without any is in somebody's hands or lost; with `CutInv`, below,
that is `OneStopPerSessionCorrect`. `FlagInv` says that at most one
signal is owed and that it is the one the flag calls for, unless two swaps met:
`FlagTellsStoppedCorrect`. `KeepsContractCorrect` is the refinement of
`SessionContract`: a session's phase is told from the registry, the events emitted and
`cut`. `CutInv`, that a session lost to the record is in nobody's hands and has no record due, is needed so
that a lost session is not reported later; `CapInv` gives `Begin` its room at the
moment of the insert, which is later than the check; what `Remove`, `Rmdir`, `Drop`, `RecordStop`
and the reaper do is `End`, `Report` or `Lose`, or nothing when somebody was faster,
and every other step is a stutter (`QuietKept`).

**WebhooksProofs.** The invariant goes delivery by delivery: `Truth` (row, answers not
yet recorded and what the receiver said), `InStep` (unless raced or lost, one driver,
whose counter, the column and the requests sent differ by at most the answer it
holds), `Resumable` (no driver is ahead of the column, and a row with attempts behind
and before it has a next_retry_at). `FreshInv` is needed because an INSERT resets the
row: an event is not published, in the channel, spawned or past all of that, and only
one of them. `TodoInv` bounds what the tick read by the row. From these
`LogIsTrueCorrect`, `NoExtraPostsCorrect`, `NoDeliveryForgottenCorrect`.

**AccountsProofs.** An id may be used again, so the invariant goes by `birth`, the
number of the account's creation: `Births` (no two accounts share one), `Own` (the
account of a request's birth, while it exists, is the one of its id, and a
registration's is the one made with its invite), `Claims`, `Opened` and `Tokens`
(requests, sessions and reset tokens are never about the placeholder or a deleted
account). On these rest three separate arguments. `Guard`: as long as no two guarded
removals overlapped, one request at most is past its role read, and once it has
counted there is an owner besides its own; nobody else can take an owner away.
`Grants` and `Redeems`: who holds an invite's grants is who consumed it, and an
account made with an invite has them, or its registration is still on the way, or its
story says how it was cut short. `Follow`: a session is under its account's password,
or somebody still owes the sweep, or the story says that one was lost or reverted.
`Carries` and `Owes` say what a request does next, `StoriesStay` that a story, once
told, stays told; `HighestExists`, that a finite set of ids has a highest, by
well-founded induction on its subsets, gives that a new id is nobody's.

**Only model-checked.** Liveness and everything that needs fairness is out of the
proof system's reach: `EveryJobSettles`, `PoolSettlesJobs`, `EveryChangeScanned`,
`GateComesDown`, `ScheduledLocksReturn`, `RunsEnd`, `TasksKeepRunning`,
`EveryFileAnalysed`, `EncodersReleased`, `CallsReturn`, `EveryDeliverySettles` and
`MirrorReachesLibrary` hold on the instances of the runs, and only there. No safety
property is left that is checked and not proved.

## What is not modelled, and why

- The loss that `webhooks.rs` 88 accepts with a warning: the model has a subscriber that
  lags and loses events before a delivery row exists, and no property could ask for less.
- The loss that `webhooks.rs` 88 accepts with a warning: the model has a subscriber that
  lags and loses events before a delivery row exists, and no property could ask for less.
- Components listed as `not_modelled` in `PROJECT.json`: either planned (below) or
  single statements and data processing with no protocol to check. Most lines of the
  repository are of the second kind: queries and their row types, metadata mapping,
  ffmpeg arguments, file-name parsing, audio fingerprints, request validation.
- Below a SQL statement: the write gate, connections and busy retries. A statement
  either happens or is lost. A COMMIT that fails leaves a pooled connection inside its
  transaction (`jobs/pipeline.rs` 316); this level has no model yet.
- In `JobQueue`, that a target's dedup key is a JSON field; in `Scheduler`, cron and
  maintenance-window arithmetic; in `FileWatcher`, adding and removing watched paths;
  in `Discovery`, files whose content changes (a rewritten file keeps its old markers)
  and matching; in `Transcode`, hardware fallback, subtitles and direct play; in
  `Webhooks`, signatures and what a retry sends of a masked payload
  (`webhooks.rs` 137); in `Accounts`, email changes, device codes and the throttle; in
  `Trakt`, ratings, playback positions, watchlist and collection.
- The settings route as a process: two concurrent changes may leave the pool at the
  size of the one that lost in the database. `WorkerPool` resizes atomically.
- The boot order of `main.rs`, which spawns workers before it applies the stored
  caps: in the model it is a later `ResizeKind`.

## Plan

In this order, most important first:

1. `WriteGate`: single permit, connection pool, dropped and failed commits.
2. `Lockout` and one-time codes: check and count as two steps.
3. `PlayState`: reports out of order. Connection caps of the web sockets.
4. `MaintenanceWindow`: the window arithmetic of `scheduler/mod.rs` 137-206 as a
   function, against a reference definition.
5. `Discovery` composed with `JobQueue`: its marker and announcement jobs as rows.

Each of them with its invariants proved, as those there are: one lemma per handler
about what it leaves, one about what others leave alone.
