----------------------------- MODULE WorkerPool -----------------------------
(***************************************************************************)
(* The resizable worker pool of crates/server/src/jobs/mod.rs over the     *)
(* JobQueue: which workers run, when they may claim and which kinds they   *)
(* leave out.  Between looking at the pool size, the scan gate and the     *)
(* permits and acting on what it saw, a worker gives up control, and an    *)
(* admin resizes the pool or a cap, or a library scan raises the gate.     *)
(*                                                                         *)
(* A worker is known by its id.  Its semaphore is known by the kind and by *)
(* how often that kind's cap was replaced before: KindLimiter::resize puts *)
(* a new semaphore in the map and leaves the old one to its holders.       *)
(***************************************************************************)
EXTENDS JobQueue, Sequences

CONSTANTS
    Sizes,          \* values of the job_workers setting an admin stores
    Caps,           \* values of a kind's concurrency setting
    InitialSize,    \* job_workers at first boot
    InitialCap,     \* the registry's concurrency of every kind
    MaxResizes,     \* bound: changes of either setting
    MaxScans,       \* bound: times the scan gate is raised
    MaxPollErrors,  \* bound: claims that fail
    MaxTurns        \* bound: all of these and crashes taken together

ASSUME WorkersAssumption == \E w \in Workers : w \in Nat /\ Workers = 0..w

ASSUME SizesAssumption == Sizes \subseteq Nat /\ Caps \subseteq Nat

ASSUME InitialAssumption ==
    /\ InitialSize \in Nat \ {0} /\ InitialSize - 1 \in Workers
    /\ InitialCap \in Nat \ {0}

ASSUME PoolBoundsAssumption ==
    /\ MaxResizes \in Nat /\ MaxScans \in Nat /\ MaxPollErrors \in Nat
    /\ MaxTurns \in Nat

VARIABLES
    desired,     \* the count_tx watch, and the stored setting it follows
    next_id,     \* the id allocator
    at,          \* where each worker is in the part of the loop around a claim
    skip,        \* the saturated kinds a polling worker will leave out
    ticket,      \* the semaphore a worker has asked for or holds a permit of
    caps,        \* per kind, the caps of its semaphores, the current one last
    gate,        \* LibraryScanGate is raised
    resizes, scans, pollErrors,
    slipped,     \* history: claims of each worker since the gate was raised
    overdue      \* history: claims of each worker since its id left the pool

pool == <<desired, next_id, at, skip, ticket, caps>>
noise == <<gate, resizes, scans, pollErrors>>
leaks == <<slipped, overdue>>
poolVars == <<vars, pool, noise, leaks>>

Room == resizes + scans + pollErrors + crashes < MaxTurns

Place == {"unborn", "top", "parked", "stagger", "polling", "working", "gone"}

Alive(w) == at[w] \notin {"unborn", "gone"}

NoTicket == <<>>

Tickets == {NoTicket} \cup {<<k, g>> : k \in Kinds, g \in 1..(MaxResizes + 1)}

PoolTypeOK ==
    /\ desired \in Nat \ {0}
    /\ next_id \in Nat
    /\ at \in [Workers -> Place]
    /\ skip \in [Workers -> SUBSET Kinds]
    /\ ticket \in [Workers -> Tickets]
    /\ caps \in [Kinds -> Seq(Nat)]
    /\ gate \in BOOLEAN
    /\ resizes \in 0..MaxResizes
    /\ scans \in 0..MaxScans
    /\ pollErrors \in 0..MaxPollErrors
    /\ slipped \in [Workers -> Nat]
    /\ overdue \in [Workers -> Nat]

Pc(w, place) == at' = [at EXCEPT ![w] = place]

\* acquire reads the semaphore of the kind; a permit is free while fewer than
\* its cap hold one.  Those still in phase "claimed" wait.
Holders(t) == {w \in Workers : ticket[w] = t /\ phase[w] # "claimed"}

\* Mutant: one permit too many.
FreeOneMore(t) == Cardinality(Holders(t)) <= caps[t[1]][t[2]]

Free(t) == Cardinality(Holders(t)) < caps[t[1]][t[2]]

\* available_permits() = 0: tokio hands a released permit to who waits for it.
Saturated ==
    {k \in Handled :
        Cardinality({w \in Workers : ticket[w] = <<k, Len(caps[k])>>})
            >= caps[k][Len(caps[k])]}

PoolInit ==
    /\ Init
    /\ desired = InitialSize
    /\ next_id = InitialSize
    /\ at = [w \in Workers |-> IF w < InitialSize THEN "top" ELSE "unborn"]
    /\ skip = [w \in Workers |-> {}]
    /\ ticket = [w \in Workers |-> NoTicket]
    /\ caps = [k \in Kinds |-> <<InitialCap>>]
    /\ gate = FALSE
    /\ resizes = 0 /\ scans = 0 /\ pollErrors = 0
    /\ slipped = [w \in Workers |-> 0]
    /\ overdue = [w \in Workers |-> 0]

-----------------------------------------------------------------------------
(* Up to the claim. *)

\* Mutant: a draining worker hands the job it has claimed back to the queue.
ExitHandingBack(w) ==
    /\ w >= desired
    /\ at[w] = "working"
    /\ Pc(w, "gone")
    /\ Update(holder[w], Reclaimed(jobs[holder[w]]))
    /\ UNCHANGED <<nextId, up, phase, holder, faults, history,
                   desired, next_id, skip, ticket, caps, noise, leaks>>

\* The id is out of the window: seen at the top of the loop, or on the change
\* of the count that a parked or staggering worker also waits for.
Exit(w) ==
    /\ w >= desired
    /\ at[w] \in {"top", "parked", "stagger"}
    /\ Pc(w, "gone")
    /\ UNCHANGED <<vars, desired, next_id, skip, ticket, caps, noise, leaks>>

\* saturated_kinds(), straight after the last wait before the claim.
Snapshot(w) ==
    /\ Pc(w, "polling")
    /\ skip' = [skip EXCEPT ![w] = Saturated]

Top(w) ==
    /\ at[w] = "top"
    /\ w < desired
    /\ IF gate THEN Pc(w, "parked") /\ UNCHANGED skip ELSE Snapshot(w)
    /\ UNCHANGED <<vars, desired, next_id, ticket, caps, noise, leaks>>

\* The gate clears: worker 0 goes on, the others stagger.
Unpark(w) ==
    /\ at[w] = "parked"
    /\ ~gate
    /\ IF w > 0 THEN Pc(w, "stagger") /\ UNCHANGED skip ELSE Snapshot(w)
    /\ UNCHANGED <<vars, desired, next_id, ticket, caps, noise, leaks>>

\* The stagger is over.  The gate is not looked at again.
Resume(w) ==
    /\ at[w] = "stagger"
    /\ Snapshot(w)
    /\ UNCHANGED <<vars, desired, next_id, ticket, caps, noise, leaks>>

Polled(w, place) ==
    /\ at[w] = "polling"
    /\ Pc(w, place)
    /\ skip' = [skip EXCEPT ![w] = {}]

PoolClaim(w) ==
    /\ Claim(w, skip[w])
    /\ Polled(w, "working")
    /\ slipped' = [slipped EXCEPT ![w] = IF gate THEN @ + 1 ELSE @]
    /\ overdue' = [overdue EXCEPT ![w] = IF w >= desired THEN @ + 1 ELSE @]
    /\ UNCHANGED <<desired, next_id, ticket, caps, noise>>

PollEmpty(w) ==
    /\ Claimable(skip[w]) = {}
    /\ Polled(w, "top")
    /\ UNCHANGED <<vars, desired, next_id, ticket, caps, noise, leaks>>

PollError(w) ==
    /\ Room /\ pollErrors < MaxPollErrors
    /\ pollErrors' = pollErrors + 1
    /\ Polled(w, "top")
    /\ UNCHANGED <<vars, desired, next_id, ticket, caps, gate, resizes, scans, leaks>>

-----------------------------------------------------------------------------
(* From the claim to the end of the iteration, where the permit is dropped. *)

\* KindLimiter::acquire takes the semaphore that is in the map by now.
Acquire(w) ==
    /\ phase[w] = "claimed"
    /\ jobs[holder[w]].kind \in Handled
    /\ ticket[w] = NoTicket
    /\ LET k == jobs[holder[w]].kind
       IN  ticket' = [ticket EXCEPT ![w] = <<k, Len(caps[k])>>]
    /\ UNCHANGED <<vars, desired, next_id, at, skip, caps, noise, leaks>>

PoolStart(w) ==
    /\ ticket[w] # NoTicket
    /\ Free(ticket[w])
    /\ StartHandler(w)
    /\ UNCHANGED <<pool, noise, leaks>>

\* Steps that leave the worker in the middle of the iteration.
GoOn(w) ==
    /\ \/ \E outcome \in {"ok", "retryable", "terminal"} : FinishHandler(w, outcome)
       \/ MarkDead(w) \/ MarkDeadLost(w) \/ MarkExhausted(w)
    /\ UNCHANGED <<pool, noise, leaks>>

\* Mutant: the permit outlives the iteration.
GoRoundKeepingPermit(w) ==
    /\ MarkSucceeded(w) \/ MarkFailed(w) \/ MarkLost(w) \/ Alert(w)
    /\ Pc(w, "top")
    /\ UNCHANGED <<desired, next_id, skip, ticket, caps, noise, leaks>>

\* Mutant: after a job the worker goes straight for the next one.
GoRoundUnchecked(w) ==
    /\ MarkSucceeded(w) \/ MarkFailed(w) \/ MarkLost(w) \/ Alert(w)
    /\ ticket' = [ticket EXCEPT ![w] = NoTicket]
    /\ Pc(w, "polling")
    /\ UNCHANGED <<desired, next_id, skip, caps, noise, leaks>>

\* Steps that end it.
GoRound(w) ==
    /\ MarkSucceeded(w) \/ MarkFailed(w) \/ MarkLost(w) \/ Alert(w)
    /\ ticket' = [ticket EXCEPT ![w] = NoTicket]
    /\ Pc(w, "top")
    /\ UNCHANGED <<desired, next_id, skip, caps, noise, leaks>>

PoolWork(w) ==
    \/ Exit(w) \/ Top(w) \/ Unpark(w) \/ Resume(w)
    \/ PoolClaim(w) \/ PollEmpty(w) \/ PollError(w)
    \/ Acquire(w) \/ PoolStart(w) \/ GoOn(w) \/ GoRound(w)

-----------------------------------------------------------------------------
(* Admin settings, scans, the process. *)

\* resize clamps to at least one worker (and to at most 32).
ClampedSize(n) == IF n < 1 THEN 1 ELSE n

\* WorkerPoolHandle::resize: publish the count; growing spawns the difference,
\* with fresh ids.
Resize(n) ==
    /\ up
    /\ Room /\ resizes < MaxResizes
    /\ ClampedSize(n) # desired
    /\ LET born == IF ClampedSize(n) > desired THEN ClampedSize(n) - desired ELSE 0
       IN  /\ \A w \in next_id..(next_id + born - 1) : w \in Workers
           /\ next_id' = next_id + born
           /\ at' = [w \in Workers |->
                        IF w \in next_id..(next_id + born - 1) THEN "top" ELSE at[w]]
    /\ desired' = ClampedSize(n)
    /\ overdue' = [w \in Workers |-> IF w < ClampedSize(n) THEN 0 ELSE overdue[w]]
    /\ resizes' = resizes + 1
    /\ UNCHANGED <<vars, skip, ticket, caps, gate, scans, pollErrors, slipped>>

\* KindLimiter::resize, also for an unchanged cap.
ResizeKind(k, n) ==
    /\ up
    /\ Room /\ resizes < MaxResizes
    /\ caps' = [caps EXCEPT ![k] = Append(@, IF n < 1 THEN 1 ELSE n)]
    /\ resizes' = resizes + 1
    /\ UNCHANGED <<vars, desired, next_id, at, skip, ticket, gate, scans, pollErrors, leaks>>

RaiseGate ==
    /\ up
    /\ ~gate
    /\ Room /\ scans < MaxScans
    /\ gate' = TRUE
    /\ scans' = scans + 1
    /\ slipped' = [w \in Workers |-> 0]
    /\ UNCHANGED <<vars, pool, resizes, pollErrors, overdue>>

LowerGate ==
    /\ gate
    /\ gate' = FALSE
    /\ UNCHANGED <<vars, pool, resizes, scans, pollErrors, leaks>>

\* The pool lives in memory, the settings in the database.
PoolCrash ==
    /\ Room
    /\ Crash
    /\ at' = [w \in Workers |-> "unborn"]
    /\ skip' = [w \in Workers |-> {}]
    /\ ticket' = [w \in Workers |-> NoTicket]
    /\ gate' = FALSE
    /\ UNCHANGED <<desired, next_id, caps, resizes, scans, pollErrors, leaks>>

\* start() with the stored size and the registry's caps; main.rs applies the
\* stored caps when the workers are already running, as a ResizeKind.
PoolBoot ==
    /\ Boot \/ BootUnreclaimed
    /\ next_id' = desired
    /\ at' = [w \in Workers |-> IF w < desired THEN "top" ELSE "unborn"]
    /\ caps' = [k \in Kinds |-> <<InitialCap>>]
    /\ overdue' = [w \in Workers |-> 0]
    /\ UNCHANGED <<desired, skip, ticket, noise, slipped>>

Outside ==
    /\ \/ \E k \in Kinds, t \in Targets, p \in Priorities :
             Enqueue(k, t, p) \/ EnqueueUnique(k, t, p)
       \/ \E j \in Ids : BackoffElapses(j)
       \/ Admin
    /\ UNCHANGED <<pool, noise, leaks>>

PoolNext ==
    \/ \E w \in Workers : PoolWork(w)
    \/ \E n \in Sizes : Resize(n)
    \/ \E k \in Kinds, n \in Caps : ResizeKind(k, n)
    \/ RaiseGate \/ LowerGate
    \/ PoolCrash \/ PoolBoot
    \/ Outside

PoolSpec == PoolInit /\ [][PoolNext]_poolVars

\* tokio runs every live worker and its timers, a scan ends (its guard lowers
\* the gate on every exit path), a crash is followed by a restart.
PoolFairSpec ==
    /\ PoolSpec
    /\ \A w \in Workers : WF_poolVars(PoolWork(w))
    /\ \A j \in Ids : WF_poolVars(BackoffElapses(j) /\ UNCHANGED <<pool, noise, leaks>>)
    /\ WF_poolVars(LowerGate)
    /\ WF_poolVars(PoolBoot)

-----------------------------------------------------------------------------
(* Properties. *)

\* The pool only decides who claims and when: whatever it does, the queue sees
\* its own steps, so everything shown of JobQueue holds under the pool.
PoolIsAQueue == Init /\ [][Next]_vars

\* A worker claims at most once while a scan holds the gate: it looked before
\* the scan raised it, or came out of its stagger (jobs/mod.rs:433-469).
OneClaimPerScan == \A w \in Workers : gate => slipped[w] <= 1

\* A worker whose id fell out of the window claims at most one more job before
\* it drains (jobs/mod.rs:413-422).
OneClaimAfterShrink == \A w \in Workers : overdue[w] <= 1

\* A worker that should have stopped, for a scan or for a shrink, takes one job
\* more at most.
OneLateClaim == OneClaimPerScan /\ OneClaimAfterShrink

\* A handler runs only on a permit, and never more on one semaphore than its
\* cap; the worker holds the permit of the kind of its job.
PermitsRespected ==
    \A w \in Workers : phase[w] \in {"handling", "ok", "retryable", "terminal"} =>
        /\ ticket[w] # NoTicket
        /\ ticket[w][1] = jobs[holder[w]].kind
        /\ Cardinality(Holders(ticket[w])) <= caps[ticket[w][1]][ticket[w][2]]

\* A worker away from "working" owns no row and holds no permit: whatever makes
\* it exit or park, it takes neither a job nor a permit with it.
NothingLeaksOnExit ==
    \A w \in Workers :
        /\ at[w] = "working" <=> phase[w] \in Owning \cup {"alerting"}
        /\ at[w] # "working" => ticket[w] = NoTicket

\* Permits, claims and places in the loop go together on every way out.
NothingLeaks == PoolTypeOK /\ PermitsRespected /\ NothingLeaksOnExit

\* Every row is worked off under resizes, scans and caps, too.
PoolSettlesJobs == EveryJobSettles
=============================================================================
