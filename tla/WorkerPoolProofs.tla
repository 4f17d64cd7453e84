--------------------------- MODULE WorkerPoolProofs ---------------------------
(***************************************************************************)
(* Proofs about modules JobQueue and WorkerPool.  The first part is about  *)
(* the queue by itself: any number of workers, jobs and faults, every set  *)
(* of kinds and every budget.  The second is about the pool, for any       *)
(* number of resizes and scans and any cap: that the pool is a queue comes *)
(* first, and with it the invariants of the first part hold under the pool *)
(* as they stand.                                                          *)
(***************************************************************************)
EXTENDS WorkerPool, FiniteSetTheorems, TLAPS

-----------------------------------------------------------------------------
(* What the SET clauses do to a row. *)

\* The row that stands for "no row" is a row, and is not live.
LEMMA NoRowType ==
  /\ NoRow \in Row
  /\ NoRow.status = "absent" /\ NoRow.attempts = 0
  /\ NoRow.locked = FALSE /\ NoRow.finished = FALSE
  BY DataAssumption DEF NoRow, Row, Status

\* A fresh row is queued, with its whole budget.
LEMMA NewRowType ==
  ASSUME NEW k \in Kinds, NEW t \in Targets, NEW p \in Priorities
  PROVE  /\ NewRow(k, t, p) \in Row
         /\ NewRow(k, t, p).status = "queued" /\ NewRow(k, t, p).attempts = 0
         /\ NewRow(k, t, p).kind = k /\ NewRow(k, t, p).target = t
         /\ NewRow(k, t, p).locked = FALSE /\ NewRow(k, t, p).finished = FALSE
  BY DEF NewRow, Row, Status

\* No SET clause touches the key of a row, and each yields the status it names.
LEMMA DueRow ==
  ASSUME NEW r \in Row
  PROVE  /\ Due(r) \in Row
         /\ Due(r).status = r.status /\ Due(r).attempts = r.attempts
         /\ Due(r).kind = r.kind /\ Due(r).target = r.target
         /\ Due(r).locked = r.locked /\ Due(r).finished = r.finished
  BY DEF Due, Row, Status

\* The claim counts the attempt and takes the lock.
LEMMA ClaimedRow ==
  ASSUME NEW r \in Row
  PROVE  /\ Claimed(r) \in Row
         /\ Claimed(r).status = "running" /\ Claimed(r).attempts = r.attempts + 1
         /\ Claimed(r).kind = r.kind /\ Claimed(r).target = r.target
         /\ Claimed(r).locked = TRUE /\ Claimed(r).finished = r.finished
  <1>1. r.attempts + 1 \in Nat
    BY DEF Row
  <1> QED
    BY <1>1 DEF Claimed, Row, Status

\* The end of a job drops the lock and sets finished_at.
LEMMA SettledRow ==
  ASSUME NEW r \in Row, NEW s \in {"succeeded", "dead"}
  PROVE  /\ Settled(r, s) \in Row
         /\ Settled(r, s).status = s /\ Settled(r, s).attempts = r.attempts
         /\ Settled(r, s).kind = r.kind /\ Settled(r, s).target = r.target
         /\ Settled(r, s).locked = FALSE /\ Settled(r, s).finished = TRUE
  BY DEF Settled, Row, Status

\* A retryable failure drops the lock.
LEMMA BackedOffRow ==
  ASSUME NEW r \in Row
  PROVE  /\ BackedOff(r) \in Row
         /\ BackedOff(r).status = "failed" /\ BackedOff(r).attempts = r.attempts
         /\ BackedOff(r).kind = r.kind /\ BackedOff(r).target = r.target
         /\ BackedOff(r).locked = FALSE /\ BackedOff(r).finished = r.finished
  BY DEF BackedOff, Row, Status

\* The boot reclaim keeps the attempts.
LEMMA ReclaimedRow ==
  ASSUME NEW r \in Row
  PROVE  /\ Reclaimed(r) \in Row
         /\ Reclaimed(r).status = "queued" /\ Reclaimed(r).attempts = r.attempts
         /\ Reclaimed(r).kind = r.kind /\ Reclaimed(r).target = r.target
         /\ Reclaimed(r).locked = FALSE /\ Reclaimed(r).finished = r.finished
  BY DEF Reclaimed, Row, Status

\* An admin retry starts over.
LEMMA RequeuedRow ==
  ASSUME NEW r \in Row
  PROVE  /\ Requeued(r) \in Row
         /\ Requeued(r).status = "queued" /\ Requeued(r).attempts = 0
         /\ Requeued(r).kind = r.kind /\ Requeued(r).target = r.target
         /\ Requeued(r).locked = FALSE /\ Requeued(r).finished = FALSE
  BY DEF Requeued, Row, Status

-----------------------------------------------------------------------------
(* Type correctness, with what holder says of a worker past the claim. *)

HolderIsRow == \A w \in Workers : phase[w] \in Owning \cup {"alerting"} => holder[w] \in Ids

TypeInv == TypeOK /\ HolderIsRow

\* The three ways an action writes the table, a phase and a holder.
LEMMA UpdateFacts ==
  ASSUME TypeOK, NEW j \in Ids, NEW r \in Row, Update(j, r)
  PROVE  /\ jobs' \in [Ids -> Row]
         /\ jobs'[j] = r
         /\ \A i \in Ids : i # j => jobs'[i] = jobs[i]
  BY DEF TypeOK, Update

\* What an update does to each row.
LEMMA UpdateRows ==
  ASSUME TypeOK, NEW i \in Ids, NEW r, Update(i, r), NEW j \in Ids
  PROVE  jobs'[j] = IF j = i THEN r ELSE jobs[j]
  BY DEF TypeOK, Update

LEMMA GotoFacts ==
  ASSUME TypeOK, NEW w \in Workers, NEW p \in Phase, Goto(w, p)
  PROVE  /\ phase' \in [Workers -> Phase]
         /\ phase'[w] = p
         /\ \A v \in Workers : v # w => phase'[v] = phase[v]
  BY DEF TypeOK, Goto

LEMMA ReleaseFacts ==
  ASSUME TypeOK, NEW w \in Workers, Release(w)
  PROVE  /\ phase' \in [Workers -> Phase]
         /\ holder' \in [Workers -> 0..MaxJobs]
         /\ phase'[w] = "idle"
         /\ \A v \in Workers : v # w => phase'[v] = phase[v] /\ holder'[v] = holder[v]
  <1>1. 0 \in 0..MaxJobs
    BY BoundsAssumption
  <1> QED
    BY <1>1 DEF TypeOK, Release, Goto, Phase

\* Deleting rows leaves a table of rows.
LEMMA DeleteFacts ==
  ASSUME TypeOK, NEW S, Delete(S)
  PROVE  /\ jobs' \in [Ids -> Row]
         /\ \A i \in Ids : jobs'[i] = IF i \in S THEN NoRow ELSE jobs[i]
         /\ UNCHANGED <<nextId, up, phase, holder>>
         /\ UNCHANGED <<requeues, crashes, lostWrites, reclaims, revived, alerted>>
  BY NoRowType DEF TypeOK, Delete, faults, history

LEMMA InitType == Init => TypeInv
  BY NoRowType, BoundsAssumption
  DEF Init, TypeInv, TypeOK, HolderIsRow, Phase, Owning, Ids

\* Inserting a row.
LEMMA InsertType ==
  ASSUME TypeInv, NEW k \in Kinds, NEW t \in Targets, NEW p \in Priorities,
         Insert(k, t, p)
  PROVE  TypeInv'
  <1>1. nextId \in Ids /\ nextId' \in 1..(MaxJobs + 1)
    BY BoundsAssumption DEF TypeInv, TypeOK, Insert, Ids
  <1>2. jobs' \in [Ids -> Row]
    BY <1>1, NewRowType, UpdateFacts DEF TypeInv, Insert
  <1>3. UNCHANGED <<up, phase, holder, requeues, crashes, lostWrites,
                    reclaims, revived, alerted>>
    BY DEF Insert, faults, history
  <1> QED
    BY <1>1, <1>2, <1>3 DEF TypeInv, TypeOK, HolderIsRow

\* A backoff that ends.
LEMMA BackoffType ==
  ASSUME TypeInv, NEW j \in Ids, BackoffElapses(j)
  PROVE  TypeInv'
  <1>0. jobs[j] \in Row
    BY DEF TypeInv, TypeOK
  <1>1. jobs' \in [Ids -> Row]
    BY <1>0, DueRow, UpdateFacts DEF TypeInv, BackoffElapses
  <1>2. UNCHANGED <<nextId, up, phase, holder, requeues, crashes, lostWrites,
                    reclaims, revived, alerted>>
    BY DEF BackoffElapses, faults, history
  <1> QED
    BY <1>1, <1>2 DEF TypeInv, TypeOK, HolderIsRow

\* The steps of a worker.
LEMMA WorkType ==
  ASSUME TypeInv, NEW w \in Workers, Work(w)
  PROVE  TypeInv'
  <1> USE DEF TypeInv
  <1>1. ASSUME NEW X \in SUBSET Kinds, NEW j \in Ids, ClaimRow(w, j, X)
        PROVE  TypeInv'
    <2>1. jobs' \in [Ids -> Row]
      BY <1>1, ClaimedRow, UpdateFacts DEF TypeOK, ClaimRow
    <2>2. holder' \in [Workers -> 0..MaxJobs] /\ holder'[w] = j
      BY <1>1 DEF TypeOK, ClaimRow, Ids
    <2>3. \A v \in Workers : v # w => holder'[v] = holder[v]
      BY <1>1 DEF TypeOK, ClaimRow
    <2>4. /\ phase' \in [Workers -> Phase]
          /\ \A v \in Workers : v # w => phase'[v] = phase[v]
      BY <1>1, GotoFacts DEF ClaimRow, Phase, Owning
    <2>5. UNCHANGED <<nextId, up, requeues, crashes, lostWrites,
                      reclaims, revived, alerted>>
      BY <1>1 DEF ClaimRow, faults, history
    <2> QED
      BY <2>1, <2>2, <2>3, <2>4, <2>5 DEF TypeOK, HolderIsRow
  <1>2. ASSUME MarkDead(w) \/ MarkExhausted(w)
        PROVE  TypeInv'
    <2>1. holder[w] \in Ids
      BY <1>2 DEF MarkDead, MarkExhausted, HolderIsRow, Owning
    <2>2. jobs' \in [Ids -> Row]
      BY <1>2, <2>1, SettledRow, UpdateFacts DEF TypeOK, MarkDead, MarkExhausted
    <2>3. /\ phase' \in [Workers -> Phase]
          /\ \A v \in Workers : v # w => phase'[v] = phase[v]
      BY <1>2, GotoFacts DEF MarkDead, MarkExhausted, Phase
    <2>4. UNCHANGED <<nextId, up, holder, requeues, crashes, lostWrites,
                      reclaims, revived, alerted>>
      BY <1>2 DEF MarkDead, MarkExhausted, faults, history
    <2> QED
      BY <2>1, <2>2, <2>3, <2>4 DEF TypeOK, HolderIsRow
  <1>3. ASSUME MarkSucceeded(w) \/ MarkFailed(w)
        PROVE  TypeInv'
    <2>1. holder[w] \in Ids
      BY <1>3 DEF MarkSucceeded, MarkFailed, HolderIsRow, Owning
    <2>2. jobs' \in [Ids -> Row]
      <3>1. /\ Settled(jobs[holder[w]], "succeeded") \in Row
            /\ BackedOff(jobs[holder[w]]) \in Row
        BY <2>1, SettledRow, BackedOffRow DEF TypeOK
      <3> QED
        BY <1>3, <2>1, <3>1, UpdateFacts DEF MarkSucceeded, MarkFailed
    <2>3. UNCHANGED <<nextId, up, requeues, crashes, lostWrites,
                      reclaims, revived, alerted>>
      BY <1>3 DEF MarkSucceeded, MarkFailed, faults, history
    <2>4. Release(w)
      BY <1>3 DEF MarkSucceeded, MarkFailed
    <2> QED
      BY <2>2, <2>3, <2>4, ReleaseFacts DEF TypeOK, HolderIsRow, Owning
  <1>4. ASSUME \/ StartHandler(w)
               \/ \E outcome \in {"ok", "retryable", "terminal"} : FinishHandler(w, outcome)
        PROVE  TypeInv'
    BY <1>4 DEF TypeOK, HolderIsRow, StartHandler, FinishHandler, Goto,
                Phase, Owning, table, faults, history
  <1>5. ASSUME MarkDeadLost(w)
        PROVE  TypeInv'
    BY <1>5, BoundsAssumption
    DEF TypeOK, HolderIsRow, MarkDeadLost, Goto, Phase, Owning, table, history
  <1>6. ASSUME MarkLost(w) \/ Alert(w)
        PROVE  TypeInv'
    <2>1. Release(w)
      BY <1>6 DEF MarkLost, Alert
    <2>2. lostWrites' \in 0..MaxLostWrites /\ alerted' \subseteq Ids
      BY <1>6, BoundsAssumption
      DEF TypeOK, HolderIsRow, MarkLost, Alert, faults, history
    <2>3. UNCHANGED <<jobs, nextId, up, requeues, crashes, reclaims, revived>>
      BY <1>6 DEF MarkLost, Alert, table, faults, history
    <2> QED
      BY <2>1, <2>2, <2>3, ReleaseFacts DEF TypeOK, HolderIsRow, Owning
  <1> QED
    BY <1>1, <1>2, <1>3, <1>4, <1>5, <1>6 DEF Work, Claim

\* The admin endpoints and the cleanup task.
LEMMA AdminType ==
  ASSUME TypeInv, Admin
  PROVE  TypeInv'
  <1> USE DEF TypeInv
  <1>1. ASSUME NEW j \in Ids, Requeue(j)
        PROVE  TypeInv'
    <2>1. jobs' \in [Ids -> Row]
      BY <1>1, RequeuedRow, UpdateFacts DEF TypeOK, Requeue
    <2>2. requeues' \in 0..MaxRequeues
      BY <1>1, BoundsAssumption DEF TypeOK, Requeue
    <2>3. /\ revived' \subseteq Ids
          /\ alerted' \subseteq Ids
          /\ reclaims' \in [Ids -> Nat]
      BY <1>1 DEF TypeOK, Requeue
    <2>4. UNCHANGED <<nextId, up, phase, holder, crashes, lostWrites>>
      BY <1>1 DEF Requeue
    <2> QED
      BY <2>1, <2>2, <2>3, <2>4 DEF TypeOK, HolderIsRow
  <1>2. ASSUME NEW S, Delete(S)
        PROVE  TypeInv'
    BY <1>2, DeleteFacts DEF TypeOK, HolderIsRow
  <1> QED
    BY <1>1, <1>2 DEF Admin, WipeQueued, ClearDead, CleanupOld

\* The death of the process and its restart.
LEMMA ProcessType ==
  ASSUME TypeInv, Crash \/ Boot \/ BootUnreclaimed
  PROVE  TypeInv'
  <1> USE DEF TypeInv
  <1>1. CASE Crash
    <2>0. crashes \in Nat /\ crashes + 1 <= MaxCrashes /\ 0 \in 0..MaxJobs
      BY <1>1, BoundsAssumption DEF Crash, TypeOK
    <2>1. /\ crashes' \in 0..MaxCrashes
          /\ up' \in BOOLEAN
      <3>1. crashes' = crashes + 1 /\ up' = FALSE
        BY <1>1 DEF Crash
      <3>2. crashes + 1 \in 0..MaxCrashes
        BY <2>0, BoundsAssumption
      <3> QED
        BY <3>1, <3>2
    <2>2. /\ phase' \in [Workers -> Phase]
          /\ holder' \in [Workers -> 0..MaxJobs]
      BY <1>1, <2>0 DEF Crash, Phase
    <2>3. HolderIsRow'
      BY <1>1 DEF Crash, HolderIsRow, Owning
    <2>4. UNCHANGED <<jobs, nextId, requeues, lostWrites, reclaims, revived, alerted>>
      BY <1>1 DEF Crash, table, history
    <2> QED
      BY <2>1, <2>2, <2>3, <2>4 DEF TypeOK
  <1>2. CASE Boot
    <2>1. jobs' \in [Ids -> Row]
      BY <1>2, ReclaimedRow DEF Boot, TypeOK
    <2>2. reclaims' \in [Ids -> Nat]
      BY <1>2 DEF Boot, TypeOK
    <2>3. up' \in BOOLEAN /\ phase' \in [Workers -> Phase] /\ HolderIsRow'
      BY <1>2 DEF Boot, HolderIsRow, Phase, Owning
    <2>4. UNCHANGED <<nextId, holder, requeues, crashes, lostWrites, revived, alerted>>
      BY <1>2 DEF Boot, faults
    <2> QED
      BY <2>1, <2>2, <2>3, <2>4 DEF TypeOK
  <1>3. CASE BootUnreclaimed
    BY <1>3, BoundsAssumption
    DEF BootUnreclaimed, TypeOK, HolderIsRow, Phase, Owning, table, history
  <1> QED
    BY <1>1, <1>2, <1>3

LEMMA NextType ==
  ASSUME TypeInv, [Next]_vars
  PROVE  TypeInv'
  <1>1. CASE Next
    BY <1>1, InsertType, BackoffType, WorkType, AdminType, ProcessType
    DEF Next, Enqueue, EnqueueUnique
  <1>2. CASE UNCHANGED vars
    BY <1>2 DEF TypeInv, TypeOK, HolderIsRow, vars, faults, history
  <1> QED
    BY <1>1, <1>2

\* Every reachable state of the queue is well typed.
THEOREM TypeCorrect == Spec => []TypeOK
  <1>1. Spec => []TypeInv
    BY InitType, NextType, PTL DEF Spec
  <1> QED
    BY <1>1, PTL DEF TypeInv

-----------------------------------------------------------------------------
(* Ownership.  ExclusiveOwnership is not inductive alone: an insert must not *)
(* land on an owned row, so ids not yet issued have no row.                  *)

Fresh == \A j \in Ids : j >= nextId => jobs[j].status = "absent"

OwnershipInv == TypeInv /\ Fresh /\ ExclusiveOwnership

LEMMA InitOwnership == Init => OwnershipInv
  <1> SUFFICES ASSUME Init PROVE OwnershipInv
    OBVIOUS
  <1>1. TypeInv
    BY InitType
  <1>2. Fresh
    BY NoRowType DEF Init, Fresh
  <1>3. ExclusiveOwnership
    BY DEF Init, ExclusiveOwnership, Owning
  <1> QED
    BY <1>1, <1>2, <1>3 DEF OwnershipInv

\* A step that no worker takes and that leaves running rows running.
LEMMA BystanderStep ==
  ASSUME OwnershipInv, UNCHANGED <<phase, holder>>,
         \A j \in Ids : jobs[j].status = "running" => jobs'[j].status = "running"
  PROVE  ExclusiveOwnership'
  BY DEF OwnershipInv, TypeInv, HolderIsRow, ExclusiveOwnership, Owns

\* A step after which w owns nothing and in which only w's row may stop running.
LEMMA DisownStep ==
  ASSUME OwnershipInv, NEW w \in Workers, phase'[w] \notin Owning,
         \A v \in Workers : v # w => phase'[v] = phase[v] /\ holder'[v] = holder[v],
         \A j \in Ids : j # holder[w] \/ phase[w] \notin Owning =>
            (jobs[j].status = "running" => jobs'[j].status = "running")
  PROVE  ExclusiveOwnership'
  <1> SUFFICES ASSUME NEW v \in Workers, phase'[v] \in Owning
               PROVE  /\ jobs'[holder'[v]].status = "running"
                      /\ \A u \in Workers \ {v} : ~Owns(u, holder[v])'
    BY DEF ExclusiveOwnership, Owns
  <1>1. v # w /\ phase[v] \in Owning /\ holder'[v] = holder[v] /\ holder[v] \in Ids
    BY DEF OwnershipInv, TypeInv, HolderIsRow
  <1>2. jobs[holder[v]].status = "running" /\ ~Owns(w, holder[v])
    BY <1>1 DEF OwnershipInv, ExclusiveOwnership
  <1>3. jobs'[holder'[v]].status = "running"
    BY <1>1, <1>2 DEF Owns
  <1>4. \A u \in Workers \ {v} : ~Owns(u, holder[v])'
    BY <1>1 DEF OwnershipInv, ExclusiveOwnership, Owns
  <1> QED
    BY <1>3, <1>4

\* The steps of a worker keep ownership.
LEMMA WorkOwnership ==
  ASSUME OwnershipInv, NEW w \in Workers, Work(w)
  PROVE  ExclusiveOwnership' /\ Fresh'
  <1> USE DEF OwnershipInv, TypeInv
  <1>0. TypeOK /\ HolderIsRow /\ nextId \in Nat
    BY BoundsAssumption DEF TypeOK
  <1>1. ASSUME NEW X \in SUBSET Kinds, NEW j \in Ids, ClaimRow(w, j, X)
        PROVE  ExclusiveOwnership' /\ Fresh'
    <2>1. /\ jobs[j].status \in {"queued", "failed"}
          /\ jobs'[j].status = "running"
          /\ \A i \in Ids : i # j => jobs'[i] = jobs[i]
      <3>1. jobs[j] \in Row /\ Update(j, Claimed(jobs[j])) /\ j \in Claimable(X)
        BY <1>1 DEF TypeOK, ClaimRow
      <3>2. Claimed(jobs[j]) \in Row /\ Claimed(jobs[j]).status = "running"
        BY <3>1, ClaimedRow
      <3> QED
        BY <3>1, <3>2, UpdateFacts DEF Claimable
    <2>2. /\ holder'[w] = j
          /\ \A v \in Workers : v # w => holder'[v] = holder[v]
      BY <1>1 DEF TypeOK, ClaimRow
    <2>3. /\ phase[w] = "idle"
          /\ phase'[w] = "claimed"
          /\ \A v \in Workers : v # w => phase'[v] = phase[v]
      BY <1>1, GotoFacts DEF ClaimRow, Phase, Owning
    <2>4. \A v \in Workers : phase[v] \in Owning => holder[v] # j
      BY <2>1 DEF ExclusiveOwnership
    <2>5. ExclusiveOwnership'
      BY <2>1, <2>2, <2>3, <2>4, <1>0 DEF ExclusiveOwnership, Owns, HolderIsRow, Owning
    <2>6. Fresh'
      BY <1>1, <2>1 DEF Fresh, ClaimRow
    <2> QED
      BY <2>5, <2>6
  <1>2. ASSUME MarkDead(w) \/ MarkExhausted(w) \/ MarkSucceeded(w) \/ MarkFailed(w)
        PROVE  ExclusiveOwnership' /\ Fresh'
    <2>1. phase[w] \in Owning /\ holder[w] \in Ids /\ nextId' = nextId
      BY <1>2 DEF MarkDead, MarkExhausted, MarkSucceeded, MarkFailed, HolderIsRow, Owning
    <2>2. jobs[holder[w]] \in Row /\ jobs[holder[w]].status = "running"
      BY <2>1 DEF TypeOK, ExclusiveOwnership
    <2>3. \A i \in Ids : i # holder[w] => jobs'[i] = jobs[i]
      BY <1>2, <2>1, <2>2, SettledRow, BackedOffRow, UpdateFacts
      DEF MarkDead, MarkExhausted, MarkSucceeded, MarkFailed
    <2>4. /\ phase'[w] \notin Owning
          /\ \A v \in Workers : v # w => phase'[v] = phase[v] /\ holder'[v] = holder[v]
      BY <1>2, GotoFacts, ReleaseFacts
      DEF MarkDead, MarkExhausted, MarkSucceeded, MarkFailed, Phase, Owning
    <2>5. ExclusiveOwnership'
      BY <2>1, <2>3, <2>4, DisownStep
    <2>6. Fresh'
      BY <2>1, <2>2, <2>3 DEF Fresh
    <2> QED
      BY <2>5, <2>6
  <1>3. ASSUME \/ StartHandler(w)
               \/ \E outcome \in {"ok", "retryable", "terminal"} : FinishHandler(w, outcome)
        PROVE  ExclusiveOwnership' /\ Fresh'
    <2>1. UNCHANGED <<jobs, nextId, holder>>
      BY <1>3 DEF StartHandler, FinishHandler, table
    <2>2. \A v \in Workers : phase'[v] \in Owning <=> phase[v] \in Owning
      BY <1>3, <1>0 DEF StartHandler, FinishHandler, Goto, TypeOK, Owning
    <2> QED
      BY <2>1, <2>2 DEF ExclusiveOwnership, Owns, Fresh
  <1>4. ASSUME MarkDeadLost(w) \/ MarkLost(w) \/ Alert(w)
        PROVE  ExclusiveOwnership' /\ Fresh'
    <2>1. UNCHANGED <<jobs, nextId>>
      BY <1>4 DEF MarkDeadLost, MarkLost, Alert, table
    <2>2. /\ phase'[w] \notin Owning
          /\ \A v \in Workers : v # w => phase'[v] = phase[v] /\ holder'[v] = holder[v]
      BY <1>4, GotoFacts, ReleaseFacts DEF MarkDeadLost, MarkLost, Alert, Phase, Owning
    <2> QED
      BY <2>1, <2>2, DisownStep DEF Fresh
  <1> QED
    BY <1>1, <1>2, <1>3, <1>4 DEF Work, Claim

\* The other steps keep it too.
LEMMA NextOwnership ==
  ASSUME OwnershipInv, [Next]_vars
  PROVE  OwnershipInv'
  <1> USE DEF OwnershipInv
  <1>0. TypeInv' /\ TypeOK /\ HolderIsRow /\ nextId \in Nat
    BY NextType, BoundsAssumption DEF TypeInv, TypeOK
  <1>1. ASSUME NEW k \in Kinds, NEW t \in Targets, NEW p \in Priorities, Insert(k, t, p)
        PROVE  ExclusiveOwnership' /\ Fresh'
    <2>1. nextId \in Ids /\ nextId' = nextId + 1 /\ UNCHANGED <<phase, holder>>
      BY <1>1, <1>0, BoundsAssumption DEF Insert, Ids, TypeOK
    <2>2. \A i \in Ids : i # nextId => jobs'[i] = jobs[i]
      BY <1>1, <1>0, <2>1, NewRowType, UpdateFacts DEF Insert
    <2>3. jobs[nextId].status = "absent"
      BY <1>0, <2>1 DEF Fresh
    <2>4. ExclusiveOwnership'
      BY <2>1, <2>2, <2>3, BystanderStep
    <2>5. ASSUME NEW i \in Ids, i >= nextId'
          PROVE  jobs'[i].status = "absent"
      <3>1. i # nextId /\ i >= nextId
        BY <1>0, <2>1, <2>5 DEF Ids
      <3> QED
        BY <2>2, <3>1 DEF Fresh
    <2> QED
      BY <2>4, <2>5 DEF Fresh
  <1>2. ASSUME NEW j \in Ids, BackoffElapses(j) \/ Requeue(j)
        PROVE  ExclusiveOwnership' /\ Fresh'
    <2>1. /\ jobs[j].status \in {"failed", "dead"}
          /\ UNCHANGED <<nextId, phase, holder>>
      BY <1>2 DEF BackoffElapses, Requeue
    <2>2. Due(jobs[j]) \in Row /\ Requeued(jobs[j]) \in Row
      BY <1>0, DueRow, RequeuedRow DEF TypeOK
    <2>3. \A i \in Ids : i # j => jobs'[i] = jobs[i]
      BY <1>2, <1>0, <2>2, UpdateFacts DEF BackoffElapses, Requeue
    <2>4. ExclusiveOwnership'
      BY <2>1, <2>3, BystanderStep
    <2>5. Fresh'
      BY <2>1, <2>3 DEF Fresh
    <2> QED
      BY <2>4, <2>5
  <1>3. ASSUME NEW S, Delete(S), \A j \in S : jobs[j].status # "running"
        PROVE  ExclusiveOwnership' /\ Fresh'
    <2>1. /\ \A i \in Ids : jobs'[i] = IF i \in S THEN NoRow ELSE jobs[i]
          /\ UNCHANGED <<nextId, phase, holder>>
      BY <1>0, <1>3, DeleteFacts
    <2>2. ExclusiveOwnership'
      BY <1>3, <2>1, BystanderStep
    <2>3. Fresh'
      BY <2>1, NoRowType DEF Fresh
    <2> QED
      BY <2>2, <2>3
  <1>4. ASSUME Admin
        PROVE  ExclusiveOwnership' /\ Fresh'
    BY <1>2, <1>3, <1>4 DEF Admin, WipeQueued, ClearDead, CleanupOld, Terminal
  <1>5. ASSUME Crash \/ Boot \/ BootUnreclaimed
        PROVE  ExclusiveOwnership' /\ Fresh'
    <2>1. /\ nextId' = nextId
          /\ \A w \in Workers : phase'[w] \notin Owning
      BY <1>5 DEF Crash, Boot, BootUnreclaimed, table, Owning
    <2>2. ASSUME NEW i \in Ids, i >= nextId
          PROVE  jobs'[i].status = "absent"
      BY <1>5, <2>2 DEF Crash, Boot, BootUnreclaimed, table, Fresh, Running
    <2> QED
      BY <2>1, <2>2 DEF ExclusiveOwnership, Fresh
  <1>6. CASE Next
    BY <1>0, <1>1, <1>2, <1>4, <1>5, <1>6, WorkOwnership DEF Next, Enqueue, EnqueueUnique
  <1>7. CASE UNCHANGED vars
    BY <1>0, <1>7 DEF ExclusiveOwnership, Owns, Fresh, vars
  <1> QED
    BY <1>6, <1>7

\* At every moment a row is worked on by at most one worker, and it is marked
\* running for as long as it is: the outcome writes, which say only WHERE id =
\* ?, never hit a row another worker, an admin or a restart has moved on.
THEOREM OwnershipCorrect == Spec => []ExclusiveOwnership
  <1>1. Spec => []OwnershipInv
    BY InitOwnership, NextOwnership, PTL DEF Spec
  <1> QED
    BY <1>1, PTL DEF OwnershipInv

\* A step that makes no row an orphan, undoes no fault and is no restart.
LEMMA NoNewOrphan ==
  ASSUME TypeOK, OrphansOnlyAfterFaults, up' = up,
         lostWrites' \in Nat, lostWrites' >= lostWrites,
         \A j \in Ids : Orphan(j)' => Orphan(j)
  PROVE  OrphansOnlyAfterFaults'
  <1>1. lostWrites \in Nat
    BY BoundsAssumption DEF TypeOK
  <1> QED
    BY <1>1 DEF OrphansOnlyAfterFaults

\* A step of the others: workers stay where they are and nothing starts running.
LEMMA BystanderOrphans ==
  ASSUME TypeOK, OrphansOnlyAfterFaults, UNCHANGED <<up, phase, holder, lostWrites>>,
         \A j \in Ids : jobs'[j].status = "running" => jobs[j].status = "running"
  PROVE  OrphansOnlyAfterFaults'
  <1>1. lostWrites \in Nat
    BY BoundsAssumption DEF TypeOK
  <1>2. \A j \in Ids : Orphan(j)' => Orphan(j)
    BY DEF Orphan, Owns
  <1> QED
    BY <1>1, <1>2, NoNewOrphan

\* A worker leaves a row running only by losing its outcome write.
LEMMA WorkOrphans ==
  ASSUME OwnershipInv, OrphansOnlyAfterFaults, NEW w \in Workers, Work(w)
  PROVE  OrphansOnlyAfterFaults'
  <1> USE DEF OwnershipInv, TypeInv
  <1>0. /\ TypeOK /\ HolderIsRow /\ ExclusiveOwnership
        /\ lostWrites \in Nat /\ MaxLostWrites \in Nat
    BY BoundsAssumption DEF TypeOK
  <1>1. ASSUME NEW X \in SUBSET Kinds, NEW i \in Ids, ClaimRow(w, i, X)
        PROVE  OrphansOnlyAfterFaults'
    <2>1. /\ \A j \in Ids : j # i => jobs'[j] = jobs[j]
          /\ holder'[w] = i /\ phase'[w] = "claimed" /\ phase[w] = "idle"
          /\ \A v \in Workers : v # w => phase'[v] = phase[v] /\ holder'[v] = holder[v]
          /\ UNCHANGED <<up, lostWrites>>
      BY <1>0, <1>1, UpdateRows DEF TypeOK, ClaimRow, Goto, faults
    <2>2. Owns(w, i)' /\ \A j \in Ids : ~Owns(w, j)
      BY <2>1 DEF Owns, Owning
    <2>3. ASSUME NEW j \in Ids, Orphan(j)' PROVE Orphan(j)
      BY <2>1, <2>2, <2>3 DEF Orphan, Owns
    <2> QED
      BY <1>0, <2>1, <2>3, NoNewOrphan
  <1>2. ASSUME MarkDead(w) \/ MarkExhausted(w) \/ MarkSucceeded(w) \/ MarkFailed(w)
        PROVE  OrphansOnlyAfterFaults'
    <2>1. phase[w] \in Owning /\ holder[w] \in Ids /\ UNCHANGED <<up, lostWrites>>
      BY <1>2 DEF MarkDead, MarkExhausted, MarkSucceeded, MarkFailed, HolderIsRow,
                  Owning, faults
    <2>2. jobs'[holder[w]].status # "running"
      <3>1. /\ Settled(jobs[holder[w]], "dead").status = "dead"
            /\ Settled(jobs[holder[w]], "succeeded").status = "succeeded"
            /\ BackedOff(jobs[holder[w]]).status = "failed"
        BY <1>0, <2>1, SettledRow, BackedOffRow DEF TypeOK
      <3> QED
        BY <1>0, <1>2, <2>1, <3>1, UpdateRows
        DEF MarkDead, MarkExhausted, MarkSucceeded, MarkFailed
    <2>3. \A j \in Ids : j # holder[w] => jobs'[j] = jobs[j]
      BY <1>0, <1>2, <2>1, UpdateRows DEF MarkDead, MarkExhausted, MarkSucceeded, MarkFailed
    <2>4. \A v \in Workers : v # w => phase'[v] = phase[v] /\ holder'[v] = holder[v]
      BY <1>0, <1>2, GotoFacts, ReleaseFacts
      DEF MarkDead, MarkExhausted, MarkSucceeded, MarkFailed, Phase, Owning
    <2>5. ASSUME NEW j \in Ids, Orphan(j)' PROVE Orphan(j)
      BY <2>2, <2>3, <2>4, <2>5 DEF Orphan, Owns
    <2> QED
      BY <1>0, <2>1, <2>5, NoNewOrphan
  <1>3. ASSUME \/ StartHandler(w)
               \/ \E outcome \in {"ok", "retryable", "terminal"} : FinishHandler(w, outcome)
        PROVE  OrphansOnlyAfterFaults'
    <2>1. UNCHANGED <<jobs, holder, up, lostWrites>>
      BY <1>3 DEF StartHandler, FinishHandler, table, faults
    <2>2. \A v \in Workers : phase'[v] \in Owning <=> phase[v] \in Owning
      BY <1>3, <1>0 DEF StartHandler, FinishHandler, Goto, TypeOK, Owning
    <2> QED
      BY <1>0, <2>1, <2>2, NoNewOrphan DEF Orphan, Owns
  <1>4. ASSUME MarkDeadLost(w) \/ MarkLost(w)
        PROVE  OrphansOnlyAfterFaults'
    BY <1>0, <1>4 DEF MarkDeadLost, MarkLost, OrphansOnlyAfterFaults
  <1>5. ASSUME Alert(w)
        PROVE  OrphansOnlyAfterFaults'
    <2>1. /\ UNCHANGED <<jobs, up, lostWrites>>
          /\ phase[w] = "alerting"
          /\ \A v \in Workers : v # w => phase'[v] = phase[v] /\ holder'[v] = holder[v]
      BY <1>0, <1>5, ReleaseFacts DEF Alert, table, faults
    <2>2. ASSUME NEW j \in Ids, Orphan(j)' PROVE Orphan(j)
      BY <2>1, <2>2 DEF Orphan, Owns, Owning
    <2> QED
      BY <1>0, <2>1, <2>2, NoNewOrphan
  <1> QED
    BY <1>1, <1>2, <1>3, <1>4, <1>5 DEF Work, Claim

LEMMA NextOrphans ==
  ASSUME OwnershipInv, OrphansOnlyAfterFaults, [Next]_vars
  PROVE  OrphansOnlyAfterFaults'
  <1>0. /\ TypeOK /\ \A j \in Ids : jobs[j] \in Row
        /\ lostWrites \in Nat /\ MaxLostWrites \in Nat
    BY BoundsAssumption DEF OwnershipInv, TypeInv, TypeOK
  <1>1. ASSUME NEW k \in Kinds, NEW t \in Targets, NEW p \in Priorities, Insert(k, t, p)
        PROVE  OrphansOnlyAfterFaults'
    <2>1. /\ nextId \in Ids
          /\ \A j \in Ids : jobs'[j] = IF j = nextId THEN NewRow(k, t, p) ELSE jobs[j]
          /\ NewRow(k, t, p).status = "queued"
      <3>1. nextId \in Ids
        BY <1>0, <1>1, BoundsAssumption DEF TypeOK, Insert, Ids
      <3>2. NewRow(k, t, p).status = "queued"
        BY DEF NewRow
      <3>3. Update(nextId, NewRow(k, t, p))
        BY <1>1 DEF Insert
      <3>4. \A j \in Ids : jobs'[j] = IF j = nextId THEN NewRow(k, t, p) ELSE jobs[j]
        BY <1>0, <3>1, <3>3, UpdateRows
      <3> QED
        BY <3>1, <3>2, <3>4
    <2>2. UNCHANGED <<up, phase, holder, lostWrites>>
      BY <1>1 DEF Insert, faults
    <2> QED
      BY <1>0, <2>1, <2>2, BystanderOrphans
  <1>2. ASSUME NEW i \in Ids, BackoffElapses(i) \/ Requeue(i)
        PROVE  OrphansOnlyAfterFaults'
    <2>1. jobs[i].status \in {"failed", "dead"} /\ UNCHANGED <<up, phase, holder, lostWrites>>
      BY <1>2 DEF BackoffElapses, Requeue, faults
    <2>2. /\ Due(jobs[i]).status = jobs[i].status
          /\ Requeued(jobs[i]).status = "queued"
      BY <1>0, DueRow, RequeuedRow
    <2>3. \A j \in Ids : jobs'[j].status = "running" => jobs[j].status = "running"
      BY <1>0, <1>2, <2>1, <2>2, UpdateRows DEF BackoffElapses, Requeue
    <2> QED
      BY <1>0, <2>1, <2>3, BystanderOrphans
  <1>3. ASSUME NEW S, Delete(S)
        PROVE  OrphansOnlyAfterFaults'
    <2>1. /\ \A i \in Ids : jobs'[i] = IF i \in S THEN NoRow ELSE jobs[i]
          /\ UNCHANGED <<up, phase, holder, lostWrites>>
      BY <1>0, <1>3, DeleteFacts
    <2> QED
      BY <1>0, <2>1, NoRowType, BystanderOrphans
  <1>4. ASSUME Admin
        PROVE  OrphansOnlyAfterFaults'
    BY <1>2, <1>3, <1>4 DEF Admin, WipeQueued, ClearDead, CleanupOld
  <1>5. CASE Boot
    <2>1. ASSUME NEW j \in Ids PROVE jobs'[j].status # "running"
      <3>1. jobs'[j] = IF j \in Running THEN Reclaimed(jobs[j]) ELSE jobs[j]
        BY <1>5 DEF Boot
      <3> QED
        BY <1>0, <3>1, ReclaimedRow DEF Running
    <2> QED
      BY <2>1 DEF OrphansOnlyAfterFaults, Orphan
  <1>6. CASE Crash \/ BootUnreclaimed
    BY <1>0, <1>6 DEF Crash, BootUnreclaimed, OrphansOnlyAfterFaults
  <1>7. CASE UNCHANGED vars
    BY <1>0, <1>7, BystanderOrphans DEF vars, faults
  <1> QED
    BY <1>1, <1>2, <1>4, <1>5, <1>6, <1>7, WorkOrphans DEF Next, Enqueue, EnqueueUnique

\* Rows and workers belong together: each worker's row is its own and running,
\* and a running row has a worker unless the process died under it or an
\* outcome write was lost for good.
THEOREM OwnersKeptCorrect == Spec => []OwnersKept
  <1>1. Init => OrphansOnlyAfterFaults
    BY NoRowType DEF Init, OrphansOnlyAfterFaults, Orphan
  <1>2. OwnershipInv /\ OrphansOnlyAfterFaults => OwnersKept
    BY DEF OwnershipInv, OwnersKept
  <1> QED
    BY <1>1, <1>2, InitOwnership, NextOwnership, NextOrphans, PTL DEF Spec

-----------------------------------------------------------------------------
(* The alert of a death. *)

\* The process is only down after it died.
DownAfterCrash == up \/ crashes > 0

LEMMA NextDown ==
  ASSUME TypeOK, DownAfterCrash, [Next]_vars
  PROVE  DownAfterCrash'
  <1>0. crashes \in Nat
    BY BoundsAssumption DEF TypeOK
  <1>1. ASSUME NEW w \in Workers, Work(w)
        PROVE  UNCHANGED <<up, crashes>>
    BY <1>1 DEF Work, Claim, ClaimRow, StartHandler, FinishHandler, MarkDead, MarkSucceeded,
                MarkFailed, MarkExhausted, MarkDeadLost, MarkLost, Alert, faults
  <1>2. CASE \/ Admin
             \/ \E j \in Ids : BackoffElapses(j)
             \/ \E k \in Kinds, t \in Targets, p \in Priorities :
                  Enqueue(k, t, p) \/ EnqueueUnique(k, t, p)
    BY <1>2 DEF DownAfterCrash, Admin, Requeue, WipeQueued, ClearDead, CleanupOld, Delete,
                BackoffElapses, Enqueue, EnqueueUnique, Insert, faults
  <1>3. CASE Crash \/ Boot \/ BootUnreclaimed \/ UNCHANGED vars
    BY <1>0, <1>3 DEF DownAfterCrash, Crash, Boot, BootUnreclaimed, vars, faults
  <1> QED
    BY <1>1, <1>2, <1>3 DEF Next, DownAfterCrash

\* A death and its alert: nothing comes between the two but a crash.
LEMMA NextAlerted ==
  ASSUME OwnershipInv, DownAfterCrash, NoSilentDeath, [Next]_vars
  PROVE  NoSilentDeath'
  <1> USE DEF OwnershipInv, TypeInv
  <1>0. /\ TypeOK /\ HolderIsRow /\ \A j \in Ids : jobs[j] \in Row
        /\ crashes \in Nat
    BY BoundsAssumption DEF TypeOK
  \* Nobody who is alerting is disturbed and no row dies.
  <1>a. ASSUME UNCHANGED <<phase, holder, crashes, alerted>>,
               \A j \in Ids : jobs'[j].status = "dead" => jobs[j].status = "dead"
        PROVE  NoSilentDeath'
    BY <1>a DEF NoSilentDeath
  <1>1. ASSUME NEW k \in Kinds, NEW t \in Targets, NEW p \in Priorities, Insert(k, t, p)
        PROVE  NoSilentDeath'
    <2>1. /\ \A j \in Ids : jobs'[j] = IF j = nextId THEN NewRow(k, t, p) ELSE jobs[j]
          /\ NewRow(k, t, p).status = "queued"
          /\ UNCHANGED <<phase, holder, crashes, alerted>>
      <3>1. nextId \in Ids
        BY <1>0, <1>1, BoundsAssumption DEF TypeOK, Insert, Ids
      <3>2. NewRow(k, t, p).status = "queued"
        BY DEF NewRow
      <3>3. Update(nextId, NewRow(k, t, p))
        BY <1>1 DEF Insert
      <3>4. \A j \in Ids : jobs'[j] = IF j = nextId THEN NewRow(k, t, p) ELSE jobs[j]
        BY <1>0, <3>1, <3>3, UpdateRows
      <3> QED
        BY <1>1, <3>2, <3>4 DEF Insert, faults, history
    <2> QED
      BY <1>a, <2>1
  <1>2. ASSUME NEW i \in Ids, BackoffElapses(i)
        PROVE  NoSilentDeath'
    <2>1. /\ jobs[i].status = "failed" /\ Due(jobs[i]).status = jobs[i].status
          /\ \A j \in Ids : jobs'[j] = IF j = i THEN Due(jobs[i]) ELSE jobs[j]
          /\ UNCHANGED <<phase, holder, crashes, alerted>>
      BY <1>0, <1>2, DueRow, UpdateRows DEF BackoffElapses, faults, history
    <2> QED
      BY <1>a, <2>1
  <1>3. ASSUME NEW i \in Ids, Requeue(i)
        PROVE  NoSilentDeath'
    <2>1. /\ jobs'[i].status = "queued"
          /\ \A j \in Ids : j # i => jobs'[j] = jobs[j]
      <3>1. Requeued(jobs[i]).status = "queued" /\ Update(i, Requeued(jobs[i]))
        BY <1>0, <1>3, RequeuedRow DEF Requeue
      <3> QED
        BY <1>0, <3>1, UpdateRows
    <2>2. UNCHANGED <<phase, holder, crashes>> /\ alerted' = alerted \ {i}
      BY <1>3 DEF Requeue
    <2> QED
      BY <2>1, <2>2 DEF NoSilentDeath
  <1>4. ASSUME NEW S, Delete(S)
        PROVE  NoSilentDeath'
    <2>1. /\ \A i \in Ids : jobs'[i] = IF i \in S THEN NoRow ELSE jobs[i]
          /\ UNCHANGED <<phase, holder, crashes, alerted>>
      BY <1>0, <1>4, DeleteFacts
    <2> QED
      BY <1>a, <2>1, NoRowType
  <1>5. ASSUME Admin
        PROVE  NoSilentDeath'
    BY <1>3, <1>4, <1>5 DEF Admin, WipeQueued, ClearDead, CleanupOld
  <1>6. ASSUME NEW w \in Workers, Work(w)
        PROVE  NoSilentDeath'
    <2>1. crashes' = crashes
      BY <1>6 DEF Work, Claim, ClaimRow, StartHandler, FinishHandler, MarkDead,
                  MarkSucceeded, MarkFailed, MarkExhausted, MarkDeadLost,
                  MarkLost, Alert, faults
    <2>2. CASE phase[w] # "alerting"
      <3>1. alerted' = alerted
        BY <1>6, <2>2 DEF Work, Claim, ClaimRow, StartHandler, FinishHandler, MarkDead,
                  MarkSucceeded, MarkFailed, MarkExhausted, MarkDeadLost,
                  MarkLost, Alert, history
      <3>2. \A v \in Workers : v # w => phase'[v] = phase[v] /\ holder'[v] = holder[v]
        BY <1>0, <1>6, <2>2
        DEF Work, Claim, ClaimRow, StartHandler, FinishHandler, MarkDead,
            MarkSucceeded, MarkFailed, MarkExhausted, MarkDeadLost,
            MarkLost, Alert, TypeOK, Goto, Release
      <3>3. ASSUME NEW j \in Ids, jobs'[j].status = "dead", jobs[j].status # "dead"
            PROVE  phase'[w] = "alerting" /\ holder'[w] = j
        <4>1. CASE MarkDead(w) \/ MarkExhausted(w)
          <5>1. holder[w] \in Ids /\ holder' = holder
            BY <1>0, <4>1 DEF MarkDead, MarkExhausted, HolderIsRow, Owning
          <5>2. j = holder[w]
            BY <1>0, <3>3, <4>1, <5>1, UpdateRows DEF MarkDead, MarkExhausted
          <5>3. phase'[w] = "alerting"
            BY <1>0, <4>1 DEF MarkDead, MarkExhausted, Goto, TypeOK
          <5> QED
            BY <5>1, <5>2, <5>3
        <4>2. CASE \E X \in SUBSET Kinds : Claim(w, X)
          <5>1. PICK X \in SUBSET Kinds, i \in Ids : ClaimRow(w, i, X)
            BY <4>2 DEF Claim
          <5>2. jobs'[j] = IF j = i THEN Claimed(jobs[i]) ELSE jobs[j]
            BY <1>0, <5>1, UpdateRows DEF ClaimRow
          <5>3. Claimed(jobs[i]).status = "running"
            BY <1>0, ClaimedRow
          <5> QED
            BY <3>3, <5>2, <5>3
        <4>3. CASE MarkSucceeded(w) \/ MarkFailed(w)
          <5>1. holder[w] \in Ids
            BY <1>0, <4>3 DEF MarkSucceeded, MarkFailed, HolderIsRow, Owning
          <5>2. /\ Settled(jobs[holder[w]], "succeeded").status = "succeeded"
                /\ BackedOff(jobs[holder[w]]).status = "failed"
            BY <1>0, <5>1, SettledRow, BackedOffRow
          <5> QED
            BY <1>0, <3>3, <4>3, <5>1, <5>2, UpdateRows DEF MarkSucceeded, MarkFailed
        <4>4. CASE UNCHANGED jobs
          BY <3>3, <4>4
        <4> QED
          BY <1>6, <2>2, <4>1, <4>2, <4>3, <4>4
          DEF Work, StartHandler, FinishHandler, MarkDeadLost, MarkLost, Alert, table
      <3> QED
        BY <2>1, <2>2, <3>1, <3>2, <3>3 DEF NoSilentDeath
    <2>3. CASE phase[w] = "alerting"
      <3>1. Alert(w)
        BY <1>6, <2>3 DEF Work, Claim, ClaimRow, StartHandler, FinishHandler, MarkDead,
                  MarkSucceeded, MarkFailed, MarkExhausted, MarkDeadLost, MarkLost
      <3>2. /\ jobs' = jobs /\ alerted' = alerted \cup {holder[w]}
            /\ \A v \in Workers : v # w => phase'[v] = phase[v] /\ holder'[v] = holder[v]
        BY <1>0, <3>1, ReleaseFacts DEF Alert, table
      <3> QED
        BY <2>1, <3>2 DEF NoSilentDeath
    <2> QED
      BY <2>2, <2>3
  <1>7. CASE Crash
    BY <1>0, <1>7 DEF Crash, NoSilentDeath
  <1>8. CASE Boot \/ BootUnreclaimed
    BY <1>8 DEF Boot, BootUnreclaimed, faults, DownAfterCrash, NoSilentDeath
  <1>9. CASE UNCHANGED vars
    BY <1>9, <1>a DEF vars, faults, history
  <1> QED
    BY <1>1, <1>2, <1>5, <1>6, <1>7, <1>8, <1>9 DEF Next, Enqueue, EnqueueUnique

\* Nothing dies in silence while the process stays up: a dead row was sent to
\* the notifier, or the worker that buried it is about to.
THEOREM NoSilentDeathCorrect == Spec => []NoSilentDeath
  <1>1. Init => NoSilentDeath /\ DownAfterCrash
    BY NoRowType DEF Init, NoSilentDeath, DownAfterCrash
  <1>2. OwnershipInv => TypeOK
    BY DEF OwnershipInv, TypeInv
  <1> QED
    BY <1>1, <1>2, InitOwnership, NextOwnership, NextDown, NextAlerted, PTL DEF Spec

-----------------------------------------------------------------------------
(* The life cycle of one row.  Ownership is what makes it a life cycle: the  *)
(* outcome writes are seen to apply to running rows only.                    *)

Kept(j) == jobs'[j] = jobs[j] /\ reclaims'[j] = reclaims[j]

Inserted(j) ==
    /\ jobs[j].status = "absent"
    /\ \E k \in Kinds, t \in Targets, p \in Priorities : jobs'[j] = NewRow(k, t, p)
    /\ reclaims'[j] = reclaims[j]

BecameDue(j) ==
    /\ jobs[j].status = "failed"
    /\ jobs'[j] = Due(jobs[j])
    /\ reclaims'[j] = reclaims[j]

WasClaimed(j) ==
    /\ jobs[j].status \in {"queued", "failed"}
    /\ jobs'[j] = Claimed(jobs[j])
    /\ reclaims'[j] = reclaims[j]

WasSettled(j) ==
    /\ jobs[j].status = "running"
    /\ jobs'[j] = Settled(jobs[j], "succeeded") \/ jobs'[j] = Settled(jobs[j], "dead")
    /\ reclaims'[j] = reclaims[j]

WasBackedOff(j) ==
    /\ jobs[j].status = "running"
    /\ jobs[j].attempts < MaxAttempts
    /\ jobs'[j] = BackedOff(jobs[j])
    /\ reclaims'[j] = reclaims[j]

WasReclaimed(j) ==
    /\ jobs[j].status = "running"
    /\ jobs'[j] = Reclaimed(jobs[j])
    /\ reclaims'[j] = reclaims[j] + 1

WasRequeued(j) ==
    /\ jobs[j].status \in {"failed", "dead"}
    /\ jobs'[j] = Requeued(jobs[j])
    /\ reclaims'[j] = 0

WasDeleted(j) ==
    /\ jobs[j].status # "running"
    /\ jobs'[j] = NoRow
    /\ reclaims'[j] = reclaims[j]

\* The steps after which a row is live only if it was, under the same key.
QuietStep(j) ==
    \/ Kept(j) \/ BecameDue(j) \/ WasClaimed(j) \/ WasSettled(j)
    \/ WasBackedOff(j) \/ WasReclaimed(j) \/ WasDeleted(j)

RowStep(j) == QuietStep(j) \/ Inserted(j) \/ WasRequeued(j)

\* A step of a worker takes each row along its life cycle.
LEMMA WorkRowStep ==
  ASSUME OwnershipInv, NEW w \in Workers, Work(w), NEW j \in Ids
  PROVE  QuietStep(j)
  <1> USE DEF OwnershipInv, TypeInv
  <1>0. TypeOK /\ jobs[j] \in Row
    BY DEF TypeOK
  <1>1. ASSUME NEW X \in SUBSET Kinds, NEW i \in Ids, ClaimRow(w, i, X)
        PROVE  Kept(j) \/ WasClaimed(j)
    <2>1. /\ jobs'[j] = IF j = i THEN Claimed(jobs[i]) ELSE jobs[j]
          /\ reclaims' = reclaims
          /\ jobs[i].status \in {"queued", "failed"}
      BY <1>0, <1>1, UpdateRows DEF ClaimRow, Claimable, history
    <2> QED
      BY <2>1 DEF Kept, WasClaimed
  <1>2. ASSUME MarkDead(w) \/ MarkExhausted(w) \/ MarkSucceeded(w)
        PROVE  Kept(j) \/ WasSettled(j)
    <2>1. holder[w] \in Ids /\ jobs[holder[w]].status = "running" /\ reclaims' = reclaims
      BY <1>2 DEF MarkDead, MarkExhausted, MarkSucceeded, HolderIsRow,
                  ExclusiveOwnership, Owning, history
    <2>2. \/ jobs'[j] = IF j = holder[w] THEN Settled(jobs[j], "succeeded") ELSE jobs[j]
          \/ jobs'[j] = IF j = holder[w] THEN Settled(jobs[j], "dead") ELSE jobs[j]
      BY <1>0, <1>2, <2>1, UpdateRows DEF MarkDead, MarkExhausted, MarkSucceeded
    <2> QED
      BY <2>1, <2>2 DEF Kept, WasSettled
  <1>3. ASSUME MarkFailed(w)
        PROVE  Kept(j) \/ WasBackedOff(j)
    <2>1. holder[w] \in Ids /\ jobs[holder[w]].status = "running" /\ reclaims' = reclaims
      BY <1>3 DEF MarkFailed, HolderIsRow, ExclusiveOwnership, Owning, history
    <2>2. jobs'[j] = IF j = holder[w] THEN BackedOff(jobs[j]) ELSE jobs[j]
      BY <1>0, <1>3, <2>1, UpdateRows DEF MarkFailed
    <2>3. jobs[holder[w]].attempts \in Nat
      BY <2>1 DEF TypeOK, Row
    <2>4. jobs[holder[w]].attempts < MaxAttempts
      BY <1>3, <2>3, MaxAttemptsAssumption DEF MarkFailed, GoesDead
    <2> QED
      BY <2>1, <2>2, <2>4 DEF Kept, WasBackedOff
  <1>4. ASSUME \/ StartHandler(w)
               \/ \E outcome \in {"ok", "retryable", "terminal"} : FinishHandler(w, outcome)
               \/ MarkDeadLost(w) \/ MarkLost(w) \/ Alert(w)
        PROVE  Kept(j)
    BY <1>4 DEF StartHandler, FinishHandler, MarkDeadLost, MarkLost, Alert,
                Kept, table, history
  <1> QED
    BY <1>1, <1>2, <1>3, <1>4 DEF Work, Claim, QuietStep

\* No step but an insert or an admin retry makes a row live or changes its key.
LEMMA NextQuietStep ==
  ASSUME OwnershipInv, [Next]_vars,
         ~ \E k \in Kinds, t \in Targets, p \in Priorities :
              Enqueue(k, t, p) \/ EnqueueUnique(k, t, p),
         ~ \E i \in Ids : Requeue(i)
  PROVE  (\A j \in Ids : QuietStep(j)) /\ revived' = revived
  <1> USE DEF OwnershipInv, TypeInv
  <1>1. ASSUME NEW i \in Ids, BackoffElapses(i), NEW j \in Ids
        PROVE  Kept(j) \/ BecameDue(j)
    <2>1. /\ jobs'[j] = IF j = i THEN Due(jobs[i]) ELSE jobs[j]
          /\ reclaims' = reclaims
          /\ jobs[i].status = "failed"
      BY <1>1, UpdateRows DEF BackoffElapses, history
    <2> QED
      BY <2>1 DEF Kept, BecameDue
  <1>2. ASSUME NEW S, Delete(S), \A i \in S : jobs[i].status # "running", NEW j \in Ids
        PROVE  Kept(j) \/ WasDeleted(j)
    <2>1. jobs'[j] = (IF j \in S THEN NoRow ELSE jobs[j]) /\ reclaims' = reclaims
      BY <1>2, DeleteFacts
    <2> QED
      BY <1>2, <2>1 DEF Kept, WasDeleted
  <1>3. ASSUME Admin, NEW j \in Ids
        PROVE  Kept(j) \/ WasDeleted(j)
    BY <1>2, <1>3 DEF Admin, WipeQueued, ClearDead, CleanupOld, Terminal
  <1>4. ASSUME Crash \/ Boot \/ BootUnreclaimed, NEW j \in Ids
        PROVE  Kept(j) \/ WasReclaimed(j)
    BY <1>4 DEF Crash, Boot, BootUnreclaimed, table, history, Kept, WasReclaimed, Running
  <1>5. CASE Next
    <2>1. \A j \in Ids : QuietStep(j)
      BY <1>1, <1>3, <1>4, <1>5, WorkRowStep DEF Next, QuietStep
    <2>2. revived' = revived
      <3>1. ASSUME NEW w \in Workers, Work(w) PROVE revived' = revived
        BY <3>1 DEF Work, Claim, ClaimRow, StartHandler, FinishHandler, MarkDead,
                    MarkSucceeded, MarkFailed, MarkExhausted, MarkDeadLost,
                    MarkLost, Alert, history
      <3>2. ASSUME Admin PROVE revived' = revived
        BY <3>2 DEF Admin, WipeQueued, ClearDead, CleanupOld, Delete, history
      <3> QED
        BY <1>5, <3>1, <3>2 DEF Next, BackoffElapses, Crash, Boot, BootUnreclaimed, history
    <2> QED
      BY <2>1, <2>2
  <1>6. CASE UNCHANGED vars
    BY <1>6 DEF vars, history, QuietStep, Kept
  <1> QED
    BY <1>5, <1>6

\* What an insert does: one id that had no row gets one.
LEMMA InsertStep ==
  ASSUME OwnershipInv, NEW k \in Kinds, NEW t \in Targets, NEW p \in Priorities,
         Insert(k, t, p)
  PROVE  /\ nextId \in Ids
         /\ jobs[nextId].status = "absent"
         /\ \A j \in Ids : jobs'[j] = IF j = nextId THEN NewRow(k, t, p) ELSE jobs[j]
         /\ UNCHANGED <<reclaims, revived>>
  <1>1. TypeOK /\ nextId \in Ids /\ UNCHANGED <<reclaims, revived>>
    BY BoundsAssumption DEF OwnershipInv, TypeInv, TypeOK, Insert, Ids, history
  <1>2. jobs[nextId].status = "absent"
    BY <1>1 DEF OwnershipInv, Fresh, Ids
  <1> QED
    BY <1>1, <1>2, UpdateRows DEF Insert

\* What an admin retry does.
LEMMA RequeueStep ==
  ASSUME OwnershipInv, NEW i \in Ids, Requeue(i)
  PROVE  /\ jobs[i].status \in {"failed", "dead"}
         /\ \A j \in Ids : jobs'[j] = IF j = i THEN Requeued(jobs[i]) ELSE jobs[j]
         /\ \A j \in Ids : reclaims'[j] = IF j = i THEN 0 ELSE reclaims[j]
  <1>1. TypeOK
    BY DEF OwnershipInv, TypeInv
  <1> QED
    BY <1>1, UpdateRows DEF Requeue, TypeOK

\* Every step takes each row along its life cycle.
LEMMA NextRowStep ==
  ASSUME OwnershipInv, [Next]_vars, NEW j \in Ids
  PROVE  RowStep(j)
  <1>1. ASSUME NEW k \in Kinds, NEW t \in Targets, NEW p \in Priorities, Insert(k, t, p)
        PROVE  Kept(j) \/ Inserted(j)
    BY <1>1, InsertStep DEF Kept, Inserted
  <1>2. ASSUME NEW i \in Ids, Requeue(i)
        PROVE  Kept(j) \/ WasRequeued(j)
    BY <1>2, RequeueStep DEF Kept, WasRequeued
  <1> QED
    BY <1>1, <1>2, NextQuietStep DEF Enqueue, EnqueueUnique, RowStep, QuietStep

\* A succeeded or dead row is never written again by a worker: what the admin
\* endpoints and the cleanup do to it is all that ever happens to it.
THEOREM TerminalRowsFinal == Spec => TerminalIsFinal
  <1>1. ASSUME OwnershipInv, [Next]_vars, NEW j \in Ids, Terminal(j)
        PROVE  \/ jobs'[j] = jobs[j]
               \/ jobs'[j] = NoRow
               \/ /\ jobs[j].status = "dead"
                  /\ jobs'[j].status = "queued"
                  /\ jobs'[j].attempts = 0
    <2>1. RowStep(j) /\ jobs[j] \in Row
      BY <1>1, NextRowStep DEF OwnershipInv, TypeInv, TypeOK
    <2>2. jobs[j].status \in {"succeeded", "dead"}
      BY <1>1 DEF Terminal
    <2>3. Kept(j) \/ WasRequeued(j) \/ WasDeleted(j)
      BY <2>1, <2>2 DEF RowStep, QuietStep, Inserted, BecameDue, WasClaimed, WasSettled,
                        WasBackedOff, WasReclaimed
    <2> QED
      BY <2>1, <2>2, <2>3, RequeuedRow DEF Kept, WasRequeued, WasDeleted
  <1>2. OwnershipInv /\ [Next]_vars =>
          [\A j \in Ids : Terminal(j) =>
             \/ jobs'[j] = jobs[j]
             \/ jobs'[j] = NoRow
             \/ /\ jobs[j].status = "dead"
                /\ jobs'[j].status = "queued"
                /\ jobs'[j].attempts = 0]_vars
    BY <1>1
  <1> QED
    BY <1>2, InitOwnership, NextOwnership, PTL DEF Spec, TerminalIsFinal

\* The two facts about a row that its life cycle keeps.
Booked(j) ==
    /\ jobs[j].locked <=> jobs[j].status = "running"
    /\ jobs[j].finished <=> Terminal(j)

WithinBudget(j) ==
    Live(j) => jobs[j].attempts + (IF jobs[j].status = "running" THEN 0 ELSE 1)
                  <= MaxAttempts + reclaims[j]

LEMMA BookedStep ==
  ASSUME NEW j \in Ids, jobs[j] \in Row, RowStep(j), Booked(j)
  PROVE  Booked(j)'
  <1>1. CASE Kept(j)
    BY <1>1 DEF Kept, Booked, Terminal
  <1>2. CASE Inserted(j)
    <2>1. PICK k \in Kinds, t \in Targets, p \in Priorities : jobs'[j] = NewRow(k, t, p)
      BY <1>2 DEF Inserted
    <2> QED
      BY <2>1 DEF NewRow, Booked, Terminal
  <1>3. CASE BecameDue(j)
    BY <1>3, DueRow DEF BecameDue, Booked, Terminal
  <1>4. CASE WasClaimed(j)
    BY <1>4, ClaimedRow DEF WasClaimed, Booked, Terminal
  <1>5. CASE WasSettled(j)
    BY <1>5, SettledRow DEF WasSettled, Booked, Terminal
  <1>6. CASE WasBackedOff(j)
    BY <1>6, BackedOffRow DEF WasBackedOff, Booked, Terminal
  <1>7. CASE WasReclaimed(j)
    BY <1>7, ReclaimedRow DEF WasReclaimed, Booked, Terminal
  <1>8. CASE WasRequeued(j)
    BY <1>8, RequeuedRow DEF WasRequeued, Booked, Terminal
  <1>9. CASE WasDeleted(j)
    BY <1>9, NoRowType DEF WasDeleted, Booked, Terminal
  <1> QED
    BY <1>1, <1>2, <1>3, <1>4, <1>5, <1>6, <1>7, <1>8, <1>9 DEF RowStep, QuietStep

LEMMA BudgetStep ==
  ASSUME NEW j \in Ids, jobs[j] \in Row, reclaims[j] \in Nat, RowStep(j), WithinBudget(j)
  PROVE  WithinBudget(j)'
  <1>0. jobs[j].attempts \in Nat /\ reclaims[j] \in Nat /\ MaxAttempts \in Nat \ {0}
    BY MaxAttemptsAssumption DEF Row
  <1>1. CASE Kept(j)
    BY <1>1 DEF Kept, WithinBudget, Live
  <1>2. CASE Inserted(j)
    <2>1. /\ jobs'[j].status = "queued"
          /\ jobs'[j].attempts = 0
          /\ reclaims'[j] = reclaims[j]
          /\ jobs[j].status = "absent"
      <3>1. PICK k \in Kinds, t \in Targets, p \in Priorities : jobs'[j] = NewRow(k, t, p)
        BY <1>2 DEF Inserted
      <3> QED
        BY <1>2, <3>1 DEF Inserted, NewRow
    <2> QED
      BY <1>0, <2>1 DEF WithinBudget, Live
  <1>3. CASE BecameDue(j)
    <2>1. /\ jobs'[j].status = "failed"
          /\ jobs'[j].attempts = jobs[j].attempts
          /\ reclaims'[j] = reclaims[j]
          /\ jobs[j].status = "failed"
      BY <1>3, DueRow DEF BecameDue
    <2>2. jobs[j].attempts + 1 <= MaxAttempts + reclaims[j]
      BY <1>0, <2>1 DEF WithinBudget, Live
    <2> QED
      BY <1>0, <2>1, <2>2 DEF WithinBudget, Live
  <1>4. CASE WasClaimed(j)
    <2>1. /\ jobs'[j].status = "running"
          /\ jobs'[j].attempts = jobs[j].attempts + 1
          /\ reclaims'[j] = reclaims[j]
          /\ jobs[j].status \in {"queued", "failed"}
      BY <1>4, ClaimedRow DEF WasClaimed
    <2>2. jobs[j].attempts + 1 <= MaxAttempts + reclaims[j]
      BY <1>0, <2>1 DEF WithinBudget, Live
    <2> QED
      BY <1>0, <2>1, <2>2 DEF WithinBudget, Live
  <1>5. CASE WasSettled(j)
    BY <1>5, SettledRow DEF WasSettled, WithinBudget, Live
  <1>6. CASE WasBackedOff(j)
    <2>1. /\ jobs'[j].status = "failed"
          /\ jobs'[j].attempts = jobs[j].attempts
          /\ reclaims'[j] = reclaims[j]
          /\ jobs[j].attempts < MaxAttempts
      BY <1>6, BackedOffRow DEF WasBackedOff
    <2> QED
      BY <1>0, <2>1 DEF WithinBudget, Live
  <1>7. CASE WasReclaimed(j)
    <2>1. /\ jobs'[j].status = "queued"
          /\ jobs'[j].attempts = jobs[j].attempts
          /\ reclaims'[j] = reclaims[j] + 1
          /\ jobs[j].status = "running"
      BY <1>7, ReclaimedRow DEF WasReclaimed
    <2>2. jobs[j].attempts <= MaxAttempts + reclaims[j]
      BY <1>0, <2>1 DEF WithinBudget, Live
    <2> QED
      BY <1>0, <2>1, <2>2 DEF WithinBudget, Live
  <1>8. CASE WasRequeued(j)
    <2>1. /\ jobs'[j].status = "queued"
          /\ jobs'[j].attempts = 0
          /\ reclaims'[j] = 0
          /\ jobs[j].status \in {"failed", "dead"}
      BY <1>8 DEF WasRequeued, Requeued, Row
    <2>2. 0 + 1 <= MaxAttempts + 0
      BY <1>0
    <2>3. jobs'[j].attempts + 1 <= MaxAttempts + reclaims'[j]
      BY <2>1, <2>2
    <2> QED
      BY <2>1, <2>3 DEF WithinBudget, Live
  <1>9. CASE WasDeleted(j)
    BY <1>9, NoRowType DEF WasDeleted, WithinBudget, Live
  <1> QED
    BY <1>1, <1>2, <1>3, <1>4, <1>5, <1>6, <1>7, <1>8, <1>9 DEF RowStep, QuietStep

RowInv == \A j \in Ids : Booked(j) /\ WithinBudget(j)

LEMMA InitRow == Init => RowInv
  BY NoRowType DEF Init, RowInv, Booked, WithinBudget, Live, Terminal

LEMMA NextRow ==
  ASSUME OwnershipInv, RowInv, [Next]_vars
  PROVE  RowInv'
  <1> SUFFICES ASSUME NEW j \in Ids PROVE Booked(j)' /\ WithinBudget(j)'
    BY DEF RowInv
  <1>1. RowStep(j) /\ jobs[j] \in Row /\ reclaims[j] \in Nat
    BY NextRowStep DEF OwnershipInv, TypeInv, TypeOK
  <1> QED
    BY <1>1, BookedStep, BudgetStep DEF RowInv

LEMMA RowsCorrect == Spec => [](OwnershipInv /\ RowInv)
  BY InitOwnership, NextOwnership, InitRow, NextRow, PTL DEF Spec

\* locked_at marks exactly the running rows and finished_at exactly the
\* terminal ones, so the cleanup and the boot reclaim miss none.
THEOREM BookkeepingCorrect == Spec => []RowBookkeeping
  <1>1. RowInv => RowBookkeeping
    BY DEF RowInv, Booked, RowBookkeeping
  <1> QED
    BY <1>1, RowsCorrect, PTL

\* A job is attempted at most MaxAttempts times plus once for every restart
\* that found it running.
THEOREM BudgetCorrect == Spec => []BudgetRespected
  <1>1. RowInv => BudgetRespected
    BY DEF RowInv, WithinBudget, BudgetRespected
  <1> QED
    BY <1>1, RowsCorrect, PTL

\* The table adds up in every reachable state: types, timestamps and attempts.
THEOREM RowsKeptCorrect == Spec => []RowsKept
  <1>1. TypeOK /\ RowBookkeeping /\ BudgetRespected => RowsKept
    BY DEF RowsKept
  <1> QED
    BY <1>1, TypeCorrect, BookkeepingCorrect, BudgetCorrect, PTL

-----------------------------------------------------------------------------
(* Deduplication. *)

\* A row that is live after a quiet step was live before, under the same key.
LEMMA QuietKey ==
  ASSUME NEW j \in Ids, jobs[j] \in Row, QuietStep(j), Live(j)'
  PROVE  Live(j) /\ Key(j)' = Key(j) /\ jobs'[j].kind = jobs[j].kind
  <1>1. CASE Kept(j)
    BY <1>1 DEF Kept, Live, Key
  <1>2. CASE BecameDue(j)
    BY <1>2, DueRow DEF BecameDue, Live, Key
  <1>3. CASE WasClaimed(j)
    BY <1>3, ClaimedRow DEF WasClaimed, Live, Key
  <1>4. CASE WasSettled(j)
    BY <1>4, SettledRow DEF WasSettled, Live
  <1>5. CASE WasBackedOff(j)
    BY <1>5, BackedOffRow DEF WasBackedOff, Live, Key
  <1>6. CASE WasReclaimed(j)
    BY <1>6, ReclaimedRow DEF WasReclaimed, Live, Key
  <1>7. CASE WasDeleted(j)
    BY <1>7, NoRowType DEF WasDeleted, Live
  <1> QED
    BY <1>1, <1>2, <1>3, <1>4, <1>5, <1>6, <1>7 DEF QuietStep

LEMMA NextDuplicate ==
  ASSUME OwnershipInv, DuplicateOnlyByRevival, [Next]_vars
  PROVE  DuplicateOnlyByRevival'
  <1>0. \A j \in Ids : jobs[j] \in Row
    BY DEF OwnershipInv, TypeInv, TypeOK
  <1>1. ASSUME NEW k \in Kinds, NEW t \in Targets, NEW p \in Priorities,
               Enqueue(k, t, p) \/ EnqueueUnique(k, t, p)
        PROVE  DuplicateOnlyByRevival'
    <2>1. PICK n \in Ids :
             /\ \A j \in Ids : jobs'[j] = IF j = n THEN NewRow(k, t, p) ELSE jobs[j]
             /\ revived' = revived
      BY <1>1, InsertStep DEF Enqueue, EnqueueUnique
    <2>2. jobs'[n].kind = k /\ jobs'[n].target = t
      BY <2>1 DEF NewRow
    <2>3. k \in UniqueKinds => \A j \in Ids : ~(Live(j) /\ Key(j) = <<k, t>>)
      BY <1>1 DEF Enqueue, EnqueueUnique
    <2> SUFFICES ASSUME NEW i \in Ids, NEW j \in Ids, i # j, Live(i)', Live(j)',
                        Key(i)' = Key(j)', jobs'[i].kind \in UniqueKinds
                 PROVE  i \in revived' \/ j \in revived'
      BY DEF DuplicateOnlyByRevival
    <2>4. CASE i # n /\ j # n
      BY <2>1, <2>4 DEF DuplicateOnlyByRevival, Live, Key
    <2>5. ASSUME NEW x \in Ids, x # n, Live(x)', Key(x)' = Key(n)',
                 jobs'[n].kind \in UniqueKinds
          PROVE  FALSE
      <3>1. Live(x) /\ Key(x) = <<k, t>>
        BY <2>1, <2>2, <2>5 DEF Live, Key
      <3> QED
        BY <2>2, <2>3, <2>5, <3>1
    <2>6. jobs'[i].kind = jobs'[j].kind
      BY DEF Key
    <2> QED
      BY <2>1, <2>4, <2>5, <2>6
  <1>2. ASSUME NEW r \in Ids, Requeue(r)
        PROVE  DuplicateOnlyByRevival'
    <2>1. /\ jobs[r].status \in {"failed", "dead"}
          /\ \A j \in Ids : jobs'[j] = IF j = r THEN Requeued(jobs[r]) ELSE jobs[j]
      BY <1>2, RequeueStep
    <2>2. /\ revived \subseteq revived'
          /\ jobs[r].status = "dead" => r \in revived'
      BY <1>2 DEF Requeue
    <2>3. \A j \in Ids : Key(j)' = Key(j) /\ jobs'[j].kind = jobs[j].kind
      <3>1. /\ Requeued(jobs[r]).kind = jobs[r].kind
            /\ Requeued(jobs[r]).target = jobs[r].target
        BY <1>0, RequeuedRow
      <3> QED
        BY <2>1, <3>1 DEF Key
    <2>4. \A j \in Ids : Live(j)' => Live(j) \/ j \in revived'
      BY <2>1, <2>2 DEF Live
    <2> QED
      BY <2>2, <2>3, <2>4 DEF DuplicateOnlyByRevival
  <1>3. ASSUME \A j \in Ids : QuietStep(j), revived' = revived
        PROVE  DuplicateOnlyByRevival'
    <2>1. \A j \in Ids : Live(j)' => /\ Live(j)
                                     /\ Key(j)' = Key(j)
                                     /\ jobs'[j].kind = jobs[j].kind
      BY <1>0, <1>3, QuietKey
    <2> QED
      BY <1>3, <2>1 DEF DuplicateOnlyByRevival
  <1> QED
    BY <1>1, <1>2, <1>3, NextQuietStep

\* The dedup of enqueue_job_unique holds against every interleaving of workers,
\* retries, crashes and deletions; only requeue_job gets around it.
THEOREM DuplicatesCorrect == Spec => []DuplicateOnlyByRevival
  <1>1. Init => DuplicateOnlyByRevival
    BY NoRowType DEF Init, DuplicateOnlyByRevival, Live
  <1>2. OwnershipInv /\ DuplicateOnlyByRevival /\ [Next]_vars => DuplicateOnlyByRevival'
    BY NextDuplicate
  <1> QED
    BY <1>1, <1>2, InitOwnership, NextOwnership, PTL DEF Spec

-----------------------------------------------------------------------------
(* The refinement: every step of the queue is a step of its contract, or     *)
(* changes nothing the contract speaks of.                                   *)

\* The stage that goes with each status, before and after a step.
LEMMA Stages ==
  ASSUME NEW j \in Ids
  PROVE  /\ jobs[j].status = "absent" => StageOf(j) = "none"
         /\ jobs[j].status \in {"queued", "failed"} => StageOf(j) = "waiting"
         /\ jobs[j].status = "running" => StageOf(j) = "working"
         /\ jobs[j].status = "succeeded" => StageOf(j) = "done"
         /\ jobs[j].status = "dead" => StageOf(j) = "dead"
         /\ jobs'[j].status = "absent" => StageOf(j)' = "none"
         /\ jobs'[j].status \in {"queued", "failed"} => StageOf(j)' = "waiting"
         /\ jobs'[j].status = "running" => StageOf(j)' = "working"
         /\ jobs'[j].status = "succeeded" => StageOf(j)' = "done"
         /\ jobs'[j].status = "dead" => StageOf(j)' = "dead"
         /\ jobs'[j].status = jobs[j].status => StageOf(j)' = StageOf(j)
  BY DEF StageOf

\* An id without a row has used no attempts.
Unused == \A j \in Ids : Absent(j) => jobs[j].attempts = 0

LEMMA NextUnused ==
  ASSUME OwnershipInv, Unused, [Next]_vars
  PROVE  Unused'
  <1> SUFFICES ASSUME NEW j \in Ids, jobs'[j].status = "absent"
               PROVE  jobs'[j].attempts = 0
    BY DEF Unused, Absent
  <1>1. RowStep(j) /\ jobs[j] \in Row
    BY NextRowStep DEF OwnershipInv, TypeInv, TypeOK
  <1>2. CASE Kept(j)
    BY <1>2 DEF Kept, Unused, Absent
  <1>3. CASE WasDeleted(j)
    BY <1>3, NoRowType DEF WasDeleted
  <1>4. CASE Inserted(j)
    BY <1>4 DEF Inserted, NewRow
  <1>5. CASE BecameDue(j)
    BY <1>1, <1>5, DueRow DEF BecameDue
  <1>6. CASE WasClaimed(j)
    BY <1>1, <1>6, ClaimedRow DEF WasClaimed
  <1>7. CASE WasSettled(j)
    BY <1>1, <1>7, SettledRow DEF WasSettled
  <1>8. CASE WasBackedOff(j)
    BY <1>1, <1>8, BackedOffRow DEF WasBackedOff
  <1>9. CASE WasReclaimed(j)
    BY <1>1, <1>9, ReclaimedRow DEF WasReclaimed
  <1>10. CASE WasRequeued(j)
    BY <1>1, <1>10, RequeuedRow DEF WasRequeued
  <1> QED
    BY <1>1, <1>2, <1>3, <1>4, <1>5, <1>6, <1>7, <1>8, <1>9, <1>10 DEF RowStep, QuietStep

\* The refinement mapping on the steps that leave the table alone.
LEMMA Stutter ==
  ASSUME nextId' = nextId,
         \A j \in Ids : /\ jobs'[j].status = jobs[j].status
                         /\ jobs'[j].attempts = jobs[j].attempts
  PROVE  UNCHANGED Contract!contract
  <1>1. \A j \in Ids : StageOf(j)' = StageOf(j)
    BY Stages
  <1> QED
    BY <1>1 DEF Contract!contract

\* Inserting a row is a Submit.
LEMMA InsertSubmits ==
  ASSUME OwnershipInv, Unused, NEW k \in Kinds, NEW t \in Targets, NEW p \in Priorities,
         Insert(k, t, p)
  PROVE  Contract!Submit
  <1>1. /\ nextId \in Ids
        /\ jobs[nextId].status = "absent"
        /\ \A j \in Ids : jobs'[j] = IF j = nextId THEN NewRow(k, t, p) ELSE jobs[j]
        /\ nextId' = nextId + 1
    BY InsertStep DEF Insert
  <1>2. NewRow(k, t, p).status = "queued" /\ NewRow(k, t, p).attempts = 0
    BY DEF NewRow
  <1>3. \A j \in Ids : StageOf(j)' = IF j = nextId THEN "waiting" ELSE StageOf(j)
    BY <1>1, <1>2, Stages
  <1>4. \A j \in Ids : jobs'[j].attempts = jobs[j].attempts
    BY <1>1, <1>2 DEF Unused, Absent
  <1> QED
    BY <1>1, <1>3, <1>4 DEF Contract!Submit, Contract!JobIds, Ids

\* A step that writes the one row i: what is left to show of it is what it does
\* to the stage and the tries of i.
LEMMA OneRow ==
  ASSUME TypeOK, NEW i \in Ids, NEW r, Update(i, r), nextId' = nextId
  PROVE  /\ jobs'[i] = r
         /\ [j \in Ids |-> StageOf(j)]' = [[j \in Ids |-> StageOf(j)] EXCEPT ![i] = StageOf(i)']
         /\ [j \in Ids |-> jobs[j].attempts]'
              = [[j \in Ids |-> jobs[j].attempts] EXCEPT ![i] = r.attempts]
  <1>1. \A j \in Ids : jobs'[j] = IF j = i THEN r ELSE jobs[j]
    BY UpdateRows
  <1>2. \A j \in Ids : j # i => StageOf(j)' = StageOf(j)
    BY <1>1, Stages
  <1> QED
    BY <1>1, <1>2

\* A claim is a Begin, an outcome write an End; all else a worker does is invisible.
LEMMA WorkKeepsContract ==
  ASSUME OwnershipInv, NEW w \in Workers, Work(w)
  PROVE  \/ \E j \in Ids :
               \/ Contract!Begin(j)
               \/ \E outcome \in {"done", "dead", "waiting"} : Contract!End(j, outcome)
         \/ UNCHANGED Contract!contract
  <1>0. TypeOK /\ HolderIsRow /\ ExclusiveOwnership /\ \A j \in Ids : jobs[j] \in Row
    BY DEF OwnershipInv, TypeInv, TypeOK
  <1>1. ASSUME NEW X \in SUBSET Kinds, NEW i \in Ids, ClaimRow(w, i, X)
        PROVE  Contract!Begin(i)
    <2>1. jobs[i].status \in {"queued", "failed"} /\ Update(i, Claimed(jobs[i])) /\ nextId' = nextId
      BY <1>1 DEF ClaimRow, Claimable
    <2>2. Claimed(jobs[i]).status = "running" /\ Claimed(jobs[i]).attempts = jobs[i].attempts + 1
      BY <1>0, ClaimedRow
    <2>3. StageOf(i) = "waiting" /\ StageOf(i)' = "working"
      BY <1>0, <2>1, <2>2, OneRow, Stages
    <2> QED
      BY <1>0, <2>1, <2>2, <2>3, OneRow DEF Contract!Begin
  <1>2. ASSUME NEW i \in Ids, phase[w] \in Owning, i = holder[w],
               NEW s \in {"succeeded", "dead", "failed"},
               NEW r, Update(i, r), nextId' = nextId,
               r.status = s, r.attempts = jobs[i].attempts,
               s = "failed" => r.attempts < MaxAttempts
        PROVE  \E j \in Ids, outcome \in {"done", "dead", "waiting"} : Contract!End(j, outcome)
    <2> DEFINE outcome == IF s = "succeeded" THEN "done" ELSE IF s = "dead" THEN "dead" ELSE "waiting"
    <2>1. jobs[i].status = "running"
      BY <1>0, <1>2 DEF ExclusiveOwnership
    <2>2. jobs'[i] = r
      BY <1>0, <1>2, OneRow
    <2>3. StageOf(i) = "working" /\ StageOf(i)' = outcome
      BY <1>2, <2>1, <2>2, Stages
    <2>4. outcome = "waiting" => jobs[i].attempts < MaxAttempts
      BY <1>2
    <2>5. outcome \in {"done", "dead", "waiting"}
      OBVIOUS
    <2>6. [j \in Ids |-> jobs[j].attempts]' = [j \in Ids |-> jobs[j].attempts]
      <3>1. \A j \in Ids : jobs'[j] = IF j = i THEN r ELSE jobs[j]
        BY <1>0, <1>2, UpdateRows
      <3> QED
        BY <1>2, <3>1
    <2>7. Contract!End(i, outcome)
      BY <1>0, <1>2, <2>3, <2>4, <2>5, <2>6, OneRow DEF Contract!End
    <2> QED
      BY <2>5, <2>7
  <1>3. ASSUME MarkDead(w) \/ MarkExhausted(w) \/ MarkSucceeded(w) \/ MarkFailed(w)
        PROVE  \E j \in Ids, outcome \in {"done", "dead", "waiting"} : Contract!End(j, outcome)
    <2> DEFINE row == jobs[holder[w]]
    <2>1. phase[w] \in Owning /\ holder[w] \in Ids /\ nextId' = nextId
      BY <1>0, <1>3 DEF MarkDead, MarkExhausted, MarkSucceeded, MarkFailed, Owning, HolderIsRow
    <2>2. row \in Row /\ row.attempts \in Nat
      BY <1>0, <2>1 DEF Row
    <2>3. /\ Settled(row, "dead").status = "dead"
          /\ Settled(row, "dead").attempts = row.attempts
          /\ Settled(row, "succeeded").status = "succeeded"
          /\ Settled(row, "succeeded").attempts = row.attempts
          /\ BackedOff(row).status = "failed"
          /\ BackedOff(row).attempts = row.attempts
      BY <2>2, SettledRow, BackedOffRow
    <2>4. CASE MarkDead(w) \/ MarkExhausted(w)
      <3>1. Update(holder[w], Settled(row, "dead"))
        BY <2>4 DEF MarkDead, MarkExhausted
      <3> QED
        BY <1>2, <2>1, <2>3, <3>1
    <2>5. CASE MarkSucceeded(w)
      <3>1. Update(holder[w], Settled(row, "succeeded"))
        BY <2>5 DEF MarkSucceeded
      <3> QED
        BY <1>2, <2>1, <2>3, <3>1
    <2>6. CASE MarkFailed(w)
      <3>1. Update(holder[w], BackedOff(row)) /\ row.attempts < MaxAttempts
        BY <2>2, <2>6, MaxAttemptsAssumption DEF MarkFailed, GoesDead
      <3> QED
        BY <1>2, <2>1, <2>3, <3>1
    <2> QED
      BY <1>3, <2>4, <2>5, <2>6
  <1>4. ASSUME \/ StartHandler(w)
               \/ \E outcome \in {"ok", "retryable", "terminal"} : FinishHandler(w, outcome)
               \/ MarkDeadLost(w) \/ MarkLost(w) \/ Alert(w)
        PROVE  UNCHANGED Contract!contract
    BY <1>4, Stutter DEF StartHandler, FinishHandler, MarkDeadLost, MarkLost, Alert, table
  <1> QED
    BY <1>1, <1>3, <1>4 DEF Work, Claim

\* Deleting rows that nobody works on is a Discard.
LEMMA DeleteDiscards ==
  ASSUME TypeOK, NEW S \in SUBSET Ids, Delete(S), \A j \in S : jobs[j].status \in Status \ {"running"}
  PROVE  Contract!Discard(S)
  <1>1. /\ \A i \in Ids : jobs'[i] = IF i \in S THEN NoRow ELSE jobs[i]
        /\ nextId' = nextId
    BY DeleteFacts
  <1>2. \A i \in Ids : StageOf(i)' = IF i \in S THEN "none" ELSE StageOf(i)
    BY <1>1, NoRowType, Stages
  <1>3. \A i \in Ids : jobs'[i].attempts = IF i \in S THEN 0 ELSE jobs[i].attempts
    BY <1>1, NoRowType
  <1>4. \A i \in S : StageOf(i) # "working"
    BY Stages DEF Status
  <1> QED
    BY <1>1, <1>2, <1>3, <1>4 DEF Contract!Discard, Contract!JobIds, Ids

\* Requeue is a Reopen, the other admin endpoints and the cleanup are Discards.
LEMMA AdminKeepsContract ==
  ASSUME TypeOK, Admin
  PROVE  \/ \E j \in Ids : Contract!Reopen(j)
         \/ \E S \in SUBSET Ids : Contract!Discard(S)
  <1>0. \A j \in Ids : jobs[j] \in Row /\ jobs[j].status \in Status
    BY DEF TypeOK, Row
  <1>1. ASSUME NEW i \in Ids, Requeue(i)
        PROVE  Contract!Reopen(i)
    <2>1. jobs[i].status \in {"failed", "dead"} /\ Update(i, Requeued(jobs[i])) /\ nextId' = nextId
      BY <1>1 DEF Requeue
    <2>2. Requeued(jobs[i]).status = "queued" /\ Requeued(jobs[i]).attempts = 0
      BY <1>0, RequeuedRow
    <2>3. StageOf(i) \in {"waiting", "dead"} /\ StageOf(i)' = "waiting"
      BY <2>1, <2>2, OneRow, Stages
    <2> QED
      BY <2>1, <2>2, <2>3, OneRow DEF Contract!Reopen
  <1>2. ASSUME NEW S \in SUBSET Ids, Delete(S), \A j \in S : jobs[j].status # "running"
        PROVE  Contract!Discard(S)
    BY <1>0, <1>2, DeleteDiscards
  <1> QED
    BY <1>1, <1>2 DEF Admin, WipeQueued, ClearDead, CleanupOld, Terminal

\* A restart that reclaims is a Recover.
LEMMA BootRecovers ==
  ASSUME TypeOK, Boot
  PROVE  Contract!Recover
  <1>0. \A j \in Ids : jobs[j] \in Row /\ jobs[j].status \in Status
    BY DEF TypeOK, Row
  <1>1. /\ \A j \in Ids : jobs'[j] = IF j \in Running THEN Reclaimed(jobs[j]) ELSE jobs[j]
        /\ nextId' = nextId
    BY DEF Boot
  <1>2. \A j \in Ids : /\ Reclaimed(jobs[j]).status = "queued"
                       /\ Reclaimed(jobs[j]).attempts = jobs[j].attempts
    BY <1>0, ReclaimedRow
  <1>3. ASSUME NEW j \in Ids
        PROVE  /\ StageOf(j)' = IF StageOf(j) = "working" THEN "waiting" ELSE StageOf(j)
               /\ jobs'[j].attempts = jobs[j].attempts
    <2>1. CASE j \in Running
      BY <1>1, <1>2, <2>1, Stages DEF Running
    <2>2. CASE j \notin Running
      <3>1. jobs'[j] = jobs[j] /\ jobs[j].status \in Status \ {"running"}
        BY <1>0, <1>1, <2>2 DEF Running
      <3> QED
        BY <3>1, Stages DEF Status
    <2> QED
      BY <2>1, <2>2
  <1> QED
    BY <1>1, <1>3 DEF Contract!Recover, Contract!JobIds, Ids

LEMMA NextKeepsContract ==
  ASSUME OwnershipInv, Unused, [Next]_vars
  PROVE  [Contract!Step]_(Contract!contract)
  <1>0. TypeOK
    BY DEF OwnershipInv, TypeInv
  <1>1. ASSUME NEW i \in Ids, BackoffElapses(i)
        PROVE  UNCHANGED Contract!contract
    <2>1. Due(jobs[i]).status = jobs[i].status /\ Due(jobs[i]).attempts = jobs[i].attempts
      BY <1>0, DueRow DEF TypeOK
    <2>2. nextId' = nextId /\ \A j \in Ids : jobs'[j] = IF j = i THEN Due(jobs[i]) ELSE jobs[j]
      BY <1>0, <1>1, UpdateRows DEF BackoffElapses
    <2> QED
      BY <2>1, <2>2, Stutter
  <1>2. CASE Crash \/ BootUnreclaimed \/ UNCHANGED vars
    BY <1>2, Stutter DEF Crash, BootUnreclaimed, table, vars
  <1>3. Contract!JobIds = Ids
    BY DEF Contract!JobIds, Ids
  <1> QED
    BY <1>0, <1>1, <1>2, <1>3, InsertSubmits, WorkKeepsContract, AdminKeepsContract, BootRecovers
    DEF Next, Enqueue, EnqueueUnique, Contract!Step

\* The queue keeps its contract, whatever the workers, the admin endpoints, the
\* crashes and the lost writes do, and no terminal row is ever written over.
THEOREM KeepsContractCorrect == Spec => KeepsContract
  <1>1. Init => Contract!Start /\ Unused
    <2>1. ASSUME Init, NEW j \in Ids
          PROVE  StageOf(j) = "none" /\ jobs[j].attempts = 0
      BY <2>1, NoRowType, Stages DEF Init
    <2> QED
      BY <2>1 DEF Init, Contract!Start, Contract!JobIds, Ids, Unused
  <1>2. Spec => Contract!Promise
    BY <1>1, InitOwnership, NextOwnership, NextUnused, NextKeepsContract, PTL
    DEF Spec, Contract!Promise
  <1> QED
    BY <1>2, TerminalRowsFinal DEF KeepsContract, ImplementsContract

-----------------------------------------------------------------------------
(*                                The pool                                 *)

-----------------------------------------------------------------------------
(* The steps of the queue, seen from the phases.                           *)

\* Who has a job, or has yet to tell of its death.
Engaged == Owning \cup {"alerting"}

\* The end of an iteration.
LEMMA Ends ==
    ASSUME TypeOK, NEW w \in Workers, MarkSucceeded(w) \/ MarkFailed(w) \/ MarkLost(w) \/ Alert(w)
    PROVE  /\ phase[w] \in Engaged /\ phase'[w] = "idle"
           /\ \A v \in Workers : v # w => phase'[v] = phase[v] /\ holder'[v] = holder[v]
  <1>1. Release(w) /\ phase[w] \in Engaged
    BY DEF MarkSucceeded, MarkFailed, MarkLost, Alert, Engaged, Owning
  <1> QED
    BY <1>1, ReleaseFacts

\* The middle of it.
LEMMA Goes ==
    ASSUME TypeOK, NEW w \in Workers,
           \/ \E outcome \in {"ok", "retryable", "terminal"} : FinishHandler(w, outcome)
           \/ MarkDead(w) \/ MarkDeadLost(w) \/ MarkExhausted(w)
    PROVE  /\ phase[w] \in Owning /\ phase'[w] \in Engaged
           /\ phase[w] = "claimed" => jobs[holder[w]].kind \notin Handled
           /\ phase'[w] \in Owning => phase[w] = "handling"
           /\ phase'[w] # "claimed"
           /\ \A v \in Workers : v # w => phase'[v] = phase[v]
           /\ holder' = holder
  <1>1. PICK p \in {"ok", "retryable", "terminal", "alerting"} :
           /\ Goto(w, p) /\ p \in Phase /\ p \in Engaged /\ p # "claimed"
           /\ p \in Owning => phase[w] = "handling"
    BY DEF FinishHandler, MarkDead, MarkDeadLost, MarkExhausted, Phase, Engaged, Owning
  <1>2. /\ phase[w] \in Owning /\ holder' = holder
        /\ phase[w] = "claimed" => jobs[holder[w]].kind \notin Handled
    BY DEF FinishHandler, MarkDead, MarkDeadLost, MarkExhausted, Owning
  <1> QED
    BY <1>1, <1>2, GotoFacts

\* The claim.
LEMMA Claims ==
    ASSUME TypeOK, NEW w \in Workers, NEW X, Claim(w, X)
    PROVE  /\ phase[w] = "idle" /\ phase'[w] = "claimed"
           /\ \A v \in Workers : v # w => phase'[v] = phase[v] /\ holder'[v] = holder[v]
  <1>1. PICK j \in Ids : ClaimRow(w, j, X)
    BY DEF Claim
  <1>2. Goto(w, "claimed") /\ "claimed" \in Phase
    BY <1>1 DEF ClaimRow, Phase, Owning
  <1> QED
    BY <1>1, <1>2, GotoFacts DEF ClaimRow, TypeOK

-----------------------------------------------------------------------------
(* Types.                                                                  *)

\* Every semaphore a ticket can name was put in place by a change of the cap.
Generations == \A k \in Kinds : Len(caps[k]) \in 1..(resizes + 1)

PoolInv == PoolTypeOK /\ Generations

LEMMA PoolInitType == PoolInit => PoolInv
  <1> SUFFICES ASSUME PoolInit PROVE PoolInv
    OBVIOUS
  <1>1. PoolTypeOK
    <2>1. desired \in Nat \ {0} /\ next_id \in Nat /\ gate \in BOOLEAN
      BY InitialAssumption DEF PoolInit
    <2>2. /\ resizes \in 0..MaxResizes /\ scans \in 0..MaxScans
          /\ pollErrors \in 0..MaxPollErrors
      BY PoolBoundsAssumption DEF PoolInit
    <2>3. at \in [Workers -> Place] /\ skip \in [Workers -> SUBSET Kinds]
      BY DEF PoolInit, Place
    <2>4. ticket \in [Workers -> Tickets]
      BY DEF PoolInit, Tickets
    <2>5. caps \in [Kinds -> Seq(Nat)]
      <3>1. <<InitialCap>> \in Seq(Nat)
        BY InitialAssumption
      <3> QED
        BY <3>1 DEF PoolInit
    <2>6. slipped \in [Workers -> Nat] /\ overdue \in [Workers -> Nat]
      BY DEF PoolInit
    <2> QED
      BY <2>1, <2>2, <2>3, <2>4, <2>5, <2>6 DEF PoolTypeOK
  <1>2. Generations
    BY InitialAssumption DEF PoolInit, Generations
  <1> QED
    BY <1>1, <1>2 DEF PoolInv

LEMMA SaturatedKinds == Saturated \in SUBSET Kinds
  BY KindsAssumption DEF Saturated

\* A worker on its way to a claim.
LEMMA LoopType ==
    ASSUME PoolInv, TypeInv, NEW w \in Workers,
           Exit(w) \/ Top(w) \/ Unpark(w) \/ Resume(w) \/ PollEmpty(w) \/ PollError(w)
    PROVE  PoolInv'
  <1>1. at' \in [Workers -> Place] /\ skip' \in [Workers -> SUBSET Kinds]
    BY SaturatedKinds DEF PoolInv, PoolTypeOK, Exit, Top, Unpark, Resume, PollEmpty, PollError,
       Snapshot, Polled, Pc, Place
  <1>2. /\ UNCHANGED <<desired, next_id, ticket, caps, gate, resizes, scans, leaks>>
        /\ pollErrors' \in 0..MaxPollErrors
    BY PoolBoundsAssumption
    DEF PoolInv, PoolTypeOK, Exit, Top, Unpark, Resume, PollEmpty, PollError, noise
  <1> QED
    BY <1>1, <1>2 DEF PoolInv, PoolTypeOK, Generations, leaks

\* A worker from the claim to the end of the iteration.
LEMMA IterationType ==
    ASSUME PoolInv, TypeInv, NEW w \in Workers,
           PoolClaim(w) \/ Acquire(w) \/ PoolStart(w) \/ GoOn(w) \/ GoRound(w)
    PROVE  PoolInv'
  <1>1. CASE PoolClaim(w)
    BY <1>1 DEF PoolClaim, Polled, Pc, Place, noise, PoolInv, PoolTypeOK, Generations
  <1>2. CASE Acquire(w)
    <2>1. PICK k \in Kinds : ticket' = [ticket EXCEPT ![w] = <<k, Len(caps[k])>>]
      BY <1>2, KindsAssumption DEF Acquire
    <2>2. <<k, Len(caps[k])>> \in Tickets
      <3>1. Len(caps[k]) \in 1..(MaxResizes + 1)
        BY PoolBoundsAssumption DEF PoolInv, PoolTypeOK, Generations
      <3> QED
        BY <3>1 DEF Tickets
    <2>3. ticket' \in [Workers -> Tickets]
      BY <2>1, <2>2 DEF PoolInv, PoolTypeOK
    <2> QED
      BY <1>2, <2>3 DEF Acquire, noise, leaks, PoolInv, PoolTypeOK, Generations
  <1>3. CASE PoolStart(w) \/ GoOn(w)
    BY <1>3 DEF PoolStart, GoOn, pool, noise, leaks, PoolInv, PoolTypeOK, Generations
  <1>4. CASE GoRound(w)
    BY <1>4 DEF GoRound, Pc, Place, noise, leaks, Tickets, PoolInv, PoolTypeOK, Generations
  <1> QED
    BY <1>1, <1>2, <1>3, <1>4

LEMMA ClampedType == ASSUME NEW n \in Nat PROVE ClampedSize(n) \in Nat \ {0}
  BY DEF ClampedSize

\* The admin, the scans and the process.
LEMMA SettingsType ==
    ASSUME PoolInv, TypeInv,
           \/ \E n \in Sizes : Resize(n)
           \/ \E k \in Kinds, n \in Caps : ResizeKind(k, n)
           \/ RaiseGate \/ LowerGate \/ PoolCrash \/ PoolBoot \/ Outside
    PROVE  PoolInv'
  <1>1. ASSUME NEW n \in Sizes, Resize(n) PROVE PoolInv'
    <2>1. ClampedSize(n) \in Nat \ {0}
      BY SizesAssumption, ClampedType
    <2>2. desired' \in Nat \ {0} /\ next_id' \in Nat
      BY <1>1, <2>1 DEF Resize, PoolInv, PoolTypeOK
    <2>3. at' \in [Workers -> Place] /\ overdue' \in [Workers -> Nat]
      BY <1>1 DEF Resize, PoolInv, PoolTypeOK, Place
    <2>4. resizes' = resizes + 1 /\ resizes' \in 0..MaxResizes
      BY <1>1, PoolBoundsAssumption DEF Resize, PoolInv, PoolTypeOK
    <2> QED
      BY <1>1, <2>2, <2>3, <2>4, PoolBoundsAssumption DEF Resize, PoolInv, PoolTypeOK, Generations
  <1>2. ASSUME NEW k \in Kinds, NEW n \in Caps, ResizeKind(k, n) PROVE PoolInv'
    <2>1. PICK m \in Nat : caps' = [caps EXCEPT ![k] = Append(caps[k], m)]
      BY <1>2, SizesAssumption DEF ResizeKind
    <2>2. caps' \in [Kinds -> Seq(Nat)]
      BY <2>1 DEF PoolInv, PoolTypeOK
    <2>3. \A h \in Kinds : Len(caps'[h]) = IF h = k THEN Len(caps[h]) + 1 ELSE Len(caps[h])
      BY <2>1 DEF PoolInv, PoolTypeOK
    <2>4. resizes' = resizes + 1 /\ resizes' \in 0..MaxResizes /\ resizes \in Nat
      BY <1>2, PoolBoundsAssumption DEF ResizeKind, PoolInv, PoolTypeOK
    <2>5. Generations'
      <3> SUFFICES ASSUME NEW h \in Kinds PROVE Len(caps'[h]) \in 1..(resizes' + 1)
        BY DEF Generations
      <3>1. Len(caps[h]) \in 1..(resizes + 1)
        BY DEF PoolInv, Generations
      <3> QED
        BY <2>3, <2>4, <3>1
    <2> QED
      BY <1>2, <2>2, <2>4, <2>5 DEF ResizeKind, leaks, PoolInv, PoolTypeOK
  <1>3. CASE RaiseGate \/ LowerGate
    <2>1. /\ UNCHANGED <<pool, resizes, pollErrors, overdue>> /\ gate' \in BOOLEAN
          /\ scans' = scans \/ (scans < MaxScans /\ scans' = scans + 1)
          /\ slipped' = slipped \/ slipped' = [w \in Workers |-> 0]
      BY <1>3 DEF RaiseGate, LowerGate, noise, leaks
    <2>2. scans' \in 0..MaxScans
      BY <2>1, PoolBoundsAssumption DEF PoolInv, PoolTypeOK
    <2>3. slipped' \in [Workers -> Nat]
      BY <2>1 DEF PoolInv, PoolTypeOK
    <2> QED
      BY <2>1, <2>2, <2>3 DEF pool, PoolInv, PoolTypeOK, Generations
  <1>4. CASE PoolCrash
    <2>1. at' \in [Workers -> Place] /\ skip' \in [Workers -> SUBSET Kinds]
      BY <1>4 DEF PoolCrash, Place
    <2>2. ticket' \in [Workers -> Tickets] /\ gate' \in BOOLEAN
      <3>1. NoTicket \in Tickets
        BY DEF Tickets
      <3> QED
        BY <1>4, <3>1 DEF PoolCrash
    <2>3. UNCHANGED <<desired, next_id, caps, resizes, scans, pollErrors, slipped, overdue>>
      BY <1>4 DEF PoolCrash, leaks
    <2> QED
      BY <2>1, <2>2, <2>3 DEF PoolInv, PoolTypeOK, Generations
  <1>5. CASE PoolBoot
    <2>1. caps' = [k \in Kinds |-> <<InitialCap>>] /\ caps' \in [Kinds -> Seq(Nat)]
      BY <1>5, InitialAssumption DEF PoolBoot
    <2>2. resizes' = resizes /\ resizes \in Nat
      BY <1>5, PoolBoundsAssumption DEF PoolBoot, noise, PoolInv, PoolTypeOK
    <2>3. Generations'
      BY <2>1, <2>2 DEF Generations
    <2> QED
      BY <1>5, <2>1, <2>3 DEF PoolBoot, noise, Place, PoolInv, PoolTypeOK
  <1>6. CASE Outside
    BY <1>6 DEF Outside, pool, noise, leaks, PoolInv, PoolTypeOK, Generations
  <1> QED
    BY <1>1, <1>2, <1>3, <1>4, <1>5, <1>6

LEMMA PoolNextType ==
    ASSUME PoolInv, TypeInv, [PoolNext]_poolVars
    PROVE  PoolInv'
  <1>1. CASE UNCHANGED poolVars
    BY <1>1 DEF poolVars, pool, noise, leaks, PoolInv, PoolTypeOK, Generations
  <1> QED
    BY <1>1, LoopType, IterationType, SettingsType DEF PoolNext, PoolWork

-----------------------------------------------------------------------------
(* The pool is a queue.                                                    *)

LEMMA PoolStep ==
    ASSUME PoolInv, [PoolNext]_poolVars
    PROVE  [Next]_vars
  <1>1. ASSUME NEW w \in Workers, PoolWork(w) PROVE [Next]_vars
    <2>1. CASE PoolClaim(w)
      <3>1. skip[w] \in SUBSET Kinds
        BY DEF PoolInv, PoolTypeOK
      <3> QED
        BY <2>1, <3>1 DEF PoolClaim, Work, Next
    <2>2. CASE PoolStart(w) \/ GoOn(w) \/ GoRound(w)
      BY <2>2 DEF PoolStart, GoOn, GoRound, Work, Next
    <2>3. CASE \/ Exit(w) \/ Top(w) \/ Unpark(w) \/ Resume(w) \/ PollEmpty(w) \/ PollError(w)
               \/ Acquire(w)
      BY <2>3 DEF Exit, Top, Unpark, Resume, PollEmpty, PollError, Acquire
    <2> QED
      BY <1>1, <2>1, <2>2, <2>3 DEF PoolWork
  <1>2. CASE (\E n \in Sizes : Resize(n)) \/ (\E k \in Kinds, n \in Caps : ResizeKind(k, n))
             \/ RaiseGate \/ LowerGate \/ UNCHANGED poolVars
    BY <1>2 DEF Resize, ResizeKind, RaiseGate, LowerGate, poolVars
  <1>3. CASE PoolCrash \/ PoolBoot \/ Outside
    BY <1>3 DEF PoolCrash, PoolBoot, Outside, Next
  <1> QED
    BY <1>1, <1>2, <1>3 DEF PoolNext

\* Nothing the pool adds reaches the table but through the steps of JobQueue:
\* every behaviour of the pool is one of the queue, so what is proved of the
\* queue holds under resizes, scans, caps and restarts (jobs/mod.rs:383-515).
THEOREM PoolIsAQueueCorrect == PoolSpec => PoolIsAQueue
  <1>1. PoolInit => Init /\ TypeInv /\ PoolInv
    BY InitType, PoolInitType DEF PoolInit
  <1>2. PoolInv /\ TypeInv /\ [PoolNext]_poolVars => [Next]_vars /\ (PoolInv /\ TypeInv)'
    BY PoolStep, PoolNextType, NextType
  <1> QED
    BY <1>1, <1>2, PTL DEF PoolSpec, PoolIsAQueue

-----------------------------------------------------------------------------
(* Late claims.                                                            *)

\* Before a worker claims it has looked at the gate and at the size, and after
\* the claim it looks again: one late claim, and none to come.
LateInv ==
    \A w \in Workers :
        /\ gate => /\ slipped[w] \in {0, 1}
                   /\ slipped[w] = 1 => at[w] \notin {"stagger", "polling"}
        /\ overdue[w] \in {0, 1}
        /\ overdue[w] = 1 => /\ w >= desired
                             /\ at[w] \notin {"parked", "stagger", "polling"}

LEMMA LateLoop ==
    ASSUME PoolInv, LateInv, NEW w \in Workers,
           Exit(w) \/ Top(w) \/ Unpark(w) \/ Resume(w) \/ PollEmpty(w) \/ PollError(w)
    PROVE  LateInv'
  <1>0. at \in [Workers -> Place] /\ desired \in Nat /\ Workers \subseteq Nat
    BY WorkersAssumption DEF PoolInv, PoolTypeOK
  <1>1. UNCHANGED <<desired, gate, slipped, overdue>>
    BY DEF Exit, Top, Unpark, Resume, PollEmpty, PollError, noise, leaks
  <1>2. \A v \in Workers : v # w => at'[v] = at[v]
    BY <1>0 DEF Exit, Top, Unpark, Resume, PollEmpty, PollError, Snapshot, Polled, Pc
  <1>3. CASE Exit(w) \/ PollEmpty(w) \/ PollError(w)
    <2>1. at'[w] \in {"gone", "top"}
      BY <1>0, <1>3 DEF Exit, PollEmpty, PollError, Polled, Pc
    <2> QED
      BY <1>1, <1>2, <2>1 DEF LateInv
  <1>4. CASE Top(w)
    <2>1. at'[w] \in {"parked", "polling"} /\ (gate => at'[w] = "parked") /\ ~(w >= desired)
      BY <1>0, <1>4 DEF Top, Snapshot, Pc
    <2> QED
      BY <1>1, <1>2, <2>1 DEF LateInv
  <1>5. CASE Unpark(w)
    <2>1. at[w] = "parked" /\ ~gate
      BY <1>5 DEF Unpark
    <2> QED
      BY <1>1, <1>2, <2>1 DEF LateInv
  <1>6. CASE Resume(w)
    <2>1. at[w] = "stagger"
      BY <1>6 DEF Resume
    <2> QED
      BY <1>1, <1>2, <2>1 DEF LateInv
  <1> QED
    BY <1>3, <1>4, <1>5, <1>6

LEMMA LateIteration ==
    ASSUME PoolInv, LateInv, NEW w \in Workers,
           PoolClaim(w) \/ Acquire(w) \/ PoolStart(w) \/ GoOn(w) \/ GoRound(w)
    PROVE  LateInv'
  <1>0. /\ at \in [Workers -> Place] /\ desired \in Nat /\ Workers \subseteq Nat
        /\ slipped \in [Workers -> Nat] /\ overdue \in [Workers -> Nat]
    BY WorkersAssumption DEF PoolInv, PoolTypeOK
  <1>1. CASE PoolClaim(w)
    <2>1. /\ at[w] = "polling" /\ at'[w] = "working" /\ desired' = desired /\ gate' = gate
          /\ slipped'[w] = IF gate THEN slipped[w] + 1 ELSE slipped[w]
          /\ overdue'[w] = IF w >= desired THEN overdue[w] + 1 ELSE overdue[w]
          /\ \A v \in Workers : v # w => at'[v] = at[v] /\ slipped'[v] = slipped[v]
                                           /\ overdue'[v] = overdue[v]
      BY <1>0, <1>1 DEF PoolClaim, Polled, Pc, noise
    <2>2. (gate => slipped[w] = 0) /\ overdue[w] = 0
      BY <2>1 DEF LateInv
    <2> QED
      BY <2>1, <2>2 DEF LateInv
  <1>2. CASE Acquire(w) \/ PoolStart(w) \/ GoOn(w)
    BY <1>2 DEF Acquire, PoolStart, GoOn, pool, noise, leaks, LateInv
  <1>3. CASE GoRound(w)
    <2>1. /\ UNCHANGED <<desired, gate, slipped, overdue>>
          /\ at'[w] = "top" /\ \A v \in Workers : v # w => at'[v] = at[v]
      BY <1>0, <1>3 DEF GoRound, Pc, noise, leaks
    <2> QED
      BY <2>1 DEF LateInv
  <1> QED
    BY <1>1, <1>2, <1>3

LEMMA LateSettings ==
    ASSUME PoolInv, LateInv,
           \/ \E n \in Sizes : Resize(n)
           \/ \E k \in Kinds, n \in Caps : ResizeKind(k, n)
           \/ RaiseGate \/ LowerGate \/ PoolCrash \/ PoolBoot \/ Outside
    PROVE  LateInv'
  <1>1. ASSUME NEW n \in Sizes, Resize(n) PROVE LateInv'
    <2>1. /\ desired' = ClampedSize(n) /\ UNCHANGED <<gate, slipped>>
          /\ \A w \in Workers : at'[w] \in {at[w], "top"}
          /\ \A w \in Workers : overdue'[w] = IF w < ClampedSize(n) THEN 0 ELSE overdue[w]
      BY <1>1 DEF Resize
    <2>2. \A w \in Workers : w \in Nat /\ ClampedSize(n) \in Nat
      BY WorkersAssumption, SizesAssumption, ClampedType
    <2> QED
      BY <2>1, <2>2 DEF LateInv
  <1>2. CASE (\E k \in Kinds, n \in Caps : ResizeKind(k, n)) \/ Outside
    BY <1>2 DEF ResizeKind, Outside, pool, noise, leaks, LateInv
  <1>3. CASE RaiseGate \/ LowerGate
    BY <1>3 DEF RaiseGate, LowerGate, pool, leaks, LateInv
  <1>4. CASE PoolCrash
    BY <1>4 DEF PoolCrash, leaks, LateInv
  <1>5. CASE PoolBoot
    <2>1. /\ gate' = gate /\ slipped' = slipped /\ desired' = desired
          /\ \A w \in Workers : at'[w] \in {"top", "unborn"} /\ overdue'[w] = 0
      BY <1>5 DEF PoolBoot, noise
    <2> QED
      BY <2>1 DEF LateInv
  <1> QED
    BY <1>1, <1>2, <1>3, <1>4, <1>5

LEMMA LateNext ==
    ASSUME PoolInv, LateInv, [PoolNext]_poolVars
    PROVE  LateInv'
  <1>1. CASE UNCHANGED poolVars
    BY <1>1 DEF poolVars, pool, noise, leaks, LateInv
  <1> QED
    BY <1>1, LateLoop, LateIteration, LateSettings DEF PoolNext, PoolWork

\* A worker that should have stopped, because a scan raised the gate or its id
\* fell out of the window, takes at most one job more, for any pool and any
\* sequence of scans, resizes and crashes (jobs/mod.rs:413-469).
THEOREM OneLateClaimCorrect == PoolSpec => []OneLateClaim
  <1>1. PoolInit => Init /\ TypeInv /\ PoolInv /\ LateInv
    BY InitType, PoolInitType DEF PoolInit, LateInv
  <1>2. PoolInv /\ TypeInv /\ LateInv /\ [PoolNext]_poolVars => (PoolInv /\ TypeInv /\ LateInv)'
    BY PoolStep, PoolNextType, NextType, LateNext
  <1>3. LateInv => OneLateClaim
    BY DEF LateInv, OneLateClaim, OneClaimPerScan, OneClaimAfterShrink
  <1> QED
    BY <1>1, <1>2, <1>3, PTL DEF PoolSpec

-----------------------------------------------------------------------------
(* Places.                                                                 *)

\* A worker is in the middle of an iteration for as long as it has a job; ids
\* that were not given out yet have no worker, nor has a process that is down.
PlaceInv ==
    \A w \in Workers :
        /\ at[w] = "working" <=> phase[w] \in Engaged
        /\ w >= next_id \/ ~up => at[w] = "unborn"

\* Steps that end or leave alone a queue that stays up.
LEMMA StaysUp ==
    ASSUME NEW w \in Workers, PoolWork(w)
    PROVE  up' = up
  <1>1. ASSUME NEW X, Claim(w, X) PROVE up' = up
    BY <1>1 DEF Claim, ClaimRow
  <1>2. CASE GoOn(w) \/ GoRound(w) \/ PoolStart(w)
    BY <1>2 DEF GoOn, GoRound, PoolStart, StartHandler, FinishHandler, MarkDead, MarkDeadLost,
       MarkExhausted, MarkSucceeded, MarkFailed, MarkLost, Alert
  <1> QED
    BY <1>1, <1>2 DEF PoolWork, PoolClaim, Exit, Top, Unpark, Resume, PollEmpty, PollError,
       Acquire, vars

\* What happens outside the workers leaves their phases alone.
LEMMA OutsideFrame == Outside => UNCHANGED <<up, phase, holder>>
  BY DEF Outside, Enqueue, EnqueueUnique, Insert, BackoffElapses, Admin, Requeue, WipeQueued,
     ClearDead, CleanupOld, Delete

LEMMA Starts ==
    ASSUME TypeOK, NEW w \in Workers, PoolStart(w)
    PROVE  /\ phase[w] = "claimed" /\ phase'[w] = "handling"
           /\ \A v \in Workers : v # w => phase'[v] = phase[v]
           /\ holder' = holder /\ jobs' = jobs
  <1>1. Goto(w, "handling") /\ "handling" \in Phase
    BY DEF PoolStart, StartHandler, Phase, Owning
  <1> QED
    BY <1>1, GotoFacts DEF PoolStart, StartHandler, table

LEMMA PlaceWork ==
    ASSUME PoolInv, TypeInv, PlaceInv, NEW w \in Workers, PoolWork(w)
    PROVE  PlaceInv'
  <1>0. at \in [Workers -> Place] /\ TypeOK /\ up' = up
    BY StaysUp DEF PoolInv, PoolTypeOK, TypeInv
  <1>1. CASE Exit(w) \/ Top(w) \/ Unpark(w) \/ Resume(w) \/ PollEmpty(w) \/ PollError(w)
    <2>1. /\ at[w] \notin {"working", "unborn"} /\ at'[w] # "working"
          /\ \A v \in Workers : v # w => at'[v] = at[v]
          /\ UNCHANGED <<phase, next_id>>
      BY <1>0, <1>1 DEF Exit, Top, Unpark, Resume, PollEmpty, PollError, Snapshot, Polled, Pc, vars
    <2> QED
      BY <1>0, <2>1 DEF PlaceInv
  <1>2. CASE PoolClaim(w)
    <2>1. /\ at[w] = "polling" /\ at'[w] = "working" /\ next_id' = next_id
          /\ \A v \in Workers : v # w => at'[v] = at[v]
      BY <1>0, <1>2 DEF PoolClaim, Polled, Pc
    <2>2. phase'[w] = "claimed" /\ \A v \in Workers : v # w => phase'[v] = phase[v]
      BY <1>0, <1>2, Claims DEF PoolClaim
    <2> QED
      BY <1>0, <2>1, <2>2 DEF PlaceInv, Engaged, Owning
  <1>3. CASE Acquire(w)
    BY <1>0, <1>3 DEF Acquire, vars, PlaceInv
  <1>4. CASE PoolStart(w)
    <2>1. UNCHANGED <<at, next_id>>
      BY <1>4 DEF PoolStart, pool
    <2> QED
      BY <1>0, <1>4, <2>1, Starts DEF PlaceInv, Engaged, Owning
  <1>5. CASE GoOn(w)
    <2>1. UNCHANGED <<at, next_id>>
      BY <1>5 DEF GoOn, pool
    <2>2. /\ phase[w] \in Engaged /\ phase'[w] \in Engaged
          /\ \A v \in Workers : v # w => phase'[v] = phase[v]
      BY <1>0, <1>5, Goes DEF GoOn, Engaged
    <2> QED
      BY <1>0, <2>1, <2>2 DEF PlaceInv
  <1>6. CASE GoRound(w)
    <2>1. at'[w] = "top" /\ next_id' = next_id /\ \A v \in Workers : v # w => at'[v] = at[v]
      BY <1>0, <1>6 DEF GoRound, Pc
    <2>2. /\ phase[w] \in Engaged /\ phase'[w] = "idle"
          /\ \A v \in Workers : v # w => phase'[v] = phase[v]
      BY <1>0, <1>6, Ends DEF GoRound
    <2> QED
      BY <1>0, <2>1, <2>2 DEF PlaceInv, Engaged, Owning
  <1> QED
    BY <1>1, <1>2, <1>3, <1>4, <1>5, <1>6 DEF PoolWork

LEMMA PlaceNext ==
    ASSUME PoolInv, TypeInv, PlaceInv, [PoolNext]_poolVars
    PROVE  PlaceInv'
  <1>1. ASSUME NEW n \in Sizes, Resize(n) PROVE PlaceInv'
    <2>1. PICK b \in Nat :
            /\ next_id' = next_id + b
            /\ at' = [w \in Workers |-> IF w \in next_id..(next_id + b - 1) THEN "top" ELSE at[w]]
      <3>1. PICK b : /\ b = IF ClampedSize(n) > desired THEN ClampedSize(n) - desired ELSE 0
                     /\ next_id' = next_id + b
                     /\ at' = [w \in Workers |->
                                 IF w \in next_id..(next_id + b - 1) THEN "top" ELSE at[w]]
        BY <1>1 DEF Resize
      <3>2. ClampedSize(n) \in Nat /\ desired \in Nat
        BY SizesAssumption, ClampedType DEF PoolInv, PoolTypeOK
      <3> QED
        BY <3>1, <3>2
    <2>2. UNCHANGED <<up, phase>> /\ up
      BY <1>1 DEF Resize, vars
    <2>3. next_id \in Nat /\ \A w \in Workers : w \in Nat
      BY WorkersAssumption DEF PoolInv, PoolTypeOK
    <2> SUFFICES ASSUME NEW w \in Workers
                 PROVE  /\ at'[w] = "working" <=> phase'[w] \in Engaged
                        /\ w >= next_id' \/ ~up' => at'[w] = "unborn"
      BY DEF PlaceInv
    <2>4. CASE w \in next_id..(next_id + b - 1)
      <3>1. at[w] = "unborn" /\ at'[w] = "top" /\ ~(w >= next_id')
        BY <2>1, <2>3, <2>4 DEF PlaceInv
      <3> QED
        BY <2>2, <3>1 DEF PlaceInv
    <2>5. CASE w \notin next_id..(next_id + b - 1)
      <3>1. at'[w] = at[w] /\ (w >= next_id' => w >= next_id)
        BY <2>1, <2>3, <2>5
      <3> QED
        BY <2>2, <3>1 DEF PlaceInv
    <2> QED
      BY <2>4, <2>5
  <1>2. CASE (\E k \in Kinds, n \in Caps : ResizeKind(k, n)) \/ RaiseGate \/ LowerGate
             \/ UNCHANGED poolVars
    BY <1>2 DEF ResizeKind, RaiseGate, LowerGate, poolVars, pool, vars, PlaceInv
  <1>3. CASE Outside
    <2>1. UNCHANGED <<at, next_id>>
      BY <1>3 DEF Outside, pool
    <2> QED
      BY <1>3, <2>1, OutsideFrame DEF PlaceInv
  <1>4. CASE PoolCrash
    BY <1>4 DEF PoolCrash, Crash, PlaceInv, Engaged, Owning
  <1>5. CASE PoolBoot
    <2>1. /\ up' /\ next_id' = desired /\ phase' = [w \in Workers |-> "idle"]
          /\ at' = [w \in Workers |-> IF w < desired THEN "top" ELSE "unborn"]
      BY <1>5 DEF PoolBoot, Boot, BootUnreclaimed
    <2>2. desired \in Nat /\ \A w \in Workers : w \in Nat
      BY WorkersAssumption DEF PoolInv, PoolTypeOK
    <2> QED
      BY <2>1, <2>2 DEF PlaceInv, Engaged, Owning
  <1> QED
    BY <1>1, <1>2, <1>3, <1>4, <1>5, PlaceWork DEF PoolNext

-----------------------------------------------------------------------------
(* Permits.                                                                *)

\* Past the wait for a permit.
Served == {"handling", "ok", "retryable", "terminal"}

\* A worker holds a ticket only while it has a job, and for that job's kind:
\* the row under it keeps its kind for as long as the worker owns it.
Ticketed(w) ==
    /\ phase[w] \notin Engaged => ticket[w] = NoTicket
    /\ phase[w] \in Served => ticket[w] # NoTicket
    /\ ticket[w] # NoTicket =>
          /\ ticket[w][1] \in Kinds /\ ticket[w][2] \in 1..Len(caps[ticket[w][1]])
          /\ phase[w] \in Owning => /\ ticket[w][1] = jobs[holder[w]].kind
                                    /\ ticket[w][1] \in Handled

TicketInv == \A w \in Workers : Ticketed(w)

\* The kind of a row does not change under the worker that owns it.
LEMMA KindKept ==
    ASSUME OwnershipInv, [Next]_vars, NEW w \in Workers, phase[w] \in Owning
    PROVE  jobs'[holder[w]].kind = jobs[holder[w]].kind
  <1>1. holder[w] \in Ids /\ jobs[holder[w]].status = "running" /\ jobs[holder[w]] \in Row
    BY DEF OwnershipInv, TypeInv, TypeOK, HolderIsRow, ExclusiveOwnership
  <1>2. PICK j \in Ids : j = holder[w]
    BY <1>1
  <1>3. RowStep(j)
    BY NextRowStep
  <1>4. \/ Kept(j) \/ WasSettled(j) \/ WasBackedOff(j) \/ WasReclaimed(j)
    BY <1>1, <1>2, <1>3
    DEF RowStep, QuietStep, BecameDue, WasClaimed, WasDeleted, Inserted, WasRequeued
  <1> QED
    BY <1>1, <1>2, <1>4
    DEF Kept, WasSettled, WasBackedOff, WasReclaimed, Settled, BackedOff, Reclaimed, Row

\* A worker the step is not about keeps its ticket in order.
LEMMA TicketKept ==
    ASSUME OwnershipInv, [Next]_vars, NEW w \in Workers, Ticketed(w),
           phase'[w] = phase[w], holder'[w] = holder[w], ticket'[w] = ticket[w],
           \A k \in Kinds : Len(caps[k]) \in Nat /\ Len(caps'[k]) \in Nat
                                /\ Len(caps'[k]) >= Len(caps[k])
    PROVE  Ticketed(w)'
  <1>1. phase[w] \in Owning => jobs'[holder[w]].kind = jobs[holder[w]].kind
    BY KindKept
  <1>2. ticket[w] # NoTicket => ticket[w][2] \in 1..Len(caps'[ticket[w][1]])
    BY DEF Ticketed
  <1> QED
    BY <1>1, <1>2 DEF Ticketed

LEMMA CapsAreLists == PoolInv => \A k \in Kinds : Len(caps[k]) \in Nat \ {0} /\ caps[k] \in Seq(Nat)
  BY DEF PoolInv, PoolTypeOK, Generations

LEMMA TicketWork ==
    ASSUME PoolInv, OwnershipInv, PlaceInv, TicketInv, NEW w \in Workers, PoolWork(w)
    PROVE  TicketInv'
  <1>0. /\ TypeOK /\ ticket \in [Workers -> Tickets] /\ [Next]_vars
        /\ \A v \in Workers : Ticketed(v)
        /\ \A k \in Kinds : Len(caps[k]) \in Nat \ {0}
    <2>1. [Next]_vars
      BY PoolStep DEF PoolNext
    <2> QED
      BY <2>1, CapsAreLists DEF OwnershipInv, TypeInv, PoolInv, PoolTypeOK, TicketInv
  <1>a. caps' = caps
    BY DEF PoolWork, Exit, Top, Unpark, Resume, PoolClaim, PollEmpty, PollError, Acquire,
       PoolStart, GoOn, GoRound, pool
  <1>b. ASSUME NEW v \in Workers, phase'[v] = phase[v], holder'[v] = holder[v],
               ticket'[v] = ticket[v]
        PROVE  Ticketed(v)'
    BY <1>0, <1>a, <1>b, TicketKept
  <1>1. CASE Exit(w) \/ Top(w) \/ Unpark(w) \/ Resume(w) \/ PollEmpty(w) \/ PollError(w)
    <2>1. UNCHANGED <<phase, holder, ticket>>
      BY <1>1 DEF Exit, Top, Unpark, Resume, PollEmpty, PollError, vars
    <2> QED
      BY <1>b, <2>1 DEF TicketInv
  <1>2. CASE PoolClaim(w)
    <2>1. /\ phase[w] = "idle" /\ phase'[w] = "claimed" /\ ticket' = ticket
          /\ \A v \in Workers : v # w => phase'[v] = phase[v] /\ holder'[v] = holder[v]
      BY <1>0, <1>2, Claims DEF PoolClaim
    <2>2. ticket[w] = NoTicket
      BY <1>0, <2>1 DEF Ticketed, Engaged, Owning
    <2>3. Ticketed(w)'
      BY <2>1, <2>2 DEF Ticketed, Engaged, Owning, Served
    <2> QED
      BY <1>b, <2>1, <2>3 DEF TicketInv
  <1>3. CASE Acquire(w)
    <2>1. /\ phase[w] = "claimed" /\ jobs[holder[w]].kind \in Handled
          /\ UNCHANGED <<jobs, phase, holder>>
      BY <1>3 DEF Acquire, vars
    <2>2. PICK k \in Kinds : /\ k = jobs[holder[w]].kind
                             /\ ticket' = [ticket EXCEPT ![w] = <<k, Len(caps[k])>>]
      BY <1>3, <2>1, KindsAssumption DEF Acquire
    <2>3. /\ ticket'[w] = <<k, Len(caps[k])>>
          /\ \A v \in Workers : v # w => ticket'[v] = ticket[v]
      BY <1>0, <2>2
    <2>4. Len(caps[k]) \in 1..Len(caps[k])
      BY <1>0
    <2>5. Ticketed(w)'
      BY <1>a, <2>1, <2>2, <2>3, <2>4 DEF Ticketed, Engaged, Owning, Served, NoTicket
    <2> QED
      BY <1>b, <2>1, <2>3, <2>5 DEF TicketInv
  <1>4. CASE PoolStart(w)
    <2>1. UNCHANGED ticket /\ ticket[w] # NoTicket
      BY <1>4 DEF PoolStart, pool
    <2>2. /\ phase[w] = "claimed" /\ phase'[w] = "handling"
          /\ \A v \in Workers : v # w => phase'[v] = phase[v]
          /\ holder' = holder /\ jobs' = jobs
      BY <1>0, <1>4, Starts
    <2>3. Ticketed(w)'
      BY <1>0, <1>a, <2>1, <2>2 DEF Ticketed, Engaged, Owning, Served
    <2> QED
      BY <1>b, <2>1, <2>2, <2>3 DEF TicketInv
  <1>5. CASE GoOn(w)
    <2>1. UNCHANGED ticket
      BY <1>5 DEF GoOn, pool
    <2>2. /\ phase[w] \in Owning /\ phase'[w] \in Engaged
          /\ phase[w] = "claimed" => jobs[holder[w]].kind \notin Handled
          /\ phase'[w] \in Owning => phase[w] = "handling"
          /\ phase'[w] # "claimed" /\ holder' = holder
          /\ \A v \in Workers : v # w => phase'[v] = phase[v]
      BY <1>0, <1>5, Goes DEF GoOn
    <2>3. jobs'[holder[w]].kind = jobs[holder[w]].kind
      BY <1>0, <2>2, KindKept
    <2>4. Ticketed(w)'
      BY <1>0, <1>a, <2>1, <2>2, <2>3 DEF Ticketed, Engaged, Owning, Served
    <2> QED
      BY <1>b, <2>1, <2>2, <2>4 DEF TicketInv
  <1>6. CASE GoRound(w)
    <2>1. /\ ticket'[w] = NoTicket
          /\ \A v \in Workers : v # w => ticket'[v] = ticket[v]
      BY <1>0, <1>6 DEF GoRound
    <2>2. /\ phase'[w] = "idle"
          /\ \A v \in Workers : v # w => phase'[v] = phase[v] /\ holder'[v] = holder[v]
      BY <1>0, <1>6, Ends DEF GoRound
    <2>3. Ticketed(w)'
      BY <2>1, <2>2 DEF Ticketed, Engaged, Owning, Served
    <2> QED
      BY <1>b, <2>1, <2>2, <2>3 DEF TicketInv
  <1> QED
    BY <1>1, <1>2, <1>3, <1>4, <1>5, <1>6 DEF PoolWork

\* A process that is down holds no tickets.
LEMMA DownWithout ==
    ASSUME PlaceInv, TicketInv, ~up, NEW w \in Workers
    PROVE  ticket[w] = NoTicket
  BY DEF PlaceInv, TicketInv, Ticketed

\* What changing a cap leaves alone.
LEMMA ResizedCaps ==
    ASSUME PoolInv, NEW k \in Kinds, NEW n \in Caps, ResizeKind(k, n)
    PROVE  \A h \in Kinds : /\ Len(caps'[h]) = IF h = k THEN Len(caps[h]) + 1 ELSE Len(caps[h])
                            /\ \A g \in 1..Len(caps[h]) : caps'[h][g] = caps[h][g]
                            /\ caps'[h] \in Seq(Nat)
  <1>1. PICK m \in Nat : caps' = [caps EXCEPT ![k] = Append(caps[k], m)]
    BY SizesAssumption DEF ResizeKind
  <1>2. caps \in [Kinds -> Seq(Nat)]
    BY DEF PoolInv, PoolTypeOK
  <1> SUFFICES ASSUME NEW h \in Kinds
               PROVE  /\ Len(caps'[h]) = IF h = k THEN Len(caps[h]) + 1 ELSE Len(caps[h])
                      /\ \A g \in 1..Len(caps[h]) : caps'[h][g] = caps[h][g]
                      /\ caps'[h] \in Seq(Nat)
    OBVIOUS
  <1>3. CASE h = k
    <2>1. caps'[h] = Append(caps[h], m) /\ caps[h] \in Seq(Nat)
      BY <1>1, <1>2, <1>3
    <2> QED
      BY <1>3, <2>1
  <1>4. CASE h # k
    BY <1>1, <1>2, <1>4
  <1> QED
    BY <1>3, <1>4

LEMMA TicketNext ==
    ASSUME PoolInv, OwnershipInv, PlaceInv, TicketInv, [PoolNext]_poolVars
    PROVE  TicketInv'
  <1>0. [Next]_vars /\ \A k \in Kinds : Len(caps[k]) \in Nat
    BY PoolStep, CapsAreLists
  <1>1. CASE \/ \E n \in Sizes : Resize(n)
             \/ RaiseGate \/ LowerGate \/ Outside \/ UNCHANGED poolVars
    <2>1. UNCHANGED <<phase, holder, ticket, caps>>
      BY <1>1, OutsideFrame DEF Resize, RaiseGate, LowerGate, Outside, poolVars, pool, vars
    <2> QED
      BY <1>0, <2>1, TicketKept DEF TicketInv
  <1>2. ASSUME NEW k \in Kinds, NEW n \in Caps, ResizeKind(k, n) PROVE TicketInv'
    <2>1. UNCHANGED <<phase, holder, ticket>>
      BY <1>2 DEF ResizeKind, vars
    <2>2. \A h \in Kinds : Len(caps'[h]) \in Nat /\ Len(caps'[h]) >= Len(caps[h])
      BY <1>0, <1>2, ResizedCaps
    <2> QED
      BY <1>0, <2>1, <2>2, TicketKept DEF TicketInv
  <1>3. CASE PoolCrash
    <2>1. \A w \in Workers : ticket'[w] = NoTicket /\ phase'[w] = "down"
      BY <1>3 DEF PoolCrash, Crash
    <2> QED
      BY <2>1 DEF TicketInv, Ticketed, Engaged, Owning, Served
  <1>4. CASE PoolBoot
    <2>1. /\ ~up /\ ticket' = ticket /\ phase' = [w \in Workers |-> "idle"]
      BY <1>4 DEF PoolBoot, Boot, BootUnreclaimed
    <2>2. \A w \in Workers : ticket'[w] = NoTicket /\ phase'[w] = "idle"
      BY <2>1, DownWithout
    <2> QED
      BY <2>2 DEF TicketInv, Ticketed, Engaged, Owning, Served
  <1> QED
    BY <1>1, <1>2, <1>3, <1>4, TicketWork DEF PoolNext

-----------------------------------------------------------------------------
(* Caps.                                                                   *)

\* Retired semaphores count, too: their holders finish on them.
CapInv ==
    \A k \in Kinds : \A g \in 1..Len(caps[k]) : Cardinality(Holders(<<k, g>>)) <= caps[k][g]

LEMMA HoldersFinite == \A t : IsFiniteSet(Holders(t))
  <1>1. IsFiniteSet(Workers)
    <2>1. PICK n \in Workers : n \in Nat /\ Workers = 0..n
      BY WorkersAssumption
    <2> QED
      BY <2>1, FS_Interval
  <1> SUFFICES ASSUME NEW t PROVE IsFiniteSet(Holders(t))
    OBVIOUS
  <1>2. Holders(t) \in SUBSET Workers
    BY DEF Holders
  <1> QED
    BY <1>1, <1>2, FS_Subset

\* A semaphore that nobody joins stays within its cap.
LEMMA NoneJoins ==
    ASSUME PoolInv, CapInv, NEW k \in Kinds, NEW g \in 1..Len(caps[k]),
           caps'[k][g] = caps[k][g], Holders(<<k, g>>)' \subseteq Holders(<<k, g>>)
    PROVE  Cardinality(Holders(<<k, g>>)') <= caps'[k][g]
  <1>1. PICK H, J : H = Holders(<<k, g>>) /\ J = Holders(<<k, g>>)' /\ J \in SUBSET H
    OBVIOUS
  <1>2. IsFiniteSet(H) /\ Cardinality(H) <= caps[k][g] /\ caps[k][g] \in Nat
    <2>1. IsFiniteSet(Holders(<<k, g>>))
      BY HoldersFinite
    <2>2. Cardinality(Holders(<<k, g>>)) <= caps[k][g]
      BY DEF CapInv
    <2>3. caps[k][g] \in Nat
      BY CapsAreLists
    <2> QED
      BY <1>1, <2>1, <2>2, <2>3
  <1>3. /\ Cardinality(J) <= Cardinality(H) /\ IsFiniteSet(J)
    BY <1>1, <1>2, FS_Subset
  <1>4. Cardinality(H) \in Nat /\ Cardinality(J) \in Nat
    BY <1>2, <1>3, FS_CardinalityType
  <1> QED
    BY <1>1, <1>2, <1>3, <1>4

LEMMA NoHolders == ASSUME NEW S, S = {}, NEW n \in Nat PROVE Cardinality(S) <= n
  BY FS_EmptySet

LEMMA CapNext ==
    ASSUME PoolInv, OwnershipInv, PlaceInv, TicketInv, CapInv, [PoolNext]_poolVars
    PROVE  CapInv'
  <1>0. /\ TypeOK /\ \A v \in Workers : Ticketed(v)
        /\ ticket \in [Workers -> Tickets]
    BY DEF OwnershipInv, TypeInv, TicketInv, PoolInv, PoolTypeOK
  <1>a. ASSUME caps' = caps, \A t : t # NoTicket => Holders(t)' \subseteq Holders(t)
        PROVE  CapInv'
    <2> SUFFICES ASSUME NEW k \in Kinds, NEW g \in 1..Len(caps[k])
                 PROVE  Cardinality(Holders(<<k, g>>)') <= caps'[k][g]
      BY <1>a DEF CapInv
    <2>1. Holders(<<k, g>>)' \subseteq Holders(<<k, g>>)
      BY <1>a DEF NoTicket
    <2> QED
      BY <1>a, <2>1, NoneJoins
  <1>1. CASE UNCHANGED <<phase, ticket, caps>>
    BY <1>1, <1>a DEF Holders
  <1>2. ASSUME NEW w \in Workers, PoolClaim(w) \/ GoRound(w) \/ Acquire(w) PROVE CapInv'
    <2>1. caps' = caps
      BY <1>2 DEF PoolClaim, GoRound, Acquire
    <2>2. /\ ticket'[w] = NoTicket \/ phase'[w] = "claimed"
          /\ \A v \in Workers : v # w => phase'[v] = phase[v] /\ ticket'[v] = ticket[v]
      <3>1. CASE PoolClaim(w)
        BY <1>0, <3>1, Claims DEF PoolClaim
      <3>2. CASE GoRound(w)
        BY <1>0, <3>2, Ends DEF GoRound
      <3>3. CASE Acquire(w)
        BY <1>0, <3>3 DEF Acquire, vars
      <3> QED
        BY <1>2, <3>1, <3>2, <3>3
    <2>3. \A t : t # NoTicket => Holders(t)' \subseteq Holders(t)
      BY <2>2 DEF Holders
    <2> QED
      BY <1>a, <2>1, <2>3
  <1>3. ASSUME NEW w \in Workers, GoOn(w) PROVE CapInv'
    <2>1. UNCHANGED <<ticket, caps>>
      BY <1>3 DEF GoOn, pool
    <2>2. /\ phase[w] = "claimed" => jobs[holder[w]].kind \notin Handled
          /\ \A v \in Workers : v # w => phase'[v] = phase[v]
      BY <1>0, <1>3, Goes DEF GoOn
    <2>3. phase[w] = "claimed" => ticket[w] = NoTicket
      BY <1>0, <2>2 DEF Ticketed, Owning
    <2>4. \A t : t # NoTicket => Holders(t)' \subseteq Holders(t)
      BY <2>1, <2>2, <2>3 DEF Holders
    <2> QED
      BY <1>a, <2>1, <2>4
  <1>4. ASSUME NEW w \in Workers, PoolStart(w) PROVE CapInv'
    <2>1. UNCHANGED <<ticket, caps>> /\ ticket[w] # NoTicket /\ Free(ticket[w])
      BY <1>4 DEF PoolStart, pool
    <2>2. phase[w] = "claimed" /\ \A v \in Workers : v # w => phase'[v] = phase[v]
      BY <1>0, <1>4, Starts
    <2> SUFFICES ASSUME NEW k \in Kinds, NEW g \in 1..Len(caps[k])
                 PROVE  Cardinality(Holders(<<k, g>>)') <= caps'[k][g]
      BY <2>1 DEF CapInv
    <2>3. CASE <<k, g>> = ticket[w]
      <3>1. PICK H, J : H = Holders(<<k, g>>) /\ J = Holders(<<k, g>>)'
        OBVIOUS
      <3>a. J \subseteq H \cup {w} /\ w \notin H
        BY <2>1, <2>2, <3>1 DEF Holders
      <3>2. w \notin H /\ IsFiniteSet(H)
        <4>1. IsFiniteSet(Holders(<<k, g>>))
          BY HoldersFinite
        <4> QED
          BY <3>1, <3>a, <4>1
      <3>3. IsFiniteSet(H \cup {w}) /\ Cardinality(H \cup {w}) = Cardinality(H) + 1
        BY <3>2, FS_AddElement
      <3>4. Cardinality(J) <= Cardinality(H \cup {w}) /\ IsFiniteSet(J)
        BY <3>a, <3>3, FS_Subset
      <3>5. Cardinality(H) < caps[k][g] /\ caps[k][g] \in Nat
        <4>1. Free(<<k, g>>)
          BY <2>1, <2>3
        <4>2. Cardinality(Holders(<<k, g>>)) < caps[k][g]
          BY <4>1 DEF Free
        <4>3. caps[k][g] \in Nat
          BY CapsAreLists
        <4> QED
          BY <3>1, <4>2, <4>3
      <3>6. Cardinality(H) \in Nat /\ Cardinality(J) \in Nat
        BY <3>2, <3>4, FS_CardinalityType
      <3> QED
        BY <2>1, <3>1, <3>3, <3>4, <3>5, <3>6
    <2>4. CASE <<k, g>> # ticket[w]
      <3>1. Holders(<<k, g>>)' \subseteq Holders(<<k, g>>)
        BY <2>1, <2>2, <2>4 DEF Holders
      <3> QED
        BY <2>1, <3>1, NoneJoins
    <2> QED
      BY <2>3, <2>4
  <1>5. ASSUME NEW k \in Kinds, NEW n \in Caps, ResizeKind(k, n) PROVE CapInv'
    <2>1. UNCHANGED <<phase, ticket>>
      BY <1>5 DEF ResizeKind, vars
    <2> SUFFICES ASSUME NEW h \in Kinds, NEW g \in 1..Len(caps'[h])
                 PROVE  Cardinality(Holders(<<h, g>>)') <= caps'[h][g]
      BY DEF CapInv
    <2>2. CASE g \in 1..Len(caps[h])
      <3>1. Holders(<<h, g>>)' \subseteq Holders(<<h, g>>) /\ caps'[h][g] = caps[h][g]
        BY <1>5, <2>1, <2>2, ResizedCaps DEF Holders
      <3> QED
        BY <2>2, <3>1, NoneJoins
    <2>3. CASE g \notin 1..Len(caps[h])
      <3>1. \A w \in Workers : ticket[w] # <<h, g>>
        BY <1>0, <2>3 DEF Ticketed, NoTicket
      <3>2. Holders(<<h, g>>)' = {}
        BY <2>1, <3>1 DEF Holders
      <3>3. caps'[h][g] \in Nat
        BY <1>5, ResizedCaps
      <3> QED
        BY <3>2, <3>3, NoHolders
    <2> QED
      BY <2>2, <2>3
  <1>6. CASE PoolCrash \/ PoolBoot
    <2>1. \A w \in Workers : ticket'[w] = NoTicket
      <3>1. CASE PoolCrash
        BY <3>1 DEF PoolCrash
      <3>2. CASE PoolBoot
        BY <3>2, DownWithout DEF PoolBoot, Boot, BootUnreclaimed
      <3> QED
        BY <1>6, <3>1, <3>2
    <2>2. caps' \in [Kinds -> Seq(Nat)]
      <3>1. CASE PoolCrash
        BY <3>1 DEF PoolCrash, PoolInv, PoolTypeOK
      <3>2. CASE PoolBoot
        BY <3>2, InitialAssumption DEF PoolBoot
      <3> QED
        BY <1>6, <3>1, <3>2
    <2> SUFFICES ASSUME NEW h \in Kinds, NEW g \in 1..Len(caps'[h])
                 PROVE  Cardinality(Holders(<<h, g>>)') <= caps'[h][g]
      BY DEF CapInv
    <2>3. Holders(<<h, g>>)' = {}
      BY <2>1 DEF Holders, NoTicket
    <2>4. caps'[h][g] \in Nat
      BY <2>2
    <2> QED
      BY <2>3, <2>4, NoHolders
  <1>7. UNCHANGED <<phase, ticket, caps>> \/
        \/ PoolCrash \/ PoolBoot \/ \E k \in Kinds, n \in Caps : ResizeKind(k, n)
        \/ \E w \in Workers : PoolClaim(w) \/ GoRound(w) \/ Acquire(w) \/ GoOn(w) \/ PoolStart(w)
    BY OutsideFrame DEF PoolNext, PoolWork, Exit, Top, Unpark, Resume, PollEmpty, PollError,
       Resize, RaiseGate, LowerGate, Outside, poolVars, pool, vars
  <1> QED
    BY <1>1, <1>2, <1>3, <1>4, <1>5, <1>6, <1>7

\* No permit, no claim and no place in the loop outlives the others: a handler
\* runs on a permit of its own kind, no semaphore, retired ones included, ever
\* has more holders than its cap, and a worker that exits or parks takes
\* nothing with it (jobs/mod.rs:383-515).
THEOREM NothingLeaksCorrect == PoolSpec => []NothingLeaks
  <1>1. PoolInit => Init /\ OwnershipInv /\ PoolInv /\ PlaceInv /\ TicketInv /\ CapInv
    <2> SUFFICES ASSUME PoolInit
                 PROVE  Init /\ OwnershipInv /\ PoolInv /\ PlaceInv /\ TicketInv /\ CapInv
      OBVIOUS
    <2>1. /\ Init /\ OwnershipInv /\ PoolInv
      BY InitOwnership, PoolInitType DEF PoolInit
    <2>2. \A w \in Workers : phase[w] = "idle" /\ ticket[w] = NoTicket
      BY DEF PoolInit, Init
    <2>3. PlaceInv
      <3>1. /\ up /\ next_id = InitialSize
            /\ at = [w \in Workers |-> IF w < InitialSize THEN "top" ELSE "unborn"]
        BY DEF PoolInit, Init
      <3>2. InitialSize \in Nat /\ \A w \in Workers : w \in Nat
        BY InitialAssumption, WorkersAssumption
      <3> QED
        BY <2>2, <3>1, <3>2 DEF PlaceInv, Engaged, Owning
    <2>4. TicketInv
      BY <2>2 DEF TicketInv, Ticketed, Engaged, Owning, Served
    <2>5. CapInv
      <3> SUFFICES ASSUME NEW h \in Kinds, NEW g \in 1..Len(caps[h])
                   PROVE  Cardinality(Holders(<<h, g>>)) <= caps[h][g]
        BY DEF CapInv
      <3>1. Holders(<<h, g>>) = {}
        BY <2>2 DEF Holders, NoTicket
      <3>2. caps[h][g] \in Nat
        BY <2>1, CapsAreLists
      <3> QED
        BY <3>1, <3>2, NoHolders
    <2> QED
      BY <2>1, <2>3, <2>4, <2>5
  <1>2. OwnershipInv /\ PoolInv /\ PlaceInv /\ TicketInv /\ CapInv /\ [PoolNext]_poolVars
            => (OwnershipInv /\ PoolInv /\ PlaceInv /\ TicketInv /\ CapInv)'
    BY PoolStep, NextOwnership, PoolNextType, PlaceNext, TicketNext, CapNext DEF OwnershipInv
  <1>3. OwnershipInv /\ PoolInv /\ PlaceInv /\ TicketInv /\ CapInv => NothingLeaks
    <2> SUFFICES ASSUME OwnershipInv, PoolInv, PlaceInv, TicketInv, CapInv
                 PROVE  NothingLeaks
      OBVIOUS
    <2>1. NothingLeaksOnExit
      BY DEF PlaceInv, TicketInv, Ticketed, NothingLeaksOnExit, Engaged
    <2>2. PermitsRespected
      <3> SUFFICES ASSUME NEW w \in Workers, phase[w] \in Served
                   PROVE  /\ ticket[w] # NoTicket
                          /\ ticket[w][1] = jobs[holder[w]].kind
                          /\ Cardinality(Holders(ticket[w]))
                                <= caps[ticket[w][1]][ticket[w][2]]
        BY DEF PermitsRespected, Served
      <3>1. /\ ticket[w] # NoTicket
            /\ ticket[w][1] \in Kinds /\ ticket[w][2] \in 1..Len(caps[ticket[w][1]])
            /\ ticket[w][1] = jobs[holder[w]].kind
        BY DEF TicketInv, Ticketed, Served, Owning
      <3>2. PICK k \in Kinds, g \in 1..(MaxResizes + 1) : ticket[w] = <<k, g>>
        BY <3>1 DEF PoolInv, PoolTypeOK, Tickets
      <3>3. g \in 1..Len(caps[k])
        BY <3>1, <3>2
      <3>4. Cardinality(Holders(<<k, g>>)) <= caps[k][g]
        BY <3>3 DEF CapInv
      <3> QED
        BY <3>1, <3>2, <3>4
    <2> QED
      BY <2>1, <2>2 DEF NothingLeaks, PoolInv
  <1> QED
    BY <1>1, <1>2, <1>3, PTL DEF PoolSpec
=============================================================================
