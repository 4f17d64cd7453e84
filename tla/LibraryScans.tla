---------------------------- MODULE LibraryScans ----------------------------
(***************************************************************************)
(* How library scans exclude each other and everybody else: the set of     *)
(* libraries being scanned (try_acquire_library_scan of state.rs) and the  *)
(* counting gate that parks the workers and the scheduler                  *)
(* (jobs/scan_gate.rs), as used by the three places that start a scan: the *)
(* API (api/libraries.rs), the scheduler and the file watcher.             *)
(*                                                                         *)
(* A scan task gives back the lock and the gate in code that is itself     *)
(* asynchronous: a guard that is dropped, by the end of the scope or by a  *)
(* panic, spawns a task that does it later.  Those tasks are counted.      *)
(***************************************************************************)
EXTENDS Naturals, FiniteSets

CONSTANTS
    Libraries,
    Slots,        \* bound: scans under way at once
    Origins,      \* which of "api", "scheduler" and "watcher" start scans
    Faults,       \* which of "db", "cancel" and "panic" happen
    MaxStarts,    \* bound: scans started by the API and the scheduler
    MaxLate       \* bound: spawned releases outstanding when a scan starts

ASSUME OriginsAssumption ==
    /\ Origins \subseteq {"api", "scheduler", "watcher"}
    /\ Origins # {} /\ Libraries # {}

ASSUME FaultsAssumption == Faults \subseteq {"db", "cancel", "panic"}

ASSUME ScanBoundsAssumption == MaxStarts \in Nat /\ MaxLate \in Nat

ASSUME SlotsAssumption == IsFiniteSet(Slots)

VARIABLES
    locked,     \* library_scans_in_progress
    count,      \* LibraryScanGate.count
    raised,     \* LibraryScanGate.tx
    stage,      \* where the scan of each slot is
    library,    \* its library
    origin,     \* who started it
    unlocks,    \* spawned tasks that will release the lock of a library
    lowers,     \* spawned tasks that will release the gate
    starts

scanVars == <<locked, count, raised, stage, library, origin, unlocks, lowers, starts>>

\* creating: holds the lock and writes the scan_jobs row.  spawned: the task
\* exists.  scanning: it holds the gate, run_scan runs.  ended: run_scan is over.
Stage == {"free", "creating", "spawned", "scanning", "ended"}

TypeOK ==
    /\ locked \subseteq Libraries
    /\ count \in Nat
    /\ raised \in BOOLEAN
    /\ stage \in [Slots -> Stage]
    /\ library \in [Slots -> Libraries]
    /\ origin \in [Slots -> Origins]
    /\ unlocks \in [Libraries -> Nat]
    /\ lowers \in Nat
    /\ starts \in 0..MaxStarts

Init ==
    /\ locked = {}
    /\ count = 0
    /\ raised = FALSE
    /\ stage = [s \in Slots |-> "free"]
    /\ library = [s \in Slots |-> CHOOSE l \in Libraries : TRUE]
    /\ origin = [s \in Slots |-> CHOOSE o \in Origins : TRUE]
    /\ unlocks = [l \in Libraries |-> 0]
    /\ lowers = 0
    /\ starts = 0

-----------------------------------------------------------------------------

Move(s, st) == stage' = [stage EXCEPT ![s] = st]

Unlock(l) == locked' = locked \ {l}

SpawnUnlock(l) == unlocks' = [unlocks EXCEPT ![l] = @ + 1]

\* Mutant: the scheduled scan does not look at the lock.
StartUnlocked(s, l, o) ==
    /\ stage[s] = "free"
    /\ lowers < MaxLate
    /\ starts < MaxStarts \/ o = "watcher"
    /\ l \notin locked \/ o = "scheduler"
    /\ locked' = locked \cup {l}
    /\ starts' = IF o = "watcher" THEN starts ELSE starts + 1
    /\ Move(s, "creating")
    /\ library' = [library EXCEPT ![s] = l]
    /\ origin' = [origin EXCEPT ![s] = o]
    /\ UNCHANGED <<count, raised, unlocks, lowers>>

\* try_acquire_library_scan succeeds.  When it does not, the caller gives up
\* (409, skipped, deferred) and nothing changes.
Start(s, l, o) ==
    /\ stage[s] = "free"
    /\ lowers < MaxLate
    /\ starts < MaxStarts \/ o = "watcher"
    /\ l \notin locked
    /\ locked' = locked \cup {l}
    /\ starts' = IF o = "watcher" THEN starts ELSE starts + 1
    /\ Move(s, "creating")
    /\ library' = [library EXCEPT ![s] = l]
    /\ origin' = [origin EXCEPT ![s] = o]
    /\ UNCHANGED <<count, raised, unlocks, lowers>>

\* create_scan_job fails: the lock is released on the spot.
CreateFails(s) ==
    /\ "db" \in Faults
    /\ stage[s] = "creating"
    /\ Unlock(library[s])
    /\ Move(s, "free")
    /\ UNCHANGED <<count, raised, library, origin, unlocks, lowers, starts>>

\* The client goes away and axum drops the handler at one of its awaits
\* between taking the lock and spawning the task.
Cancel(s) ==
    /\ "cancel" \in Faults
    /\ stage[s] = "creating"
    /\ origin[s] = "api"
    /\ Move(s, "free")
    /\ UNCHANGED <<locked, count, raised, library, origin, unlocks, lowers, starts>>

Spawn(s) ==
    /\ stage[s] = "creating"
    /\ Move(s, "spawned")
    /\ UNCHANGED <<locked, count, raised, library, origin, unlocks, lowers, starts>>

\* scan_guard().await: acquire flips the watch when it is the first.
RaiseGate(s) ==
    /\ stage[s] = "spawned"
    /\ count' = count + 1
    /\ raised' = (count' = 1 \/ raised)
    /\ Move(s, "scanning")
    /\ UNCHANGED <<locked, library, origin, unlocks, lowers, starts>>

\* run_scan returns, Ok or Err.
EndScan(s) ==
    /\ stage[s] = "scanning"
    /\ Move(s, "ended")
    /\ UNCHANGED <<locked, count, raised, library, origin, unlocks, lowers, starts>>

\* The task is over: the scheduler's two guards are dropped, the gate's first;
\* the others release the lock themselves and then drop the gate's guard.
Finish(s) ==
    /\ stage[s] = "ended"
    /\ lowers' = lowers + 1
    /\ IF origin[s] = "scheduler"
       THEN SpawnUnlock(library[s]) /\ UNCHANGED locked
       ELSE Unlock(library[s]) /\ UNCHANGED unlocks
    /\ Move(s, "free")
    /\ UNCHANGED <<count, raised, library, origin, starts>>

\* Mutant: the gate is released by the last line of the task, not by a guard.
PanicGateKept(s) ==
    /\ "panic" \in Faults
    /\ stage[s] = "scanning"
    /\ IF origin[s] = "scheduler" THEN SpawnUnlock(library[s]) ELSE UNCHANGED unlocks
    /\ Move(s, "free")
    /\ UNCHANGED <<locked, count, raised, library, origin, lowers, starts>>

\* Mutant: no scan has a guard for its lock.
PanicLockKept(s) ==
    /\ "panic" \in Faults
    /\ stage[s] = "scanning"
    /\ lowers' = lowers + 1
    /\ Move(s, "free")
    /\ UNCHANGED <<locked, count, raised, library, origin, unlocks, starts>>

\* run_scan panics: the guards are dropped, the last line is not reached.
Panic(s) ==
    /\ "panic" \in Faults
    /\ stage[s] = "scanning"
    /\ lowers' = lowers + 1
    /\ IF origin[s] = "scheduler" THEN SpawnUnlock(library[s]) ELSE UNCHANGED unlocks
    /\ Move(s, "free")
    /\ UNCHANGED <<locked, count, raised, library, origin, starts>>

\* Mutant: a flag instead of a counter.
LowerGateFlag ==
    /\ lowers > 0
    /\ lowers' = lowers - 1
    /\ count' = IF count > 0 THEN count - 1 ELSE 0
    /\ raised' = FALSE
    /\ UNCHANGED <<locked, stage, library, origin, unlocks, starts>>

\* release() of the gate in its spawned task.
LowerGate ==
    /\ lowers > 0
    /\ lowers' = lowers - 1
    /\ count' = IF count > 0 THEN count - 1 ELSE 0
    /\ raised' = IF count' = 0 THEN FALSE ELSE raised
    /\ UNCHANGED <<locked, stage, library, origin, unlocks, starts>>

\* release_library_scan in its spawned task.
LateUnlock(l) ==
    /\ unlocks[l] > 0
    /\ unlocks' = [unlocks EXCEPT ![l] = @ - 1]
    /\ Unlock(l)
    /\ UNCHANGED <<count, raised, stage, library, origin, lowers, starts>>

ScanStep(s) ==
    \/ CreateFails(s) \/ Cancel(s) \/ Spawn(s)
    \/ RaiseGate(s) \/ EndScan(s) \/ Panic(s) \/ Finish(s)

Next ==
    \/ \E s \in Slots, l \in Libraries, o \in Origins : Start(s, l, o)
    \/ \E s \in Slots : ScanStep(s)
    \/ LowerGate
    \/ \E l \in Libraries : LateUnlock(l)

Spec == Init /\ [][Next]_scanVars

\* tokio runs spawned tasks, and run_scan ends: ffprobe and the providers are
\* called with timeouts and a walk of a finite tree is finite.
FairSpec ==
    /\ Spec
    /\ \A s \in Slots : WF_scanVars(ScanStep(s))
    /\ WF_scanVars(LowerGate)
    /\ \A l \in Libraries : WF_scanVars(LateUnlock(l))

-----------------------------------------------------------------------------

Busy(s) == stage[s] # "free"

\* Two scans of one library never overlap, whoever started them, and the lock
\* is held for as long as a scan lasts: a late release by a guard never frees
\* the lock of the scan that came next.
OneScanPerLibrary ==
    /\ \A s, t \in Slots : Busy(s) /\ Busy(t) /\ library[s] = library[t] => s = t
    /\ \A s \in Slots : Busy(s) => library[s] \in locked

\* The same, with locks, gate and scans well-formed.
LocksKept == TypeOK /\ OneScanPerLibrary

\* The gate is up from before a scan's first step to after its last, also when
\* scans overlap (jobs/scan_gate.rs:23-28).
GateCoversScans ==
    \A s \in Slots : stage[s] \in {"scanning", "ended"} => raised

\* The counter is the number of scans that took the gate and have not given it
\* back, and the watch says whether there are any: no release is lost or double.
GateCounts ==
    /\ count = Cardinality({s \in Slots : stage[s] \in {"scanning", "ended"}}) + lowers
    /\ raised <=> count > 0

\* The gate says the truth: up exactly while it is held, held by every scan.
GateIsTrue == GateCounts /\ GateCoversScans

\* The workers and the scheduler are not paused for ever: whatever becomes of
\* the scans, the gate comes down (jobs/scan_gate.rs:96-102).  Scans that never
\* stop overlapping would hold it up for good, and rightly so: that only MaxScans
\* are started is what makes "eventually" finite here.
GateComesDown == raised ~> ~raised

\* A library that the scheduler scans is unlocked again, also when the scan fails
\* or panics: the guard in its task releases the lock on every way out
\* (scheduler/mod.rs:2238-2256).
ScheduledLocksReturn ==
    \A l \in Libraries :
        (\E s \in Slots : Busy(s) /\ library[s] = l /\ origin[s] = "scheduler")
            ~> l \notin locked

\* "Spawn-and-forget call sites should install a local RAII guard that re-spawns
\* the release on Drop so a panic inside the scanner doesn't leak the entry"
\* (state.rs:420-422): a lock belongs to a scan or is about to be released.
NoLockLeaks ==
    \A l \in locked : unlocks[l] > 0 \/ \E s \in Slots : Busy(s) /\ library[s] = l
=============================================================================
