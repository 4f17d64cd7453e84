------------------------- MODULE FileWatcherProofs -------------------------
(***************************************************************************)
(* The locks and the gate of LibraryScans.tla and the watcher of           *)
(* FileWatcher.tla over them, for any libraries, any number of scans under *)
(* way, any origins and faults and a channel of any size.                  *)
(***************************************************************************)
EXTENDS FileWatcher, FiniteSetTheorems, TLAPS

\* A scan of the scheduler gives its lock back in a spawned task.  While that
\* task is to come the lock is held and nobody scans the library, and there is
\* no second such task: so it cannot free the lock of a later scan.
LateUnlocksAreSafe ==
    \A l \in Libraries : unlocks[l] > 0 =>
        /\ unlocks[l] = 1
        /\ l \in locked
        /\ \A s \in Slots : Busy(s) => library[s] # l

LockInv == OneScanPerLibrary /\ LateUnlocksAreSafe

\* The slots that hold the gate.
Gated == {s \in Slots : stage[s] \in {"scanning", "ended"}}

IInv == TypeOK /\ LockInv /\ GateCounts

-----------------------------------------------------------------------------
(* TypeOK. *)

LEMMA Moved ==
    ASSUME TypeOK, NEW s \in Slots, NEW st \in Stage, Move(s, st)
    PROVE  /\ stage' \in [Slots -> Stage]
           /\ stage'[s] = st
           /\ \A t \in Slots : t # s => stage'[t] = stage[t]
BY DEF TypeOK, Move

LEMMA TypeInit == Init => TypeOK
<1>1. /\ (CHOOSE l \in Libraries : TRUE) \in Libraries
      /\ (CHOOSE o \in Origins : TRUE) \in Origins
  BY OriginsAssumption
<1>2. ASSUME Init
      PROVE  library \in [Slots -> Libraries] /\ origin \in [Slots -> Origins]
  <2>1. /\ library = [s \in Slots |-> CHOOSE l \in Libraries : TRUE]
        /\ origin = [s \in Slots |-> CHOOSE o \in Origins : TRUE]
    BY <1>2 DEF Init
  <2> QED BY <1>1, <2>1
<1>3. ASSUME Init
      PROVE  /\ stage \in [Slots -> Stage] /\ unlocks \in [Libraries -> Nat]
             /\ locked \subseteq Libraries
             /\ count \in Nat /\ lowers \in Nat /\ starts \in 0..MaxStarts
  BY <1>3, ScanBoundsAssumption DEF Init, Stage
<1>4. Init => raised \in BOOLEAN
  BY DEF Init
<1> QED
  BY <1>2, <1>3, <1>4 DEF TypeOK

LEMMA TypeStep == TypeOK /\ [Next]_scanVars => TypeOK'
<1> SUFFICES ASSUME TypeOK, [Next]_scanVars PROVE TypeOK'
  OBVIOUS
<1>1. ASSUME NEW s \in Slots, NEW l \in Libraries, NEW o \in Origins, Start(s, l, o)
      PROVE  TypeOK'
  <2>1. starts' \in 0..MaxStarts
    BY <1>1, ScanBoundsAssumption DEF Start, TypeOK
  <2> QED
    BY <1>1, <2>1, Moved DEF Start, TypeOK, Stage
<1>2. ASSUME NEW s \in Slots, ScanStep(s) PROVE TypeOK'
  <2>1. library[s] \in Libraries
    BY DEF TypeOK
  <2>2. CASE CreateFails(s)
    BY <2>1, <2>2, Moved DEF CreateFails, Unlock, TypeOK, Stage
  <2>3. CASE Cancel(s)
    BY <2>3, Moved DEF Cancel, TypeOK, Stage
  <2>4. CASE Spawn(s)
    BY <2>4, Moved DEF Spawn, TypeOK, Stage
  <2>5. CASE RaiseGate(s)
    BY <2>5, Moved DEF RaiseGate, TypeOK, Stage
  <2>6. CASE EndScan(s)
    BY <2>6, Moved DEF EndScan, TypeOK, Stage
  <2>7. CASE Panic(s)
    BY <2>1, <2>7, Moved DEF Panic, SpawnUnlock, TypeOK, Stage
  <2>8. CASE Finish(s)
    BY <2>1, <2>8, Moved DEF Finish, SpawnUnlock, Unlock, TypeOK, Stage
  <2> QED
    BY <1>2, <2>2, <2>3, <2>4, <2>5, <2>6, <2>7, <2>8 DEF ScanStep
<1>3. CASE LowerGate
  <2>1. count' \in Nat /\ lowers' \in Nat /\ raised' \in BOOLEAN
    <3>1. count' \in Nat /\ lowers' \in Nat
      BY <1>3 DEF LowerGate, TypeOK
    <3>2. raised' = FALSE \/ raised' = raised
      BY <1>3 DEF LowerGate
    <3> QED BY <3>1, <3>2 DEF TypeOK
  <2> QED
    BY <1>3, <2>1 DEF LowerGate, TypeOK
<1>4. ASSUME NEW l \in Libraries, LateUnlock(l) PROVE TypeOK'
  BY <1>4 DEF LateUnlock, Unlock, TypeOK
<1>5. CASE UNCHANGED scanVars
  BY <1>5 DEF scanVars, TypeOK
<1> QED
  BY <1>1, <1>2, <1>3, <1>4, <1>5 DEF Next

-----------------------------------------------------------------------------
(* LockInv. *)

\* A scan that goes on keeps its lock.
LEMMA LocksGoOn ==
    ASSUME TypeOK, LockInv,
           NEW s \in Slots, Busy(s), NEW st \in Stage \ {"free"}, Move(s, st),
           UNCHANGED <<locked, library, unlocks>>
    PROVE  LockInv'
BY Moved DEF LockInv, OneScanPerLibrary, LateUnlocksAreSafe, Busy

\* A scan that ends frees its lock, hands it to a task, or leaks it.
LEMMA LocksEnd ==
    ASSUME TypeOK, LockInv, NEW s \in Slots, Busy(s), Move(s, "free"),
           UNCHANGED library,
           \/ Unlock(library[s]) /\ UNCHANGED unlocks
           \/ SpawnUnlock(library[s]) /\ UNCHANGED locked
           \/ UNCHANGED <<locked, unlocks>>
    PROVE  LockInv'
<1> DEFINE l == library[s]
<1>1. l \in Libraries /\ l \in locked /\ \A t \in Slots : Busy(t) /\ library[t] = l => t = s
  BY DEF TypeOK, LockInv, OneScanPerLibrary
<1>2. unlocks[l] = 0
  BY <1>1 DEF TypeOK, LockInv, LateUnlocksAreSafe
<1>3. stage'[s] = "free" /\ \A t \in Slots : t # s => stage'[t] = stage[t]
  BY Moved DEF Stage
<1>4. /\ \A k \in Libraries : k # l => (k \in locked' <=> k \in locked)
      /\ \A k \in Libraries : k # l => unlocks'[k] = unlocks[k]
      /\ unlocks'[l] = 0 \/ (unlocks'[l] = 1 /\ l \in locked')
  <2>1. CASE Unlock(l) /\ UNCHANGED unlocks
    <3>1. locked' = locked \ {l} /\ unlocks' = unlocks
      BY <2>1 DEF Unlock
    <3> QED BY <1>2, <3>1
  <2>2. CASE SpawnUnlock(l) /\ UNCHANGED locked
    BY <1>1, <1>2, <2>2 DEF SpawnUnlock, TypeOK
  <2>3. CASE UNCHANGED <<locked, unlocks>>
    BY <1>1, <1>2, <2>3
  <2> QED BY <2>1, <2>2, <2>3
<1>5. OneScanPerLibrary'
  BY <1>1, <1>3, <1>4 DEF TypeOK, LockInv, OneScanPerLibrary, Busy
<1>6. LateUnlocksAreSafe'
  BY <1>1, <1>3, <1>4 DEF TypeOK, LockInv, LateUnlocksAreSafe, Busy
<1> QED
  BY <1>5, <1>6 DEF LockInv

LEMMA LockStep == TypeOK /\ LockInv /\ [Next]_scanVars => LockInv'
<1> SUFFICES ASSUME TypeOK, LockInv, [Next]_scanVars PROVE LockInv'
  OBVIOUS
<1>1. ASSUME NEW s \in Slots, NEW l \in Libraries, NEW o \in Origins, Start(s, l, o)
      PROVE  LockInv'
  <2>1. stage'[s] = "creating" /\ \A t \in Slots : t # s => stage'[t] = stage[t]
    BY <1>1, Moved DEF Start, Stage
  <2>2. library'[s] = l /\ \A t \in Slots : t # s => library'[t] = library[t]
    BY <1>1 DEF Start, TypeOK
  <2>3. l \notin locked /\ locked' = locked \cup {l} /\ unlocks' = unlocks
    BY <1>1 DEF Start
  <2>4. OneScanPerLibrary'
    BY <2>1, <2>2, <2>3 DEF LockInv, OneScanPerLibrary, Busy
  <2>5. LateUnlocksAreSafe'
    BY <2>1, <2>2, <2>3 DEF LockInv, LateUnlocksAreSafe, Busy
  <2> QED
    BY <2>4, <2>5 DEF LockInv
<1>2. ASSUME NEW s \in Slots, ScanStep(s) PROVE LockInv'
  <2>1. CASE CreateFails(s) \/ Cancel(s) \/ Panic(s) \/ Finish(s)
    BY <2>1, LocksEnd DEF CreateFails, Cancel, Panic, Finish, Busy
  <2>2. CASE Spawn(s) \/ RaiseGate(s) \/ EndScan(s)
    BY <2>2, LocksGoOn DEF Spawn, RaiseGate, EndScan, Busy, Stage
  <2> QED
    BY <1>2, <2>1, <2>2 DEF ScanStep
<1>3. CASE LowerGate
  BY <1>3 DEF LowerGate, LockInv, OneScanPerLibrary, LateUnlocksAreSafe, Busy
<1>4. ASSUME NEW l \in Libraries, LateUnlock(l) PROVE LockInv'
  <2>1. unlocks[l] = 1 /\ \A s \in Slots : Busy(s) => library[s] # l
    BY <1>4 DEF LateUnlock, LockInv, LateUnlocksAreSafe
  <2>2. /\ unlocks'[l] = 0
        /\ \A k \in Libraries : k # l => unlocks'[k] = unlocks[k]
        /\ locked' = locked \ {l} /\ stage' = stage /\ library' = library
    BY <1>4, <2>1 DEF LateUnlock, Unlock, TypeOK
  <2> QED
    BY <2>1, <2>2 DEF LockInv, OneScanPerLibrary, LateUnlocksAreSafe, Busy
<1>5. CASE UNCHANGED scanVars
  BY <1>5 DEF scanVars, LockInv, OneScanPerLibrary, LateUnlocksAreSafe, Busy
<1> QED
  BY <1>1, <1>2, <1>3, <1>4, <1>5 DEF Next

-----------------------------------------------------------------------------
(* GateCounts. *)

\* One scan that takes or drops the gate changes the number of those by one.
LEMMA GatedMoves ==
    ASSUME TypeOK, NEW s \in Slots, NEW st \in Stage, Move(s, st)
    PROVE  /\ IsFiniteSet(Gated) /\ Cardinality(Gated) \in Nat
           /\ (stage[s] \in {"scanning", "ended"} <=> st \in {"scanning", "ended"})
                 => Gated' = Gated
           /\ stage[s] \notin {"scanning", "ended"} /\ st \in {"scanning", "ended"}
                 => Cardinality(Gated') = Cardinality(Gated) + 1
           /\ stage[s] \in {"scanning", "ended"} /\ st \notin {"scanning", "ended"}
                 => Cardinality(Gated') = Cardinality(Gated) - 1
<1>1. IsFiniteSet(Gated) /\ Cardinality(Gated) \in Nat
  <2>1. Gated \in SUBSET Slots
    BY DEF Gated
  <2> QED BY <2>1, SlotsAssumption, FS_Subset, FS_CardinalityType
<1>2. stage'[s] = st /\ \A t \in Slots : t # s => stage'[t] = stage[t]
  BY Moved
<1>3. (stage[s] \in {"scanning", "ended"} <=> st \in {"scanning", "ended"})
          => Gated' = Gated
  BY <1>2 DEF Gated
<1>4. ASSUME stage[s] \notin {"scanning", "ended"}, st \in {"scanning", "ended"}
      PROVE  Cardinality(Gated') = Cardinality(Gated) + 1
  <2>1. Gated' = Gated \cup {s} /\ s \notin Gated
    BY <1>2, <1>4 DEF Gated
  <2> QED BY <1>1, <2>1, FS_AddElement
<1>5. ASSUME stage[s] \in {"scanning", "ended"}, st \notin {"scanning", "ended"}
      PROVE  Cardinality(Gated') = Cardinality(Gated) - 1
  <2>1. Gated' = Gated \ {s} /\ s \in Gated
    BY <1>2, <1>5 DEF Gated
  <2> QED BY <1>1, <2>1, FS_RemoveElement
<1> QED
  BY <1>1, <1>3, <1>4, <1>5

\* GateCounts in terms of Gated.
LEMMA GateCountsGated ==
    GateCounts <=> count = Cardinality(Gated) + lowers /\ (raised <=> count > 0)
BY DEF GateCounts, Gated

LEMMA GateInit == Init => GateCounts
<1> SUFFICES ASSUME Init PROVE GateCounts
  OBVIOUS
<1>1. Gated = {}
  BY DEF Init, Gated
<1> QED
  BY <1>1, GateCountsGated, FS_EmptySet DEF Init

LEMMA GateStep == TypeOK /\ GateCounts /\ [Next]_scanVars => GateCounts'
<1> SUFFICES ASSUME TypeOK, GateCounts, [Next]_scanVars PROVE GateCounts'
  OBVIOUS
<1>1. count \in Nat /\ lowers \in Nat /\ raised \in BOOLEAN
  BY DEF TypeOK
<1>2. count = Cardinality(Gated) + lowers /\ (raised <=> count > 0)
  BY GateCountsGated
<1>3. SUFFICES count' = Cardinality(Gated') + lowers' /\ (raised' <=> count' > 0)
  BY DEF GateCounts, Gated
<1>4. ASSUME NEW s \in Slots, NEW l \in Libraries, NEW o \in Origins, Start(s, l, o)
      PROVE  count' = Cardinality(Gated') + lowers' /\ (raised' <=> count' > 0)
  BY <1>2, <1>4, GatedMoves DEF Start, Stage
<1>5. ASSUME NEW s \in Slots, ScanStep(s)
      PROVE  count' = Cardinality(Gated') + lowers' /\ (raised' <=> count' > 0)
  <2>1. CASE CreateFails(s) \/ Cancel(s) \/ Spawn(s)
    BY <1>2, <2>1, GatedMoves DEF CreateFails, Cancel, Spawn, Stage
  <2>2. CASE RaiseGate(s)
    <3>1. Cardinality(Gated') = Cardinality(Gated) + 1 /\ Cardinality(Gated) \in Nat
      BY <2>2, GatedMoves DEF RaiseGate, Stage
    <3>2. count' = count + 1 /\ lowers' = lowers
      BY <2>2 DEF RaiseGate
    <3>3. raised' <=> count' = 1 \/ raised
      BY <2>2 DEF RaiseGate
    <3>4. count' > 0 /\ (count = 0 => count' = 1)
      BY <1>1, <3>2
    <3>5. raised'
      BY <1>1, <1>2, <3>3, <3>4
    <3> QED BY <1>1, <1>2, <3>1, <3>2, <3>4, <3>5
  <2>3. CASE EndScan(s)
    BY <1>2, <2>3, GatedMoves DEF EndScan, Stage
  <2>4. CASE Panic(s) \/ Finish(s)
    <3>1. Cardinality(Gated') = Cardinality(Gated) - 1 /\ Cardinality(Gated) \in Nat
      BY <2>4, GatedMoves DEF Panic, Finish, Stage
    <3>2. count' = count /\ raised' = raised /\ lowers' = lowers + 1
      BY <2>4 DEF Panic, Finish
    <3> QED BY <1>1, <1>2, <3>1, <3>2
  <2> QED
    BY <1>5, <2>1, <2>2, <2>3, <2>4 DEF ScanStep
<1>6. ASSUME LowerGate
      PROVE  count' = Cardinality(Gated') + lowers' /\ (raised' <=> count' > 0)
  <2>1. Gated' = Gated /\ lowers > 0 /\ lowers' = lowers - 1
    BY <1>6 DEF LowerGate, Gated
  <2>2. Cardinality(Gated) \in Nat
    BY SlotsAssumption, FS_Subset, FS_CardinalityType DEF Gated
  <2>3. count > 0 /\ count' = count - 1 /\ raised' = IF count' = 0 THEN FALSE ELSE raised
    BY <1>1, <1>2, <1>6, <2>1, <2>2 DEF LowerGate
  <2> QED BY <1>1, <1>2, <2>1, <2>2, <2>3
<1>7. ASSUME NEW l \in Libraries, LateUnlock(l)
      PROVE  count' = Cardinality(Gated') + lowers' /\ (raised' <=> count' > 0)
  <2>1. Gated' = Gated /\ UNCHANGED <<count, raised, lowers>>
    BY <1>7 DEF LateUnlock, Gated
  <2> QED BY <1>2, <2>1
<1>8. CASE UNCHANGED scanVars
  BY <1>2, <1>8 DEF scanVars, Gated
<1> QED
  BY <1>4, <1>5, <1>6, <1>7, <1>8 DEF Next

-----------------------------------------------------------------------------
(* The invariant and the theorems. *)

LEMMA Invariance == Spec => []IInv
<1>1. Init => LockInv
  BY DEF Init, LockInv, OneScanPerLibrary, LateUnlocksAreSafe, Busy
<1>2. Init => IInv
  BY <1>1, TypeInit, GateInit DEF IInv
<1>3. IInv /\ [Next]_scanVars => IInv'
  BY TypeStep, LockStep, GateStep DEF IInv
<1> QED
  BY <1>2, <1>3, PTL DEF Spec

\* The counter of the gate never underflows, and every slot, lock and spawned
\* release stays well-formed.
THEOREM TypeCorrect == Spec => []TypeOK
<1>1. IInv => TypeOK
  BY DEF IInv
<1> QED
  BY <1>1, Invariance, PTL

\* Two scans of a library never overlap, and a spawned release of a lock never
\* frees that of the next scan (state.rs:416-467).
THEOREM OneScanPerLibraryCorrect == Spec => []OneScanPerLibrary
<1>1. IInv => OneScanPerLibrary
  BY DEF IInv, LockInv
<1> QED
  BY <1>1, Invariance, PTL

\* The counter of the gate is the number of scans that hold it and of releases
\* to come, and the watch is up exactly while there are any
\* (jobs/scan_gate.rs:55-81).
THEOREM GateCountsCorrect == Spec => []GateCounts
<1>1. IInv => GateCounts
  BY DEF IInv
<1> QED
  BY <1>1, Invariance, PTL

\* The gate is up as long as any scan runs, also when scans overlap
\* (jobs/scan_gate.rs:23-28).
THEOREM GateCoversScansCorrect == Spec => []GateCoversScans
<1>1. IInv => GateCoversScans
  <2> SUFFICES ASSUME IInv, NEW s \in Slots, stage[s] \in {"scanning", "ended"} PROVE raised
    BY DEF GateCoversScans
  <2>1. s \in Gated
    BY DEF Gated
  <2>2. IsFiniteSet(Gated)
    BY SlotsAssumption, FS_Subset DEF Gated
  <2>3. Cardinality(Gated) \in Nat /\ Cardinality(Gated) # 0
    BY <2>1, <2>2, FS_EmptySet, FS_CardinalityType
  <2>4. /\ count = Cardinality(Gated) + lowers
        /\ raised <=> count > 0
        /\ lowers \in Nat
    BY GateCountsGated DEF IInv, TypeOK
  <2> QED BY <2>3, <2>4
<1> QED
  BY <1>1, Invariance, PTL

\* The locks keep scans of one library apart in every well-formed state.
THEOREM LocksKeptCorrect == Spec => []LocksKept
<1>1. TypeOK /\ OneScanPerLibrary => LocksKept
  BY DEF LocksKept
<1> QED
  BY <1>1, TypeCorrect, OneScanPerLibraryCorrect, PTL

\* The gate is up exactly while it is held, and every running scan holds it.
THEOREM GateIsTrueCorrect == Spec => []GateIsTrue
<1>1. GateCounts /\ GateCoversScans => GateIsTrue
  BY DEF GateIsTrue
<1> QED
  BY <1>1, GateCountsCorrect, GateCoversScansCorrect, PTL

-----------------------------------------------------------------------------
(* The watcher runs on top of the locks: it breaks none of their rules. *)

LEMMA WatcherScans == [WatchNext]_allVars => [Next]_scanVars
<1> SUFFICES ASSUME [WatchNext]_allVars PROVE [Next]_scanVars
  OBVIOUS
<1>1. CASE \E l \in Libraries : Touch(l) \/ Quiet(l)
  BY <1>1 DEF Touch, Quiet
<1>2. CASE Toggle \/ Receive \/ TickPaused \/ Tick
  BY <1>2 DEF Toggle, Receive, TickPaused, Tick
<1>3. ASSUME NEW l \in Libraries, Fire(l) PROVE Next
  BY <1>3, WatcherAssumption DEF Fire, Next
<1>4. ASSUME NEW l \in Libraries, Defer(l) PROVE UNCHANGED scanVars
  BY <1>4 DEF Defer
<1>5. ASSUME NEW s \in Slots, Scan(s) PROVE Next
  BY <1>5 DEF Scan, Next
<1>6. CASE OtherScan
  BY <1>6 DEF OtherScan, Next
<1>7. CASE Release
  BY <1>7 DEF Release, Next
<1>8. CASE UNCHANGED allVars
  BY <1>8 DEF allVars
<1> QED
  BY <1>1, <1>2, <1>3, <1>4, <1>5, <1>6, <1>7, <1>8 DEF WatchNext, Watcher

\* The watcher with everything around it keeps to the discipline of the locks
\* and the gate, so that what is proved of those holds of it
\* (file_watcher.rs:301-395).
THEOREM WatcherKeepsToTheLocks == WatchSpec => Spec
<1>1. WatchInit => Init
  BY DEF WatchInit
<1> QED
  BY <1>1, WatcherScans, PTL DEF WatchSpec, Spec

-----------------------------------------------------------------------------
(* What the watcher keeps of the changes. *)

\* A scan the watcher started that has not begun to walk its library.
Coming(l) ==
    \E s \in Slots : library[s] = l /\ origin[s] = "watcher" /\ stage[s] \in {"creating", "spawned"}

\* A change that counts is on its way, and on one of the watcher's own ways: it
\* does not depend on a scan that somebody else started and may give up.
Underway ==
    \A l \in unseen :
        \/ \E i \in 1..Len(channel) : channel[i] = l
        \/ overflow
        \/ bucket[l] # "none"
        \/ Coming(l)

\* What a library that has not stirred since the paused tick cannot have: an
\* event or an overflow that would fill its bucket, a bucket, or a place among
\* the due libraries, from where it would be put off again.
Cold ==
    \A l \in Libraries : l \notin stirred =>
        ~Queued(l) /\ ~overflow /\ l \notin todo /\ bucket[l] = "none"

LEMMA WatchTypeInit == WatchInit => WatchTypeOK /\ Cold /\ Underway
<1> SUFFICES ASSUME WatchInit PROVE WatchTypeOK /\ Cold /\ Underway
  OBVIOUS
<1>1. channel = <<>> /\ <<>> \in Seq(Libraries) /\ Len(<<>>) = 0
  BY DEF WatchInit
<1>2. WatchTypeOK
  <2>1. channel \in Seq(Libraries) /\ Len(channel) <= ChannelCap
    BY <1>1, WatcherAssumption
  <2>2. bucket \in [Libraries -> {"none", "waiting", "due"}]
    BY DEF WatchInit
  <2>3. touches \in 0..MaxTouches /\ toggles \in 0..MaxToggles
    BY WatcherBoundsAssumption DEF WatchInit
  <2> QED BY <2>1, <2>2, <2>3 DEF WatchInit, WatchTypeOK
<1>3. Cold /\ Underway
  BY <1>1 DEF WatchInit, Cold, Underway, Queued
<1> QED
  BY <1>2, <1>3

LEMMA WatchTypeStep == WatchTypeOK /\ [WatchNext]_allVars => WatchTypeOK'
<1> SUFFICES ASSUME WatchTypeOK, [WatchNext]_allVars PROVE WatchTypeOK'
  OBVIOUS
<1> USE WatcherAssumption, WatcherBoundsAssumption DEF settings, changes
<1>1. ASSUME NEW l \in Libraries, Touch(l) PROVE WatchTypeOK'
  <2>1. channel' \in Seq(Libraries) /\ Len(channel') <= ChannelCap /\ overflow' \in BOOLEAN
    <3>1. channel \in Seq(Libraries) /\ Len(channel) \in Nat
      BY DEF WatchTypeOK
    <3>2. CASE Len(channel) < ChannelCap
      <4>1. channel' = Append(channel, l) /\ overflow' = overflow
        BY <1>1, <3>2 DEF Touch, Dispatch
      <4>2. Append(channel, l) \in Seq(Libraries) /\ Len(Append(channel, l)) = Len(channel) + 1
        BY <3>1
      <4> QED BY <3>1, <3>2, <4>1, <4>2 DEF WatchTypeOK
    <3>3. CASE ~(Len(channel) < ChannelCap)
      BY <1>1, <3>3 DEF Touch, Dispatch, WatchTypeOK
    <3> QED BY <3>2, <3>3
  <2>2. touches' \in 0..MaxTouches
    BY <1>1 DEF Touch, WatchTypeOK
  <2> QED BY <1>1, <2>1, <2>2 DEF Touch, WatchTypeOK
<1>2. ASSUME NEW l \in Libraries, Quiet(l) PROVE WatchTypeOK'
  BY <1>2 DEF Quiet, Put, WatchTypeOK
<1>3. CASE Toggle
  BY <1>3 DEF Toggle, WatchTypeOK
<1>4. CASE Receive
  <2>1. /\ Head(channel) \in Libraries
        /\ channel' \in Seq(Libraries) /\ Len(channel') <= ChannelCap
    BY <1>4 DEF Receive, WatchTypeOK
  <2> QED BY <1>4, <2>1 DEF Receive, Put, Turn, WatchTypeOK
<1>5. CASE TickPaused
  <2>1. stirred' \subseteq Libraries /\ unseen' \subseteq Libraries
    BY <1>5 DEF TickPaused, WatchTypeOK
  <2> QED BY <1>5, <2>1 DEF TickPaused, Turn, WatchTypeOK
<1>6. CASE Tick
  <2>1. bucket' \in [Libraries -> {"none", "waiting", "due"}] /\ todo' \subseteq Libraries
    BY <1>6 DEF Tick, WatchTypeOK
  <2> QED BY <1>6, <2>1 DEF Tick, Turn, WatchTypeOK
<1>7. ASSUME NEW l \in Libraries, Fire(l) \/ Defer(l) PROVE WatchTypeOK'
  BY <1>7 DEF Fire, Defer, Handle, Put, Turn, WatchTypeOK
<1>8. ASSUME NEW s \in Slots, Scan(s) PROVE WatchTypeOK'
  BY <1>8 DEF Scan, WatchTypeOK
<1>9. CASE OtherScan \/ Release
  BY <1>9 DEF OtherScan, Release, watchVars, WatchTypeOK
<1>10. CASE UNCHANGED allVars
  BY <1>10 DEF allVars, watchVars, WatchTypeOK
<1> QED
  BY <1>1, <1>2, <1>3, <1>4, <1>5, <1>6, <1>7, <1>8, <1>9, <1>10 DEF WatchNext, Watcher

LEMMA ColdStep == WatchTypeOK /\ Cold /\ [WatchNext]_allVars => Cold'
<1> SUFFICES ASSUME WatchTypeOK, Cold, [WatchNext]_allVars,
                    NEW k \in Libraries, k \notin stirred'
             PROVE  ~Queued(k)' /\ ~overflow' /\ k \notin todo' /\ bucket'[k] = "none"
  BY DEF Cold
<1> USE DEF settings, changes
<1> DEFINE Still == ~Queued(k) /\ ~overflow /\ k \notin todo /\ bucket[k] = "none"
<1>1. k \notin stirred => Still
  BY DEF Cold
<1>2. channel \in Seq(Libraries) /\ bucket \in [Libraries -> {"none", "waiting", "due"}]
  BY DEF WatchTypeOK
<1>3. ASSUME NEW l \in Libraries, Touch(l) PROVE Still'
  <2>1. /\ stirred' = IF overflow' THEN Libraries ELSE stirred \cup {l}
        /\ bucket' = bucket /\ todo' = todo
    BY <1>3 DEF Touch
  <2>2. ~overflow' /\ k # l /\ Still
    BY <1>1, <2>1
  <2>3. channel' = Append(channel, l)
    BY <1>3, <2>2 DEF Touch, Dispatch
  <2>4. \A i \in 1..Len(channel') : channel'[i] = l \/ (i \in 1..Len(channel) /\ channel'[i] = channel[i])
    BY <1>2, <2>3
  <2> QED BY <2>1, <2>2, <2>4 DEF Queued
<1>4. ASSUME NEW l \in Libraries, Quiet(l) PROVE Still'
  BY <1>1, <1>2, <1>4 DEF Quiet, Put, Queued
<1>5. CASE Toggle
  BY <1>1, <1>5 DEF Toggle, Queued
<1>6. CASE Receive
  <2>1. /\ channel # <<>> /\ channel' = Tail(channel) /\ UNCHANGED <<overflow, todo, stirred>>
        /\ bucket' = bucket \/ bucket' = [bucket EXCEPT ![Head(channel)] = "waiting"]
    BY <1>6 DEF Receive, Put
  <2>2. Still
    BY <1>1, <2>1
  <2>3. Head(channel) = channel[1] /\ 1 \in 1..Len(channel)
    BY <1>2, <2>1
  <2>4. k # Head(channel)
    BY <2>2, <2>3 DEF Queued
  <2>5. \A i \in 1..Len(Tail(channel)) : i + 1 \in 1..Len(channel) /\ Tail(channel)[i] = channel[i + 1]
    BY <1>2, <2>1
  <2>6. ~Queued(k)'
    BY <2>1, <2>2, <2>5 DEF Queued
  <2>7. bucket'[k] = "none"
    BY <1>2, <2>1, <2>2, <2>4
  <2> QED BY <2>1, <2>2, <2>6, <2>7
<1>7. CASE TickPaused
  <2>1. /\ todo = {} /\ UNCHANGED <<channel, overflow, todo>>
        /\ bucket' = [l \in Libraries |-> "none"]
        /\ stirred' = IF overflow THEN stirred ELSE {l \in Libraries : Queued(l)}
    BY <1>7 DEF TickPaused, Listening
  <2>2. ~overflow
    BY <1>1, <2>1
  <2>3. ~Queued(k)
    BY <2>1, <2>2
  <2> QED BY <2>1, <2>2, <2>3 DEF Queued
<1>8. CASE Tick
  <2>1. /\ UNCHANGED <<channel, stirred>> /\ overflow' = FALSE
        /\ bucket' = IF overflow THEN [l \in Libraries |-> "waiting"] ELSE bucket
        /\ todo' = {l \in Libraries : bucket'[l] = "due"}
    BY <1>8 DEF Tick
  <2>2. Still
    BY <1>1, <2>1
  <2> QED BY <2>1, <2>2 DEF Queued
<1>9. ASSUME NEW l \in Libraries, Fire(l) \/ Defer(l) PROVE Still'
  <2>1. /\ l \in todo /\ todo' = todo \ {l} /\ UNCHANGED <<channel, overflow, stirred>>
        /\ \E b \in {"none", "waiting"} : bucket' = [bucket EXCEPT ![l] = b]
    BY <1>9 DEF Fire, Defer, Handle, Put
  <2>2. Still /\ k # l
    BY <1>1, <2>1
  <2> QED BY <1>2, <2>1, <2>2 DEF Queued
<1>10. ASSUME NEW s \in Slots, Scan(s) PROVE Still'
  BY <1>1, <1>10 DEF Scan, Queued
<1>11. CASE OtherScan \/ Release
  BY <1>1, <1>11 DEF OtherScan, Release, watchVars, Queued
<1>12. CASE UNCHANGED allVars
  BY <1>1, <1>12 DEF allVars, watchVars, Queued
<1> QED
  BY <1>3, <1>4, <1>5, <1>6, <1>7, <1>8, <1>9, <1>10, <1>11, <1>12 DEF WatchNext, Watcher

\* What the watcher does not touch of the scans keeps their libraries coming.
LEMMA ComingStays ==
    ASSUME UNCHANGED <<stage, library, origin>>, NEW l, Coming(l)
    PROVE  Coming(l)'
BY DEF Coming

\* A scan that starts takes a free slot, so it displaces none that is coming.
LEMMA StartKeepsComing ==
    ASSUME TypeOK, NEW s \in Slots, NEW l \in Libraries, NEW o \in Origins, Start(s, l, o)
    PROVE  /\ \A k : Coming(k) => Coming(k)'
           /\ o = "watcher" => Coming(l)'
<1>1. /\ stage'[s] = "creating" /\ library'[s] = l /\ origin'[s] = o
      /\ \A t \in Slots : t # s =>
            stage'[t] = stage[t] /\ library'[t] = library[t] /\ origin'[t] = origin[t]
  BY DEF Start, Move, TypeOK
<1>2. stage[s] = "free"
  BY DEF Start
<1> QED
  BY <1>1, <1>2 DEF Coming

\* A scan on its way stays so until it walks its library: with no failing
\* INSERT into scan_jobs nothing but a client that goes away ends it before,
\* and the watcher has no client.
LEMMA ScanKeepsComing ==
    ASSUME "db" \notin Faults, TypeOK, NEW s \in Slots, ScanStep(s), NEW l, Coming(l)
    PROVE  Coming(l)' \/ (l = library[s] /\ stage'[s] = "scanning")
<1>1. PICK t \in Slots : /\ library[t] = l /\ origin[t] = "watcher"
                         /\ stage[t] \in {"creating", "spawned"}
  BY DEF Coming
<1>2. UNCHANGED <<library, origin>>
  BY DEF ScanStep, CreateFails, Cancel, Spawn, RaiseGate, EndScan, Panic, Finish
<1>3. CASE t # s
  <2>1. stage'[t] = stage[t]
    BY <1>3 DEF ScanStep, CreateFails, Cancel, Spawn, RaiseGate, EndScan, Panic, Finish, Move, TypeOK
  <2> QED BY <1>1, <1>2, <2>1 DEF Coming
<1>4. CASE t = s
  <2>1. CASE Spawn(s)
    <3>1. stage'[s] = "spawned"
      BY <2>1 DEF Spawn, Move, TypeOK
    <3> QED BY <1>1, <1>2, <1>4, <3>1 DEF Coming
  <2>2. CASE RaiseGate(s)
    BY <1>1, <1>4, <2>2 DEF RaiseGate, Move, TypeOK
  <2>3. ~CreateFails(s) /\ ~Cancel(s) /\ ~EndScan(s) /\ ~Panic(s) /\ ~Finish(s)
    BY <1>1, <1>4 DEF CreateFails, Cancel, EndScan, Panic, Finish
  <2> QED BY <2>1, <2>2, <2>3 DEF ScanStep
<1> QED
  BY <1>3, <1>4

LEMMA UnderwayStep ==
    ASSUME "db" \notin Faults
    PROVE  TypeOK /\ WatchTypeOK /\ Underway /\ [WatchNext]_allVars => Underway'
<1> SUFFICES ASSUME TypeOK, WatchTypeOK, Underway, [WatchNext]_allVars PROVE Underway'
  OBVIOUS
<1> DEFINE Waits(l) == \E i \in 1..Len(channel) : channel[i] = l
<1>1. \A l \in unseen : l \in Libraries /\ (Waits(l) \/ overflow \/ bucket[l] # "none" \/ Coming(l))
  BY DEF Underway, WatchTypeOK
<1>2. SUFFICES ASSUME NEW k \in unseen'
               PROVE  Waits(k)' \/ overflow' \/ bucket'[k] # "none" \/ Coming(k)'
  BY DEF Underway
<1>3. channel \in Seq(Libraries) /\ bucket \in [Libraries -> {"none", "waiting", "due"}]
  BY DEF WatchTypeOK
<1>4. ASSUME UNCHANGED scanVars, Coming(k) PROVE Coming(k)'
  BY <1>4, ComingStays DEF scanVars
<1>5. ASSUME NEW l \in Libraries, Touch(l)
      PROVE  Waits(k)' \/ overflow' \/ bucket'[k] # "none" \/ Coming(k)'
  <2>1. unseen' = unseen \cup {l} /\ bucket' = bucket /\ UNCHANGED scanVars
    BY <1>5 DEF Touch
  <2>2. CASE Len(channel) < ChannelCap
    <3>1. channel' = Append(channel, l) /\ overflow' = overflow
      BY <1>5, <2>2 DEF Touch, Dispatch
    <3>2. channel'[Len(channel')] = l /\ Len(channel') \in 1..Len(channel')
      BY <1>3, <3>1
    <3>3. Waits(k) => Waits(k)'
      BY <1>3, <3>1
    <3> QED BY <1>1, <1>4, <2>1, <3>1, <3>2, <3>3
  <2>3. CASE ~(Len(channel) < ChannelCap)
    BY <1>5, <2>3 DEF Touch, Dispatch
  <2> QED BY <2>2, <2>3
<1>6. ASSUME NEW l \in Libraries, Quiet(l)
      PROVE  Waits(k)' \/ overflow' \/ bucket'[k] # "none" \/ Coming(k)'
  <2>1. unseen' = unseen /\ channel' = channel /\ overflow' = overflow /\ UNCHANGED scanVars
    BY <1>6 DEF Quiet, changes
  <2>2. bucket[k] # "none" => bucket'[k] # "none"
    BY <1>1, <1>3, <1>6, <2>1 DEF Quiet, Put
  <2> QED BY <1>1, <1>4, <2>1, <2>2
<1>7. ASSUME Receive
      PROVE  Waits(k)' \/ overflow' \/ bucket'[k] # "none" \/ Coming(k)'
  <2>1. channel # <<>> /\ channel' = Tail(channel) /\ overflow' = overflow /\ UNCHANGED scanVars
    BY <1>7 DEF Receive
  <2>2. Waits(k) => Waits(k)' \/ k = Head(channel)
    <3>1. ASSUME NEW i \in 1..Len(channel), channel[i] = k, i # 1 PROVE Waits(k)'
      <4>1. i - 1 \in 1..Len(Tail(channel)) /\ Tail(channel)[i - 1] = channel[i]
        BY <1>3, <2>1, <3>1
      <4> QED BY <2>1, <3>1, <4>1
    <3> QED BY <3>1
  <2>3. CASE auto_scan
    <3>1. unseen' = unseen /\ bucket' = [bucket EXCEPT ![Head(channel)] = "waiting"]
      BY <1>7, <2>3 DEF Receive, Put
    <3>2. bucket[k] # "none" \/ k = Head(channel) => bucket'[k] # "none"
      BY <1>1, <1>3, <3>1
    <3> QED BY <1>1, <1>4, <2>1, <2>2, <3>1, <3>2
  <2>4. CASE ~auto_scan
    <3>1. unseen' = unseen \ {Head(channel)} /\ bucket' = bucket
      BY <1>7, <2>4 DEF Receive
    <3> QED BY <1>1, <1>4, <2>1, <2>2, <3>1
  <2> QED BY <2>3, <2>4
<1>8. ASSUME TickPaused
      PROVE  Waits(k)' \/ overflow' \/ bucket'[k] # "none" \/ Coming(k)'
  <2>1. channel' = channel /\ overflow' = overflow /\ UNCHANGED scanVars
    BY <1>8 DEF TickPaused
  <2>2. ~overflow => k \in unseen /\ (bucket[k] = "none" \/ Waits(k))
    BY <1>8 DEF TickPaused, Queued
  <2> QED BY <1>1, <1>4, <2>1, <2>2
<1>9. ASSUME Tick
      PROVE  Waits(k)' \/ overflow' \/ bucket'[k] # "none" \/ Coming(k)'
  <2>1. channel' = channel /\ unseen' = unseen /\ UNCHANGED scanVars
    BY <1>9 DEF Tick, changes
  <2>2. bucket' = IF overflow THEN [l \in Libraries |-> "waiting"] ELSE bucket
    BY <1>9 DEF Tick
  <2> QED BY <1>1, <1>4, <2>1, <2>2
<1>10. ASSUME NEW l \in Libraries, Fire(l)
       PROVE  Waits(k)' \/ overflow' \/ bucket'[k] # "none" \/ Coming(k)'
  <2>1. /\ unseen' = unseen /\ channel' = channel /\ overflow' = overflow
        /\ bucket' = [bucket EXCEPT ![l] = "none"]
    BY <1>10 DEF Fire, Handle, Put, changes
  <2>2. PICK s \in Slots : Start(s, l, "watcher")
    BY <1>10 DEF Fire
  <2>3. (Coming(k) => Coming(k)') /\ Coming(l)'
    BY <2>2, StartKeepsComing, WatcherAssumption
  <2> QED BY <1>1, <1>3, <2>1, <2>3
<1>11. ASSUME NEW l \in Libraries, Defer(l)
       PROVE  Waits(k)' \/ overflow' \/ bucket'[k] # "none" \/ Coming(k)'
  <2>1. /\ unseen' = unseen /\ channel' = channel /\ overflow' = overflow
        /\ bucket' = [bucket EXCEPT ![l] = "waiting"] /\ UNCHANGED scanVars
    BY <1>11 DEF Defer, Handle, Put, changes
  <2>2. bucket[k] # "none" => bucket'[k] # "none"
    BY <1>1, <1>3, <2>1
  <2> QED BY <1>1, <1>4, <2>1, <2>2
<1>12. ASSUME NEW s \in Slots, Scan(s)
       PROVE  Waits(k)' \/ overflow' \/ bucket'[k] # "none" \/ Coming(k)'
  <2>1. /\ channel' = channel /\ overflow' = overflow /\ bucket' = bucket /\ ScanStep(s)
        /\ unseen' = IF stage'[s] = "scanning" THEN unseen \ {library[s]} ELSE unseen
    BY <1>12 DEF Scan
  <2>2. k \in unseen /\ ~(k = library[s] /\ stage'[s] = "scanning")
    BY <2>1
  <2>3. Coming(k) => Coming(k)'
    BY <2>1, <2>2, ScanKeepsComing
  <2> QED BY <1>1, <2>1, <2>2, <2>3
<1>13. ASSUME OtherScan \/ Release
       PROVE  Waits(k)' \/ overflow' \/ bucket'[k] # "none" \/ Coming(k)'
  <2>1. UNCHANGED <<channel, overflow, bucket, unseen>>
    BY <1>13 DEF OtherScan, Release, watchVars, changes
  <2>2. CASE OtherScan
    <3>1. Coming(k) => Coming(k)'
      BY <2>2, StartKeepsComing DEF OtherScan
    <3> QED BY <1>1, <2>1, <3>1
  <2>3. CASE Release
    <3>1. UNCHANGED <<stage, library, origin>>
      BY <2>3 DEF Release, LowerGate, LateUnlock
    <3> QED BY <1>1, <2>1, <3>1, ComingStays
  <2> QED BY <1>13, <2>2, <2>3
<1>14. ASSUME Toggle \/ UNCHANGED allVars
       PROVE  Waits(k)' \/ overflow' \/ bucket'[k] # "none" \/ Coming(k)'
  <2>1. UNCHANGED <<channel, overflow, bucket, unseen, scanVars>>
    BY <1>14 DEF Toggle, allVars, watchVars, changes
  <2> QED BY <1>1, <1>4, <2>1
<1> QED
  BY <1>5, <1>6, <1>7, <1>8, <1>9, <1>10, <1>11, <1>12, <1>13, <1>14 DEF WatchNext, Watcher

\* Whatever fails, the bookkeeping of the watcher stays well-formed and its
\* channel within its capacity, and after a paused tick a library gets a bucket
\* only through a later change of it, an event of it that was in the channel at
\* that tick, or an overflow, also one from before it: the tick clears the
\* buckets and nothing else (file_watcher.rs:206-226).
THEOREM ResumesColdCorrect == WatchSpec => [](WatchTypeOK /\ ResumesCold)
<1>1. WatchTypeOK /\ Cold /\ [WatchNext]_allVars => (WatchTypeOK /\ Cold)'
  BY WatchTypeStep, ColdStep
<1>2. Cold => ResumesCold
  BY DEF Cold, ResumesCold
<1> QED
  BY <1>1, <1>2, WatchTypeInit, PTL DEF WatchSpec

\* As long as the scan_jobs row of a scan can be written no change is forgotten:
\* not in a full channel, not during a scan of its library and not between the
\* bucket and the lock (file_watcher.rs:88-92, 227-263).  When the INSERT fails
\* the bucket is gone already, and the change waits for the next one.
THEOREM ChangesKeptCorrect == "db" \notin Faults => (WatchSpec => []ChangesKept)
<1> SUFFICES ASSUME "db" \notin Faults PROVE WatchSpec => []ChangesKept
  OBVIOUS
<1> DEFINE Kept == TypeOK /\ WatchTypeOK /\ Cold /\ Underway
<1>1. WatchInit => Kept
  BY WatchTypeInit, TypeInit DEF WatchInit
<1>2. Kept /\ [WatchNext]_allVars => Kept'
  BY WatcherScans, TypeStep, WatchTypeStep, ColdStep, UnderwayStep
<1>3. Kept => ChangesKept
  BY DEF ChangesKept, NoChangeForgotten, ResumesCold, Underway, Coming, Cold, Queued
<1> QED
  BY <1>1, <1>2, <1>3, PTL DEF WatchSpec
=============================================================================
