----------------------------- MODULE FileWatcher ----------------------------
(***************************************************************************)
(* The file watcher of crates/server/src/file_watcher.rs over LibraryScans. *)
(* The notify callback feeds a bounded channel; one task turns events into *)
(* per-library debounce buckets and starts a scan when a bucket has been   *)
(* quiet for DEBOUNCE, unless the library is being scanned already.        *)
(*                                                                         *)
(* The task's select! makes a new one-second sleep in every iteration and   *)
(* prefers neither branch: the buckets are looked at when a second passes   *)
(* with no event, and also when an event comes together with its end, which *)
(* then stays in the channel.  An event that was there when the iteration   *)
(* began is received: its sleep cannot have elapsed.                        *)
(* Syncing the watched paths is left out: every library is watched.         *)
(***************************************************************************)
EXTENDS LibraryScans, Sequences

CONSTANTS
    ChannelCap,   \* capacity of the event channel (16384)
    Endless,      \* libraries that are written to without end
    MaxTouches,   \* bound: changes to the other libraries
    MaxToggles    \* bound: flips of scan_automatically

ASSUME WatcherAssumption ==
    /\ Endless \subseteq Libraries /\ ChannelCap \in Nat
    /\ "watcher" \in Origins

ASSUME WatcherBoundsAssumption == MaxTouches \in Nat /\ MaxToggles \in Nat

VARIABLES
    channel,      \* events not received yet, as the library they belong to
    overflow,     \* overflow_flag
    bucket,       \* pending: none, waiting for DEBOUNCE, or due
    todo,         \* the due libraries the current tick has still to handle
    automatic,    \* the setting scan_automatically
    auto_scan,    \* what the task read of it when its iteration began
    touches, toggles,
    unseen,       \* history: changed since the last scan of it started, and not
                  \* dropped by a pause
    stirred       \* history: the libraries that changed, or had an event left
                  \* in the channel or behind the flag, since a paused tick

settings == <<automatic, auto_scan, toggles>>
changes == <<touches, unseen, stirred>>
watchVars == <<channel, overflow, bucket, todo, settings, changes>>
allVars == <<scanVars, watchVars>>

WatchTypeOK ==
    /\ channel \in Seq(Libraries) /\ Len(channel) <= ChannelCap
    /\ overflow \in BOOLEAN
    /\ bucket \in [Libraries -> {"none", "waiting", "due"}]
    /\ todo \subseteq Libraries
    /\ automatic \in BOOLEAN /\ auto_scan \in BOOLEAN
    /\ touches \in 0..MaxTouches
    /\ toggles \in 0..MaxToggles
    /\ unseen \subseteq Libraries /\ stirred \subseteq Libraries

WatchInit ==
    /\ Init
    /\ channel = <<>>
    /\ overflow = FALSE
    /\ bucket = [l \in Libraries |-> "none"]
    /\ todo = {}
    /\ automatic = TRUE /\ auto_scan = TRUE
    /\ touches = 0 /\ toggles = 0
    /\ unseen = {} /\ stirred = {}

-----------------------------------------------------------------------------

Queued(l) == \E i \in 1..Len(channel) : channel[i] = l

Put(l, b) == bucket' = [bucket EXCEPT ![l] = b]

\* The task is at its select!: no due library is left to handle and the
\* scan_jobs row of the last one is written.
Listening ==
    /\ todo = {}
    /\ \A s \in Slots : ~(stage[s] = "creating" /\ origin[s] = "watcher")

\* The next iteration begins by reading the setting again.
Turn == auto_scan' = automatic

\* Mutant: an event that finds the channel full is gone.
DispatchDropped(l) ==
    IF Len(channel) < ChannelCap
    THEN channel' = Append(channel, l) /\ UNCHANGED overflow
    ELSE UNCHANGED <<channel, overflow>>

\* The notify callback: try_send, and the flag when the channel is full.
Dispatch(l) ==
    IF Len(channel) < ChannelCap
    THEN channel' = Append(channel, l) /\ UNCHANGED overflow
    ELSE overflow' = TRUE /\ UNCHANGED channel

\* A file of the library is created, written, renamed or removed.  An overflow
\* stands for a change in every library.
Touch(l) ==
    /\ IF l \in Endless THEN UNCHANGED touches
       ELSE touches < MaxTouches /\ touches' = touches + 1
    /\ Dispatch(l)
    /\ unseen' = unseen \cup {l}
    /\ stirred' = IF overflow' THEN Libraries ELSE stirred \cup {l}
    /\ UNCHANGED <<scanVars, bucket, todo, settings>>

\* The operator flips scan_automatically.
Toggle ==
    /\ toggles < MaxToggles
    /\ toggles' = toggles + 1
    /\ automatic' = ~automatic
    /\ UNCHANGED <<scanVars, channel, overflow, bucket, todo, auto_scan, changes>>

\* The receiving branch: while paused the event is dropped.
Receive ==
    /\ Listening
    /\ channel # <<>>
    /\ channel' = Tail(channel)
    /\ IF auto_scan
       THEN Put(Head(channel), "waiting") /\ UNCHANGED unseen
       ELSE unseen' = unseen \ {Head(channel)} /\ UNCHANGED bucket
    /\ Turn
    /\ UNCHANGED <<scanVars, overflow, todo, automatic, toggles, touches, stirred>>

\* DEBOUNCE passes since the last event of the library.
Quiet(l) ==
    /\ bucket[l] = "waiting"
    /\ Put(l, "due")
    /\ UNCHANGED <<scanVars, channel, overflow, todo, settings, changes>>

\* The sleeping branch, while paused: the buckets are forgotten, the channel and
\* the overflow flag are not looked at.
TickPaused ==
    /\ Listening
    /\ ~auto_scan
    /\ bucket' = [l \in Libraries |-> "none"]
    /\ unseen' = IF overflow THEN unseen
                 ELSE {l \in unseen : bucket[l] = "none" \/ Queued(l)}
    /\ stirred' = IF overflow THEN stirred ELSE {l \in Libraries : Queued(l)}
    /\ Turn
    /\ UNCHANGED <<scanVars, channel, overflow, todo, automatic, toggles, touches>>

\* Otherwise an overflow restarts every bucket and what is due is handled.
Tick ==
    /\ Listening
    /\ auto_scan
    /\ overflow' = FALSE
    /\ bucket' = IF overflow THEN [l \in Libraries |-> "waiting"] ELSE bucket
    /\ todo' = {l \in Libraries : bucket'[l] = "due"}
    /\ IF todo' = {} THEN Turn ELSE UNCHANGED auto_scan
    /\ UNCHANGED <<scanVars, channel, automatic, toggles, changes>>

\* The due libraries are handled one after another, each to the end.
Handle(l) ==
    /\ l \in todo
    /\ \A s \in Slots : ~(stage[s] = "creating" /\ origin[s] = "watcher")
    /\ todo' = todo \ {l}
    /\ IF todo' = {} THEN Turn ELSE UNCHANGED auto_scan
    /\ UNCHANGED <<channel, overflow, automatic, toggles, changes>>

\* spawn_scan takes the lock: the bucket is dropped, also when the scan_jobs row
\* cannot be written afterwards.
Fire(l) ==
    /\ Handle(l)
    /\ \E s \in Slots : Start(s, l, "watcher")
    /\ Put(l, "none")

\* Mutant: events that land during a scan are dropped.
DeferNot(l) ==
    /\ Handle(l)
    /\ l \in locked
    /\ Put(l, "none")
    /\ UNCHANGED scanVars

\* spawn_scan finds the library locked: the bucket waits another DEBOUNCE.
Defer(l) ==
    /\ Handle(l)
    /\ l \in locked
    /\ Put(l, "waiting")
    /\ UNCHANGED scanVars

Watcher ==
    \/ Receive \/ TickPaused \/ Tick
    \/ \E l \in Libraries : Fire(l) \/ Defer(l)

\* A scan sees every change made before it walks the library.
Scan(s) ==
    /\ ScanStep(s)
    /\ unseen' = IF stage'[s] = "scanning" THEN unseen \ {library[s]} ELSE unseen
    /\ UNCHANGED <<channel, overflow, bucket, todo, settings, touches, stirred>>

OtherScan ==
    /\ \E s \in Slots, l \in Libraries, o \in Origins \ {"watcher"} : Start(s, l, o)
    /\ UNCHANGED watchVars

Release ==
    /\ LowerGate \/ \E l \in Libraries : LateUnlock(l)
    /\ UNCHANGED watchVars

WatchNext ==
    \/ \E l \in Libraries : Touch(l) \/ Quiet(l)
    \/ Toggle
    \/ Watcher
    \/ \E s \in Slots : Scan(s)
    \/ OtherScan
    \/ Release

WatchSpec == WatchInit /\ [][WatchNext]_allVars

\* The watcher's task runs, and no event stays in the channel for ever: the next
\* iteration finds it at once.  Time passes, scans end, their guards release.
WatchFairSpec ==
    /\ WatchSpec
    /\ WF_allVars(Watcher) /\ SF_allVars(Receive)
    /\ \A l \in Libraries : WF_allVars(Quiet(l)) /\ WF_allVars(LateUnlock(l) /\ UNCHANGED watchVars)
    /\ \A s \in Slots : WF_allVars(Scan(s))
    /\ WF_allVars(LowerGate /\ UNCHANGED watchVars)

-----------------------------------------------------------------------------

\* A change that no scan has covered and no pause has dropped is on its way to a
\* scan: it is in the channel or behind the overflow flag, its library has a
\* bucket or is about to be scanned.  Nothing falls between the channel, the
\* buckets and the lock.
NoChangeForgotten ==
    \A l \in unseen :
        \/ Queued(l)
        \/ overflow
        \/ bucket[l] # "none"
        \/ \E s \in Slots : library[s] = l /\ stage[s] \in {"creating", "spawned"}

\* Every change is covered by a scan that starts after it, also when it comes
\* during one (file_watcher.rs:250-263) or in a burst that overflows the channel
\* (file_watcher.rs:88-92), as long as the watcher is not paused.
EveryChangeScanned ==
    \A l \in Libraries : l \in unseen ~> l \notin unseen \/ ~automatic

\* "While paused, drain pending so we don't queue a burst when the operator
\* re-enables.  The next events after toggle-on rebuild the pending set from
\* scratch" (file_watcher.rs:208-211): after a paused tick the bucket of a library
\* is filled by a later change of it, by an event of it that the tick left in the
\* channel, or by an overflow of the channel, before it or since; never by what
\* the bucket held before.
ResumesCold == \A l \in Libraries : bucket[l] # "none" => l \in stirred

\* What the watcher keeps of the changes is neither too little nor too much.
ChangesKept == WatchTypeOK /\ NoChangeForgotten /\ ResumesCold

\* "Either drain a batch of events or wake every second to check pending
\* buckets" (file_watcher.rs:156-158): a due bucket does not stay due.
DueIsHandled == \A l \in Libraries : bucket[l] = "due" ~> bucket[l] # "due"
=============================================================================
