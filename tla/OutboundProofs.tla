--------------------------- MODULE OutboundProofs ---------------------------
(***************************************************************************)
(* Proofs about the two modules of calls to services outside: the breaker, *)
(* for any clients and threshold, and the link with Trakt, for any callers *)
(* and bounds.                                                             *)
(***************************************************************************)
EXTENDS CircuitBreaker, Trakt, TLAPS

-----------------------------------------------------------------------------
(* The breaker opens exactly when it tripped, and calls that no cooldown   *)
(* ends under leave room for one probe only.                               *)

\* Fresh calls are those no cooldown ended under.  Where the next probe could be
\* admitted none is left, and in HalfOpen there is at most one, the probe.
Alone ==
    /\ state = "Open" /\ cooled => InFlight \subseteq outlasted
    /\ state = "HalfOpen" => \A c, d \in InFlight \ outlasted : c = d
    /\ OneProbe

\* The type invariant and the trip count, without the bound on the cooldown.
TripInv == BreakerTypeOK /\ OpenIffTripped

LEMMA Budget == 0 \in 0..MaxFailures /\ 0 < Threshold
  BY ThresholdAssumption, MaxFailuresAssumption

LEMMA TripInit == BreakerInit => TripInv
<1> SUFFICES ASSUME BreakerInit PROVE TripInv
  OBVIOUS
<1>1. BreakerTypeOK
  BY Budget DEF BreakerInit, BreakerTypeOK, BreakerState
<1>2. OpenIffTripped
  BY Budget DEF BreakerInit, OpenIffTripped
<1> QED BY <1>1, <1>2 DEF TripInv

LEMMA TripNext == TripInv /\ [BreakerNext]_breakerVars => TripInv'
<1> SUFFICES ASSUME TripInv, [BreakerNext]_breakerVars PROVE TripInv'
  OBVIOUS
<1> USE ThresholdAssumption, MaxFailuresAssumption
    DEF TripInv, BreakerTypeOK, OpenIffTripped, BreakerState, InFlight
<1>1. ASSUME NEW c \in Clients, AllowClosed(c) PROVE TripInv'
  BY <1>1 DEF AllowClosed
<1>2. ASSUME NEW c \in Clients, AllowProbe(c) PROVE TripInv'
  BY <1>2 DEF AllowProbe
<1>3. ASSUME NEW c \in Clients, Succeed(c) PROVE TripInv'
  <2>1. /\ state' = "Closed"
        /\ consecutive_failures' = 0
        /\ cooled' = FALSE
        /\ pc' = [pc EXCEPT ![c] = "idle"]
        /\ outlasted' = outlasted \ {c}
    BY <1>3 DEF Succeed, RecordSuccess, Leave
  <2>2. BreakerTypeOK'
    BY <2>1, Budget
  <2>3. OpenIffTripped'
    BY <2>1, Budget
  <2> QED BY <2>2, <2>3
<1>4. ASSUME NEW c \in Clients, Trip(c) PROVE TripInv'
  <2>1. /\ consecutive_failures < MaxFailures
        /\ consecutive_failures' = consecutive_failures + 1
        /\ pc' = [pc EXCEPT ![c] = "idle"]
        /\ outlasted' = outlasted \ {c}
    BY <1>4 DEF Trip, RecordFailure, Leave
  <2>2. CASE state = "HalfOpen" \/ consecutive_failures' >= Threshold
    <3>1. state' = "Open" /\ cooled' = FALSE
      BY <1>4, <2>2 DEF Trip, RecordFailure
    <3>2. state = "HalfOpen" => ~(consecutive_failures < Threshold)
      OBVIOUS
    <3>3. consecutive_failures' \in 0..MaxFailures /\ ~(consecutive_failures' < Threshold)
      BY <2>1, <2>2, <3>2
    <3> QED BY <2>1, <3>1, <3>3
  <2>3. CASE ~(state = "HalfOpen" \/ consecutive_failures' >= Threshold)
    <3>1. state' = state /\ cooled' = cooled
      BY <1>4, <2>3 DEF Trip, RecordFailure
    <3> QED BY <2>1, <2>3, <3>1
  <2> QED BY <2>2, <2>3
<1>5. ASSUME NEW c \in Clients, EndUnrecorded(c) PROVE TripInv'
  BY <1>5 DEF EndUnrecorded, Leave
<1>6. CASE CoolDown
  BY <1>6 DEF CoolDown
<1>7. CASE UNCHANGED breakerVars
  BY <1>7 DEF breakerVars
<1> QED BY <1>1, <1>2, <1>3, <1>4, <1>5, <1>6, <1>7 DEF BreakerNext

\* The breaker is away from Closed exactly when it counts Threshold trips or
\* more with no success in between (allow, record_success, record_failure).
THEOREM TripsCorrect == BreakerSpec => []TripsCounted
<1>1. TripInv => TripsCounted
  BY DEF TripInv, TripsCounted
<1> QED BY TripInit, TripNext, <1>1, PTL DEF BreakerSpec

LEMMA AloneInit == BreakerInit => Alone
<1> SUFFICES ASSUME BreakerInit PROVE Alone
  OBVIOUS
<1>1. InFlight = {} /\ Probing = {}
  BY DEF BreakerInit, InFlight, Probing
<1>2. ~(state = "Open" /\ cooled) /\ state # "HalfOpen"
  BY DEF BreakerInit
<1>3. OneProbe
  BY <1>1 DEF OneProbe
<1> QED BY <1>1, <1>2, <1>3 DEF Alone

LEMMA AloneNext == BreakerTypeOK /\ Alone /\ [BreakerNext]_breakerVars => Alone'
<1> SUFFICES ASSUME BreakerTypeOK, Alone, [BreakerNext]_breakerVars PROVE Alone'
  OBVIOUS
<1> USE DEF Alone, OneProbe, BreakerTypeOK, BreakerState, InFlight, Probing
<1>1. ASSUME NEW c \in Clients, AllowClosed(c) PROVE Alone'
  BY <1>1 DEF AllowClosed
<1>2. ASSUME NEW c \in Clients, AllowProbe(c) PROVE Alone'
  BY <1>2 DEF AllowProbe
<1>3. ASSUME NEW c \in Clients, Succeed(c) PROVE Alone'
  BY <1>3 DEF Succeed, RecordSuccess, Leave
<1>4. ASSUME NEW c \in Clients, Trip(c) PROVE Alone'
  BY <1>4 DEF Trip, RecordFailure, Leave
<1>5. ASSUME NEW c \in Clients, EndUnrecorded(c) PROVE Alone'
  BY <1>5 DEF EndUnrecorded, Leave
<1>6. CASE CoolDown
  BY <1>6 DEF CoolDown
<1>7. CASE UNCHANGED breakerVars
  BY <1>7 DEF breakerVars
<1> QED BY <1>1, <1>2, <1>3, <1>4, <1>5, <1>6, <1>7 DEF BreakerNext

\* A recovering provider is tested by one request at a time: a second probe is
\* out only beside one that outlasted a cooldown (allow answers false in HalfOpen).
THEOREM OneProbeCorrect == BreakerSpec => []OneProbe
<1>1. BreakerInit => TripInv /\ Alone
  BY TripInit, AloneInit
<1>2. TripInv /\ Alone /\ [BreakerNext]_breakerVars => (TripInv /\ Alone)'
  BY TripNext, AloneNext DEF TripInv
<1>3. Alone => OneProbe
  BY DEF Alone
<1> QED BY <1>1, <1>2, <1>3, PTL DEF BreakerSpec
-----------------------------------------------------------------------------
(* The link with Trakt: types, and what a caller knows at each of its      *)
(* steps.                                                                  *)

Caller ==
    [step : Steps, at : Places, forced : BOOLEAN, tok : 0..MaxPairs, late : BOOLEAN,
     got : SUBSET (1..played), upto : Null..activity, cut : BOOLEAN]

Flags ==
    /\ aging \in BOOLEAN /\ revoked \in BOOLEAN /\ title \in BOOLEAN
    /\ watched \in BOOLEAN /\ unmarked \in BOOLEAN /\ cooling \in BOOLEAN
    /\ trailing \in BOOLEAN /\ astray \in BOOLEAN /\ broken \in BOOLEAN
    /\ unlinked \in BOOLEAN

\* The counters, each within what bounds it; an event of Trakt's is in its
\* rollup, and a completion is one of a scan.
Counts ==
    /\ row \in 0..MaxPairs /\ minted \in 0..MaxPairs
    /\ played \in 0..MaxPlays /\ activity \in Nat /\ played <= activity
    /\ cursor \in Null..played /\ seen \in Null..activity
    /\ history \subseteq 1..played /\ mirror \subseteq 1..played
    /\ tail \in {"none", "asleep", "due"} /\ tasks \in Nat
    /\ scans \in 0..MaxScans /\ reported \in 0..scans
    /\ jobs \in 0..MaxJobs /\ faults \in 0..MaxFaults
    /\ row = 0 => unlinked

\* Play p is behind the cursor, in the mirror or in the hands of caller k.
Known(k, p) == p <= cursor \/ p \in mirror \/ (k.at = "stores" /\ p \in k.got)

\* A pull that was not cut short knows of all that Trakt listed up to its read.
Told(k) == \A p \in history : p <= k.upto => Known(k, p)

Sound(k) ==
    /\ k.step = "link" => k.at = "saves"
    /\ k.at = "saves" => k.tok # 0
    /\ k.at = "asks" => k.upto = Null
    /\ k.at \in {"stores", "matches", "stamps"} =>
         /\ k.upto <= played
         /\ k.upto = Null => k.at = "stamps" /\ unlinked
         /\ unlinked \/ k.cut \/ Told(k)

Sync ==
    /\ Flags /\ Counts
    /\ callers \in [Callers -> Caller]
    /\ \A c \in Callers : Sound(callers[c])

(* The refresh lock and the pair on file. *)

\* Between its re-read and the end of its upsert a refresh has the lock.
Holds(c) == callers[c].at \in {"mints", "saves"} /\ callers[c].step # "link"

Locked == \A c, d \in Callers : Holds(c) /\ Holds(d) => c = d

\* Unless a pair is astray, the newest is on file or in the hands of the only
\* caller that is about to store one.
Pair ==
    ~ astray =>
      /\ \A c, d \in Callers : At(c, "saves") /\ At(d, "saves") => c = d
      /\ \A c \in Callers : At(c, "saves") => callers[c].tok = minted
      /\ row # 0 /\ (\A c \in Callers : ~ At(c, "saves")) => row = minted

SyncInv == Sync /\ Locked /\ Pair
LEMMA Bounds ==
    /\ MaxPairs \in Nat \ {0} /\ MaxPlays \in Nat /\ MaxJobs \in Nat
    /\ MaxScans \in Nat /\ MaxFaults \in Nat
BY TraktAssumption

LEMMA CallerFields ==
    ASSUME NEW k \in Caller
    PROVE  /\ k.step \in Steps /\ k.at \in Places /\ k.forced \in BOOLEAN
           /\ k.tok \in 0..MaxPairs /\ k.late \in BOOLEAN /\ k.got \in SUBSET (1..played)
           /\ k.upto \in Null..activity /\ k.cut \in BOOLEAN
BY DEF Caller

\* Caller c, alone in its step, is now k.
Moves(c, k) == k \in Caller /\ callers' = [callers EXCEPT ![c] = k]

\* A caller outside the refresh and outside what a pull does with its answer.
Rests(k) ==
    /\ k.at \in {"idle", "asks", "waits", "calls", "refused", "notes"}
    /\ k.step # "link"
    /\ k.at = "asks" => k.upto = Null

LEMMA IdleCaller ==
    ASSUME Counts, NEW c
    PROVE  /\ Idle \in Caller /\ Rests(Idle)
           /\ \A s \in Steps, forced \in BOOLEAN :
                s # "link" => Turns(c, s, forced) \in Caller /\ Rests(Turns(c, s, forced))
<1>1. 0 \in 0..MaxPairs /\ {} \in SUBSET (1..played) /\ Null \in Null..activity
  BY Bounds DEF Counts, Null
<1>2. Idle \in Caller /\ Rests(Idle)
  BY <1>1 DEF Idle, Caller, Steps, Places, Rests
<1>3. ASSUME NEW s \in Steps, NEW forced \in BOOLEAN, s # "link"
      PROVE  Turns(c, s, forced) \in Caller /\ Rests(Turns(c, s, forced))
  <2>1. PICK k : k = [Idle EXCEPT !.step = s, !.at = "asks", !.forced = forced]
    OBVIOUS
  <2>2. Idle \in Caller /\ Idle.upto = Null
    BY <1>2 DEF Idle
  <2>3. k \in Caller /\ k.at = "asks" /\ k.step = s /\ k.upto = Null
    BY <2>1, <2>2, <1>3 DEF Caller, Places
  <2>4. k = Turns(c, s, forced)
    BY <2>1 DEF Turns
  <2> QED BY <1>3, <2>3, <2>4 DEF Rests
<1> QED BY <1>2, <1>3

\* What a caller does next when a call of it ended: nothing, or the next call.
LEMMA NextCall ==
    ASSUME Sync, NEW c \in Callers, NEW k, k = AfterCall(c) \/ k = Failed(c)
    PROVE  k \in Caller /\ Rests(k)
<1>1. {"check", "history"} \subseteq Steps /\ FALSE \in BOOLEAN
  BY DEF Steps
<1>2. \/ k = Idle \/ k = Turns(c, "check", FALSE) \/ k = Turns(c, "history", FALSE)
  BY DEF AfterCall, Failed
<1>3. Idle \in Caller /\ Rests(Idle)
  BY IdleCaller DEF Sync
<1>4. ASSUME NEW s \in {"check", "history"}
      PROVE  Turns(c, s, FALSE) \in Caller /\ Rests(Turns(c, s, FALSE))
  BY <1>1, IdleCaller DEF Sync
<1> QED BY <1>2, <1>3, <1>4

\* Most steps of a caller leave the pair alone: they rest, begin a refresh
\* under a free lock, or take the answer of a pull one step further.
Enters(k) == k.at = "mints" /\ k.step # "link" /\ LockFree
Pulls(k)  == k.at \in {"stores", "matches", "stamps"} /\ k.step # "link"

Quiet(c) ==
    /\ ~ At(c, "saves")
    /\ UNCHANGED <<row, minted, astray>>
    /\ \E k : Moves(c, k) /\ (Rests(k) \/ Enters(k) \/ (Pulls(k) /\ (Sound(k) \/ Sound(k)')))

LEMMA CallerIs ==
    ASSUME Sync, NEW c \in Callers
    PROVE  /\ callers[c] \in Caller /\ Sound(callers[c])
           /\ callers[c].at # "saves" => callers[c].step # "link"
BY DEF Sync, Sound

LEMMA AskQuiet == ASSUME Sync, NEW c \in Callers, Ask(c) PROVE Quiet(c)
<1> DEFINE frame == UNCHANGED <<row, minted, astray>>
<1>1. frame /\ At(c, "asks")
  BY DEF Ask, tokens, remote, ghosts
<1>2. callers[c] \in Caller /\ Sound(callers[c]) /\ callers[c].step # "link"
  BY <1>1, CallerIs DEF At
<1>3. CASE row = 0 /\ callers[c].step # "seed"
  BY <1>1, <1>3, IdleCaller DEF Ask, Becomes, Quiet, Moves, Sync, At
<1>4. CASE row = 0 /\ callers[c].step = "seed"
  <2>1. PICK k : k = [callers[c] EXCEPT !.at = "stamps"]
    OBVIOUS
  <2>2. k \in Caller /\ k.at = "stamps" /\ k.step = "seed" /\ k.upto = callers[c].upto
    BY <1>2, <1>4, <2>1 DEF Caller, Places
  <2>3. Sound(k)
    <3>1. k.upto = Null /\ unlinked
      BY <1>1, <1>2, <1>4, <2>2 DEF Sound, At, Sync, Counts
    <3>2. Null <= played
      BY DEF Sync, Counts, Null
    <3> QED BY <2>2, <3>1, <3>2 DEF Sound
  <2>4. callers' = [callers EXCEPT ![c] = k]
    BY <1>4, <2>1 DEF Ask, Becomes
  <2> QED BY <1>1, <2>2, <2>3, <2>4 DEF Quiet, Moves, Pulls, At
<1>5. CASE row # 0
  <2>1. PICK k : k = [callers[c] EXCEPT !.tok = row, !.at = IF aging THEN "waits" ELSE "calls"]
    OBVIOUS
  <2>2. k \in Caller /\ k.at \in {"waits", "calls"} /\ k.step = callers[c].step
    BY <1>2, <2>1 DEF Caller, Places, Sync, Counts
  <2>3. callers' = [callers EXCEPT ![c] = k]
    BY <1>5, <2>1 DEF Ask, Becomes
  <2> QED BY <1>1, <1>2, <2>2, <2>3 DEF Quiet, Moves, Rests, At
<1> QED BY <1>3, <1>4, <1>5
\* A step that goes on at another statement, in the same call.
LEMMA GoesQuiet ==
    ASSUME Sync, NEW c \in Callers, NEW p \in {"calls", "refused"}, Goes(c, p),
           ~ At(c, "saves"), UNCHANGED <<row, minted, astray>>
    PROVE  Quiet(c)
<1>1. callers[c] \in Caller /\ callers[c].step # "link"
  BY CallerIs DEF At
<1>2. PICK k : k = [callers[c] EXCEPT !.at = p]
  OBVIOUS
<1>3. k \in Caller /\ k.at = p /\ k.step = callers[c].step
  BY <1>1, <1>2 DEF Caller, Places
<1>4. callers' = [callers EXCEPT ![c] = k]
  BY <1>2 DEF Goes
<1> QED BY <1>1, <1>3, <1>4 DEF Quiet, Moves, Rests

\* A step that ends the call, or goes on with the next one.
LEMMA EndsQuiet ==
    ASSUME Sync, NEW c \in Callers, NEW k, Becomes(c, k),
           k \in {Idle, AfterCall(c), Failed(c)},
           ~ At(c, "saves"), UNCHANGED <<row, minted, astray>>
    PROVE  Quiet(c)
<1>1. k \in Caller /\ Rests(k)
  BY NextCall, IdleCaller DEF Sync
<1> QED BY <1>1 DEF Quiet, Moves, Becomes

LEMMA RereadQuiet == ASSUME Sync, NEW c \in Callers, Reread(c) PROVE Quiet(c)
<1>1. UNCHANGED <<row, minted, astray>> /\ At(c, "waits") /\ LockFree
  BY DEF Reread, tokens, remote, ghosts
<1>2. callers[c] \in Caller /\ callers[c].step # "link"
  BY <1>1, CallerIs DEF At
<1>3. PICK k : k = [callers[c] EXCEPT !.tok = IF row = 0 THEN @ ELSE row,
                                      !.at = IF row # 0 /\ ~aging THEN "calls" ELSE "mints"]
  OBVIOUS
<1>4. k \in Caller /\ k.at \in {"calls", "mints"} /\ k.step = callers[c].step
  BY <1>2, <1>3 DEF Caller, Places, Sync, Counts
<1>5. callers' = [callers EXCEPT ![c] = k]
  BY <1>3 DEF Reread, Becomes
<1> QED BY <1>1, <1>2, <1>4, <1>5 DEF Quiet, Moves, Rests, Enters, At

LEMMA RereadLateQuiet == ASSUME Sync, NEW c \in Callers, RereadLate(c) PROVE Quiet(c)
<1>1. UNCHANGED <<row, minted, astray>> /\ At(c, "refused") /\ LockFree
  BY DEF RereadLate, tokens, remote, ghosts
<1>2. callers[c] \in Caller /\ callers[c].step # "link" /\ ~ At(c, "saves")
  BY <1>1, CallerIs DEF At
<1>3. CASE row = callers[c].tok
  <2>1. PICK k : k = [callers[c] EXCEPT !.at = "mints", !.late = TRUE]
    OBVIOUS
  <2>2. k \in Caller /\ k.at = "mints" /\ k.step = callers[c].step
    BY <1>2, <2>1 DEF Caller, Places
  <2>3. callers' = [callers EXCEPT ![c] = k]
    BY <1>3, <2>1 DEF RereadLate, Becomes
  <2> QED BY <1>1, <1>2, <2>2, <2>3 DEF Quiet, Moves, Enters
<1>4. CASE row # callers[c].tok
  BY <1>1, <1>2, <1>4, EndsQuiet DEF RereadLate
<1> QED BY <1>3, <1>4

LEMMA MintRefusedQuiet == ASSUME Sync, NEW c \in Callers, MintRefused(c) PROVE Quiet(c)
<1>1. UNCHANGED <<row, minted, astray>> /\ At(c, "mints")
  BY DEF MintRefused, tokens, remote, ghosts
<1>2. ~ At(c, "saves")
  BY <1>1 DEF At
<1>3. Becomes(c, Failed(c)) \/ Goes(c, "calls")
  BY DEF MintRefused, MintsNone
<1> QED BY <1>1, <1>2, <1>3, EndsQuiet, GoesQuiet

LEMMA CallFailsQuiet == ASSUME Sync, NEW c \in Callers, CallFails(c) PROVE Quiet(c)
<1>1. UNCHANGED <<row, minted, astray>> /\ At(c, "calls") /\ Becomes(c, Failed(c))
  BY DEF CallFails, tokens, remote, ghosts
<1> QED BY <1>1, EndsQuiet DEF At

LEMMA CallRefusedQuiet == ASSUME Sync, NEW c \in Callers, CallRefused(c) PROVE Quiet(c)
<1>1. UNCHANGED <<row, minted, astray>> /\ At(c, "calls") /\ Goes(c, "refused")
  BY DEF CallRefused, tokens, remote, ghosts
<1> QED BY <1>1, GoesQuiet DEF At

\* A call that begins.
LEMMA TurnsQuiet ==
    ASSUME Sync, NEW c \in Callers, NEW s \in Steps, NEW forced \in BOOLEAN, s # "link",
           Becomes(c, Turns(c, s, forced)), ~ At(c, "saves"), UNCHANGED <<row, minted, astray>>
    PROVE  Quiet(c)
<1>1. PICK k : k = Turns(c, s, forced)
  OBVIOUS
<1>2. k \in Caller /\ Rests(k)
  BY <1>1, IdleCaller DEF Sync
<1> QED BY <1>1, <1>2 DEF Quiet, Moves, Becomes

LEMMA StartPullQuiet ==
    ASSUME Sync, NEW c \in Callers, NEW forced \in BOOLEAN, StartPull(c, forced)
    PROVE  Quiet(c)
<1>1. UNCHANGED <<row, minted, astray>> /\ At(c, "idle")
  BY DEF StartPull, tokens, remote, ghosts
<1>2. \E s \in {"seed", "check"} : Becomes(c, Turns(c, s, forced))
  BY DEF StartPull
<1>3. {"seed", "check"} \subseteq Steps /\ ~ At(c, "saves")
  BY <1>1 DEF Steps, At
<1> QED BY <1>1, <1>2, <1>3, TurnsQuiet

LEMMA SetWatchedQuiet ==
    ASSUME Sync, NEW c \in Callers, NEW w \in BOOLEAN, SetWatched(c, w)
    PROVE  Quiet(c)
<1>1. UNCHANGED <<row, minted, astray>> /\ At(c, "idle")
  BY DEF SetWatched, tokens, remote, ghosts
<1>2. \E s \in {"push", "remove"} : Becomes(c, Turns(c, s, FALSE))
  BY DEF SetWatched
<1>3. {"push", "remove"} \subseteq Steps /\ ~ At(c, "saves") /\ FALSE \in BOOLEAN
  BY <1>1 DEF Steps, At
<1> QED BY <1>1, <1>2, <1>3, TurnsQuiet

LEMMA PushQuiet == ASSUME Sync, NEW c \in Callers, Push(c) PROVE Quiet(c)
<1>1. UNCHANGED <<row, minted, astray>> /\ At(c, "calls") /\ Becomes(c, Idle)
  BY DEF Push, tokens, ghosts
<1> QED BY <1>1, EndsQuiet DEF At

LEMMA CheckQuiet == ASSUME Sync, NEW c \in Callers, Check(c) PROVE Quiet(c)
<1>1. UNCHANGED <<row, minted, astray>> /\ At(c, "calls") /\ callers[c].step = "check"
  BY DEF Check, tokens, remote, ghosts
<1>2. callers[c] \in Caller /\ ~ At(c, "saves")
  BY <1>1, CallerIs DEF At
<1>3. CASE seen = activity
  BY <1>1, <1>2, <1>3, EndsQuiet DEF Check
<1>4. CASE seen # activity
  <2>1. PICK k : k = [callers[c] EXCEPT !.upto = activity, !.tok = 0, !.at = "notes"]
    OBVIOUS
  <2>2. activity \in Null..activity /\ 0 \in 0..MaxPairs
    BY Bounds DEF Sync, Counts, Null
  <2>3. k \in Caller /\ k.at = "notes" /\ k.step = "check"
    BY <1>1, <1>2, <2>1, <2>2 DEF Caller, Places
  <2>4. callers' = [callers EXCEPT ![c] = k]
    BY <1>4, <2>1 DEF Check, Becomes
  <2> QED BY <1>1, <1>2, <2>3, <2>4 DEF Quiet, Moves, Rests
<1> QED BY <1>3, <1>4

LEMMA NoteQuiet == ASSUME Sync, NEW c \in Callers, Note(c) PROVE Quiet(c)
<1>1. UNCHANGED <<row, minted, astray>> /\ At(c, "notes") /\ Becomes(c, Turns(c, "history", FALSE))
  BY DEF Note, tokens, remote, ghosts
<1>2. "history" \in Steps /\ FALSE \in BOOLEAN /\ ~ At(c, "saves")
  BY <1>1 DEF Steps, At
<1> QED BY <1>1, <1>2, TurnsQuiet

LEMMA StoreFailsQuiet == ASSUME Sync, NEW c \in Callers, StoreFails(c) PROVE Quiet(c)
<1>1. UNCHANGED <<row, minted, astray>> /\ callers[c].at \in {"stores", "matches"}
      /\ Becomes(c, AfterCall(c))
  BY DEF StoreFails, tokens, remote
<1> QED BY <1>1, EndsQuiet DEF At

LEMMA StampQuiet == ASSUME Sync, NEW c \in Callers, Stamp(c) PROVE Quiet(c)
<1>1. UNCHANGED <<row, minted, astray>> /\ At(c, "stamps") /\ Becomes(c, AfterCall(c))
  BY DEF Stamp, tokens, remote, ghosts
<1> QED BY <1>1, EndsQuiet DEF At

\* A pull has what Trakt listed of the plays behind the cursor, as of now, unless
\* an error cut it short.
LEMMA AnswerQuiet ==
    ASSUME Sync, NEW c \in Callers, At(c, "calls"), UNCHANGED <<row, minted, astray>>,
           NEW k \in Caller, Becomes(c, k), k.at = "stores", k.step = callers[c].step,
           k.upto = played, k.cut \/ (\A p \in history : p > cursor => p \in k.got)
    PROVE  Quiet(c)
<1>1. callers[c].step # "link" /\ ~ At(c, "saves")
  BY CallerIs DEF At
<1>2. k.cut \/ Told(k)
  <2> SUFFICES ASSUME ~ k.cut, NEW p \in history PROVE Known(k, p)
    BY DEF Told
  <2>1. p \in Int /\ cursor \in Int
    BY DEF Sync, Counts, Null
  <2>2. p <= cursor \/ p > cursor
    BY <2>1
  <2> QED BY <2>2 DEF Known
<1>3. played # Null /\ played <= played
  BY Bounds DEF Sync, Counts, Null
<1>4. Sound(k)
  BY <1>1, <1>2, <1>3 DEF Sound
<1> QED BY <1>1, <1>4 DEF Quiet, Moves, Becomes, Pulls

LEMMA AnswerBounds ==
    ASSUME Sync
    PROVE  /\ played \in Null..activity /\ 0 \in 0..MaxPairs
           /\ \A got \in SUBSET history : got \in SUBSET (1..played)
BY Bounds DEF Sync, Counts, Null

LEMMA SeedQuiet == ASSUME Sync, NEW c \in Callers, Seed(c) PROVE Quiet(c)
<1>1. UNCHANGED <<row, minted, astray>> /\ At(c, "calls")
  BY DEF Seed, tokens, remote, ghosts
<1>2. callers[c] \in Caller
  BY CallerIs
<1>3. PICK k : k = [callers[c] EXCEPT !.got = history, !.upto = played, !.tok = 0, !.at = "stores"]
  OBVIOUS
<1>4. /\ k \in Caller /\ k.at = "stores" /\ k.step = callers[c].step
      /\ k.upto = played /\ k.got = history
  BY <1>2, <1>3, AnswerBounds DEF Caller, Places
<1>5. Becomes(c, k)
  BY <1>3 DEF Seed
<1> QED BY <1>1, <1>4, <1>5, AnswerQuiet

LEMMA ReadQuiet == ASSUME Sync, NEW c \in Callers, Read(c) PROVE Quiet(c)
<1>1. UNCHANGED <<row, minted, astray>> /\ At(c, "calls")
  BY DEF Read, tokens, remote, ghosts
<1>2. callers[c] \in Caller
  BY CallerIs
<1>3. PICK k : k = [callers[c] EXCEPT !.got = Since, !.upto = played, !.tok = 0, !.at = "stores"]
  OBVIOUS
<1>4. /\ k \in Caller /\ k.at = "stores" /\ k.step = callers[c].step
      /\ k.upto = played /\ k.got = Since
  <2>1. Since \in SUBSET (1..played)
    BY AnswerBounds DEF Since
  <2> QED BY <1>2, <1>3, <2>1, AnswerBounds DEF Caller, Places
<1>5. Becomes(c, k)
  BY <1>3 DEF Read
<1>6. \A p \in history : p > cursor => p \in k.got
  BY <1>4 DEF Since
<1> QED BY <1>1, <1>4, <1>5, <1>6, AnswerQuiet

LEMMA ReadCutQuiet == ASSUME Sync, NEW c \in Callers, ReadCut(c) PROVE Quiet(c)
<1>1. UNCHANGED <<row, minted, astray>> /\ At(c, "calls")
  BY DEF ReadCut, tokens, remote, ghosts
<1>2. callers[c] \in Caller
  BY CallerIs
<1>3. PICK n : Becomes(c, [callers[c] EXCEPT !.got = {p \in Since : p > n}, !.upto = played,
                                             !.cut = TRUE, !.tok = 0, !.at = "stores"])
  BY DEF ReadCut
<1>4. PICK k : k = [callers[c] EXCEPT !.got = {p \in Since : p > n}, !.upto = played,
                                      !.cut = TRUE, !.tok = 0, !.at = "stores"]
  OBVIOUS
<1>5. k \in Caller /\ k.at = "stores" /\ k.step = callers[c].step /\ k.upto = played /\ k.cut
  <2>1. {p \in Since : p > n} \in SUBSET (1..played)
    BY AnswerBounds DEF Since
  <2> QED BY <1>2, <1>4, <2>1, AnswerBounds DEF Caller, Places
<1>6. Becomes(c, k)
  BY <1>3, <1>4
<1> QED BY <1>1, <1>5, <1>6, AnswerQuiet

\* What a pull was told of is in the mirror before the cursor can pass it.
LEMMA StoreQuiet == ASSUME Sync, NEW c \in Callers, Store(c) PROVE Quiet(c)
<1>1. /\ UNCHANGED <<row, minted, astray>> /\ At(c, "stores")
      /\ mirror' = mirror \cup callers[c].got
      /\ UNCHANGED <<cursor, played, history, unlinked>>
  BY DEF Store, tokens, cursors, remote, ghosts
<1>2. callers[c] \in Caller /\ Sound(callers[c]) /\ callers[c].step # "link" /\ ~ At(c, "saves")
  BY <1>1, CallerIs DEF At
<1>3. PICK k : k = [callers[c] EXCEPT !.got = {}, !.at = "matches"]
  OBVIOUS
<1>4. /\ k \in Caller /\ k.at = "matches" /\ k.step = callers[c].step
      /\ k.upto = callers[c].upto /\ k.cut = callers[c].cut
  BY <1>2, <1>3 DEF Caller, Places
<1>5. Sound(k)'
  <2>1. Told(callers[c]) => Told(k)'
    BY <1>1, <1>4 DEF Told, Known
  <2>2. /\ callers[c].upto <= played /\ callers[c].upto # Null
        /\ unlinked \/ callers[c].cut \/ Told(callers[c])
    BY <1>1, <1>2 DEF Sound, At
  <2> QED BY <1>1, <1>2, <1>4, <2>1, <2>2 DEF Sound
<1>6. callers' = [callers EXCEPT ![c] = k]
  BY <1>3 DEF Store, Becomes
<1> QED BY <1>1, <1>2, <1>4, <1>5, <1>6 DEF Quiet, Moves, Pulls

LEMMA MatchQuiet == ASSUME Sync, NEW c \in Callers, Match(c) PROVE Quiet(c)
<1>1. UNCHANGED <<row, minted, astray>> /\ At(c, "matches") /\ Goes(c, "stamps")
  BY DEF Match, tokens, remote, ghosts
<1>2. callers[c] \in Caller /\ Sound(callers[c]) /\ callers[c].step # "link" /\ ~ At(c, "saves")
  BY <1>1, CallerIs DEF At
<1>3. PICK k : k = [callers[c] EXCEPT !.at = "stamps"]
  OBVIOUS
<1>4. /\ k \in Caller /\ k.at = "stamps" /\ k.step = callers[c].step
      /\ k.upto = callers[c].upto /\ k.cut = callers[c].cut
  BY <1>2, <1>3 DEF Caller, Places
<1>5. Sound(k)
  <2>1. Told(callers[c]) => Told(k)
    BY <1>1, <1>4 DEF Told, Known, At
  <2>2. /\ callers[c].upto <= played /\ callers[c].upto # Null
        /\ unlinked \/ callers[c].cut \/ Told(callers[c])
    BY <1>1, <1>2 DEF Sound, At
  <2> QED BY <1>2, <1>4, <2>1, <2>2 DEF Sound
<1>6. callers' = [callers EXCEPT ![c] = k]
  BY <1>1, <1>3 DEF Goes
<1> QED BY <1>1, <1>2, <1>4, <1>5, <1>6 DEF Quiet, Moves, Pulls
-----------------------------------------------------------------------------
(* The counters and flags, and what no step takes back.                    *)

Grows ==
    /\ played \in Nat /\ played' \in Nat /\ played <= played' /\ activity <= activity'
    /\ activity \in Nat /\ activity' \in Nat
    /\ mirror \subseteq mirror'
    /\ unlinked => unlinked'
    /\ unlinked' \/ cursor <= cursor'
    /\ \A p \in history' : p \in history \/ p > played

Moderate == Flags' /\ Counts' /\ Grows

\* The steps that touch none of what Flags and Counts are about.
Untouched ==
    /\ UNCHANGED <<tokens, cursors, remote, local, library, debounce, ghosts, faults>>

LEMMA UntouchedModerate == ASSUME Sync, Untouched, UNCHANGED jobs PROVE Moderate
<1> USE DEF Untouched, tokens, cursors, remote, local, library, debounce, ghosts
<1>1. Flags'
  BY DEF Sync, Flags
<1>2. Counts'
  BY DEF Sync, Counts
<1>3. Grows
  <2>1. played <= played /\ activity <= activity /\ cursor <= cursor /\ played \in Nat
    BY Bounds DEF Sync, Counts, Null
  <2> QED BY <2>1 DEF Grows, Sync, Counts
<1> QED BY <1>1, <1>2, <1>3 DEF Moderate

LEMMA FaultCounts == ASSUME Sync, Fault PROVE faults' \in 0..MaxFaults
BY Bounds DEF Sync, Counts, Fault

LEMMA MintModerate == ASSUME Sync, NEW c \in Callers, Mint(c) PROVE Moderate
<1> USE Bounds DEF Mint, tokens, cursors, remote, local, library, debounce, ghosts
<1>1. Flags'
  BY DEF Sync, Flags, Unsaved
<1>2. Counts'
  BY DEF Sync, Counts, Null, Unsaved
<1>3. Grows
  BY DEF Sync, Counts, Null, Grows, Unsaved
<1> QED BY <1>1, <1>2, <1>3 DEF Moderate

LEMMA SaveModerate == ASSUME Sync, NEW c \in Callers, Save(c) PROVE Moderate
<1> USE Bounds DEF Save, tokens, cursors, remote, local, library, debounce, ghosts
<1>1. Flags'
  BY DEF Sync, Flags, At
<1>2. Counts'
  <2>1. callers[c].tok \in 0..MaxPairs /\ callers[c].tok # 0
    BY CallerIs, CallerFields DEF Sound, At
  <2> QED BY <2>1 DEF Sync, Counts, Null
<1>3. Grows
  BY DEF Sync, Counts, Null, Grows, At
<1> QED BY <1>1, <1>2, <1>3 DEF Moderate

LEMMA SaveFailsModerate == ASSUME Sync, NEW c \in Callers, SaveFails(c) PROVE Moderate
<1> USE Bounds DEF SaveFails, tokens, cursors, remote, local, library, debounce, ghosts
<1>1. Flags'
  BY DEF Sync, Flags, Unsaved
<1>2. Counts'
  BY FaultCounts DEF Sync, Counts, Null, Unsaved
<1>3. Grows
  BY DEF Sync, Counts, Null, Grows, Unsaved
<1> QED BY <1>1, <1>2, <1>3 DEF Moderate

LEMMA MintFailsModerate == ASSUME Sync, NEW c \in Callers, MintFails(c) PROVE Moderate
<1> USE Bounds DEF MintFails, tokens, cursors, remote, local, library, debounce, ghosts
<1>1. Flags'
  BY DEF Sync, Flags
<1>2. Counts'
  BY FaultCounts DEF Sync, Counts, Null
<1>3. Grows
  BY DEF Sync, Counts, Null, Grows
<1> QED BY <1>1, <1>2, <1>3 DEF Moderate

LEMMA LinkLostModerate == ASSUME Sync, NEW c \in Callers, LinkLost(c) PROVE Moderate
<1> USE Bounds DEF LinkLost, tokens, cursors, remote, local, library, debounce, ghosts
<1>1. Flags'
  BY DEF Sync, Flags
<1>2. Counts'
  BY FaultCounts DEF Sync, Counts, Null
<1>3. Grows
  BY DEF Sync, Counts, Null, Grows
<1> QED BY <1>1, <1>2, <1>3 DEF Moderate

LEMMA CallFailsModerate == ASSUME Sync, NEW c \in Callers, CallFails(c) PROVE Moderate
<1> USE Bounds DEF CallFails, tokens, cursors, remote, local, library, debounce, ghosts
<1>1. Flags'
  BY DEF Sync, Flags
<1>2. Counts'
  BY FaultCounts DEF Sync, Counts, Null
<1>3. Grows
  BY DEF Sync, Counts, Null, Grows
<1> QED BY <1>1, <1>2, <1>3 DEF Moderate

LEMMA NoteModerate == ASSUME Sync, NEW c \in Callers, Note(c) PROVE Moderate
<1> USE Bounds DEF Note, tokens, cursors, remote, local, library, debounce, ghosts
<1>1. Flags'
  BY DEF Sync, Flags, Caller
<1>2. Counts'
  BY DEF Sync, Counts, Null, Caller
<1>3. Grows
  BY DEF Sync, Counts, Null, Grows, Caller
<1> QED BY <1>1, <1>2, <1>3 DEF Moderate

LEMMA ReadCutModerate == ASSUME Sync, NEW c \in Callers, ReadCut(c) PROVE Moderate
<1> USE Bounds DEF ReadCut, tokens, cursors, remote, local, library, debounce, ghosts
<1>1. Flags'
  BY DEF Sync, Flags
<1>2. Counts'
  BY FaultCounts DEF Sync, Counts, Null
<1>3. Grows
  BY DEF Sync, Counts, Null, Grows
<1> QED BY <1>1, <1>2, <1>3 DEF Moderate

LEMMA StoreModerate == ASSUME Sync, NEW c \in Callers, Store(c) PROVE Moderate
<1> USE Bounds DEF Store, tokens, cursors, remote, local, library, debounce, ghosts
<1>1. Flags'
  BY DEF Sync, Flags, Caller
<1>2. Counts'
  BY DEF Sync, Counts, Null, Caller
<1>3. Grows
  BY DEF Sync, Counts, Null, Grows, Caller
<1> QED BY <1>1, <1>2, <1>3 DEF Moderate

LEMMA MatchModerate == ASSUME Sync, NEW c \in Callers, Match(c) PROVE Moderate
<1> USE Bounds DEF Match, tokens, cursors, remote, local, library, debounce, ghosts
<1>1. Flags'
  BY DEF Sync, Flags, Matched
<1>2. Counts'
  BY DEF Sync, Counts, Null, Matched
<1>3. Grows
  BY DEF Sync, Counts, Null, Grows, Matched
<1> QED BY <1>1, <1>2, <1>3 DEF Moderate

LEMMA StoreFailsModerate == ASSUME Sync, NEW c \in Callers, StoreFails(c) PROVE Moderate
<1> USE Bounds DEF StoreFails, tokens, cursors, remote, local, library, debounce, ghosts
<1>1. Flags'
  BY DEF Sync, Flags, At
<1>2. Counts'
  BY FaultCounts DEF Sync, Counts, Null, At
<1>3. Grows
  BY DEF Sync, Counts, Null, Grows, At
<1> QED BY <1>1, <1>2, <1>3 DEF Moderate

LEMMA StampModerate == ASSUME Sync, NEW c \in Callers, Stamp(c) PROVE Moderate
<1> USE Bounds DEF Stamp, tokens, cursors, remote, local, library, debounce, ghosts
<1>1. Flags'
  BY DEF Sync, Flags
<1>2. Counts'
  BY DEF Sync, Counts, Null
<1>3. Grows
  BY DEF Sync, Counts, Null, Grows
<1> QED BY <1>1, <1>2, <1>3 DEF Moderate

LEMMA LinkModerate == ASSUME Sync, NEW c \in Callers, Link(c) PROVE Moderate
<1> USE Bounds DEF Link, tokens, cursors, remote, local, library, debounce, ghosts
<1>1. Flags'
  BY DEF Sync, Flags, Unsaved
<1>2. Counts'
  BY DEF Sync, Counts, Null, Unsaved
<1>3. Grows
  BY DEF Sync, Counts, Null, Grows, Unsaved
<1> QED BY <1>1, <1>2, <1>3 DEF Moderate

LEMMA PushModerate == ASSUME Sync, NEW c \in Callers, Push(c) PROVE Moderate
<1> USE Bounds DEF Push, tokens, cursors, remote, local, library, debounce, ghosts
<1>1. Flags'
  BY DEF Sync, Flags
<1>2. Counts'
  BY DEF Sync, Counts, Null
<1>3. Grows
  BY DEF Sync, Counts, Null, Grows
<1> QED BY <1>1, <1>2, <1>3 DEF Moderate

LEMMA StartPullModerate ==
    ASSUME Sync, NEW c \in Callers, NEW b \in BOOLEAN, StartPull(c, b)
    PROVE  Moderate
<1> USE Bounds DEF StartPull, tokens, cursors, remote, local, library, debounce, ghosts
<1>1. Flags'
  BY DEF Sync, Flags
<1>2. Counts'
  BY DEF Sync, Counts, Null
<1>3. Grows
  BY DEF Sync, Counts, Null, Grows
<1> QED BY <1>1, <1>2, <1>3 DEF Moderate

LEMMA SetWatchedModerate ==
    ASSUME Sync, NEW c \in Callers, NEW b \in BOOLEAN, SetWatched(c, b)
    PROVE  Moderate
<1> USE Bounds DEF SetWatched, tokens, cursors, remote, local, library, debounce, ghosts
<1>1. Flags'
  BY DEF Sync, Flags
<1>2. Counts'
  BY DEF Sync, Counts, Null
<1>3. Grows
  BY DEF Sync, Counts, Null, Grows
<1> QED BY <1>1, <1>2, <1>3 DEF Moderate

LEMMA UnlinkModerate == ASSUME Sync, Unlink PROVE Moderate
<1> USE Bounds DEF Unlink, tokens, cursors, remote, local, library, debounce, ghosts
<1>1. Flags'
  BY DEF Sync, Flags
<1>2. Counts'
  BY DEF Sync, Counts, Null
<1>3. Grows
  BY DEF Sync, Counts, Null, Grows
<1> QED BY <1>1, <1>2, <1>3 DEF Moderate

LEMMA PlayModerate == ASSUME Sync, Play PROVE Moderate
<1> USE Bounds DEF Play, tokens, cursors, remote, local, library, debounce, ghosts
<1>1. Flags'
  BY DEF Sync, Flags
<1>2. Counts'
  BY DEF Sync, Counts, Null
<1>3. Grows
  BY DEF Sync, Counts, Null, Grows
<1> QED BY <1>1, <1>2, <1>3 DEF Moderate

LEMMA AgeModerate == ASSUME Sync, Age PROVE Moderate
<1> USE Bounds DEF Age, tokens, cursors, remote, local, library, debounce, ghosts
<1>1. Flags'
  BY DEF Sync, Flags
<1>2. Counts'
  BY FaultCounts DEF Sync, Counts, Null
<1>3. Grows
  BY DEF Sync, Counts, Null, Grows
<1> QED BY <1>1, <1>2, <1>3 DEF Moderate

LEMMA RevokeModerate == ASSUME Sync, Revoke PROVE Moderate
<1> USE Bounds DEF Revoke, tokens, cursors, remote, local, library, debounce, ghosts
<1>1. Flags'
  BY DEF Sync, Flags
<1>2. Counts'
  BY FaultCounts DEF Sync, Counts, Null
<1>3. Grows
  BY DEF Sync, Counts, Null, Grows
<1> QED BY <1>1, <1>2, <1>3 DEF Moderate

LEMMA ScanModerate == ASSUME Sync, Scan PROVE Moderate
<1> USE Bounds DEF Scan, tokens, cursors, remote, local, library, debounce, ghosts
<1>1. Flags'
  BY DEF Sync, Flags
<1>2. Counts'
  BY DEF Sync, Counts, Null
<1>3. Grows
  BY DEF Sync, Counts, Null, Grows
<1> QED BY <1>1, <1>2, <1>3 DEF Moderate

LEMMA CompletedModerate == ASSUME Sync, Completed PROVE Moderate
<1> USE Bounds DEF Completed, tokens, cursors, remote, local, library, debounce, ghosts
<1>1. Flags'
  BY DEF Sync, Flags
<1>2. Counts'
  BY DEF Sync, Counts, Null
<1>3. Grows
  BY DEF Sync, Counts, Null, Grows
<1> QED BY <1>1, <1>2, <1>3 DEF Moderate

LEMMA CoolModerate == ASSUME Sync, Cool PROVE Moderate
<1> USE Bounds DEF Cool, tokens, cursors, remote, local, library, debounce, ghosts
<1>1. Flags'
  BY DEF Sync, Flags
<1>2. Counts'
  BY DEF Sync, Counts, Null
<1>3. Grows
  BY DEF Sync, Counts, Null, Grows
<1> QED BY <1>1, <1>2, <1>3 DEF Moderate

LEMMA WakeModerate == ASSUME Sync, Wake PROVE Moderate
<1> USE Bounds DEF Wake, tokens, cursors, remote, local, library, debounce, ghosts
<1>1. Flags'
  BY DEF Sync, Flags
<1>2. Counts'
  BY DEF Sync, Counts, Null
<1>3. Grows
  BY DEF Sync, Counts, Null, Grows
<1> QED BY <1>1, <1>2, <1>3 DEF Moderate

LEMMA ReconcileModerate == ASSUME Sync, Reconcile PROVE Moderate
<1> USE Bounds DEF Reconcile, tokens, cursors, remote, local, library, debounce, ghosts
<1>1. Flags'
  BY DEF Sync, Flags, Matched
<1>2. Counts'
  BY DEF Sync, Counts, Null, Matched
<1>3. Grows
  BY DEF Sync, Counts, Null, Grows, Matched
<1> QED BY <1>1, <1>2, <1>3 DEF Moderate

LEMMA CrashModerate == ASSUME Sync, Crash PROVE Moderate
<1> USE Bounds DEF Crash, tokens, cursors, remote, local, library, debounce, ghosts
<1>1. Flags'
  BY DEF Sync, Flags, At
<1>2. Counts'
  BY FaultCounts DEF Sync, Counts, Null, At
<1>3. Grows
  BY DEF Sync, Counts, Null, Grows, At
<1> QED BY <1>1, <1>2, <1>3 DEF Moderate

LEMMA QuietModerate ==
    ASSUME Sync, NEW c \in Callers,
           \/ Ask(c) \/ Reread(c) \/ RereadLate(c) \/ MintRefused(c) \/ CallRefused(c)
           \/ Seed(c) \/ Check(c) \/ Read(c)
    PROVE  Moderate
<1>1. Untouched /\ UNCHANGED jobs
  BY DEF Untouched, Ask, Reread, RereadLate, MintRefused, CallRefused, Seed, Check, Read
<1> QED BY <1>1, UntouchedModerate

\* The steps of the callers that leave the pair alone.
LEMMA QuietSteps ==
    ASSUME Sync, NEW c \in Callers,
           \/ Works(c) /\ ~ Mint(c) /\ ~ Save(c)
           \/ CallFails(c) \/ StoreFails(c)
           \/ \E b \in BOOLEAN : StartPull(c, b) \/ SetWatched(c, b)
    PROVE  Quiet(c)
BY AskQuiet, RereadQuiet, RereadLateQuiet, MintRefusedQuiet, CallRefusedQuiet, SeedQuiet,
   CheckQuiet, NoteQuiet, ReadQuiet, ReadCutQuiet, StoreQuiet, MatchQuiet, StampQuiet,
   PushQuiet, CallFailsQuiet, StoreFailsQuiet, StartPullQuiet, SetWatchedQuiet
   DEF Works

LEMMA ModerateStep == ASSUME Sync, [Next]_vars PROVE Moderate
<1>1. ASSUME NEW c \in Callers, Works(c) PROVE Moderate
  BY <1>1, QuietModerate, MintModerate, SaveModerate, NoteModerate, ReadCutModerate,
     StoreModerate, MatchModerate, StampModerate, PushModerate DEF Works
<1>2. ASSUME NEW c \in Callers,
             \/ MintFails(c) \/ SaveFails(c) \/ CallFails(c) \/ StoreFails(c)
             \/ Link(c) \/ LinkLost(c)
      PROVE  Moderate
  BY <1>2, MintFailsModerate, SaveFailsModerate, CallFailsModerate, StoreFailsModerate,
     LinkModerate, LinkLostModerate
<1>3. ASSUME NEW c \in Callers, NEW b \in BOOLEAN, StartPull(c, b) \/ SetWatched(c, b)
      PROVE  Moderate
  BY <1>3, StartPullModerate, SetWatchedModerate
<1>4. ASSUME Unlink \/ Play \/ Age \/ Revoke \/ Scan \/ Completed \/ Cool \/ Wake
             \/ Reconcile \/ Crash
      PROVE  Moderate
  BY <1>4, UnlinkModerate, PlayModerate, AgeModerate, RevokeModerate, ScanModerate,
     CompletedModerate, CoolModerate, WakeModerate, ReconcileModerate, CrashModerate
<1>5. ASSUME UNCHANGED vars PROVE Moderate
  <2>1. Untouched /\ UNCHANGED jobs
    BY <1>5 DEF vars, Untouched
  <2> QED BY <2>1, UntouchedModerate
<1> QED
  BY <1>1, <1>2, <1>3, <1>4, <1>5 DEF Next

-----------------------------------------------------------------------------
(* What a caller knows stays true while others run.                        *)

LEMMA SoundStays ==
    ASSUME Sync, Moderate, NEW k \in Caller
    PROVE  k \in Caller' /\ (Sound(k) => Sound(k)')
<1>1. k \in Caller'
  <2>1. SUBSET (1..played) \subseteq SUBSET (1..played')
    <3>1. 1..played \subseteq 1..played'
      BY DEF Moderate, Grows
    <3> QED BY <3>1
  <2>2. Null..activity \subseteq Null..activity'
    BY DEF Moderate, Grows, Null
  <2> QED BY <2>1, <2>2 DEF Caller
<1>2. ASSUME Sound(k), k.at \in {"stores", "matches", "stamps"}
      PROVE  /\ k.upto <= played'
             /\ k.upto = Null => k.at = "stamps" /\ unlinked'
             /\ unlinked' \/ k.cut \/ Told(k)'
  <2>1. k.upto \in Int /\ cursor \in Int /\ cursor' \in Int /\ played \in Int /\ played' \in Int
    BY CallerFields DEF Sync, Moderate, Counts, Null
  <2>2. k.upto <= played /\ (unlinked \/ k.cut \/ Told(k))
        /\ (k.upto = Null => k.at = "stamps" /\ unlinked)
    BY <1>2 DEF Sound
  <2>3. k.upto <= played'
    BY <2>1, <2>2 DEF Moderate, Grows
  <2>4. ASSUME ~ unlinked', ~ k.cut, NEW p \in history', p <= k.upto
        PROVE  Known(k, p)'
    <3>1. p \in Int
      BY DEF Moderate, Counts
    <3>2. p \in history
      BY <2>1, <2>2, <2>4, <3>1 DEF Moderate, Grows
    <3>3. Known(k, p)
      BY <2>2, <2>4, <3>2 DEF Told, Moderate, Grows
    <3>4. p <= cursor => p <= cursor'
      BY <2>1, <2>4, <3>1 DEF Moderate, Grows
    <3> QED BY <3>3, <3>4 DEF Known, Moderate, Grows
  <2>5. unlinked' \/ k.cut \/ Told(k)'
    BY <2>4 DEF Told
  <2> QED BY <2>2, <2>3, <2>5 DEF Moderate, Grows
<1>3. ASSUME Sound(k) PROVE Sound(k)'
  BY <1>2, <1>3 DEF Sound
<1> QED BY <1>1, <1>3
LEMMA MovesSound ==
    ASSUME Sync, Moderate, NEW c \in Callers, NEW k, Moves(c, k), Sound(k) \/ Sound(k)'
    PROVE  Sync'
<1>1. k \in Caller' /\ Sound(k)'
  BY SoundStays DEF Moves
<1>2. ASSUME NEW d \in Callers PROVE callers'[d] \in Caller' /\ Sound(callers[d])'
  <2>1. CASE d = c
    <3>1. callers'[d] = k
      BY <2>1 DEF Moves, Sync
    <3> QED BY <1>1, <3>1 DEF Sound, Told, Known
  <2>2. CASE d # c
    <3>1. callers'[d] = callers[d]
      BY <2>2 DEF Moves, Sync
    <3>2. PICK m \in Caller : m = callers[d] /\ Sound(m)
      BY CallerIs
    <3>3. m \in Caller' /\ Sound(m)'
      BY <3>2, SoundStays
    <3>4. callers'[d] = m
      BY <3>1, <3>2
    <3> QED BY <3>3, <3>4 DEF Sound, Told, Known
  <2> QED BY <2>1, <2>2
<1>3. callers' \in [Callers -> Caller']
  <2>1. \A d \in Callers : callers'[d] \in Caller'
    BY <1>2
  <2>2. callers' = [d \in Callers |-> callers'[d]]
    BY DEF Moves, Sync
  <2> QED BY <2>1, <2>2
<1> QED BY <1>2, <1>3 DEF Sync, Moderate

LEMMA RestSound == ASSUME NEW k, Rests(k) \/ Enters(k) PROVE Sound(k)
BY DEF Rests, Enters, Sound

\* The steps that mint a pair, store it or fail to.
LEMMA MintMoves ==
    ASSUME Sync, NEW c \in Callers, Mint(c)
    PROVE  \E k : /\ Moves(c, k) /\ Sound(k)
                  /\ k.at = "saves" /\ k.step = callers[c].step /\ k.tok = minted'
<1>1. callers[c] \in Caller /\ minted' \in 0..MaxPairs /\ minted' # 0
  BY CallerIs, Bounds DEF Sync, Counts, Mint
<1>2. PICK k : k = [callers[c] EXCEPT !.tok = minted', !.at = "saves"]
  OBVIOUS
<1>3. k \in Caller /\ k.at = "saves" /\ k.step = callers[c].step /\ k.tok = minted'
  BY <1>1, <1>2 DEF Caller, Places
<1>4. callers' = [callers EXCEPT ![c] = k]
  BY <1>2 DEF Mint, Becomes
<1> QED BY <1>1, <1>3, <1>4 DEF Moves, Sound

LEMMA LinkMoves ==
    ASSUME Sync, NEW c \in Callers, Link(c)
    PROVE  \E k : /\ Moves(c, k) /\ Sound(k)
                  /\ k.at = "saves" /\ k.step = "link" /\ k.tok = minted'
<1>1. Idle \in Caller /\ minted' \in 0..MaxPairs /\ minted' # 0
  BY IdleCaller, Bounds DEF Sync, Counts, Link
<1>2. PICK k : k = [Idle EXCEPT !.step = "link", !.at = "saves", !.tok = minted']
  OBVIOUS
<1>3. k \in Caller /\ k.at = "saves" /\ k.step = "link" /\ k.tok = minted'
  BY <1>1, <1>2 DEF Caller, Places, Steps
<1>4. callers' = [callers EXCEPT ![c] = k]
  BY <1>2 DEF Link, Becomes
<1> QED BY <1>1, <1>3, <1>4 DEF Moves, Sound

LEMMA SaveMoves ==
    ASSUME Sync, NEW c \in Callers, Save(c) \/ SaveFails(c) \/ MintFails(c)
    PROVE  \E k : Moves(c, k) /\ Rests(k)
<1>1. CASE \E k \in {Idle, Failed(c)} : Becomes(c, k)
  <2>1. PICK k \in {Idle, Failed(c)} : Becomes(c, k)
    BY <1>1
  <2>2. k \in Caller /\ Rests(k)
    BY NextCall, IdleCaller DEF Sync
  <2> QED BY <2>1, <2>2 DEF Moves, Becomes
<1>2. CASE Goes(c, "calls") /\ callers[c].step # "link"
  <2>1. callers[c] \in Caller
    BY CallerIs
  <2>2. PICK k : k = [callers[c] EXCEPT !.at = "calls"]
    OBVIOUS
  <2>3. k \in Caller /\ k.at = "calls" /\ k.step = callers[c].step
    BY <2>1, <2>2 DEF Caller, Places
  <2>4. callers' = [callers EXCEPT ![c] = k]
    BY <1>2, <2>2 DEF Goes
  <2> QED BY <1>2, <2>3, <2>4 DEF Moves, Rests
<1>3. (\E k \in {Idle, Failed(c)} : Becomes(c, k)) \/ (Goes(c, "calls") /\ callers[c].step # "link")
  <2>1. MintFails(c) => callers[c].step # "link"
    BY CallerIs DEF MintFails, At
  <2> QED BY <2>1 DEF Save, SaveFails, MintFails, MintsNone
<1> QED BY <1>1, <1>2, <1>3

\* A step that loses a pair, or leaves the refresh without one.
Strays(c) == astray' = TRUE /\ \E k : Moves(c, k) /\ Rests(k)

LEMMA FailuresStray ==
    ASSUME Sync, NEW c \in Callers, SaveFails(c) \/ MintFails(c)
    PROVE  Quiet(c) \/ Strays(c)
<1>1. \E k : Moves(c, k) /\ Rests(k)
  BY SaveMoves
<1>2. \/ astray' = TRUE
      \/ ~ At(c, "saves") /\ UNCHANGED <<row, minted, astray>>
  BY DEF SaveFails, MintFails, At, tokens
<1> QED BY <1>1, <1>2 DEF Quiet, Strays

\* Every step, as far as the callers and the pair are concerned.
Aside == callers' = callers /\ (astray' = TRUE \/ UNCHANGED <<row, minted, astray>>)

LEMMA StepKinds ==
    ASSUME Sync, [Next]_vars
    PROVE  \/ \E c \in Callers :
                \/ Quiet(c) \/ Mint(c) \/ Link(c) \/ Save(c) \/ Strays(c)
           \/ Unlink \/ Crash \/ Aside
<1>1. ASSUME NEW c \in Callers, Works(c) PROVE Quiet(c) \/ Mint(c) \/ Save(c)
  BY <1>1, QuietSteps
<1>2. ASSUME NEW c \in Callers, CallFails(c) \/ StoreFails(c) PROVE Quiet(c)
  BY <1>2, QuietSteps
<1>3. ASSUME NEW c \in Callers, NEW b \in BOOLEAN, StartPull(c, b) \/ SetWatched(c, b)
      PROVE  Quiet(c)
  BY <1>3, QuietSteps
<1>4. ASSUME Play \/ Age \/ Revoke \/ Scan \/ Completed \/ Cool \/ Wake \/ Reconcile
             \/ UNCHANGED vars
      PROVE  Aside
  BY <1>4 DEF Aside, Play, Age, Revoke, Scan, Completed, Cool, Wake, Reconcile, vars,
              tokens, remote, ghosts
<1>5. ASSUME NEW c \in Callers, LinkLost(c) PROVE Aside
  BY <1>5 DEF Aside, LinkLost
<1>6. ASSUME NEW c \in Callers, SaveFails(c) \/ MintFails(c) PROVE Quiet(c) \/ Strays(c)
  BY <1>6, FailuresStray
<1> QED BY <1>1, <1>2, <1>3, <1>4, <1>5, <1>6 DEF Next

LEMMA SyncStep == ASSUME Sync, [Next]_vars PROVE Sync'
<1>1. Moderate
  BY ModerateStep
<1>2. ASSUME NEW c \in Callers, Quiet(c) PROVE Sync'
  <2>1. PICK k : Moves(c, k) /\ (Rests(k) \/ Enters(k) \/ Sound(k) \/ Sound(k)')
    BY <1>2 DEF Quiet
  <2> QED BY <1>1, <2>1, RestSound, MovesSound
<1>3. ASSUME NEW c \in Callers, Mint(c) \/ Link(c) PROVE Sync'
  BY <1>1, <1>3, MintMoves, LinkMoves, MovesSound
<1>4. ASSUME NEW c \in Callers, Save(c) \/ Strays(c) PROVE Sync'
  BY <1>1, <1>4, SaveMoves, RestSound, MovesSound DEF Strays
<1>5. ASSUME UNCHANGED callers PROVE Sync'
  <2>1. ASSUME NEW d \in Callers PROVE callers'[d] \in Caller' /\ Sound(callers[d])'
    <3>1. PICK m \in Caller : m = callers[d] /\ Sound(m)
      BY CallerIs
    <3>2. m \in Caller' /\ Sound(m)'
      BY <1>1, <3>1, SoundStays
    <3>3. callers'[d] = m
      BY <1>5, <3>1
    <3> QED BY <3>2, <3>3 DEF Sound, Told, Known
  <2>2. callers' = [d \in Callers |-> callers'[d]]
    BY <1>5 DEF Sync
  <2> QED BY <1>1, <2>1, <2>2 DEF Sync, Moderate
<1>6. ASSUME Crash PROVE Sync'
  <2>1. callers' = [d \in Callers |-> Idle]
    BY <1>6 DEF Crash
  <2>2. Idle \in Caller' /\ Sound(Idle)'
    BY <1>1, IdleCaller, RestSound, SoundStays DEF Sync
  <2>3. ASSUME NEW d \in Callers PROVE callers'[d] \in Caller' /\ Sound(callers[d])'
    BY <2>1, <2>2 DEF Sound, Told, Known
  <2> QED BY <1>1, <2>1, <2>3 DEF Sync, Moderate
<1>7. Unlink \/ Aside => UNCHANGED callers
  BY DEF Unlink, Aside
<1> QED BY <1>2, <1>3, <1>4, <1>5, <1>6, <1>7, StepKinds
-----------------------------------------------------------------------------
(* One refresh at a time, and the pair on file.                            *)

LEMMA MovesApart ==
    ASSUME Sync, NEW c \in Callers, NEW k, Moves(c, k)
    PROVE  callers'[c] = k /\ \A d \in Callers \ {c} : callers'[d] = callers[d]
BY DEF Moves, Sync

LEMMA LockedStep == ASSUME Sync, Locked, [Next]_vars PROVE Locked'
<1>1. ASSUME NEW c \in Callers, NEW k, Moves(c, k),
             \/ ~ (k.at \in {"mints", "saves"} /\ k.step # "link")
             \/ LockFree
             \/ Holds(c)
      PROVE  Locked'
  <2>1. callers'[c] = k /\ \A d \in Callers \ {c} : callers'[d] = callers[d]
    BY <1>1, MovesApart
  <2>2. \A d \in Callers \ {c} : Holds(d)' => Holds(d)
    BY <2>1 DEF Holds
  <2>3. Holds(c)' => LockFree \/ Holds(c)
    BY <1>1, <2>1 DEF Holds
  <2>4. \A d \in Callers : LockFree => ~ Holds(d)
    BY DEF LockFree, Holds
  <2> QED BY <2>2, <2>3, <2>4 DEF Locked
<1>2. ASSUME NEW c \in Callers, Quiet(c) PROVE Locked'
  <2>1. PICK k : Moves(c, k) /\ (Rests(k) \/ Enters(k) \/ Pulls(k))
    BY <1>2 DEF Quiet
  <2> QED BY <1>1, <2>1 DEF Rests, Enters, Pulls
<1>3. ASSUME NEW c \in Callers, Mint(c) PROVE Locked'
  <2>1. Holds(c)
    BY <1>3, CallerIs DEF Mint, At, Holds
  <2> QED BY <1>1, <1>3, <2>1, MintMoves
<1>4. ASSUME NEW c \in Callers, Link(c) PROVE Locked'
  BY <1>1, <1>4, LinkMoves
<1>5. ASSUME NEW c \in Callers, Save(c) \/ Strays(c) PROVE Locked'
  BY <1>1, <1>5, SaveMoves DEF Rests, Strays
<1>6. CASE Unlink \/ Aside
  <2>1. callers' = callers
    BY <1>6 DEF Unlink, Aside
  <2> QED BY <2>1 DEF Locked, Holds
<1>7. CASE Crash
  <2>1. \A d \in Callers : callers'[d] = Idle
    BY <1>7 DEF Crash
  <2> QED BY <2>1 DEF Locked, Holds, Idle
<1> QED BY <1>2, <1>3, <1>4, <1>5, <1>6, <1>7, StepKinds

LEMMA PairStep == ASSUME Sync, Locked, Pair, [Next]_vars PROVE Pair'
<1>1. ASSUME NEW c \in Callers, Quiet(c) PROVE Pair'
  <2>1. PICK k : Moves(c, k) /\ k.at # "saves"
    BY <1>1 DEF Quiet, Rests, Enters, Pulls
  <2>2. callers'[c] = k /\ \A d \in Callers \ {c} : callers'[d] = callers[d]
    BY <2>1, MovesApart
  <2>3. \A d \in Callers : /\ At(d, "saves")' <=> At(d, "saves")
                           /\ At(d, "saves") => callers'[d] = callers[d]
    BY <1>1, <2>1, <2>2 DEF Quiet, At
  <2>4. UNCHANGED <<row, minted, astray>>
    BY <1>1 DEF Quiet
  <2> QED BY <2>3, <2>4 DEF Pair
<1>2. ASSUME NEW c \in Callers, Mint(c) \/ Link(c) PROVE Pair'
  <2> SUFFICES ASSUME ~ astray' PROVE Pair'
    BY DEF Pair
  <2>1. ~ astray /\ \A d \in Callers \ {c} : ~ At(d, "saves")
    <3>1. CASE Link(c)
      BY <3>1 DEF Link, Unsaved
    <3>2. CASE Mint(c)
      <4>1. ~ astray /\ "link" \notin Unsaved(c)
        BY <3>2 DEF Mint
      <4>2. Holds(c)
        BY <3>2, CallerIs DEF Mint, At, Holds
      <4>3. ASSUME NEW d \in Callers \ {c}, At(d, "saves") PROVE FALSE
        <5>1. callers[d].step # "link"
          BY <4>1, <4>3 DEF Unsaved
        <5> QED BY <4>2, <4>3, <5>1 DEF Locked, Holds, At
      <4> QED BY <4>1, <4>3
    <3> QED BY <1>2, <3>1, <3>2
  <2>2. PICK k : Moves(c, k) /\ k.at = "saves" /\ k.tok = minted'
    BY <1>2, MintMoves, LinkMoves
  <2>3. callers'[c] = k /\ \A d \in Callers \ {c} : callers'[d] = callers[d]
    BY <2>2, MovesApart
  <2>4. \A d \in Callers : At(d, "saves")' <=> d = c
    BY <2>1, <2>2, <2>3 DEF At
  <2>5. callers'[c].tok = minted'
    BY <2>2, <2>3
  <2> QED BY <2>4, <2>5 DEF Pair
<1>3. ASSUME NEW c \in Callers, Save(c) PROVE Pair'
  <2>1. /\ At(c, "saves") /\ row' = callers[c].tok /\ UNCHANGED <<minted, astray>>
    BY <1>3 DEF Save, remote, ghosts
  <2>2. PICK k : Moves(c, k) /\ k.at # "saves"
    BY <1>3, SaveMoves DEF Rests
  <2>3. callers'[c] = k /\ \A d \in Callers \ {c} : callers'[d] = callers[d]
    BY <2>2, MovesApart
  <2>4. ~ astray => \A d \in Callers : ~ At(d, "saves")'
    BY <2>1, <2>2, <2>3 DEF At, Pair
  <2>5. ~ astray => row' = minted'
    BY <2>1 DEF Pair
  <2> QED BY <2>1, <2>4, <2>5 DEF Pair
<1>4. ASSUME NEW c \in Callers, Strays(c) PROVE Pair'
  BY <1>4 DEF Strays, Pair
<1>5. CASE Unlink
  BY <1>5 DEF Unlink, Pair, At, remote
<1>6. CASE Aside
  BY <1>6 DEF Aside, Pair, At
<1>7. CASE Crash
  <2>1. UNCHANGED <<row, minted>> /\ \A d \in Callers : callers'[d] = Idle
    BY <1>7 DEF Crash, tokens, remote
  <2>2. ~ astray' => ~ astray /\ \A d \in Callers : ~ At(d, "saves")
    BY <1>7 DEF Crash
  <2>3. \A d \in Callers : ~ At(d, "saves")'
    BY <2>1 DEF At, Idle
  <2> QED BY <2>1, <2>2, <2>3 DEF Pair
<1> QED BY <1>1, <1>2, <1>3, <1>4, <1>5, <1>6, <1>7, StepKinds

LEMMA SyncInit == Init => SyncInv
<1> SUFFICES ASSUME Init PROVE SyncInv
  OBVIOUS
<1>1. Flags /\ Counts
  <2>1. Flags
    BY DEF Init, Flags
  <2>2. /\ 0 \in 0..MaxPlays /\ 0 \in 0..MaxScans /\ 0 \in 0..MaxJobs /\ 0 \in 0..MaxFaults
        /\ 1 \in 0..MaxPairs /\ Null \in Null..0 /\ 0 \in 0..0
    BY Bounds DEF Null
  <2> QED BY <2>1, <2>2 DEF Init, Counts
<1>2. Idle \in Caller /\ Rests(Idle) /\ Sound(Idle)
  BY <1>1, IdleCaller, RestSound
<1>3. callers = [c \in Callers |-> Idle] /\ row = minted
  BY DEF Init
<1>4. Sync
  BY <1>1, <1>2, <1>3 DEF Sync
<1>5. Locked /\ Pair
  BY <1>2, <1>3 DEF Locked, Holds, Pair, At, Rests
<1> QED BY <1>4, <1>5 DEF SyncInv

LEMMA SyncTypes == Sync => TypeOK
<1> SUFFICES ASSUME Sync PROVE TypeOK
  OBVIOUS
<1>1. {aging, revoked, title, watched, unmarked, cooling, trailing} \subseteq BOOLEAN
      /\ {astray, broken, unlinked} \subseteq BOOLEAN
  BY DEF Sync, Flags
<1>2. cursor \in Null..MaxPlays /\ reported \in 0..MaxScans
  BY Bounds DEF Sync, Counts, Null
<1> QED BY <1>1, <1>2 DEF Sync, Counts, Caller, TypeOK

\* The one row of a user's link, its callers with their lock and their pulls, the
\* mirror and the debounce stay as with_user_client and the pull job left them.
THEOREM SyncCorrect == Spec => []SyncInv
<1>1. SyncInv /\ [Next]_vars => SyncInv'
  BY SyncStep, LockedStep, PairStep DEF SyncInv
<1> QED BY <1>1, SyncInit, PTL DEF Spec

\* The pair on file is the one that Trakt honours, however many calls find the
\* old one run out at once and however many refreshes fail on their way out: the
\* refresh lock, with the second look at the row under it (with_user_client,
\* trakt_sync.rs:36-147).  Exempt is a pair whose answer or upsert is lost.
THEOREM TokensCurrentCorrect == Spec => []TokensCurrent
<1>1. SyncInv => TokensCurrent
  BY SyncTypes DEF SyncInv, Pair, TokensCurrent
<1> QED BY <1>1, SyncCorrect, PTL

\* Nothing but the stamp of a pull and the upsert of an unlink writes the cursor.
LEMMA CursorMoves ==
    ASSUME [Next]_vars, cursor' # cursor, cursor' # Null
    PROVE  \E c \in Callers : Stamp(c)
<1>1. ASSUME NEW c \in Callers, Works(c), ~ Stamp(c) PROVE cursor' = cursor
  BY <1>1 DEF Works, Ask, Reread, RereadLate, Mint, MintRefused, Save, CallRefused, Seed, Check,
              Note, Read, ReadCut, Store, Match, Push, cursors
<1>2. ASSUME NEW c \in Callers,
             \/ MintFails(c) \/ SaveFails(c) \/ CallFails(c) \/ StoreFails(c)
             \/ Link(c) \/ LinkLost(c)
      PROVE  cursor' = cursor
  BY <1>2 DEF MintFails, SaveFails, CallFails, StoreFails, Link, LinkLost, cursors
<1>3. ASSUME NEW c \in Callers, NEW b \in BOOLEAN, StartPull(c, b) \/ SetWatched(c, b)
      PROVE  cursor' = cursor
  BY <1>3 DEF StartPull, SetWatched, cursors
<1>4. ASSUME Play \/ Age \/ Revoke \/ Scan \/ Completed \/ Cool \/ Wake \/ Reconcile \/ Crash
             \/ UNCHANGED vars
      PROVE  cursor' = cursor
  BY <1>4 DEF Play, Age, Revoke, Scan, Completed, Cool, Wake, Reconcile, Crash, vars, cursors
<1>5. Unlink => cursor' = Null
  BY DEF Unlink
<1> QED BY <1>1, <1>2, <1>3, <1>4, <1>5 DEF Next

\* The cursor passes no play that its pull was told of before the mirror has it,
\* and a pull that failed moves nothing (pull_user_history, trakt_sync.rs:864-895).
THEOREM CursorKeepsPlaysCorrect == Spec => CursorKeepsPlays
<1> DEFINE Keeps ==
      \A p \in history : (p <= cursor' /\ ~(p <= cursor) /\ p \notin mirror)
        => \/ unlinked
           \/ \E c \in Callers :
                 /\ At(c, "stamps") /\ callers[c].upto # Null
                 /\ callers[c].cut \/ p > callers[c].upto
<1>1. ASSUME SyncInv, [Next]_vars PROVE Keeps
  <2> SUFFICES ASSUME NEW p \in history, p <= cursor', ~(p <= cursor), p \notin mirror,
                      ~ unlinked
               PROVE  \E c \in Callers :
                        /\ At(c, "stamps") /\ callers[c].upto # Null
                        /\ callers[c].cut \/ p > callers[c].upto
    OBVIOUS
  <2>1. p \in 1..played /\ row # 0 /\ cursor' # cursor
    BY <1>1 DEF SyncInv, Sync, Counts
  <2>2. cursor' # Null
    BY <1>1, <2>1 DEF Null, SyncInv, Sync, Counts
  <2>3. PICK c \in Callers : Stamp(c)
    BY <1>1, <2>1, <2>2, CursorMoves
  <2>4. callers[c] \in Caller /\ Sound(callers[c]) /\ At(c, "stamps")
    BY <1>1, <2>3, CallerIs DEF SyncInv, Stamp
  <2>5. callers[c].upto # Null /\ (callers[c].cut \/ Told(callers[c]))
    BY <2>4 DEF Sound, At
  <2>6. Told(callers[c]) => ~ (p <= callers[c].upto)
    BY <2>4 DEF Told, Known, At
  <2>7. callers[c].upto \in Int
    BY <1>1, <2>4 DEF Caller, Null, SyncInv, Sync, Counts
  <2>8. ~ (p <= callers[c].upto) => p > callers[c].upto
    BY <2>1, <2>7
  <2> QED BY <2>4, <2>5, <2>6, <2>8
<1>2. SyncInv /\ [Next]_vars => [Keeps]_vars
  BY <1>1
<1> HIDE DEF Keeps
<1>3. Spec => [][Keeps]_vars
  BY <1>2, SyncCorrect, PTL DEF Spec
<1> QED BY <1>3 DEF Keeps, CursorKeepsPlays
=============================================================================
