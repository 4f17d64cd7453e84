--------------------------- MODULE CircuitBreaker ---------------------------
(***************************************************************************)
(* The per-provider circuit breaker of crates/server/src/circuit_breaker.rs *)
(* with the callers that go through CircuitBreaker::run.                   *)
(*                                                                         *)
(* The breaker's Mutex makes allow, record_success and record_failure      *)
(* atomic; between the allow of a call and what it records any number of   *)
(* other callers run, so each caller has a program counter.  Time is       *)
(* reduced to one bit: whether open_duration has elapsed since opened_at.  *)
(***************************************************************************)
EXTENDS Naturals

CONSTANTS
    Clients,        \* the tasks that call the provider
    Threshold,      \* consecutive trips that open the breaker
    MaxFailures     \* bound: trips recorded without a success in between

ASSUME ThresholdAssumption == Threshold \in Nat \ {0}

ASSUME MaxFailuresAssumption == MaxFailures \in Nat /\ MaxFailures >= Threshold

VARIABLES
    state,                 \* Inner.state
    consecutive_failures,  \* Inner.consecutive_failures
    cooled,                \* opened_at.elapsed() >= open_duration
    pc,                    \* per caller: "idle", "calling" (admitted while
                           \* Closed) or "probing" (admitted by Open -> HalfOpen)
    outlasted              \* history: calls in flight that a cooldown ended under

breakerVars == <<state, consecutive_failures, cooled, pc, outlasted>>

BreakerState == {"Closed", "Open", "HalfOpen"}

InFlight == {c \in Clients : pc[c] # "idle"}

Probing == {c \in Clients : pc[c] = "probing"}

BreakerTypeOK ==
    /\ state \in BreakerState
    /\ consecutive_failures \in 0..MaxFailures
    /\ cooled \in BOOLEAN
    /\ pc \in [Clients -> {"idle", "calling", "probing"}]
    /\ outlasted \subseteq InFlight

BreakerInit ==
    /\ state = "Closed"
    /\ consecutive_failures = 0
    /\ cooled = FALSE
    /\ pc = [c \in Clients |-> "idle"]
    /\ outlasted = {}

-----------------------------------------------------------------------------

\* allow() returns true in Closed: the call goes out.
AllowClosed(c) ==
    /\ pc[c] = "idle"
    /\ state = "Closed"
    /\ pc' = [pc EXCEPT ![c] = "calling"]
    /\ UNCHANGED <<state, consecutive_failures, cooled, outlasted>>

\* Mutant: a cooled breaker admits whoever asks until an outcome is recorded.
AllowEveryProbe(c) ==
    /\ pc[c] = "idle"
    /\ state \in {"Open", "HalfOpen"}
    /\ cooled
    /\ state' = "HalfOpen"
    /\ pc' = [pc EXCEPT ![c] = "probing"]
    /\ UNCHANGED <<consecutive_failures, cooled, outlasted>>

\* allow() finds the cooldown over: Open -> HalfOpen and this call is the probe.
\* In every other case allow() is false, the caller bails and nothing changes.
AllowProbe(c) ==
    /\ pc[c] = "idle"
    /\ state = "Open"
    /\ cooled
    /\ state' = "HalfOpen"
    /\ pc' = [pc EXCEPT ![c] = "probing"]
    /\ UNCHANGED <<consecutive_failures, cooled, outlasted>>

RecordSuccess ==
    /\ state' = "Closed"
    /\ consecutive_failures' = 0
    /\ cooled' = FALSE

\* Mutant: the breaker opens one trip late.
RecordFailureLate ==
    /\ consecutive_failures < MaxFailures
    /\ consecutive_failures' = consecutive_failures + 1
    /\ IF state = "HalfOpen" \/ consecutive_failures >= Threshold
       THEN state' = "Open" /\ cooled' = FALSE
       ELSE UNCHANGED <<state, cooled>>

RecordFailure ==
    /\ consecutive_failures < MaxFailures
    /\ consecutive_failures' = consecutive_failures + 1
    /\ IF state = "HalfOpen" \/ consecutive_failures' >= Threshold
       THEN state' = "Open" /\ cooled' = FALSE
       ELSE UNCHANGED <<state, cooled>>

\* The call leaves run().
Leave(c) ==
    /\ c \in InFlight
    /\ pc' = [pc EXCEPT ![c] = "idle"]
    /\ outlasted' = outlasted \ {c}

\* run(): the call returned Ok.
Succeed(c) == Leave(c) /\ RecordSuccess

\* run(): the call returned an error that is_trip accepts (a rate limit).
Trip(c) == Leave(c) /\ RecordFailure

\* run(): any other error, or the caller's future is dropped: nothing recorded.
EndUnrecorded(c) ==
    /\ Leave(c)
    /\ UNCHANGED <<state, consecutive_failures, cooled>>

\* open_duration passes on the clock.  Nobody is admitted while the breaker is
\* Open, but a call may last longer: one of the TMDB client sleeps up to 120s
\* twice (tmdb.rs:565-587).
CoolDown ==
    /\ state = "Open"
    /\ ~cooled
    /\ cooled' = TRUE
    /\ outlasted' = InFlight
    /\ UNCHANGED <<state, consecutive_failures, pc>>

BreakerNext ==
    \/ \E c \in Clients :
          \/ AllowClosed(c) \/ AllowProbe(c)
          \/ Succeed(c) \/ Trip(c) \/ EndUnrecorded(c)
    \/ CoolDown

BreakerSpec == BreakerInit /\ [][BreakerNext]_breakerVars

-----------------------------------------------------------------------------

\* A breaker that is not Closed is one that saw at least Threshold trips with
\* no success since: benign errors, cooldowns and probes never open it, and a
\* Closed breaker always has budget left (circuit_breaker.rs:99-115).
OpenIffTripped == (state = "Closed") <=> (consecutive_failures < Threshold)

\* The streak is a count of trips, and the state is what it says.
TripsCounted == BreakerTypeOK /\ OpenIffTripped

\* What the comment in allow says (circuit_breaker.rs:81-82), "only one request
\* is used to test whether the provider recovered", holds of the calls that end
\* within a cooldown: a second probe is out only beside one that outlasted the
\* cooldown that admitted the second.
OneProbe == \A c, d \in Probing \ outlasted : c = d

\* What the comment in allow says of HalfOpen (circuit_breaker.rs:81): "A probe
\* is already in flight".
HalfOpenHasProbe == state = "HalfOpen" => InFlight # {}
=============================================================================
