------------------------------ MODULE Webhooks ------------------------------
(***************************************************************************)
(* The webhook dispatcher (server/src/webhooks.rs): a subscriber of the    *)
(* event bus fans every event out to the hooks that want it, each delivery *)
(* is a row of webhook_deliveries and an in-process driver that posts,     *)
(* records and sleeps, and a tick every 30 s starts another driver for     *)
(* every row whose next_retry_at has passed.  Driver and tick share the    *)
(* row and nothing else: neither asks whether the other one is at work.    *)
(*                                                                         *)
(* A row keeps what the code compares: attempts, delivered_at (a Boolean), *)
(* next_retry_at ("null", "later", "due" and the driver that wrote it).    *)
(* A driver's pc: "send" before the POST, "ok" | "bad" | "blocked" with    *)
(* an answer it has not recorded, "sleep" during the backoff.              *)
(***************************************************************************)
EXTENDS Naturals, Sequences, FiniteSets

CONSTANTS
    Hooks,          \* rows of the webhooks table
    Events,         \* webhook events, each published or test-fired at most once
    BusCap,         \* capacity of the broadcast channel (4096 in main.rs)
    MaxAttempts,    \* MAX_ATTEMPTS, 3
    MaxDrivers,     \* bound: drivers of one delivery alive at a time
    MaxFaults,      \* bound: failed database statements
    MaxCrashes,     \* bound: process restarts
    MaxEdits        \* bound: admin edits of a hook

ASSUME WebhookAssumption ==
    /\ BusCap \in Nat \ {0} /\ MaxAttempts \in Nat \ {0}
    /\ MaxDrivers \in Nat \ {0}
    /\ MaxFaults \in Nat /\ MaxCrashes \in Nat /\ MaxEdits \in Nat
    /\ "noise" \notin Events

VARIABLES
    bus,        \* events the subscriber has not received, oldest first
    heard,      \* events that were published
    hook,       \* hook |-> [st, mask]: enabled, disabled or deleted
    spawned,    \* deliver_async tasks that have not inserted their row
    rows,       \* delivery |-> its row of webhook_deliveries
    driver,     \* delivery |-> slot |-> the driver in that slot
    todo,       \* rows read by the running retry_pending, with the attempts it saw
    posts,      \* history: requests sent for a delivery
    fate,       \* history: what happened to a delivery (Fates)
    faults, crashes, edits

vars == <<bus, heard, hook, spawned, rows, driver, todo, posts, fate,
          faults, crashes, edits>>
budgets == <<faults, crashes, edits>>

Deliveries == Events \X Hooks
Slots      == 1..MaxDrivers
HookOf(d)  == d[2]

\* raced: the tick started a driver next to a live one, or from a row that
\* had moved on.  lost: an attempt was not recorded.  cut: a restart took its
\* driver.  refused: the outbound guard refused the address.  ok: the receiver
\* confirmed it.  again: a request was sent after that.
Fates == {"raced", "lost", "cut", "refused", "ok", "again"}

NoRow    == [st |-> "none", test |-> FALSE, attempts |-> 0, retry |-> "null",
             by |-> 0, delivered |-> FALSE]
Idle     == [pc |-> "idle", idx |-> 0]
Live(d)  == {i \in Slots : driver[d][i].pc # "idle"}
Answered == {"ok", "bad", "blocked"}

----------------------------------------------------------------------------
Init ==
    /\ bus = <<>> /\ heard = {}
    /\ hook = [h \in Hooks |-> [st |-> "enabled", mask |-> Events]]
    /\ spawned = {} /\ todo = {}
    /\ rows = [d \in Deliveries |-> NoRow]
    /\ driver = [d \in Deliveries |-> [i \in Slots |-> Idle]]
    /\ posts = [d \in Deliveries |-> 0]
    /\ fate = [d \in Deliveries |-> {}]
    /\ faults = 0 /\ crashes = 0 /\ edits = 0

Fault ==
    /\ faults < MaxFaults
    /\ faults' = faults + 1
    /\ UNCHANGED <<crashes, edits>>

\* The history stops where no property reads it any more.
Blurred(d) == fate[d] \cap {"raced", "lost"} # {}

Mark(d, what) == fate' = [fate EXCEPT ![d] = @ \cup what]

----------------------------------------------------------------------------
(* The bus and the fan-out                                                 *)

\* A full channel forgets its oldest value: the subscriber sees Lagged(n).
Pushed(e) == IF Len(bus) < BusCap THEN Append(bus, e) ELSE Append(Tail(bus), e)

Publish(e) ==
    /\ e \notin heard
    /\ heard' = heard \cup {e}
    /\ bus' = Pushed(e)
    /\ UNCHANGED <<hook, spawned, rows, driver, todo, posts, fate, budgets>>

\* Scan progress, session lists and refresh nudges travel on the same channel.
PublishOther ==
    /\ bus' = Pushed("noise")
    /\ UNCHANGED <<heard, hook, spawned, rows, driver, todo, posts, fate, budgets>>

Wanting(e) == {h \in Hooks : hook[h].st = "enabled" /\ e \in hook[h].mask}

FanOut ==
    /\ bus # <<>>
    /\ bus' = Tail(bus)
    /\ spawned' = spawned \cup {<<Head(bus), h>> : h \in Wanting(Head(bus))}
    /\ UNCHANGED <<heard, hook, rows, driver, todo, posts, fate, budgets>>

\* list_webhooks fails (one secret that cannot be decrypted is enough): the
\* event is dropped for every hook.
FanOutFails ==
    /\ bus # <<>>
    /\ Fault
    /\ bus' = Tail(bus)
    /\ UNCHANGED <<heard, hook, spawned, rows, driver, todo, posts, fate>>

\* deliver_async: the row, then the driver.  The insert of a delivery whose
\* hook was deleted in between violates the foreign key.
Deliver(d) ==
    /\ d \in spawned
    /\ spawned' = spawned \ {d}
    /\ IF hook[HookOf(d)].st = "deleted"
       THEN UNCHANGED <<rows, driver>>
       ELSE /\ rows' = [rows EXCEPT ![d] = [NoRow EXCEPT !.st = "row"]]
            /\ driver' = [driver EXCEPT ![d][1] = [Idle EXCEPT !.pc = "send"]]
    /\ UNCHANGED <<bus, heard, hook, todo, posts, fate, budgets>>

DeliverFails(d) ==
    /\ d \in spawned
    /\ Fault
    /\ spawned' = spawned \ {d}
    /\ UNCHANGED <<bus, heard, hook, rows, driver, todo, posts, fate>>

\* test_fire: a row and a single attempt, whatever the mask says; no other
\* attempt follows, as after the last one of the loop.
TestFire(d) ==
    /\ d[1] \notin heard /\ hook[HookOf(d)].st # "deleted"
    /\ heard' = heard \cup {d[1]}
    /\ rows' = [rows EXCEPT ![d] = [NoRow EXCEPT !.st = "row", !.test = TRUE]]
    /\ driver' = [driver EXCEPT ![d][1] = [pc |-> "send", idx |-> MaxAttempts - 1]]
    /\ UNCHANGED <<bus, hook, spawned, todo, posts, fate, budgets>>

----------------------------------------------------------------------------
(* One driver                                                              *)

\* attempt_once up to the answer: the address is refused by the outbound
\* guard, the receiver confirms, or anything else (an error status, a timeout,
\* a connection that breaks).
Attempt(d, i) ==
    /\ driver[d][i].pc = "send"
    /\ \E answer \in Answered :
         /\ driver' = [driver EXCEPT ![d][i].pc = answer]
         /\ IF answer = "blocked"
            THEN Mark(d, {"refused"}) /\ UNCHANGED posts
            ELSE /\ posts' = [posts EXCEPT ![d] = IF Blurred(d) THEN @ ELSE @ + 1]
                 /\ Mark(d, (IF answer = "ok" THEN {"ok"} ELSE {})
                            \cup (IF "ok" \in fate[d] /\ ~Blurred(d) THEN {"again"} ELSE {}))
    /\ UNCHANGED <<bus, heard, hook, spawned, rows, todo, budgets>>

\* Mutant: the limit is compared with >, the loop goes round once more.
LastAttemptLate(d, i) == driver[d][i].idx + 1 > MaxAttempts

LastAttempt(d, i) == driver[d][i].idx + 1 >= MaxAttempts
WillSleep(d, i)   == driver[d][i].pc = "bad" /\ ~LastAttempt(d, i)

\* Mutant: a failed attempt is recorded without next_retry_at.
RecordedUnscheduled(d, i) ==
    IF rows[d].st # "row" THEN rows[d]
    ELSE [rows[d] EXCEPT !.attempts = @ + 1, !.retry = "null", !.by = 0,
                         !.delivered = @ \/ driver[d][i].pc = "ok"]

\* Mutant: any answer counts as a delivery.
RecordedAnyAnswer(d, i) ==
    IF rows[d].st # "row" THEN rows[d]
    ELSE [rows[d] EXCEPT !.attempts = @ + 1, !.delivered = TRUE, !.by = 0,
                         !.retry = "null"]

\* record_webhook_attempt: always one more attempt, next_retry_at overwritten,
\* delivered_at only ever set; no row, no effect.
Recorded(d, i) ==
    IF rows[d].st # "row" THEN rows[d]
    ELSE [rows[d] EXCEPT
            !.attempts = @ + 1,
            !.retry = IF WillSleep(d, i) THEN "later" ELSE "null",
            !.by = IF WillSleep(d, i) THEN i ELSE 0,
            !.delivered = @ \/ driver[d][i].pc = "ok"]

AfterRecord(d, i) ==
    IF WillSleep(d, i) THEN [pc |-> "sleep", idx |-> driver[d][i].idx + 1] ELSE Idle

Record(d, i) ==
    /\ driver[d][i].pc \in Answered
    /\ rows' = [rows EXCEPT ![d] = Recorded(d, i)]
    /\ driver' = [driver EXCEPT ![d][i] = AfterRecord(d, i)]
    /\ UNCHANGED <<bus, heard, hook, spawned, todo, posts, fate, budgets>>

\* The result of the statement is ignored: the driver goes on as if the row
\* had been written.
RecordFails(d, i) ==
    /\ driver[d][i].pc \in Answered
    /\ Fault
    /\ driver' = [driver EXCEPT ![d][i] = AfterRecord(d, i)]
    /\ Mark(d, {"lost"})
    /\ UNCHANGED <<bus, heard, hook, spawned, rows, todo, posts>>

\* The backoff of the row's next_retry_at passes.
Elapse(d) ==
    /\ rows[d].retry = "later"
    /\ rows' = [rows EXCEPT ![d].retry = "due"]
    /\ UNCHANGED <<bus, heard, hook, spawned, driver, todo, posts, fate, budgets>>

\* The sleep started after next_retry_at was computed, so it ends after it.
Wake(d, i) ==
    /\ driver[d][i].pc = "sleep"
    /\ ~(rows[d].retry = "later" /\ rows[d].by = i)
    /\ driver' = [driver EXCEPT ![d][i].pc = "send"]
    /\ UNCHANGED <<bus, heard, hook, spawned, rows, todo, posts, fate, budgets>>

----------------------------------------------------------------------------
(* The retry tick                                                          *)

\* Mutant: the tick looks for deliveries that were never attempted.
DueUnattempted(d) ==
    /\ rows[d].st = "row" /\ ~rows[d].delivered
    /\ rows[d].retry = "due" /\ rows[d].attempts = 0

Due(d) ==
    /\ rows[d].st = "row" /\ ~rows[d].delivered
    /\ rows[d].retry = "due" /\ rows[d].attempts < MaxAttempts

\* The SELECT of retry_pending; the bound on drivers holds the tick back.
TickRead ==
    /\ todo = {}
    /\ \E d \in Deliveries : Due(d)
    /\ \A d \in Deliveries : Due(d) => Live(d) # Slots
    /\ todo' = {<<d, rows[d].attempts>> : d \in {d \in Deliveries : Due(d)}}
    /\ UNCHANGED <<bus, heard, hook, spawned, rows, driver, posts, fate, budgets>>

\* One row of that answer: the hook is looked up, the row is not read again.
TickFire(t) ==
    LET d == t[1] IN
    /\ t \in todo
    /\ todo' = todo \ {t}
    /\ IF hook[HookOf(d)].st # "enabled"
       THEN UNCHANGED <<driver, fate>>
       ELSE \E i \in Slots \ Live(d) :
              /\ \A j \in Slots \ Live(d) : i <= j
              /\ driver' = [driver EXCEPT ![d][i] = [pc |-> "send", idx |-> t[2]]]
              /\ IF Live(d) # {} \/ ~(Due(d) /\ rows[d].attempts = t[2])
                 THEN Mark(d, {"raced"})
                 ELSE UNCHANGED fate
    /\ UNCHANGED <<bus, heard, hook, spawned, rows, posts, budgets>>

\* get_webhook fails: `?` ends the tick, the rows after it wait for the next.
TickFails ==
    /\ todo # {}
    /\ Fault
    /\ todo' = {}
    /\ UNCHANGED <<bus, heard, hook, spawned, rows, driver, posts, fate>>

----------------------------------------------------------------------------
(* The admin and the process                                               *)

Update(h, st, mask) ==
    /\ edits < MaxEdits /\ hook[h].st # "deleted"
    /\ edits' = edits + 1
    /\ hook' = [hook EXCEPT ![h] = [st |-> st, mask |-> mask]]
    /\ UNCHANGED <<bus, heard, spawned, rows, driver, todo, posts, fate,
                   faults, crashes>>

\* ON DELETE CASCADE takes the rows; drivers keep their copy of the hook.
Delete(h) ==
    /\ edits < MaxEdits /\ hook[h].st # "deleted"
    /\ edits' = edits + 1
    /\ hook' = [hook EXCEPT ![h].st = "deleted"]
    /\ rows' = [d \in Deliveries |->
                  IF HookOf(d) = h /\ rows[d].st = "row"
                  THEN [NoRow EXCEPT !.st = "gone"] ELSE rows[d]]
    /\ UNCHANGED <<bus, heard, spawned, driver, todo, posts, fate, faults, crashes>>

\* A restart loses the channel, the tasks and the sleeping drivers.
Crash ==
    /\ crashes < MaxCrashes
    /\ crashes' = crashes + 1
    /\ bus' = <<>> /\ spawned' = {} /\ todo' = {}
    /\ driver' = [d \in Deliveries |-> [i \in Slots |-> Idle]]
    /\ fate' = [d \in Deliveries |->
                    fate[d] \cup (IF Live(d) # {} THEN {"cut"} ELSE {})
                              \cup (IF \E i \in Live(d) : driver[d][i].pc \in Answered
                                    THEN {"lost"} ELSE {})]
    /\ UNCHANGED <<heard, hook, rows, posts, faults, edits>>

DriverStep(d, i) == Attempt(d, i) \/ Record(d, i) \/ Wake(d, i)

Next ==
    \/ \E e \in Events : Publish(e)
    \/ PublishOther \/ FanOut \/ FanOutFails
    \/ \E d \in Deliveries : Deliver(d) \/ DeliverFails(d) \/ Elapse(d) \/ TestFire(d)
    \/ \E d \in Deliveries, i \in Slots : DriverStep(d, i) \/ RecordFails(d, i)
    \/ TickRead \/ TickFails
    \/ \E t \in todo : TickFire(t)
    \/ \E h \in Hooks : Delete(h)
    \/ \E h \in Hooks, st \in {"enabled", "disabled"}, mask \in SUBSET Events :
         Update(h, st, mask)
    \/ Crash

Spec == Init /\ [][Next]_vars

\* Every task the runtime has started goes on, the request has a timeout, time
\* passes and the interval keeps ticking; nobody must publish, edit or fail.
FairSpec ==
    /\ Spec
    /\ WF_vars(FanOut)
    /\ WF_vars(TickRead)
    /\ WF_vars(\E t \in todo : TickFire(t))
    /\ \A d \in Deliveries :
         /\ WF_vars(Deliver(d))
         /\ WF_vars(Elapse(d))
         /\ \A i \in Slots : WF_vars(DriverStep(d, i))

----------------------------------------------------------------------------
(* Properties                                                              *)

WebhookTypeOK ==
    /\ bus \in Seq(Events \cup {"noise"}) /\ Len(bus) <= BusCap
    /\ heard \subseteq Events
    /\ hook \in [Hooks -> [st : {"enabled", "disabled", "deleted"}, mask : SUBSET Events]]
    /\ spawned \subseteq Deliveries
    /\ rows \in [Deliveries -> [st : {"none", "row", "gone"}, test : BOOLEAN,
                                attempts : Nat, retry : {"null", "later", "due"},
                                by : 0..MaxDrivers, delivered : BOOLEAN]]
    /\ driver \in [Deliveries -> [Slots -> [pc : Answered \cup {"idle", "send", "sleep"},
                                           idx : Nat]]]
    /\ todo \subseteq Deliveries \X Nat
    /\ posts \in [Deliveries -> Nat] 
    /\ fate \in [Deliveries -> SUBSET Fates]
    /\ faults \in 0..MaxFaults /\ crashes \in 0..MaxCrashes /\ edits \in 0..MaxEdits

\* The log the admin reads is right about the outcome: a delivery shown as
\* delivered was confirmed by the receiver, and a confirmed one is shown as
\* delivered unless its record was lost, is still to be written, or went with
\* the hook; a row out of attempts is not waiting for a retry unless raced.
LogIsTrue ==
    /\ WebhookTypeOK
    /\ \A d \in Deliveries : rows[d].delivered => "ok" \in fate[d]
    /\ \A d \in Deliveries :
          "ok" \in fate[d] /\ rows[d].st = "row" =>
            \/ rows[d].delivered \/ "lost" \in fate[d]
            \/ \E i \in Slots : driver[d][i].pc = "ok"
    /\ \A d \in Deliveries :
          ~Blurred(d) /\ rows[d].retry # "null" => rows[d].attempts < MaxAttempts

\* A delivery gets at most MAX_ATTEMPTS requests, and none once the receiver
\* has confirmed it, unless the tick raced a live driver or a finished attempt
\* was not recorded.  These are the only ways to more: the loop counter of
\* deliver_with_retries and the column the tick resumes from are two counters,
\* kept in step by nothing but the order of the steps.
NoExtraPosts ==
    \A d \in Deliveries : ~Blurred(d) => posts[d] <= MaxAttempts /\ "again" \notin fate[d]

\* Whenever nobody is at work on a delivery the row says enough to resume it:
\* one that is neither delivered nor out of attempts has a next_retry_at,
\* unless its address was refused, a record was lost, or the process died
\* before the first attempt was recorded (the row then stays for ever).  An
\* address is refused for a lookup that fails for a moment, too.
NoDeliveryForgotten ==
    \A d \in Deliveries :
        /\ rows[d].st = "row" /\ Live(d) = {} /\ rows[d].retry = "null"
        /\ ~rows[d].delivered /\ rows[d].attempts < MaxAttempts
        /\ ~rows[d].test
        => \/ fate[d] \cap {"refused", "lost"} # {}
           \/ rows[d].attempts = 0 /\ "cut" \in fate[d]

Orphan(d)  == Live(d) = {} /\ rows[d].retry = "null"
Settled(d) == rows[d].delivered \/ rows[d].attempts >= MaxAttempts \/ Orphan(d)

\* Every delivery on record is delivered, runs out of attempts or is given up
\* (see NoDeliveryForgotten for when), unless its hook is switched off: also
\* over a restart, where the tick has to take over from the dead driver.  The
\* statements of a tick fail now and then; a secret that can never be decrypted
\* fails get_webhook on every tick, and leaves that delivery, and those behind it
\* in the list, unsettled.
EveryDeliverySettles ==
    \A d \in Deliveries :
        rows[d].st = "row" ~> Settled(d) \/ hook[HookOf(d)].st # "enabled"

============================================================================
