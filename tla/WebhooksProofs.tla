---------------------------- MODULE WebhooksProofs ----------------------------
(***************************************************************************)
(* Proofs about module Webhooks, for any hooks, events, channel, attempts, *)
(* drivers and faults.  The invariant goes delivery by delivery: what the  *)
(* row, the drivers, the requests sent and the fate of one delivery have   *)
(* to do with each other (InStep, Resumable), and that a delivery reaches  *)
(* the table once (FreshInv), so that its row is never written anew.       *)
(***************************************************************************)
EXTENDS Webhooks, TLAPS

RowSet ==
    [st : {"none", "row", "gone"}, test : BOOLEAN, attempts : Nat,
     retry : {"null", "later", "due"}, by : 0..MaxDrivers, delivered : BOOLEAN]

DriverSet == [pc : Answered \cup {"idle", "send", "sleep"}, idx : Nat]

\* The types of what belongs to a delivery.
Typed ==
    /\ rows \in [Deliveries -> RowSet]
    /\ driver \in [Deliveries -> [Slots -> DriverSet]]
    /\ posts \in [Deliveries -> Nat]
    /\ fate \in [Deliveries -> SUBSET Fates]
    /\ todo \subseteq Deliveries \X Nat
    /\ spawned \subseteq Deliveries

\* The types of the rest.
Around ==
    /\ bus \in Seq(Events \cup {"noise"}) /\ Len(bus) <= BusCap
    /\ heard \subseteq Events
    /\ hook \in [Hooks -> [st : {"enabled", "disabled", "deleted"}, mask : SUBSET Events]]
    /\ faults \in 0..MaxFaults /\ crashes \in 0..MaxCrashes /\ edits \in 0..MaxEdits

LEMMA TypesSplit == WebhookTypeOK <=> Typed /\ Around
  BY DEF WebhookTypeOK, Typed, Around, RowSet, DriverSet

Working(d, i) == driver[d][i].pc # "idle"

\* A row that is not there says nothing; a delivery that never had one has no
\* driver and no history.
Shape(d) ==
    /\ rows[d].st # "row" => /\ rows[d].attempts = 0 /\ rows[d].retry = "null"
                             /\ ~rows[d].delivered
    /\ rows[d].st = "none" => /\ \A i \in Slots : ~Working(d, i)
                              /\ fate[d] = {} /\ posts[d] = 0

Truth(d) ==
    /\ rows[d].delivered => "ok" \in fate[d]
    /\ \A i \in Slots : /\ driver[d][i].pc = "ok" => "ok" \in fate[d]
                        /\ driver[d][i].pc = "blocked" => "refused" \in fate[d]
    /\ "ok" \in fate[d] /\ rows[d].st = "row" =>
          \/ rows[d].delivered \/ "lost" \in fate[d]
          \/ \E i \in Slots : driver[d][i].pc = "ok"

\* Unless the tick raced a driver or a record was lost, there is one driver and
\* its counter, the column and the requests sent are in step.
InStep(d) ==
    ~Blurred(d) =>
        /\ "again" \notin fate[d]
        /\ posts[d] <= MaxAttempts /\ rows[d].attempts <= MaxAttempts
        /\ rows[d].retry # "null" => rows[d].attempts < MaxAttempts
        /\ rows[d].st = "row" =>
              \/ posts[d] <= rows[d].attempts
              \/ /\ posts[d] <= rows[d].attempts + 1
                 /\ \E i \in Slots : driver[d][i].pc \in Answered
        /\ \A i \in Slots : Working(d, i) =>
              /\ \A j \in Slots : Working(d, j) => i = j
              /\ driver[d][i].idx < MaxAttempts
              /\ posts[d] <= driver[d][i].idx \/
                    (posts[d] <= driver[d][i].idx + 1 /\ driver[d][i].pc \in Answered)
              /\ rows[d].st = "row" => rows[d].attempts <= driver[d][i].idx
              /\ "ok" \in fate[d] => driver[d][i].pc = "ok"

\* As long as no record was lost, races included, no driver is ahead of the
\* column, and a row with attempts behind and before it has its next_retry_at.
Resumable(d) ==
    rows[d].st = "row" /\ ~rows[d].test /\ "lost" \notin fate[d] =>
        /\ \A i \in Slots : Working(d, i) => driver[d][i].idx <= rows[d].attempts
        /\ ~rows[d].delivered /\ "refused" \notin fate[d] =>
              /\ rows[d].attempts \in 1..(MaxAttempts - 1) => rows[d].retry # "null"
              /\ rows[d].attempts = 0 =>
                    "cut" \in fate[d] \/ \E i \in Slots : Working(d, i)

DInv(d) == Shape(d) /\ Truth(d) /\ InStep(d) /\ Resumable(d)

InBus(e) == \E i \in 1..Len(bus) : bus[i] = e

\* An event is on its way once: not published, in the channel, spawned, or past
\* all of that.
FreshInv ==
    /\ \A i, j \in 1..Len(bus) : bus[i] = bus[j] /\ bus[i] # "noise" => i = j
    /\ \A e \in Events : InBus(e) => e \in heard
    /\ \A d \in Deliveries :
          /\ d[1] \notin heard \/ d \in spawned \/ InBus(d[1]) => rows[d].st = "none"
          /\ d \in spawned => d[1] \in heard /\ ~InBus(d[1])

\* What the tick read is not ahead of the row.
TodoInv ==
    \A t \in todo : /\ rows[t[1]].st # "none"
                    /\ rows[t[1]].st = "row" => t[2] <= rows[t[1]].attempts

IInv == Typed /\ Around /\ FreshInv /\ TodoInv /\ \A d \in Deliveries : DInv(d)

-----------------------------------------------------------------------------
(* Writing the drivers, the rows and the fates.                            *)

LEMMA Constants ==
  /\ MaxAttempts \in Nat /\ MaxAttempts >= 1 /\ MaxDrivers \in Nat /\ MaxDrivers >= 1
  /\ 1 \in Slots /\ \A i \in Slots : i \in Nat /\ i \in 0..MaxDrivers
  BY WebhookAssumption DEF Slots

LEMMA DriverWrite ==
  ASSUME Typed, NEW d \in Deliveries, NEW i \in Slots, NEW r \in DriverSet,
         driver' = [driver EXCEPT ![d][i] = r]
  PROVE  /\ driver' \in [Deliveries -> [Slots -> DriverSet]]
         /\ driver'[d][i] = r
         /\ \A j \in Slots : j # i => driver'[d][j] = driver[d][j]
         /\ \A c \in Deliveries : c # d => driver'[c] = driver[c]
  <1>1. driver \in [Deliveries -> [Slots -> DriverSet]] /\ driver[d] \in [Slots -> DriverSet]
    BY DEF Typed
  <1>2. driver' = [driver EXCEPT ![d] = [driver[d] EXCEPT ![i] = r]]
    OBVIOUS
  <1>3. [driver[d] EXCEPT ![i] = r] \in [Slots -> DriverSet]
    BY <1>1
  <1>4. /\ driver' \in [Deliveries -> [Slots -> DriverSet]]
        /\ driver'[d] = [driver[d] EXCEPT ![i] = r]
        /\ \A c \in Deliveries : c # d => driver'[c] = driver[c]
    BY <1>1, <1>2, <1>3
  <1> QED
    BY <1>1, <1>4

\* One delivery's row, or its fate, is written; the others' are not.
LEMMA RowWrite ==
  ASSUME Typed, NEW d \in Deliveries, NEW r \in RowSet, rows' = [rows EXCEPT ![d] = r]
  PROVE  /\ rows' \in [Deliveries -> RowSet] /\ rows'[d] = r
         /\ \A c \in Deliveries : c # d => rows'[c] = rows[c]
  BY DEF Typed

LEMMA FateWrite ==
  ASSUME Typed, NEW d \in Deliveries, NEW S \in SUBSET Fates, Mark(d, S)
  PROVE  /\ fate' \in [Deliveries -> SUBSET Fates] /\ fate'[d] = fate[d] \cup S
         /\ \A c \in Deliveries : c # d => fate'[c] = fate[c]
  BY DEF Typed, Mark

\* A delivery whose row, drivers, requests and fate a step leaves alone.
Left(d) ==
    /\ rows'[d] = rows[d] /\ driver'[d] = driver[d]
    /\ posts'[d] = posts[d] /\ fate'[d] = fate[d]

LEMMA Leaves ==
  ASSUME NEW d \in Deliveries, DInv(d), Left(d)
  PROVE  DInv(d)'
  <1>1. Shape(d)'
    BY DEF DInv, Left, Shape, Working
  <1>2. Truth(d)'
    BY DEF DInv, Left, Truth
  <1>3. InStep(d)'
    BY DEF DInv, Left, InStep, Working, Blurred
  <1>4. Resumable(d)'
    BY DEF DInv, Left, Resumable, Working
  <1> QED
    BY <1>1, <1>2, <1>3, <1>4 DEF DInv

-----------------------------------------------------------------------------
(* One driver.                                                             *)

LEMMA AttemptWrites ==
  ASSUME Typed, NEW d \in Deliveries, NEW i \in Slots, Attempt(d, i)
  PROVE  /\ driver[d][i].pc = "send" /\ rows' = rows
         /\ driver' \in [Deliveries -> [Slots -> DriverSet]]
         /\ driver'[d][i].pc \in Answered /\ driver'[d][i].idx = driver[d][i].idx
         /\ \A j \in Slots : j # i => driver'[d][j] = driver[d][j]
         /\ fate' \in [Deliveries -> SUBSET Fates] /\ posts' \in [Deliveries -> Nat]
         /\ fate[d] \subseteq fate'[d]
         /\ fate'[d] \subseteq fate[d] \cup {"refused", "ok", "again"}
         /\ "refused" \in fate'[d] <=> "refused" \in fate[d] \/ driver'[d][i].pc = "blocked"
         /\ "ok" \in fate'[d] <=> "ok" \in fate[d] \/ driver'[d][i].pc = "ok"
         /\ "again" \in fate'[d] => "again" \in fate[d] \/ ("ok" \in fate[d] /\ ~Blurred(d))
         /\ posts'[d] \in {posts[d], posts[d] + 1}
         /\ \A c \in Deliveries : c # d => Left(c)
  <1>1. PICK answer \in Answered :
          /\ driver' = [driver EXCEPT ![d][i].pc = answer]
          /\ IF answer = "blocked"
             THEN Mark(d, {"refused"}) /\ UNCHANGED posts
             ELSE /\ posts' = [posts EXCEPT ![d] = IF Blurred(d) THEN @ ELSE @ + 1]
                  /\ Mark(d, (IF answer = "ok" THEN {"ok"} ELSE {})
                             \cup (IF "ok" \in fate[d] /\ ~Blurred(d) THEN {"again"} ELSE {}))
    BY DEF Attempt
  <1>a. driver[d][i] \in DriverSet /\ answer \in Answered \cup {"idle", "send", "sleep"}
    BY DEF Typed
  <1>2. PICK r \in DriverSet : r = [driver[d][i] EXCEPT !.pc = answer]
    BY <1>a DEF DriverSet
  <1>3. r.pc = answer /\ r.idx = driver[d][i].idx
    BY <1>a, <1>2 DEF DriverSet
  <1>4. driver' = [driver EXCEPT ![d][i] = r]
    BY <1>1, <1>2
  <1>5. /\ driver' \in [Deliveries -> [Slots -> DriverSet]]
        /\ driver'[d][i] = r
        /\ \A j \in Slots : j # i => driver'[d][j] = driver[d][j]
        /\ \A c \in Deliveries : c # d => driver'[c] = driver[c]
    BY <1>4, DriverWrite
  <1>6. PICK S \in SUBSET Fates :
          /\ Mark(d, S)
          /\ S \subseteq {"refused", "ok", "again"}
          /\ "refused" \in S <=> answer = "blocked"
          /\ "ok" \in S <=> answer = "ok"
          /\ "again" \in S => "ok" \in fate[d] /\ ~Blurred(d)
    <2>1. CASE answer = "blocked"
      BY <1>1, <2>1 DEF Fates
    <2>2. CASE answer # "blocked"
      <3>1. PICK S : S = (IF answer = "ok" THEN {"ok"} ELSE {})
                           \cup (IF "ok" \in fate[d] /\ ~Blurred(d) THEN {"again"} ELSE {})
        OBVIOUS
      <3>2. Mark(d, S)
        BY <1>1, <2>2, <3>1
      <3>3. /\ S \subseteq {"ok", "again"}
            /\ "ok" \in S <=> answer = "ok"
            /\ "again" \in S => "ok" \in fate[d] /\ ~Blurred(d)
        BY <3>1
      <3>4. S \in SUBSET Fates /\ "refused" \notin S
        BY <3>3 DEF Fates
      <3> QED
        BY <2>2, <3>2, <3>3, <3>4
    <2> QED
      BY <2>1, <2>2
  <1>7. /\ fate' \in [Deliveries -> SUBSET Fates] /\ fate'[d] = fate[d] \cup S
        /\ \A c \in Deliveries : c # d => fate'[c] = fate[c]
    BY <1>6, FateWrite
  <1>8. /\ posts' \in [Deliveries -> Nat] /\ posts'[d] \in {posts[d], posts[d] + 1}
        /\ \A c \in Deliveries : c # d => posts'[c] = posts[c]
    BY <1>1 DEF Typed
  <1>9. driver[d][i].pc = "send" /\ rows' = rows
    BY DEF Attempt
  <1> QED
    BY <1>3, <1>5, <1>6, <1>7, <1>8, <1>9 DEF Left

LEMMA AttemptKeeps ==
  ASSUME IInv, NEW d \in Deliveries, NEW i \in Slots, Attempt(d, i)
  PROVE  \A c \in Deliveries : DInv(c)'
  <1>0. Typed /\ DInv(d) /\ Working(d, i)
    BY DEF IInv, Attempt, Working
  <1>1. /\ driver[d][i].pc = "send" /\ rows' = rows
        /\ driver'[d][i].pc \in Answered /\ driver'[d][i].idx = driver[d][i].idx
        /\ \A j \in Slots : j # i => driver'[d][j] = driver[d][j]
        /\ fate[d] \subseteq fate'[d]
        /\ fate'[d] \subseteq fate[d] \cup {"refused", "ok", "again"}
        /\ "refused" \in fate'[d] <=> "refused" \in fate[d] \/ driver'[d][i].pc = "blocked"
        /\ "ok" \in fate'[d] <=> "ok" \in fate[d] \/ driver'[d][i].pc = "ok"
        /\ "again" \in fate'[d] => "again" \in fate[d] \/ ("ok" \in fate[d] /\ ~Blurred(d))
        /\ posts'[d] \in {posts[d], posts[d] + 1}
        /\ \A c \in Deliveries : c # d => Left(c)
    BY <1>0, AttemptWrites
  <1>2. /\ driver[d][i].idx \in Nat /\ posts[d] \in Nat /\ rows[d].attempts \in Nat
        /\ MaxAttempts \in Nat
    BY Constants DEF IInv, Typed, RowSet, DriverSet
  <1>3. Blurred(d)' = Blurred(d)
    BY <1>1 DEF Blurred
  <1>4. \A j \in Slots : Working(d, j)' <=> Working(d, j)
    BY <1>0, <1>1 DEF Working, Answered
  <1>5. Shape(d)'
    BY <1>0, <1>1, <1>4 DEF DInv, Shape
  <1>6. Truth(d)'
    BY <1>0, <1>1 DEF DInv, Truth
  <1>7. InStep(d)'
    <2> SUFFICES ASSUME ~Blurred(d) PROVE InStep(d)'
      BY <1>3 DEF InStep
    <2>1. /\ "again" \notin fate[d] /\ "ok" \notin fate[d]
          /\ rows[d].attempts <= MaxAttempts
          /\ rows[d].retry # "null" => rows[d].attempts < MaxAttempts
          /\ \A j \in Slots : Working(d, j) => i = j
          /\ driver[d][i].idx < MaxAttempts /\ posts[d] <= driver[d][i].idx
          /\ rows[d].st = "row" => rows[d].attempts <= driver[d][i].idx
      BY <1>0, <1>1 DEF DInv, InStep, Answered
    <2>2. rows[d].st = "row" => posts[d] <= rows[d].attempts
      BY <1>0, <1>1, <2>1 DEF DInv, InStep, Answered, Working
    <2>3. posts'[d] <= driver[d][i].idx + 1 /\ posts'[d] <= MaxAttempts
      BY <1>1, <1>2, <2>1
    <2>4. rows[d].st = "row" => posts'[d] <= rows[d].attempts + 1
      BY <1>1, <1>2, <2>2
    <2> QED
      BY <1>1, <1>3, <1>4, <2>1, <2>3, <2>4 DEF InStep
  <1>8. Resumable(d)'
    BY <1>0, <1>1, <1>4 DEF DInv, Resumable
  <1> QED
    BY <1>1, <1>5, <1>6, <1>7, <1>8, Leaves DEF IInv, DInv

LEMMA WrittenRow ==
  ASSUME NEW r \in RowSet, NEW a \in Nat, NEW t \in {"later", "null"},
         NEW k \in 0..MaxDrivers, NEW b \in BOOLEAN
  PROVE  [r EXCEPT !.attempts = a, !.retry = t, !.by = k, !.delivered = b] \in RowSet
  BY DEF RowSet

\* The record and what the driver does next.
LEMMA RecordWrites ==
  ASSUME Typed, NEW d \in Deliveries, NEW i \in Slots, driver[d][i].pc \in Answered,
         driver' = [driver EXCEPT ![d][i] = AfterRecord(d, i)]
  PROVE  /\ driver' \in [Deliveries -> [Slots -> DriverSet]]
         /\ WillSleep(d, i) => /\ driver'[d][i].pc = "sleep"
                               /\ driver'[d][i].idx = driver[d][i].idx + 1
                               /\ driver[d][i].idx + 1 < MaxAttempts /\ driver[d][i].pc = "bad"
         /\ ~WillSleep(d, i) => /\ driver'[d][i].pc = "idle"
                                /\ driver[d][i].pc = "bad" => driver[d][i].idx + 1 >= MaxAttempts
         /\ \A j \in Slots : j # i => driver'[d][j] = driver[d][j]
         /\ \A c \in Deliveries : c # d => driver'[c] = driver[c]
         /\ Recorded(d, i) \in RowSet
  <1>0. driver[d][i] \in DriverSet /\ driver[d][i].idx \in Nat /\ rows[d] \in RowSet
    BY DEF Typed, DriverSet
  <1>1. AfterRecord(d, i) \in DriverSet
    BY <1>0 DEF AfterRecord, DriverSet, Idle
  <1>2. PICK r \in DriverSet : r = AfterRecord(d, i)
    BY <1>1
  <1>3. /\ driver' \in [Deliveries -> [Slots -> DriverSet]]
        /\ driver'[d][i] = r
        /\ \A j \in Slots : j # i => driver'[d][j] = driver[d][j]
        /\ \A c \in Deliveries : c # d => driver'[c] = driver[c]
    BY <1>2, DriverWrite
  <1>4. Recorded(d, i) \in RowSet
    <2>1. PICK b \in BOOLEAN : b = (rows[d].delivered \/ driver[d][i].pc = "ok")
      OBVIOUS
    <2>2. PICK t \in {"later", "null"}, k \in 0..MaxDrivers :
            /\ t = IF WillSleep(d, i) THEN "later" ELSE "null"
            /\ k = IF WillSleep(d, i) THEN i ELSE 0
      BY Constants
    <2>3. [rows[d] EXCEPT !.attempts = rows[d].attempts + 1, !.retry = t, !.by = k,
                          !.delivered = b] \in RowSet
      <3>1. rows[d].attempts + 1 \in Nat
        BY <1>0 DEF RowSet
      <3> QED
        BY <1>0, <3>1, WrittenRow
    <2> QED
      BY <1>0, <2>1, <2>2, <2>3 DEF Recorded
  <1>5. /\ WillSleep(d, i) => driver[d][i].idx + 1 < MaxAttempts /\ driver[d][i].pc = "bad"
        /\ ~WillSleep(d, i) /\ driver[d][i].pc = "bad" => driver[d][i].idx + 1 >= MaxAttempts
    BY <1>0, Constants DEF WillSleep, LastAttempt
  <1>6. /\ WillSleep(d, i) => r.pc = "sleep" /\ r.idx = driver[d][i].idx + 1
        /\ ~WillSleep(d, i) => r.pc = "idle"
    BY <1>2 DEF AfterRecord, Idle
  <1> QED
    BY <1>3, <1>4, <1>5, <1>6

LEMMA RecordKeeps ==
  ASSUME IInv, NEW d \in Deliveries, NEW i \in Slots, Record(d, i)
  PROVE  \A c \in Deliveries : DInv(c)'
  <1>0. Typed /\ DInv(d) /\ Working(d, i) /\ driver[d][i].pc \in Answered
    BY DEF IInv, Record, Working, Answered
  <1>1. /\ WillSleep(d, i) => /\ driver'[d][i].pc = "sleep"
                              /\ driver'[d][i].idx = driver[d][i].idx + 1
                              /\ driver[d][i].idx + 1 < MaxAttempts /\ driver[d][i].pc = "bad"
        /\ ~WillSleep(d, i) => /\ driver'[d][i].pc = "idle"
                               /\ driver[d][i].pc = "bad" => driver[d][i].idx + 1 >= MaxAttempts
        /\ \A j \in Slots : j # i => driver'[d][j] = driver[d][j]
        /\ \A c \in Deliveries : c # d => driver'[c] = driver[c]
        /\ Recorded(d, i) \in RowSet
    BY <1>0, RecordWrites DEF Record
  <1>2. /\ rows'[d] = Recorded(d, i) /\ \A c \in Deliveries : c # d => rows'[c] = rows[c]
    BY <1>0, <1>1, RowWrite DEF Record
  <1>3. posts' = posts /\ fate' = fate
    BY DEF Record
  <1>4. /\ driver[d][i].idx \in Nat /\ posts[d] \in Nat /\ rows[d].attempts \in Nat
        /\ MaxAttempts \in Nat /\ rows[d] \in RowSet
    BY <1>0, Constants DEF Typed, RowSet, DriverSet
  <1>5. rows[d].st # "none"
    BY <1>0 DEF DInv, Shape
  <1>6. /\ rows'[d].st = rows[d].st
        /\ rows[d].st # "row" => rows'[d] = rows[d]
        /\ rows[d].st = "row" =>
              /\ rows'[d].attempts = rows[d].attempts + 1 /\ rows'[d].test = rows[d].test
              /\ rows'[d].retry = IF WillSleep(d, i) THEN "later" ELSE "null"
              /\ rows'[d].delivered <=> (rows[d].delivered \/ driver[d][i].pc = "ok")
    BY <1>2, <1>4 DEF Recorded, RowSet
  <1>7. \A c \in Deliveries : c # d => Left(c)
    BY <1>1, <1>2, <1>3 DEF Left
  <1>8. Shape(d)'
    BY <1>0, <1>5, <1>6 DEF DInv, Shape
  <1>9. Truth(d)'
    BY <1>0, <1>1, <1>3, <1>6 DEF DInv, Truth
  <1>10. InStep(d)'
    <2> SUFFICES ASSUME ~Blurred(d) PROVE InStep(d)'
      BY <1>3 DEF InStep, Blurred
    <2>1. /\ "again" \notin fate[d] /\ posts[d] <= MaxAttempts
          /\ rows[d].attempts <= MaxAttempts
          /\ rows[d].retry # "null" => rows[d].attempts < MaxAttempts
          /\ \A j \in Slots : Working(d, j) => i = j
          /\ driver[d][i].idx < MaxAttempts /\ posts[d] <= driver[d][i].idx + 1
          /\ rows[d].st = "row" => /\ rows[d].attempts <= driver[d][i].idx
                                   /\ posts[d] <= rows[d].attempts + 1
          /\ "ok" \in fate[d] => driver[d][i].pc = "ok"
      BY <1>0, <1>4 DEF DInv, InStep
    <2>2. \A j \in Slots : Working(d, j)' => j = i /\ WillSleep(d, i)
      BY <1>1, <2>1 DEF Working
    <2>3. /\ rows'[d].attempts <= MaxAttempts
          /\ rows'[d].retry # "null" => rows'[d].attempts < MaxAttempts
          /\ rows'[d].st = "row" => posts[d] <= rows'[d].attempts
      BY <1>1, <1>4, <1>6, <2>1
    <2>4. WillSleep(d, i) =>
            /\ driver'[d][i].idx < MaxAttempts /\ posts[d] <= driver'[d][i].idx
            /\ rows'[d].st = "row" => rows'[d].attempts <= driver'[d][i].idx
            /\ "ok" \notin fate[d]
      BY <1>1, <1>4, <1>6, <2>1
    <2> QED
      BY <1>3, <2>1, <2>2, <2>3, <2>4 DEF InStep
  <1>11. Resumable(d)'
    <2> SUFFICES ASSUME rows[d].st = "row", ~rows[d].test, "lost" \notin fate[d]
                 PROVE  Resumable(d)'
      BY <1>3, <1>6 DEF Resumable
    <2>1. \A j \in Slots : Working(d, j) => driver[d][j].idx <= rows[d].attempts
      BY <1>0 DEF DInv, Resumable
    <2>2. \A j \in Slots : Working(d, j)' => driver'[d][j].idx <= rows'[d].attempts
      <3> SUFFICES ASSUME NEW j \in Slots, Working(d, j)'
                   PROVE  driver'[d][j].idx <= rows'[d].attempts
        OBVIOUS
      <3>1. CASE j = i
        BY <1>0, <1>1, <1>4, <1>6, <2>1, <3>1 DEF Working
      <3>2. CASE j # i
        <4>1. driver'[d][j] = driver[d][j] /\ driver[d][j].idx \in Nat /\ Working(d, j)
          BY <1>0, <1>1, <3>2 DEF Working, Typed, DriverSet
        <4> QED
          BY <1>4, <1>6, <2>1, <4>1
      <3> QED
        BY <3>1, <3>2
    <2>3. ASSUME ~rows'[d].delivered, "refused" \notin fate[d]
          PROVE  /\ rows'[d].attempts \in 1..(MaxAttempts - 1) => rows'[d].retry # "null"
                 /\ rows'[d].attempts # 0
      <3>1. driver[d][i].pc = "bad"
        BY <1>0, <1>6, <2>3 DEF DInv, Truth, Answered
      <3>2. CASE WillSleep(d, i)
        BY <1>4, <1>6, <3>2
      <3>3. CASE ~WillSleep(d, i)
        <4>1. rows'[d].attempts >= MaxAttempts /\ rows'[d].attempts \in Nat
          BY <1>0, <1>1, <1>4, <1>6, <2>1, <3>1, <3>3
        <4> QED
          BY <1>4, <1>6, <4>1
      <3> QED
        BY <3>2, <3>3
    <2> QED
      BY <1>3, <2>2, <2>3 DEF Resumable
  <1> QED
    BY <1>7, <1>8, <1>9, <1>10, <1>11, Leaves DEF IInv, DInv

\* The record is lost: what the properties say of the delivery ends with it.
LEMMA RecordFailsKeeps ==
  ASSUME IInv, NEW d \in Deliveries, NEW i \in Slots, RecordFails(d, i)
  PROVE  \A c \in Deliveries : DInv(c)'
  <1>0. Typed /\ DInv(d) /\ Working(d, i) /\ driver[d][i].pc \in Answered
    BY DEF IInv, RecordFails, Working, Answered
  <1>1. /\ \A j \in Slots : j # i => driver'[d][j] = driver[d][j]
        /\ \A c \in Deliveries : c # d => driver'[c] = driver[c]
        /\ driver'[d][i].pc \in {"sleep", "idle"}
    BY <1>0, RecordWrites DEF RecordFails
  <1>2. /\ fate'[d] = fate[d] \cup {"lost"} /\ \A c \in Deliveries : c # d => fate'[c] = fate[c]
    BY <1>0, FateWrite DEF RecordFails, Fates
  <1>3. rows' = rows /\ posts' = posts
    BY DEF RecordFails
  <1>4. \A c \in Deliveries : c # d => Left(c)
    BY <1>1, <1>2, <1>3 DEF Left
  <1>5. Shape(d)'
    BY <1>0, <1>3 DEF DInv, Shape
  <1>6. Truth(d)'
    BY <1>0, <1>1, <1>2, <1>3 DEF DInv, Truth
  <1>7. InStep(d)' /\ Resumable(d)'
    BY <1>2 DEF InStep, Resumable, Blurred
  <1> QED
    BY <1>4, <1>5, <1>6, <1>7, Leaves DEF IInv, DInv

\* The backoff ends: in the row, in the driver.
LEMMA TimeKeeps ==
  ASSUME IInv, NEW d \in Deliveries, Elapse(d) \/ \E i \in Slots : Wake(d, i)
  PROVE  \A c \in Deliveries : DInv(c)'
  <1>0. Typed /\ DInv(d) /\ rows[d] \in RowSet
    BY DEF IInv, Typed
  <1>1. CASE Elapse(d)
    <2>1. PICK r \in RowSet : r = [rows[d] EXCEPT !.retry = "due"]
      BY <1>0 DEF RowSet
    <2>2. rows' = [rows EXCEPT ![d] = r]
      BY <1>1, <2>1 DEF Elapse
    <2>3. /\ rows'[d] = r /\ \A c \in Deliveries : c # d => rows'[c] = rows[c]
          /\ UNCHANGED <<driver, posts, fate>>
      BY <1>0, <1>1, <2>2, RowWrite DEF Elapse
    <2>4. /\ rows[d].retry = "later" /\ rows'[d].retry = "due" /\ rows'[d].st = rows[d].st
          /\ rows'[d].attempts = rows[d].attempts /\ rows'[d].test = rows[d].test
          /\ rows'[d].delivered = rows[d].delivered
      BY <1>0, <1>1, <2>1, <2>3 DEF Elapse, RowSet
    <2>5. Shape(d)'
      BY <1>0, <2>3, <2>4 DEF DInv, Shape, Working
    <2>6. Truth(d)'
      BY <1>0, <2>3, <2>4 DEF DInv, Truth
    <2>7. InStep(d)'
      BY <1>0, <2>3, <2>4 DEF DInv, InStep, Working, Blurred
    <2>8. Resumable(d)'
      BY <1>0, <2>3, <2>4 DEF DInv, Resumable, Working
    <2> QED
      BY <2>3, <2>5, <2>6, <2>7, <2>8, Leaves DEF IInv, DInv, Left
  <1>2. ASSUME NEW i \in Slots, Wake(d, i) PROVE \A c \in Deliveries : DInv(c)'
    <2>0. driver[d][i] \in DriverSet
      BY <1>0 DEF Typed
    <2>1. PICK r \in DriverSet : r = [driver[d][i] EXCEPT !.pc = "send"]
      BY <2>0 DEF DriverSet
    <2>2. driver' = [driver EXCEPT ![d][i] = r]
      BY <1>2, <2>1 DEF Wake
    <2>3. /\ driver'[d][i] = r
          /\ \A j \in Slots : j # i => driver'[d][j] = driver[d][j]
          /\ \A c \in Deliveries : c # d => driver'[c] = driver[c]
      BY <1>0, <2>2, DriverWrite
    <2>a. UNCHANGED <<rows, posts, fate>>
      BY <1>2 DEF Wake
    <2>4. /\ driver[d][i].pc = "sleep" /\ driver'[d][i].pc = "send"
          /\ driver'[d][i].idx = driver[d][i].idx
      BY <1>2, <2>0, <2>1, <2>3 DEF Wake, DriverSet
    <2>5. \A j \in Slots : /\ Working(d, j)' <=> Working(d, j)
                           /\ driver'[d][j].idx = driver[d][j].idx
                           /\ driver'[d][j].pc \in Answered <=> driver[d][j].pc \in Answered
                           /\ driver[d][j].pc \in Answered => driver'[d][j].pc = driver[d][j].pc
      BY <2>3, <2>a, <2>4 DEF Working, Answered
    <2>6. Shape(d)'
      BY <1>0, <2>3, <2>a, <2>5 DEF DInv, Shape
    <2>7. Truth(d)'
      BY <1>0, <2>3, <2>a, <2>5 DEF DInv, Truth, Answered
    <2>8. InStep(d)'
      <3> SUFFICES ASSUME ~Blurred(d) PROVE InStep(d)'
        BY <2>3, <2>a DEF InStep, Blurred
      <3>1. "ok" \notin fate[d]
        BY <1>0, <2>4 DEF DInv, InStep, Working
      <3> QED
        BY <1>0, <2>3, <2>a, <2>5, <3>1 DEF DInv, InStep
    <2>9. Resumable(d)'
      BY <1>0, <2>3, <2>a, <2>5 DEF DInv, Resumable
    <2> QED
      BY <2>3, <2>a, <2>6, <2>7, <2>8, <2>9, Leaves DEF IInv, DInv, Left
  <1> QED
    BY <1>1, <1>2

-----------------------------------------------------------------------------
(* Where drivers come from.                                                *)

\* A delivery on its way to the table has no row, no driver and no history.
LEMMA Untouched ==
  ASSUME IInv, NEW d \in Deliveries, rows[d].st = "none"
  PROVE  /\ \A i \in Slots : driver[d][i].pc = "idle"
         /\ fate[d] = {} /\ posts[d] = 0
  BY DEF IInv, DInv, Shape, Working

\* The row and the first driver, of a delivery and of a test.
LEMMA FirstDriver ==
  ASSUME IInv, NEW d \in Deliveries, rows[d].st = "none", NEW r \in RowSet, NEW p \in DriverSet,
         r.st = "row", r.attempts = 0, r.retry = "null", ~r.delivered,
         p.pc = "send", p.idx < MaxAttempts, r.test \/ p.idx = 0,
         rows' = [rows EXCEPT ![d] = r], driver' = [driver EXCEPT ![d][1] = p],
         UNCHANGED <<posts, fate>>
  PROVE  /\ \A c \in Deliveries : DInv(c)'
         /\ rows' \in [Deliveries -> RowSet] /\ rows'[d] = r
         /\ \A c \in Deliveries : c # d => rows'[c] = rows[c]
         /\ driver' \in [Deliveries -> [Slots -> DriverSet]]
  <1>0. Typed /\ 1 \in Slots /\ MaxAttempts \in Nat /\ MaxAttempts >= 1 /\ p.idx \in Nat
    BY Constants DEF IInv, DriverSet
  <1>1. /\ rows' \in [Deliveries -> RowSet] /\ rows'[d] = r
        /\ \A c \in Deliveries : c # d => rows'[c] = rows[c]
    BY <1>0, RowWrite
  <1>2. /\ driver' \in [Deliveries -> [Slots -> DriverSet]]
        /\ driver'[d][1] = p
        /\ \A j \in Slots : j # 1 => driver'[d][j] = driver[d][j]
        /\ \A c \in Deliveries : c # d => driver'[c] = driver[c]
    BY <1>0, DriverWrite
  <1>3. \A j \in Slots : j # 1 => driver'[d][j].pc = "idle"
    BY <1>2, Untouched
  <1>4. fate'[d] = {} /\ posts'[d] = 0
    BY Untouched
  <1>5. Shape(d)' /\ Truth(d)'
    BY <1>1, <1>2, <1>3, <1>4 DEF Shape, Truth
  <1>6. InStep(d)'
    BY <1>0, <1>1, <1>2, <1>3, <1>4 DEF InStep, Working
  <1>7. Resumable(d)'
    BY <1>0, <1>1, <1>2, <1>3, <1>4 DEF Resumable, Working
  <1>8. \A c \in Deliveries : c # d => Left(c)
    BY <1>1, <1>2 DEF Left
  <1> QED
    BY <1>1, <1>2, <1>5, <1>6, <1>7, <1>8, Leaves DEF IInv, DInv

\* What a delivery and a test put into the table.
LEMMA Inserts ==
  ASSUME IInv, NEW d \in Deliveries,
         TestFire(d) \/ (Deliver(d) /\ hook[HookOf(d)].st # "deleted")
  PROVE  /\ \A c \in Deliveries : DInv(c)'
         /\ rows' \in [Deliveries -> RowSet] /\ rows'[d].st = "row"
         /\ \A c \in Deliveries : c # d => rows'[c] = rows[c]
         /\ driver' \in [Deliveries -> [Slots -> DriverSet]]
  <1>0. MaxAttempts \in Nat /\ MaxAttempts >= 1 /\ 0 \in 0..MaxDrivers
    BY Constants
  <1>1. rows[d].st = "none"
    BY DEF IInv, FreshInv, TestFire, Deliver
  <1>2. CASE TestFire(d)
    <2>1. PICK r \in RowSet : r = [NoRow EXCEPT !.st = "row", !.test = TRUE]
      BY <1>0 DEF NoRow, RowSet
    <2>a. MaxAttempts - 1 \in Nat
      BY <1>0
    <2>2. PICK p \in DriverSet : p = [pc |-> "send", idx |-> MaxAttempts - 1]
      BY <2>a DEF DriverSet
    <2>3. /\ rows' = [rows EXCEPT ![d] = r] /\ driver' = [driver EXCEPT ![d][1] = p]
          /\ UNCHANGED <<posts, fate>>
      BY <1>2, <2>1, <2>2 DEF TestFire
    <2>4. /\ r.st = "row" /\ r.attempts = 0 /\ r.retry = "null" /\ ~r.delivered /\ r.test
          /\ p.pc = "send" /\ p.idx < MaxAttempts
      BY <1>0, <2>1, <2>2 DEF NoRow
    <2> QED
      BY <1>1, <2>3, <2>4, FirstDriver
  <1>3. CASE Deliver(d) /\ hook[HookOf(d)].st # "deleted"
    <2>1. PICK r \in RowSet : r = [NoRow EXCEPT !.st = "row"]
      BY <1>0 DEF NoRow, RowSet
    <2>2. PICK p \in DriverSet : p = [Idle EXCEPT !.pc = "send"]
      BY <1>0 DEF Idle, DriverSet
    <2>3. /\ rows' = [rows EXCEPT ![d] = r] /\ driver' = [driver EXCEPT ![d][1] = p]
          /\ UNCHANGED <<posts, fate>>
      BY <1>3, <2>1, <2>2 DEF Deliver
    <2>4. /\ r.st = "row" /\ r.attempts = 0 /\ r.retry = "null" /\ ~r.delivered
          /\ p.pc = "send" /\ p.idx = 0 /\ p.idx < MaxAttempts
      BY <1>0, <2>1, <2>2 DEF NoRow, Idle
    <2> QED
      BY <1>1, <2>3, <2>4, FirstDriver
  <1> QED
    BY <1>2, <1>3

\* A driver the tick starts: raced, or resuming where the row stands.
LEMMA TickFires ==
  ASSUME IInv, NEW t \in todo, TickFire(t)
  PROVE  /\ \A c \in Deliveries : DInv(c)'
         /\ driver' \in [Deliveries -> [Slots -> DriverSet]]
         /\ fate' \in [Deliveries -> SUBSET Fates]
  <1>0. PICK d \in Deliveries, k \in Nat : t = <<d, k>>
    BY DEF IInv, Typed
  <1>1. /\ Typed /\ DInv(d) /\ MaxAttempts \in Nat /\ MaxAttempts >= 1
        /\ rows[d] \in RowSet /\ rows[d].attempts \in Nat /\ posts[d] \in Nat
        /\ UNCHANGED <<rows, posts>>
    BY Constants DEF IInv, Typed, RowSet, TickFire
  <1>2. CASE UNCHANGED <<driver, fate>>
    <2>1. \A c \in Deliveries : Left(c)
      BY <1>1, <1>2 DEF Left
    <2> QED
      BY <1>1, <1>2, <2>1, Leaves DEF IInv, Typed
  <1>3. CASE ~UNCHANGED <<driver, fate>>
    <2>1. PICK i \in Slots \ Live(d) :
            /\ driver' = [driver EXCEPT ![d][i] = [pc |-> "send", idx |-> k]]
            /\ IF Live(d) # {} \/ ~(Due(d) /\ rows[d].attempts = k)
               THEN Mark(d, {"raced"})
               ELSE UNCHANGED fate
      BY <1>0, <1>3 DEF TickFire
    <2>2. PICK p \in DriverSet : p = [pc |-> "send", idx |-> k]
      BY DEF DriverSet
    <2>3. driver' = [driver EXCEPT ![d][i] = p] /\ i \in Slots /\ ~Working(d, i)
      BY <2>1, <2>2 DEF Live, Working
    <2>4. /\ driver' \in [Deliveries -> [Slots -> DriverSet]]
          /\ driver'[d][i] = p
          /\ \A j \in Slots : j # i => driver'[d][j] = driver[d][j]
          /\ \A c \in Deliveries : c # d => driver'[c] = driver[c]
      BY <1>1, <2>3, DriverWrite
    <2>5. /\ fate' \in [Deliveries -> SUBSET Fates]
          /\ fate'[d] \in {fate[d], fate[d] \cup {"raced"}}
          /\ \A c \in Deliveries : c # d => fate'[c] = fate[c]
      <3>1. CASE Mark(d, {"raced"})
        <4>1. {"raced"} \in SUBSET Fates
          BY DEF Fates
        <4> QED
          BY <1>1, <3>1, <4>1, FateWrite
      <3>2. CASE UNCHANGED fate
        BY <1>1, <3>2 DEF Typed
      <3> QED
        BY <2>1, <3>1, <3>2
    <2>6. "raced" \notin fate'[d] =>
            /\ \A j \in Slots : ~Working(d, j)
            /\ Due(d) /\ rows[d].attempts = k
      <3>1. CASE Mark(d, {"raced"})
        <4>1. {"raced"} \in SUBSET Fates
          BY DEF Fates
        <4>2. fate'[d] = fate[d] \cup {"raced"}
          BY <1>1, <3>1, <4>1, FateWrite
        <4> QED
          BY <4>2
      <3>2. CASE ~(Live(d) # {} \/ ~(Due(d) /\ rows[d].attempts = k))
        BY <3>2 DEF Live, Working
      <3> QED
        BY <2>1, <3>1, <3>2
    <2>7. /\ driver'[d][i].pc = "send" /\ driver'[d][i].idx = k
          /\ driver[d][i].pc = "idle"
      BY <2>2, <2>3, <2>4 DEF Working
    <2>8. rows[d].st # "none" /\ (rows[d].st = "row" => k <= rows[d].attempts)
      BY <1>0 DEF IInv, TodoInv
    <2>9. Shape(d)' /\ Truth(d)'
      BY <1>1, <2>4, <2>5, <2>7, <2>8 DEF DInv, Shape, Truth
    <2>10. InStep(d)'
      <3> SUFFICES ASSUME ~Blurred(d)' PROVE InStep(d)'
        BY DEF InStep
      <3>1. /\ ~Blurred(d) /\ "raced" \notin fate'[d]
        BY <2>5 DEF Blurred
      <3>2. /\ \A j \in Slots : ~Working(d, j)
            /\ rows[d].st = "row" /\ ~rows[d].delivered
            /\ rows[d].attempts < MaxAttempts /\ rows[d].attempts = k
        BY <2>6, <3>1 DEF Due
      <3>3. "ok" \notin fate[d]
        BY <1>1, <3>1, <3>2 DEF DInv, Truth, Working, Blurred
      <3>4. posts[d] <= rows[d].attempts
        BY <1>1, <3>1, <3>2 DEF DInv, InStep, Working, Answered
      <3>5. \A j \in Slots : Working(d, j)' <=> j = i
        BY <2>4, <2>7, <3>2 DEF Working
      <3>6. fate'[d] = fate[d]
        BY <2>5, <3>1
      <3>7. "again" \notin fate[d] /\ posts[d] <= MaxAttempts
        BY <1>1, <3>1 DEF DInv, InStep
      <3> QED
        BY <1>1, <2>7, <3>2, <3>3, <3>4, <3>5, <3>6, <3>7 DEF InStep
    <2>11. Resumable(d)'
      BY <1>1, <2>4, <2>5, <2>7, <2>8 DEF DInv, Resumable, Working
    <2>12. \A c \in Deliveries : c # d => Left(c)
      BY <1>1, <2>4, <2>5 DEF Left
    <2> QED
      BY <2>4, <2>5, <2>9, <2>10, <2>11, <2>12, Leaves DEF IInv, DInv
  <1> QED
    BY <1>2, <1>3

-----------------------------------------------------------------------------
(* The admin and the process.                                              *)

LEMMA DeleteKeeps ==
  ASSUME IInv, NEW h \in Hooks, Delete(h)
  PROVE  /\ \A c \in Deliveries : DInv(c)'
         /\ rows' \in [Deliveries -> RowSet]
         /\ \A c \in Deliveries : \/ rows'[c] = rows[c]
                                  \/ rows'[c].st = "gone" /\ rows[c].st = "row"
  <1>0. Typed /\ 0 \in 0..MaxDrivers
    BY Constants DEF IInv
  <1>1. PICK r \in RowSet : r = [NoRow EXCEPT !.st = "gone"]
    BY <1>0 DEF NoRow, RowSet
  <1>2. /\ rows' = [d \in Deliveries |->
                      IF HookOf(d) = h /\ rows[d].st = "row" THEN r ELSE rows[d]]
        /\ UNCHANGED <<driver, posts, fate>>
    BY <1>1 DEF Delete
  <1>3. r.st = "gone" /\ r.attempts = 0 /\ r.retry = "null" /\ ~r.delivered
    BY <1>1 DEF NoRow
  <1>4. rows' \in [Deliveries -> RowSet]
    BY <1>0, <1>2 DEF Typed
  <1>5. \A c \in Deliveries : \/ rows'[c] = rows[c]
                              \/ rows'[c] = r /\ rows[c].st = "row"
    BY <1>2
  <1>6. ASSUME NEW c \in Deliveries, rows'[c] = r, rows[c].st = "row" PROVE DInv(c)'
    <2>1. DInv(c) /\ MaxAttempts \in Nat /\ MaxAttempts >= 1
      BY Constants DEF IInv
    <2>2. Shape(c)'
      BY <1>3, <1>6 DEF Shape
    <2>3. Truth(c)'
      BY <1>2, <1>3, <1>6, <2>1 DEF DInv, Truth
    <2>4. InStep(c)'
      BY <1>2, <1>3, <1>6, <2>1 DEF DInv, InStep, Working, Blurred
    <2>5. Resumable(c)'
      BY <1>3, <1>6 DEF Resumable
    <2> QED
      BY <2>2, <2>3, <2>4, <2>5 DEF DInv
  <1>7. ASSUME NEW c \in Deliveries, rows'[c] = rows[c] PROVE DInv(c)'
    BY <1>2, <1>7, Leaves DEF IInv, Left
  <1> QED
    BY <1>3, <1>4, <1>5, <1>6, <1>7

LEMMA CrashKeeps ==
  ASSUME IInv, Crash
  PROVE  /\ \A c \in Deliveries : DInv(c)'
         /\ driver' \in [Deliveries -> [Slots -> DriverSet]]
         /\ fate' \in [Deliveries -> SUBSET Fates]
  <1>0. /\ Typed /\ rows' = rows /\ posts' = posts
    BY DEF IInv, Crash
  <1>1. \A d \in Deliveries, i \in Slots : driver'[d][i].pc = "idle"
    BY DEF Crash, Idle
  <1>2. driver' \in [Deliveries -> [Slots -> DriverSet]]
    BY DEF Crash, Idle, DriverSet
  <1>3. \A d \in Deliveries :
          /\ fate'[d] \subseteq fate[d] \cup {"cut", "lost"} /\ fate[d] \subseteq fate'[d]
          /\ (\E i \in Slots : Working(d, i)) => "cut" \in fate'[d]
          /\ (\E i \in Slots : driver[d][i].pc \in Answered) => "lost" \in fate'[d]
    BY DEF Crash, Live, Working, Answered
  <1>4. fate' \in [Deliveries -> SUBSET Fates]
    <2>1. {"cut", "lost"} \subseteq Fates
      BY DEF Fates
    <2> QED
      BY <1>0, <1>3, <2>1 DEF Crash, Typed
  <1>5. ASSUME NEW d \in Deliveries PROVE DInv(d)'
    <2>0. DInv(d)
      BY DEF IInv
    <2>1. Shape(d)'
      <3>1. rows[d].st = "none" => fate'[d] = {}
        BY <2>0 DEF DInv, Shape, Crash, Live, Working
      <3> QED
        BY <1>0, <1>1, <2>0, <3>1 DEF DInv, Shape, Working
    <2>2. Truth(d)'
      BY <1>0, <1>1, <1>3, <2>0 DEF DInv, Truth, Answered
    <2>3. InStep(d)'
      <3> SUFFICES ASSUME ~Blurred(d)' PROVE InStep(d)'
        BY DEF InStep
      <3>1. ~Blurred(d) /\ \A i \in Slots : driver[d][i].pc \notin Answered
        BY <1>3 DEF Blurred
      <3> QED
        BY <1>0, <1>1, <1>3, <2>0, <3>1 DEF DInv, InStep, Working
    <2>4. Resumable(d)'
      BY <1>0, <1>1, <1>3, <2>0 DEF DInv, Resumable, Working
    <2> QED
      BY <2>1, <2>2, <2>3, <2>4 DEF DInv
  <1> QED
    BY <1>2, <1>4, <1>5

-----------------------------------------------------------------------------
(* Every step.                                                             *)

\* Steps on the channel, the hooks and the list of the tick.
LEMMA QuietSteps ==
  ASSUME IInv,
         \/ \E e \in Events : Publish(e)
         \/ PublishOther \/ FanOut \/ FanOutFails \/ TickRead \/ TickFails
         \/ \E d \in Deliveries : DeliverFails(d)
         \/ \E h \in Hooks, st \in {"enabled", "disabled"}, mask \in SUBSET Events :
              Update(h, st, mask)
         \/ UNCHANGED vars
  PROVE  UNCHANGED <<rows, driver, posts, fate>>
  BY DEF Publish, PublishOther, FanOut, FanOutFails, TickRead, TickFails, DeliverFails,
         Update, vars

LEMMA NoInsert ==
  ASSUME NEW d \in Deliveries, Deliver(d), hook[HookOf(d)].st = "deleted"
  PROVE  UNCHANGED <<rows, driver, posts, fate>>
  BY DEF Deliver

LEMMA DeliveriesKept ==
  ASSUME IInv, [Next]_vars
  PROVE  \A c \in Deliveries : DInv(c)'
  <1>1. CASE UNCHANGED <<rows, driver, posts, fate>>
    <2>1. \A c \in Deliveries : Left(c)
      BY <1>1 DEF Left
    <2> QED
      BY <2>1, Leaves DEF IInv
  <1>2. ASSUME NEW d \in Deliveries, NEW i \in Slots, DriverStep(d, i) \/ RecordFails(d, i)
        PROVE  \A c \in Deliveries : DInv(c)'
    BY <1>2, AttemptKeeps, RecordKeeps, RecordFailsKeeps, TimeKeeps DEF DriverStep
  <1>3. ASSUME NEW d \in Deliveries, Deliver(d) \/ Elapse(d) \/ TestFire(d)
        PROVE  \A c \in Deliveries : DInv(c)'
    BY <1>1, <1>3, NoInsert, Inserts, TimeKeeps
  <1>4. ASSUME NEW t \in todo, TickFire(t) PROVE \A c \in Deliveries : DInv(c)'
    BY <1>4, TickFires
  <1>5. ASSUME NEW h \in Hooks, Delete(h) PROVE \A c \in Deliveries : DInv(c)'
    BY <1>5, DeleteKeeps
  <1>6. CASE Crash
    BY <1>6, CrashKeeps
  <1> QED
    BY <1>1, <1>2, <1>3, <1>4, <1>5, <1>6, QuietSteps DEF Next

\* What the rows of the table are written to.
LEMMA RowSteps ==
  ASSUME IInv, [Next]_vars
  PROVE  /\ rows' \in [Deliveries -> RowSet]
         /\ \A c \in Deliveries :
              /\ rows'[c].st = rows[c].st => rows'[c].attempts >= rows[c].attempts
              /\ rows[c].st # "none" => /\ rows'[c].st # "none"
                                        /\ rows'[c].st = "row" => rows[c].st = "row"
              /\ rows[c].st = "none" /\ rows'[c].st # "none" =>
                    /\ TestFire(c) \/ (Deliver(c) /\ hook[HookOf(c)].st # "deleted")
                    /\ rows'[c].st = "row"
  <1>0. Typed /\ \A c \in Deliveries : rows[c] \in RowSet /\ rows[c].attempts \in Nat
    BY DEF IInv, Typed, RowSet
  <1>1. CASE rows' = rows
    BY <1>0, <1>1 DEF Typed
  <1>2. ASSUME NEW d \in Deliveries, NEW r \in RowSet, rows' = [rows EXCEPT ![d] = r],
               r.st = rows[d].st, r.attempts >= rows[d].attempts
        PROVE  /\ rows' \in [Deliveries -> RowSet]
               /\ \A c \in Deliveries : rows'[c].st = rows[c].st
                                        /\ rows'[c].attempts >= rows[c].attempts
    <2>1. /\ rows' \in [Deliveries -> RowSet] /\ rows'[d] = r
          /\ \A c \in Deliveries : c # d => rows'[c] = rows[c]
      BY <1>0, <1>2, RowWrite
    <2> QED
      BY <1>0, <1>2, <2>1
  <1>3. ASSUME NEW d \in Deliveries, NEW i \in Slots, Record(d, i)
        PROVE  /\ rows' \in [Deliveries -> RowSet]
               /\ \A c \in Deliveries : rows'[c].st = rows[c].st
                                        /\ rows'[c].attempts >= rows[c].attempts
    <2>1. PICK r \in RowSet : r = Recorded(d, i)
      BY <1>0, <1>3, RecordWrites DEF Record
    <2>2. rows' = [rows EXCEPT ![d] = r]
      BY <1>3, <2>1 DEF Record
    <2>3. r.st = rows[d].st /\ r.attempts >= rows[d].attempts
      BY <1>0, <2>1 DEF Recorded, RowSet
    <2> QED
      BY <1>2, <2>2, <2>3
  <1>4. ASSUME NEW d \in Deliveries, Elapse(d)
        PROVE  /\ rows' \in [Deliveries -> RowSet]
               /\ \A c \in Deliveries : rows'[c].st = rows[c].st
                                        /\ rows'[c].attempts >= rows[c].attempts
    <2>1. PICK r \in RowSet : r = [rows[d] EXCEPT !.retry = "due"]
      BY <1>0 DEF RowSet
    <2>2. rows' = [rows EXCEPT ![d] = r]
      BY <1>4, <2>1 DEF Elapse
    <2>3. r.st = rows[d].st /\ r.attempts >= rows[d].attempts
      BY <1>0, <2>1 DEF RowSet
    <2> QED
      BY <1>2, <2>2, <2>3
  <1>5. ASSUME NEW d \in Deliveries,
               TestFire(d) \/ (Deliver(d) /\ hook[HookOf(d)].st # "deleted")
        PROVE  /\ rows' \in [Deliveries -> RowSet] /\ rows'[d].st = "row" /\ rows[d].st = "none"
               /\ \A c \in Deliveries : c # d => rows'[c] = rows[c]
    BY <1>5, Inserts DEF IInv, FreshInv, TestFire, Deliver
  <1>6. ASSUME NEW h \in Hooks, Delete(h)
        PROVE  /\ rows' \in [Deliveries -> RowSet]
               /\ \A c \in Deliveries : \/ rows'[c] = rows[c]
                                        \/ rows'[c].st = "gone" /\ rows[c].st = "row"
    BY <1>6, DeleteKeeps
  <1>7. \/ rows' = rows
        \/ \E d \in Deliveries, i \in Slots : Record(d, i)
        \/ \E d \in Deliveries : Elapse(d) \/ TestFire(d)
                                  \/ (Deliver(d) /\ hook[HookOf(d)].st # "deleted")
        \/ \E h \in Hooks : Delete(h)
    <2>1. ASSUME NEW t \in todo, TickFire(t) PROVE rows' = rows
      BY <2>1 DEF TickFire
    <2>2. ASSUME NEW d \in Deliveries, NEW i \in Slots,
                 Attempt(d, i) \/ Wake(d, i) \/ RecordFails(d, i)
          PROVE  rows' = rows
      BY <2>2 DEF Attempt, Wake, RecordFails
    <2>3. Crash => rows' = rows
      BY DEF Crash
    <2> QED
      BY <2>1, <2>2, <2>3, QuietSteps, NoInsert DEF Next, DriverStep
  <1>8. CASE \E d \in Deliveries, i \in Slots : Record(d, i)
    BY <1>0, <1>3, <1>8
  <1>9. CASE \E d \in Deliveries : Elapse(d)
    BY <1>0, <1>4, <1>9
  <1>10. CASE \E d \in Deliveries :
                TestFire(d) \/ (Deliver(d) /\ hook[HookOf(d)].st # "deleted")
    BY <1>0, <1>5, <1>10
  <1>11. CASE \E h \in Hooks : Delete(h)
    BY <1>0, <1>6, <1>11
  <1> QED
    BY <1>1, <1>7, <1>8, <1>9, <1>10, <1>11

\* The types of the drivers and of the history.
Tracked ==
    /\ driver \in [Deliveries -> [Slots -> DriverSet]]
    /\ fate \in [Deliveries -> SUBSET Fates]
    /\ posts \in [Deliveries -> Nat]

LEMMA TrackedNext ==
  ASSUME IInv, [Next]_vars
  PROVE  Tracked'
  <1>0. Typed /\ Tracked
    BY DEF IInv, Typed, Tracked
  <1>1. CASE UNCHANGED <<driver, posts, fate>>
    BY <1>0, <1>1 DEF Tracked
  <1>2. ASSUME NEW d \in Deliveries, NEW i \in Slots, Attempt(d, i) PROVE Tracked'
    BY <1>0, <1>2, AttemptWrites DEF Tracked
  <1>3. ASSUME NEW d \in Deliveries, NEW i \in Slots, Record(d, i) PROVE Tracked'
    BY <1>0, <1>3, RecordWrites DEF Record, Tracked
  <1>4. ASSUME NEW d \in Deliveries, NEW i \in Slots, RecordFails(d, i) PROVE Tracked'
    <2>1. driver' \in [Deliveries -> [Slots -> DriverSet]]
      BY <1>0, <1>4, RecordWrites DEF RecordFails
    <2>2. fate' \in [Deliveries -> SUBSET Fates]
      BY <1>0, <1>4, FateWrite DEF RecordFails, Fates
    <2> QED
      BY <1>0, <1>4, <2>1, <2>2 DEF RecordFails, Tracked
  <1>5. ASSUME NEW d \in Deliveries, NEW i \in Slots, Wake(d, i) PROVE Tracked'
    <2>0. driver[d][i] \in DriverSet
      BY <1>0 DEF Typed
    <2>1. PICK r \in DriverSet : r = [driver[d][i] EXCEPT !.pc = "send"]
      BY <2>0 DEF DriverSet
    <2>2. driver' = [driver EXCEPT ![d][i] = r]
      BY <1>5, <2>1 DEF Wake
    <2>3. driver' \in [Deliveries -> [Slots -> DriverSet]]
      BY <1>0, <2>2, DriverWrite
    <2> QED
      BY <1>0, <1>5, <2>3 DEF Wake, Tracked
  <1>6. ASSUME NEW d \in Deliveries,
               TestFire(d) \/ (Deliver(d) /\ hook[HookOf(d)].st # "deleted")
        PROVE  Tracked'
    BY <1>0, <1>6, Inserts DEF TestFire, Deliver, Tracked
  <1>7. ASSUME NEW t \in todo, TickFire(t) PROVE Tracked'
    BY <1>0, <1>7, TickFires DEF TickFire, Tracked
  <1>8. CASE Crash
    BY <1>0, <1>8, CrashKeeps DEF Crash, Tracked
  <1>9. ASSUME NEW d \in Deliveries, Elapse(d) PROVE Tracked'
    BY <1>1, <1>9 DEF Elapse
  <1>10. ASSUME NEW h \in Hooks, Delete(h) PROVE Tracked'
    BY <1>1, <1>10 DEF Delete
  <1> QED
    BY <1>1, <1>2, <1>3, <1>4, <1>5, <1>6, <1>7, <1>8, <1>9, <1>10, QuietSteps, NoInsert
    DEF Next, DriverStep

\* The two ways the channel changes.
LEMMA PushedFacts ==
  ASSUME Around, NEW e \in Events \cup {"noise"}, bus' = Pushed(e)
  PROVE  /\ bus' \in Seq(Events \cup {"noise"}) /\ Len(bus') <= BusCap
         /\ \E o \in {0, 1} :
              /\ Len(bus') = Len(bus) - o + 1 /\ Len(bus) >= o
              /\ \A i \in 1..(Len(bus) - o) : bus'[i] = bus[i + o]
              /\ bus'[Len(bus')] = e
  <1>0. bus \in Seq(Events \cup {"noise"}) /\ Len(bus) <= BusCap /\ BusCap \in Nat /\ BusCap >= 1
    BY WebhookAssumption DEF Around
  <1>1. CASE Len(bus) < BusCap
    <2>1. bus' = Append(bus, e)
      BY <1>1 DEF Pushed
    <2>2. /\ bus' \in Seq(Events \cup {"noise"}) /\ Len(bus') = Len(bus) + 1
          /\ bus'[Len(bus')] = e /\ \A i \in 1..Len(bus) : bus'[i] = bus[i]
      BY <1>0, <2>1
    <2> QED
      BY <1>0, <1>1, <2>2
  <1>2. CASE ~(Len(bus) < BusCap)
    <2>1. bus' = Append(Tail(bus), e)
      BY <1>2 DEF Pushed
    <2>2. bus # <<>> /\ Len(bus) = BusCap /\ Len(bus) >= 1
      BY <1>0, <1>2
    <2>3. PICK rest : rest = Tail(bus)
      OBVIOUS
    <2>4. /\ rest \in Seq(Events \cup {"noise"}) /\ Len(rest) = Len(bus) - 1
          /\ \A i \in 1..(Len(bus) - 1) : rest[i] = bus[i + 1]
      BY <1>0, <2>2, <2>3
    <2>5. /\ bus' \in Seq(Events \cup {"noise"}) /\ Len(bus') = Len(rest) + 1
          /\ bus'[Len(bus')] = e /\ \A i \in 1..Len(rest) : bus'[i] = rest[i]
      BY <2>1, <2>3, <2>4
    <2> QED
      BY <1>0, <2>2, <2>4, <2>5
  <1> QED
    BY <1>1, <1>2

LEMMA TailFacts ==
  ASSUME Around, bus # <<>>, bus' = Tail(bus)
  PROVE  /\ bus' \in Seq(Events \cup {"noise"}) /\ Len(bus') <= BusCap
         /\ Len(bus') = Len(bus) - 1 /\ Len(bus) >= 1 /\ Head(bus) = bus[1]
         /\ Head(bus) \in Events \cup {"noise"}
         /\ \A i \in 1..Len(bus') : bus'[i] = bus[i + 1]
  <1>0. bus \in Seq(Events \cup {"noise"}) /\ Len(bus) <= BusCap /\ BusCap \in Nat
    BY WebhookAssumption DEF Around
  <1> QED
    BY <1>0

\* The hooks that want it are hooks, and want events only.
LEMMA WantedFacts ==
  ASSUME Around, NEW e, NEW h \in Wanting(e)
  PROVE  e \in Events /\ h \in Hooks
  BY DEF Around, Wanting

HookSet == [st : {"enabled", "disabled", "deleted"}, mask : SUBSET Events]

LEMMA AroundNext ==
  ASSUME IInv, [Next]_vars
  PROVE  Around'
  <1>0. /\ Around /\ MaxFaults \in Nat /\ MaxCrashes \in Nat /\ MaxEdits \in Nat
        /\ faults \in 0..MaxFaults /\ crashes \in 0..MaxCrashes /\ edits \in 0..MaxEdits
    BY WebhookAssumption DEF IInv, Around
  <1>1. bus' \in Seq(Events \cup {"noise"}) /\ Len(bus') <= BusCap
    <2>1. CASE bus' = bus
      BY <1>0, <2>1 DEF Around
    <2>2. CASE \E e \in Events \cup {"noise"} : bus' = Pushed(e)
      BY <1>0, <2>2, PushedFacts
    <2>3. CASE bus # <<>> /\ bus' = Tail(bus)
      BY <1>0, <2>3, TailFacts
    <2>4. CASE bus' = <<>>
      BY <2>4, WebhookAssumption
    <2>5. \/ bus' = bus \/ bus' = <<>> \/ (bus # <<>> /\ bus' = Tail(bus))
          \/ \E e \in Events \cup {"noise"} : bus' = Pushed(e)
      BY DEF Next, DriverStep, Publish, PublishOther, FanOut, FanOutFails, Deliver, DeliverFails,
         Elapse, TestFire, Attempt, Record, RecordFails, Wake, TickRead, TickFire, TickFails,
         Update, Delete, Crash, vars
    <2> QED
      BY <2>1, <2>2, <2>3, <2>4, <2>5
  <1>2. heard' \subseteq Events
    BY <1>0 DEF Around, Next, DriverStep, Publish, PublishOther, FanOut, FanOutFails, Deliver,
       DeliverFails, Elapse, TestFire, Attempt, Record, RecordFails, Wake, TickRead, TickFire,
       TickFails, Update, Delete, Crash, vars, Deliveries
  <1>3. hook' \in [Hooks -> HookSet]
    <2>0. hook \in [Hooks -> HookSet]
      BY <1>0 DEF Around, HookSet
    <2>1. CASE hook' = hook
      BY <2>0, <2>1
    <2>2. ASSUME NEW h \in Hooks, NEW st \in {"enabled", "disabled"},
                 NEW mask \in SUBSET Events, Update(h, st, mask)
          PROVE  hook' \in [Hooks -> HookSet]
      BY <2>0, <2>2 DEF Update, HookSet
    <2>3. ASSUME NEW h \in Hooks, Delete(h) PROVE hook' \in [Hooks -> HookSet]
      BY <2>0, <2>3 DEF Delete, HookSet
    <2>4. \/ hook' = hook
          \/ \E h \in Hooks : Delete(h)
          \/ \E h \in Hooks, st \in {"enabled", "disabled"}, mask \in SUBSET Events :
               Update(h, st, mask)
      BY DEF Next, DriverStep, Publish, PublishOther, FanOut, FanOutFails, Deliver, DeliverFails,
         Elapse, TestFire, Attempt, Record, RecordFails, Wake, TickRead, TickFire, TickFails,
         Crash, vars
    <2> QED
      BY <2>1, <2>2, <2>3, <2>4
  <1>4. faults' \in 0..MaxFaults /\ crashes' \in 0..MaxCrashes /\ edits' \in 0..MaxEdits
    <2>1. /\ faults' = faults \/ (faults < MaxFaults /\ faults' = faults + 1)
          /\ crashes' = crashes \/ (crashes < MaxCrashes /\ crashes' = crashes + 1)
          /\ edits' = edits \/ (edits < MaxEdits /\ edits' = edits + 1)
      BY DEF Next, DriverStep, Publish, PublishOther, FanOut, FanOutFails, Deliver, DeliverFails,
         Elapse, TestFire, Attempt, Record, RecordFails, Wake, TickRead, TickFire, TickFails,
         Update, Delete, Crash, vars, budgets, Fault
    <2> QED
      BY <1>0, <2>1
  <1> QED
    BY <1>1, <1>2, <1>3, <1>4 DEF Around, HookSet

LEMMA TypedNext ==
  ASSUME IInv, [Next]_vars
  PROVE  Typed'
  <1>0. Typed /\ Around
    BY DEF IInv
  <1>1. spawned' \in SUBSET Deliveries
    <2>1. CASE FanOut
      <3>1. \A h \in Wanting(Head(bus)) : <<Head(bus), h>> \in Deliveries
        BY <1>0, WantedFacts DEF Deliveries
      <3>2. \A d \in spawned' : d \in spawned \/ \E h \in Wanting(Head(bus)) : d = <<Head(bus), h>>
        BY <2>1 DEF FanOut
      <3> QED
        BY <1>0, <3>1, <3>2 DEF Typed
    <2>2. FanOut \/ spawned' \subseteq spawned
      BY DEF Next, DriverStep, Publish, PublishOther, FanOutFails, Deliver, DeliverFails,
         Elapse, TestFire, Attempt, Record, RecordFails, Wake, TickRead, TickFire, TickFails,
         Update, Delete, Crash, vars
    <2> QED
      BY <1>0, <2>1, <2>2 DEF Typed
  <1>2. todo' \in SUBSET (Deliveries \X Nat)
    <2>1. CASE TickRead
      <3>1. \A d \in Deliveries : rows[d].attempts \in Nat
        BY <1>0 DEF Typed, RowSet
      <3>2. \A t \in todo' : \E d \in Deliveries : t = <<d, rows[d].attempts>>
        BY <2>1 DEF TickRead
      <3> QED
        BY <3>1, <3>2
    <2>2. TickRead \/ todo' \subseteq todo
      BY DEF Next, DriverStep, Publish, PublishOther, FanOut, FanOutFails, Deliver, DeliverFails,
         Elapse, TestFire, Attempt, Record, RecordFails, Wake, TickFire, TickFails,
         Update, Delete, Crash, vars
    <2> QED
      BY <1>0, <2>1, <2>2 DEF Typed
  <1> QED
    BY <1>1, <1>2, RowSteps, TrackedNext DEF Typed, Tracked

\* The tick sees rows as they are, and they only move on.
LEMMA TodoNext ==
  ASSUME IInv, [Next]_vars
  PROVE  TodoInv'
  <1>0. Typed /\ Typed'
    BY TypedNext DEF IInv
  <1>1. \A d \in Deliveries : rows[d].attempts \in Nat /\ rows'[d].attempts \in Nat
    BY <1>0 DEF Typed, RowSet
  <1> SUFFICES ASSUME NEW t \in todo'
               PROVE  /\ rows'[t[1]].st # "none"
                      /\ rows'[t[1]].st = "row" => t[2] <= rows'[t[1]].attempts
    BY DEF TodoInv
  <1>2. PICK d \in Deliveries, k \in Nat : t = <<d, k>>
    BY <1>0 DEF Typed
  <1>3. CASE TickRead
    <2>1. PICK c \in Deliveries : t = <<c, rows[c].attempts>> /\ Due(c)
      BY <1>3 DEF TickRead
    <2>2. rows' = rows
      BY <1>3 DEF TickRead
    <2> QED
      BY <1>1, <2>1, <2>2 DEF Due
  <1>4. CASE t \in todo
    <2>1. rows[d].st # "none" /\ (rows[d].st = "row" => k <= rows[d].attempts)
      BY <1>2, <1>4 DEF IInv, TodoInv
    <2>2. /\ rows'[d].st # "none"
          /\ rows'[d].st = "row" => rows[d].st = "row" /\ rows'[d].attempts >= rows[d].attempts
      BY <2>1, RowSteps
    <2> QED
      BY <1>1, <1>2, <2>1, <2>2
  <1>5. TickRead \/ todo' \subseteq todo
    BY DEF Next, DriverStep, Publish, PublishOther, FanOut, FanOutFails, Deliver, DeliverFails,
       Elapse, TestFire, Attempt, Record, RecordFails, Wake, TickFire, TickFails,
       Update, Delete, Crash, vars
  <1> QED
    BY <1>3, <1>4, <1>5

\* A delivery comes to the table once.
LEMMA FreshNext ==
  ASSUME IInv, [Next]_vars
  PROVE  FreshInv'
  <1>0. /\ Typed /\ Around /\ FreshInv /\ Len(bus) \in Nat
        /\ \A d \in Deliveries : d[1] \in Events
        /\ "noise" \notin Events
    BY WebhookAssumption DEF IInv, Around, Deliveries
  <1>a. ASSUME NEW d \in Deliveries, rows[d].st = "none", rows'[d].st # "none"
        PROVE  TestFire(d) \/ (Deliver(d) /\ hook[HookOf(d)].st # "deleted")
    BY <1>a, RowSteps
  <1>1. ASSUME NEW e \in Events \cup {"noise"}, bus' = Pushed(e), UNCHANGED <<spawned, rows>>,
               e # "noise" => e \notin heard, heard' = heard \cup ({e} \cap Events)
        PROVE  FreshInv'
    <2>1. PICK o \in {0, 1} :
            /\ Len(bus') = Len(bus) - o + 1 /\ Len(bus) >= o
            /\ \A i \in 1..(Len(bus) - o) : bus'[i] = bus[i + o]
            /\ bus'[Len(bus')] = e
      BY <1>0, <1>1, PushedFacts
    <2>2. \A i \in 1..Len(bus') : \/ i = Len(bus') /\ bus'[i] = e
                                  \/ /\ i + o \in 1..Len(bus) /\ i # Len(bus')
                                     /\ bus'[i] = bus[i + o]
      BY <1>0, <2>1
    <2>3. e # "noise" => e \in Events /\ e \notin heard /\ ~InBus(e)
      BY <1>0, <1>1 DEF FreshInv
    <2>4. \A i, j \in 1..Len(bus') : bus'[i] = bus'[j] /\ bus'[i] # "noise" => i = j
      <3> SUFFICES ASSUME NEW i \in 1..Len(bus'), NEW j \in 1..Len(bus'),
                          bus'[i] = bus'[j], bus'[i] # "noise"
                   PROVE  i = j
        OBVIOUS
      <3>1. CASE i = Len(bus') /\ j = Len(bus')
        BY <3>1
      <3>2. CASE i # Len(bus') /\ j # Len(bus')
        <4>1. /\ i + o \in 1..Len(bus) /\ j + o \in 1..Len(bus)
              /\ bus[i + o] = bus[j + o] /\ bus[i + o] # "noise"
          BY <2>2, <3>2
        <4>2. i + o = j + o
          BY <1>0, <4>1 DEF FreshInv
        <4> QED
          BY <1>0, <2>1, <4>2
      <3>3. CASE i = Len(bus') /\ j # Len(bus')
        <4>1. bus'[i] = e /\ j + o \in 1..Len(bus) /\ bus[j + o] = bus'[j]
          BY <2>1, <2>2, <3>3
        <4> QED
          BY <2>3, <4>1 DEF InBus
      <3>4. CASE i # Len(bus') /\ j = Len(bus')
        <4>1. bus'[j] = e /\ i + o \in 1..Len(bus) /\ bus[i + o] = bus'[i]
          BY <2>1, <2>2, <3>4
        <4> QED
          BY <2>3, <4>1 DEF InBus
      <3> QED
        BY <3>1, <3>2, <3>3, <3>4
    <2>5. ASSUME NEW x \in Events, InBus(x)' PROVE x = e \/ InBus(x)
      <3>1. PICK i \in 1..Len(bus') : bus'[i] = x
        BY <2>5 DEF InBus
      <3>2. x = e \/ (i + o \in 1..Len(bus) /\ bus[i + o] = x)
        BY <2>2, <3>1
      <3> QED
        BY <3>2 DEF InBus
    <2>6. heard \subseteq heard' /\ (e \in Events => e \in heard')
      BY <1>1
    <2>7. \A x \in Events : InBus(x)' => x \in heard'
      BY <1>0, <2>5, <2>6 DEF FreshInv
    <2>8. ASSUME NEW d \in Deliveries
          PROVE  /\ d[1] \notin heard' \/ d \in spawned' \/ InBus(d[1])' => rows'[d].st = "none"
                 /\ d \in spawned' => d[1] \in heard' /\ ~InBus(d[1])'
      <3>1. d[1] \in Events /\ d[1] # "noise"
        BY <1>0
      <3>2. rows' = rows /\ spawned' = spawned
        BY <1>1
      <3>3. d[1] = e => d[1] \notin heard
        BY <2>3, <3>1
      <3>4. InBus(d[1])' => d[1] = e \/ InBus(d[1])
        BY <2>5, <3>1
      <3> QED
        BY <1>0, <2>6, <3>2, <3>3, <3>4 DEF FreshInv
    <2> QED
      BY <2>4, <2>7, <2>8 DEF FreshInv
  <1>2. ASSUME bus # <<>>, bus' = Tail(bus), UNCHANGED <<heard, rows>>,
               \A d \in spawned' : d \in spawned \/ d[1] = Head(bus)
        PROVE  FreshInv'
    <2>1. /\ Len(bus') = Len(bus) - 1 /\ Len(bus) >= 1 /\ Head(bus) = bus[1]
          /\ \A i \in 1..Len(bus') : bus'[i] = bus[i + 1]
      BY <1>0, <1>2, TailFacts
    <2>2. \A i, j \in 1..Len(bus') : bus'[i] = bus'[j] /\ bus'[i] # "noise" => i = j
      <3> SUFFICES ASSUME NEW i \in 1..Len(bus'), NEW j \in 1..Len(bus'),
                          bus'[i] = bus'[j], bus'[i] # "noise"
                   PROVE  i = j
        OBVIOUS
      <3>1. /\ i + 1 \in 1..Len(bus) /\ j + 1 \in 1..Len(bus)
            /\ bus[i + 1] = bus[j + 1] /\ bus[i + 1] # "noise"
        BY <1>0, <2>1
      <3>2. i + 1 = j + 1
        BY <1>0, <3>1 DEF FreshInv
      <3> QED
        BY <1>0, <2>1, <3>2
    <2>3. ASSUME NEW x \in Events, InBus(x)' PROVE InBus(x) /\ x # Head(bus)
      <3>1. PICK i \in 1..Len(bus') : bus'[i] = x
        BY <2>3 DEF InBus
      <3>2. i + 1 \in 1..Len(bus) /\ bus[i + 1] = x /\ 1 \in 1..Len(bus) /\ i + 1 # 1
        BY <1>0, <2>1, <3>1
      <3>3. x # "noise"
        BY <1>0
      <3>4. bus[1] # x
        BY <1>0, <3>2, <3>3 DEF FreshInv
      <3> QED
        BY <2>1, <3>2, <3>4 DEF InBus
    <2>4. \A d \in Deliveries : d[1] = Head(bus) => InBus(d[1])
      BY <1>0, <2>1 DEF InBus
    <2>5. ASSUME NEW d \in Deliveries
          PROVE  /\ d[1] \notin heard' \/ d \in spawned' \/ InBus(d[1])' => rows'[d].st = "none"
                 /\ d \in spawned' => d[1] \in heard' /\ ~InBus(d[1])'
      <3>1. d \in spawned' => d \in spawned \/ (d[1] = Head(bus) /\ InBus(d[1]))
        BY <1>2, <2>4
      <3>2. InBus(d[1])' => InBus(d[1]) /\ d[1] # Head(bus)
        BY <1>0, <2>3
      <3> QED
        BY <1>0, <1>2, <3>1, <3>2 DEF FreshInv
    <2>6. \A x \in Events : InBus(x)' => x \in heard'
      BY <1>0, <1>2, <2>3 DEF FreshInv
    <2> QED
      BY <2>2, <2>5, <2>6 DEF FreshInv
  <1>3. ASSUME bus' = <<>>, spawned' = {}, UNCHANGED <<heard, rows>> PROVE FreshInv'
    <2>1. Len(bus') = 0
      BY <1>3
    <2>2. \A x : ~InBus(x)'
      BY <2>1 DEF InBus
    <2> QED
      BY <1>0, <1>3, <2>1, <2>2 DEF FreshInv
  <1>4. ASSUME UNCHANGED <<bus, heard, spawned>>,
               \A d \in Deliveries : ~TestFire(d) /\ ~Deliver(d)
        PROVE  FreshInv'
    <2>1. \A d \in Deliveries : rows[d].st = "none" => rows'[d].st = "none"
      BY <1>4, <1>a
    <2> QED
      BY <1>0, <1>4, <2>1 DEF FreshInv, InBus
  <1>5. ASSUME NEW d \in Deliveries, TestFire(d) PROVE FreshInv'
    <2>1. /\ d[1] \notin heard /\ heard' = heard \cup {d[1]} /\ UNCHANGED <<bus, spawned>>
          /\ \A c \in Deliveries : c # d => rows'[c] = rows[c]
      BY <1>5, Inserts DEF TestFire
    <2>2. \A x : InBus(x)' <=> InBus(x)
      BY <2>1 DEF InBus
    <2>3. d \notin spawned /\ ~InBus(d[1])
      BY <1>0, <2>1 DEF FreshInv
    <2> QED
      BY <1>0, <2>1, <2>2, <2>3 DEF FreshInv
  <1>6. ASSUME NEW d \in Deliveries, Deliver(d) \/ DeliverFails(d) PROVE FreshInv'
    <2>1. /\ d \in spawned /\ spawned' = spawned \ {d} /\ UNCHANGED <<bus, heard>>
          /\ \A c \in Deliveries : c # d => rows'[c] = rows[c]
      BY <1>6, Inserts, NoInsert DEF Deliver, DeliverFails
    <2>2. \A x : InBus(x)' <=> InBus(x)
      BY <2>1 DEF InBus
    <2> QED
      BY <1>0, <2>1, <2>2 DEF FreshInv
  <1> QED
    <2>1. CASE PublishOther \/ \E e \in Events : Publish(e)
      BY <1>0, <1>1, <2>1 DEF Publish, PublishOther
    <2>2. CASE FanOut \/ FanOutFails
      BY <1>2, <2>2 DEF FanOut, FanOutFails
    <2>3. CASE Crash
      BY <1>3, <2>3 DEF Crash
    <2>4. CASE \E d \in Deliveries : TestFire(d) \/ Deliver(d) \/ DeliverFails(d)
      BY <1>5, <1>6, <2>4
    <2>5. \/ PublishOther \/ \E e \in Events : Publish(e)
          \/ FanOut \/ FanOutFails \/ Crash
          \/ \E d \in Deliveries : TestFire(d) \/ Deliver(d) \/ DeliverFails(d)
          \/ UNCHANGED <<bus, heard, spawned>>
      BY DEF Next, DriverStep, Elapse, Attempt, Record, RecordFails, Wake, TickRead,
         TickFire, TickFails, Update, Delete, vars
    <2> QED
      BY <1>4, <2>1, <2>2, <2>3, <2>4, <2>5

-----------------------------------------------------------------------------
(* The invariant and the theorems.                                         *)

LEMMA InitInv ==
  ASSUME Init
  PROVE  IInv
  <1>1. NoRow \in RowSet /\ Idle \in DriverSet
    BY Constants DEF NoRow, RowSet, Idle, DriverSet
  <1>2. /\ rows = [d \in Deliveries |-> NoRow]
        /\ driver = [d \in Deliveries |-> [i \in Slots |-> Idle]]
        /\ posts = [d \in Deliveries |-> 0] /\ fate = [d \in Deliveries |-> {}]
        /\ todo = {} /\ spawned = {} /\ bus = <<>> /\ heard = {}
    BY DEF Init
  <1>3. Typed
    BY <1>1, <1>2 DEF Typed
  <1>4. Around
    BY <1>2, WebhookAssumption DEF Around, Init
  <1>5. FreshInv
    <2>1. \A d \in Deliveries : rows[d].st = "none"
      BY <1>2 DEF NoRow
    <2>2. Len(bus) = 0
      BY <1>2
    <2> QED
      BY <1>2, <2>1, <2>2 DEF FreshInv, InBus
  <1>6. TodoInv
    BY <1>2 DEF TodoInv
  <1>7. ASSUME NEW d \in Deliveries PROVE DInv(d)
    <2>1. /\ rows[d].st = "none" /\ rows[d].attempts = 0 /\ rows[d].retry = "null"
          /\ ~rows[d].delivered /\ posts[d] = 0 /\ fate[d] = {}
          /\ \A i \in Slots : driver[d][i].pc = "idle"
      BY <1>2 DEF NoRow, Idle
    <2>2. Shape(d) /\ Truth(d) /\ Resumable(d)
      BY <2>1 DEF Shape, Truth, Resumable, Working
    <2>3. InStep(d)
      BY <2>1, Constants DEF InStep, Working
    <2> QED
      BY <2>2, <2>3 DEF DInv
  <1> QED
    BY <1>3, <1>4, <1>5, <1>6, <1>7 DEF IInv

LEMMA NextInv ==
  ASSUME IInv, [Next]_vars
  PROVE  IInv'
  <1>1. Typed' /\ Around'
    BY TypedNext, AroundNext
  <1>2. FreshInv' /\ TodoInv'
    BY FreshNext, TodoNext
  <1>3. (\A d \in Deliveries : DInv(d))'
    BY DeliveriesKept
  <1> QED
    BY <1>1, <1>2, <1>3 DEF IInv

LEMMA Invariant == Spec => []IInv
  <1>1. Init => IInv
    BY InitInv
  <1>2. IInv /\ [Next]_vars => IInv'
    BY NextInv
  <1> QED
    BY <1>1, <1>2, PTL DEF Spec

\* A delivery the log shows as delivered was confirmed by the receiver, and a
\* confirmed one is shown so unless its record was lost, is still to come, or
\* went with the hook: through races of the tick with live drivers, failed
\* statements, restarts and edits (webhooks.rs, record_webhook_attempt).
THEOREM LogIsTrueCorrect == Spec => []LogIsTrue
  <1>1. IInv => LogIsTrue
    <2> SUFFICES ASSUME IInv PROVE LogIsTrue
      OBVIOUS
    <2>1. WebhookTypeOK
      BY TypesSplit DEF IInv
    <2>2. ASSUME NEW d \in Deliveries
          PROVE  /\ rows[d].delivered => "ok" \in fate[d]
                 /\ "ok" \in fate[d] /\ rows[d].st = "row" =>
                      \/ rows[d].delivered \/ "lost" \in fate[d]
                      \/ \E i \in Slots : driver[d][i].pc = "ok"
      BY DEF IInv, DInv, Truth
    <2>3. ASSUME NEW d \in Deliveries
          PROVE  ~Blurred(d) /\ rows[d].retry # "null" => rows[d].attempts < MaxAttempts
      BY DEF IInv, DInv, InStep
    <2> QED
      BY <2>1, <2>2, <2>3 DEF LogIsTrue
  <1> QED
    BY <1>1, Invariant, PTL

\* At most MAX_ATTEMPTS requests for a delivery, none after the receiver
\* confirmed it, as long as no tick raced a driver and no record was lost: the
\* counter of deliver_with_retries and the column retry_pending resumes from
\* stay in step over every hand-over from a dead driver to the tick.
THEOREM NoExtraPostsCorrect == Spec => []NoExtraPosts
  <1>1. IInv => NoExtraPosts
    BY DEF IInv, DInv, InStep, NoExtraPosts
  <1> QED
    BY <1>1, Invariant, PTL

\* A delivery nobody works on, neither delivered nor out of attempts, has a
\* next_retry_at, unless it was refused, a record was lost, or the process died
\* before its first attempt was recorded (webhooks.rs:114).
THEOREM NoDeliveryForgottenCorrect == Spec => []NoDeliveryForgotten
  <1>1. IInv => NoDeliveryForgotten
    <2> SUFFICES ASSUME IInv, NEW d \in Deliveries,
                        rows[d].st = "row", Live(d) = {}, rows[d].retry = "null",
                        ~rows[d].delivered, rows[d].attempts < MaxAttempts, ~rows[d].test,
                        fate[d] \cap {"refused", "lost"} = {}
                 PROVE  rows[d].attempts = 0 /\ "cut" \in fate[d]
      BY DEF NoDeliveryForgotten
    <2>1. \A i \in Slots : ~Working(d, i)
      BY DEF Live, Working
    <2>2. rows[d].attempts \in Nat
      BY DEF IInv, Typed, RowSet
    <2>3. "lost" \notin fate[d] /\ "refused" \notin fate[d]
      OBVIOUS
    <2>4. rows[d].attempts \notin 1..(MaxAttempts - 1)
      BY <2>3 DEF IInv, DInv, Resumable
    <2>5. rows[d].attempts = 0
      BY <2>2, <2>4, Constants
    <2> QED
      BY <2>1, <2>3, <2>5 DEF IInv, DInv, Resumable
  <1> QED
    BY <1>1, Invariant, PTL
=============================================================================
