----------------------------- MODULE Transcode -----------------------------
(***************************************************************************)
(* Transcode sessions: the registry of transcoder/src/session.rs, the      *)
(* handlers of server/src/api/stream.rs that create, adopt, pause, resume, *)
(* serve and delete them, the idle reaper, and the two tasks that watch an *)
(* ffmpeg process.                                                         *)
(*                                                                         *)
(* A Session is shared by reference count: the registry owns one           *)
(* reference, a handler at work on it another, and the process is killed   *)
(* when the last one is dropped.  The handlers run on several threads, so  *)
(* every operation on an atomic, a lock or the process is a step.          *)
(***************************************************************************)
EXTENDS Naturals, Sequences, FiniteSets

CONSTANTS
    Users,
    Tabs,           \* of one user, each with one request at a time
    Titles,         \* what a request asks for: file, tracks and quality
    Mismatched,     \* titles copied from a source of 720 lines or more
    MaxSessions,    \* bound: sessions started
    MaxConcurrent,  \* transcoder_max_concurrent
    MaxCpu,         \* transcoder_max_cpu_concurrent; no hardware encoder here
    RemoteCap       \* max_remote_streams_per_user, 0 for no cap; every client
                    \* is remote

ASSUME TranscodeAssumption ==
    /\ Mismatched \subseteq Titles
    /\ Users # {} /\ Titles # {}
    /\ MaxSessions \in Nat
    /\ MaxConcurrent \in Nat /\ MaxCpu \in Nat /\ RemoteCap \in Nat

VARIABLES
    sess,     \* sid |-> [st, user, title, paused, recent] of the session, and
              \* raced: its flag and its signals may have got out of order
    enc,      \* sid |-> the ffmpeg process and what is known of it
    gate,     \* the start gate: its holder, then those who wait
    call,     \* client |-> [at, sid, title] of its request
    reaper,   \* [todo, cur, got] of the running reap_idle
    stops,    \* sid |-> [due, kept]: tasks on their way to record its stop, and
              \* stop events on the record
    cut       \* history: sessions whose stop was lost, by a DELETE dropped half
              \* way or a write that failed

vars == <<sess, enc, gate, call, reaper, stops, cut>>

NoSid == 0

Clients   == Users \X Tabs
UserOf(c) == c[1]
Sids      == 1..MaxSessions

\* A zombie has ended and not been waited for.  A dead one has, and is marked
\* exited by who waited for it.
Procs == {"none", "running", "stopped", "zombie", "dead"}

\* What one user may have open: without a cap of his own, as much as there is.
EachCap == IF RemoteCap = 0 THEN MaxConcurrent ELSE RemoteCap

Places == {"idle",
           "gate", "find", "adopt", "cont", "touch", "caps", "start",  \* create
           "stop", "go",                                       \* pause, resume
           "serve",                                     \* playlists, segments
           "remove", "rmdir"}                                        \* delete

Idle == [at |-> "idle", sid |-> NoSid, title |-> "none"]

TypeOK ==
    /\ sess \in [Sids -> [st : {"free", "live", "gone"}, user : Users,
                          title : Titles, paused : BOOLEAN, recent : BOOLEAN,
                          raced : BOOLEAN]]
    /\ enc \in [Sids -> [proc : Procs, drained : BOOLEAN]]
    /\ gate \in Seq(Clients)
    /\ call \in [Clients -> [at : Places, sid : Sids \cup {NoSid},
                             title : Titles \cup {"none"}]]
    /\ reaper \in [todo : SUBSET Sids, cur : Sids \cup {NoSid}, got : SUBSET Sids]
    /\ stops \in [Sids -> [due : Nat, kept : Nat]]
    /\ cut \subseteq Sids

Init ==
    /\ sess \in [Sids -> [st : {"free"}, user : {CHOOSE u \in Users : TRUE},
                          title : {CHOOSE t \in Titles : TRUE},
                          paused : {FALSE}, recent : {FALSE}, raced : {FALSE}]]
    /\ enc = [s \in Sids |-> [proc |-> "none", drained |-> FALSE]]
    /\ gate = <<>>
    /\ call = [c \in Clients |-> Idle]
    /\ reaper = [todo |-> {}, cur |-> NoSid, got |-> {}]
    /\ stops = [s \in Sids |-> [due |-> 0, kept |-> 0]]
    /\ cut = {}

-----------------------------------------------------------------------------
(* The registry, the references and the process.                           *)

Live == {s \in Sids : sess[s].st = "live"}

Mine(c) == {s \in Live : sess[s].user = UserOf(c)}

\* The handlers that hold a reference.  DELETE drops its own before it removes.
Holding == {"adopt", "cont", "touch", "stop", "go", "serve"}

\* Between the swap of the flag and the signal.
Signalling(s) == {c \in Clients : call[c].sid = s /\ call[c].at \in {"cont", "stop", "go"}}

\* kill_on_drop, and tokio waits for the orphan.  What the two tasks find out
\* from then on nobody reads.
Dropped(e, live, calls) ==
    [s \in Sids |->
        IF live[s].st = "gone" /\ ~ \E c \in Clients : calls[c].sid = s /\ calls[c].at \in Holding
        THEN [proc |-> "dead", drained |-> TRUE] ELSE e[s]]

\* The call goes on at `at`, with the registry and the processes as given.
Proceed(c, at, live, e) ==
    /\ call' = [call EXCEPT ![c] = IF at = "idle" THEN Idle ELSE [@ EXCEPT !.at = at]]
    /\ sess' = live
    /\ enc' = Dropped(e, live, call')

\* last_seen is read as long as the session is in the map.
Touched(s) == [sess EXCEPT ![s].recent = s \in Live]

\* Out of the map, nobody but an adoption under way reads the flag again.
Taken(s) ==
    LET read == \E c \in Clients : call[c].sid = s /\ call[c].at = "adopt"
    IN  [sess EXCEPT ![s].st = "gone", ![s].recent = FALSE, ![s].raced = FALSE,
                     ![s].paused = @ /\ read]

Signal(s, from, to) == IF enc[s].proc = from THEN [enc EXCEPT ![s].proc = to] ELSE enc

-----------------------------------------------------------------------------
(* POST /sessions, under the start gate.                                    *)

\* Mutant: the gate is let go before the encoder is spawned.
HoldsGateNot(c) == TRUE

\* tokio's mutex is handed on in the order of arrival.
HoldsGate(c) == gate # <<>> /\ Head(gate) = c

\* The queue of the gate without c, wherever c stood in it.
Without(c) ==
    LET places == {i \in DOMAIN gate : gate[i] = c}
        before == CHOOSE i \in places : TRUE
    IN  IF places = {} THEN gate
        ELSE [i \in 1..(Len(gate) - 1) |-> gate[IF i < before THEN i ELSE i + 1]]

\* Mutant: an early return forgets the gate.
AnswerKeepingGate(c, live, e) == Proceed(c, "idle", live, e) /\ UNCHANGED gate

\* Every return drops the guard.
Answer(c, live, e) ==
    /\ Proceed(c, "idle", live, e)
    /\ gate' = Without(c)

Create(c, t) ==
    /\ call[c].at = "idle"
    /\ call' = [call EXCEPT ![c] = [at |-> "gate", sid |-> NoSid, title |-> t]]
    /\ gate' = Append(gate, c)
    /\ UNCHANGED <<sess, enc, reaper, stops, cut>>

\* The software cap comes before the look for a session to adopt.
CheckCpu(c) ==
    /\ call[c].at = "gate" /\ HoldsGate(c)
    /\ IF Cardinality(Live) >= MaxCpu
       THEN Answer(c, sess, enc)
       ELSE Proceed(c, "find", sess, enc) /\ UNCHANGED gate
    /\ UNCHANGED <<reaper, stops, cut>>

\* find_compatible: a copied stream is registered without the fallback variant
\* that the lookup asks for, and never found.
Compatible(c) == {s \in Mine(c) : sess[s].title = call[c].title /\ sess[s].title \notin Mismatched}

\* The position asked for may be out of a session's reach.
Find(c) ==
    /\ call[c].at = "find"
    /\ \/ \E s \in Compatible(c) :
             call' = [call EXCEPT ![c].at = "adopt", ![c].sid = s]
       \/ call' = [call EXCEPT ![c].at = "caps"]
    /\ UNCHANGED <<sess, enc, gate, reaper, stops, cut>>

\* pause() and resume() swap the flag first; the caller that changed it sends
\* the signal, in a step of its own.
Swap(c, s, paused, at) ==
    /\ call' = [call EXCEPT ![c].at = at, ![c].sid = s]
    /\ sess' = [sess EXCEPT ![s].paused = paused,
                            ![s].raced = s \in Live /\ Signalling(s) # {}]
    /\ UNCHANGED <<enc, gate, reaper, stops, cut>>

\* Adoption resumes a session the previous client left paused.
AdoptSwap(c) == call[c].at = "adopt" /\ sess[call[c].sid].paused /\ Swap(c, call[c].sid, FALSE, "cont")

\* Mutant: the adopted session is marked as running, its encoder is not told.
AdoptSilently(c) ==
    /\ call[c].at = "cont"
    /\ Proceed(c, "touch", Touched(call[c].sid), enc)
    /\ UNCHANGED <<gate, reaper, stops, cut>>

AdoptCont(c) ==
    /\ call[c].at = "cont"
    /\ LET s == call[c].sid IN Proceed(c, "touch", Touched(s), Signal(s, "stopped", "running"))
    /\ UNCHANGED <<gate, reaper, stops, cut>>

AdoptTouch(c) ==
    /\ call[c].at = "touch" \/ (call[c].at = "adopt" /\ ~sess[call[c].sid].paused)
    /\ Answer(c, Touched(call[c].sid), enc)
    /\ UNCHANGED <<reaper, stops, cut>>

\* Nothing to adopt: the caps, counted over the registry.
CheckCaps(c) ==
    /\ call[c].at = "caps"
    /\ IF \/ Cardinality(Live) >= MaxConcurrent
          \/ (RemoteCap > 0 /\ Cardinality(Mine(c)) >= RemoteCap)
       THEN Answer(c, sess, enc)
       ELSE Proceed(c, "start", sess, enc) /\ UNCHANGED gate
    /\ UNCHANGED <<reaper, stops, cut>>

\* From the spawn of ffmpeg to the insert and the answer nothing awaits.
Start(c) ==
    /\ call[c].at = "start"
    /\ \E s \in Sids :
          /\ sess[s].st = "free" /\ \A r \in Sids : sess[r].st = "free" => s <= r
          /\ Answer(c, [sess EXCEPT ![s] = [st |-> "live", user |-> UserOf(c),
                            title |-> call[c].title, paused |-> FALSE, recent |-> TRUE, raced |-> FALSE]],
                    [enc EXCEPT ![s].proc = "running"])
    /\ UNCHANGED <<reaper, stops, cut>>

\* A probe, the directory or the spawn fails, require_hw refuses the encoder.
StartFails(c) ==
    /\ call[c].at \in {"gate", "start"} /\ HoldsGate(c)
    /\ Answer(c, sess, enc)
    /\ UNCHANGED <<reaper, stops, cut>>

-----------------------------------------------------------------------------
(* Requests about a session of one's own.                                   *)

Pause(c, s) ==
    /\ call[c].at = "idle" /\ s \in Mine(c)
    /\ ~sess[s].paused
    /\ Swap(c, s, TRUE, "stop")

PauseSignal(c) ==
    /\ call[c].at = "stop"
    /\ Proceed(c, "idle", sess, Signal(call[c].sid, "running", "stopped"))
    /\ UNCHANGED <<gate, reaper, stops, cut>>

\* A session whose flag is down is not touched either.
Resume(c, s) ==
    /\ call[c].at = "idle" /\ s \in Mine(c)
    /\ sess[s].paused
    /\ Swap(c, s, FALSE, "go")

ResumeSignal(c) ==
    /\ call[c].at = "go"
    /\ LET s == call[c].sid IN Proceed(c, "idle", Touched(s), Signal(s, "stopped", "running"))
    /\ UNCHANGED <<gate, reaper, stops, cut>>

\* master_playlist and variant_file touch, then wait for the file.
Fetch(c, s) ==
    /\ call[c].at = "idle" /\ s \in Mine(c)
    /\ call' = [call EXCEPT ![c].at = "serve", ![c].sid = s]
    /\ sess' = Touched(s)
    /\ UNCHANGED <<enc, gate, reaper, stops, cut>>

Served(c) ==
    /\ call[c].at = "serve"
    /\ Proceed(c, "idle", sess, enc)
    /\ UNCHANGED <<gate, reaper, stops, cut>>

Delete(c, s) ==
    /\ call[c].at = "idle" /\ s \in Mine(c)
    /\ call' = [call EXCEPT ![c].at = "remove", ![c].sid = s]
    /\ UNCHANGED <<sess, enc, gate, reaper, stops, cut>>

\* Mutant: whoever deletes goes on, removed or not.
RemovesAny(s) == TRUE

\* delete_returning goes on only with the session it took out of the map.
Removes(s) == s \in Live

Remove(c) ==
    /\ call[c].at = "remove"
    /\ LET s == call[c].sid
       IN  Proceed(c, IF Removes(s) THEN "rmdir" ELSE "idle", Taken(s), enc)
    /\ UNCHANGED <<gate, reaper, stops, cut>>

\* A task is spawned for each, and not waited for.
Emit(gone) ==
    stops' = [s \in Sids |-> IF s \in gone THEN [stops[s] EXCEPT !.due = @ + 1] ELSE stops[s]]

Rmdir(c) ==
    /\ call[c].at = "rmdir"
    /\ Emit({call[c].sid})
    /\ Proceed(c, "idle", sess, enc)
    /\ UNCHANGED <<gate, reaper, cut>>

\* The client goes away: its handler is dropped at the await it is in.
Drop(c) ==
    /\ call[c].at \in {"gate", "caps", "start", "serve", "rmdir"}
    /\ cut' = IF call[c].at = "rmdir" THEN cut \cup {call[c].sid} ELSE cut
    /\ Answer(c, sess, enc)
    /\ UNCHANGED <<reaper, stops>>

-----------------------------------------------------------------------------
(* The stop event.                                                          *)

\* The INSERT of the task; when it fails a warning is all that is left.
RecordStop(s) ==
    /\ stops[s].due > 0
    /\ \/ /\ stops' = [stops EXCEPT ![s] = [due |-> @.due - 1, kept |-> @.kept + 1]]
          /\ UNCHANGED cut
       \/ /\ stops' = [stops EXCEPT ![s].due = @ - 1]
          /\ cut' = cut \cup {s}
    /\ UNCHANGED <<sess, enc, gate, call, reaper>>

-----------------------------------------------------------------------------
(* The idle reaper.                                                         *)

Age(s) ==
    /\ s \in Live /\ sess[s].recent
    /\ sess' = [sess EXCEPT ![s].recent = FALSE]
    /\ UNCHANGED <<enc, gate, call, reaper, stops, cut>>

\* Mutant: paused sessions are left alone, as they used to be.
StaleRunning == {s \in Live : ~sess[s].recent /\ ~sess[s].paused}

Stale == {s \in Live : ~sess[s].recent}

ReapList ==
    /\ reaper = [todo |-> {}, cur |-> NoSid, got |-> {}]
    /\ Stale # {}
    /\ reaper' = [reaper EXCEPT !.todo = Stale]
    /\ UNCHANGED <<sess, enc, gate, call, stops, cut>>

\* Listed is deleted, touched in the meantime or not.
ReapRemove(s) ==
    /\ s \in reaper.todo /\ reaper.cur = NoSid
    /\ reaper' = [reaper EXCEPT !.todo = @ \ {s}, !.cur = IF Removes(s) THEN s ELSE NoSid]
    /\ sess' = Taken(s)
    /\ enc' = Dropped(enc, sess', call)
    /\ UNCHANGED <<gate, call, stops, cut>>

ReapRmdir ==
    /\ reaper.cur # NoSid
    /\ reaper' = [reaper EXCEPT !.cur = NoSid, !.got = @ \cup {reaper.cur}]
    /\ UNCHANGED <<sess, enc, gate, call, stops, cut>>

\* The hook is called for each when the whole list is done.
ReapHook ==
    /\ reaper.todo = {} /\ reaper.cur = NoSid /\ reaper.got # {}
    /\ Emit(reaper.got)
    /\ reaper' = [reaper EXCEPT !.got = {}]
    /\ UNCHANGED <<sess, enc, gate, call, cut>>

-----------------------------------------------------------------------------
(* ffmpeg, and the task that reads its stderr.                              *)

Exit(s) ==
    /\ enc[s].proc = "running"
    /\ enc' = [enc EXCEPT ![s].proc = "zombie"]
    /\ UNCHANGED <<sess, gate, call, reaper, stops, cut>>

\* End of stderr.  A process closes its files before it can be waited for, so
\* waitpid(WNOHANG) reaps it or finds it still running.  kill(pid, 0) of the
\* heartbeat finds a zombie alive.
Drain(s) ==
    /\ ~enc[s].drained /\ enc[s].proc = "zombie"
    /\ \/ enc' = [enc EXCEPT ![s] = [proc |-> "dead", drained |-> TRUE]]
       \/ enc' = [enc EXCEPT ![s].drained = TRUE]
    /\ UNCHANGED <<sess, gate, call, reaper, stops, cut>>

-----------------------------------------------------------------------------
Step(c) ==
    \/ CheckCpu(c) \/ Find(c) \/ AdoptSwap(c) \/ AdoptCont(c)
    \/ AdoptTouch(c) \/ CheckCaps(c) \/ Start(c) \/ StartFails(c)
    \/ PauseSignal(c) \/ ResumeSignal(c) \/ Served(c) \/ Remove(c) \/ Rmdir(c)

Reap == ReapList \/ (\E s \in Sids : ReapRemove(s)) \/ ReapRmdir \/ ReapHook

Next ==
    \/ \E c \in Clients, t \in Titles : Create(c, t)
    \/ \E c \in Clients, s \in Sids : Pause(c, s) \/ Resume(c, s) \/ Fetch(c, s) \/ Delete(c, s)
    \/ \E c \in Clients : Step(c) \/ Drop(c)
    \/ \E s \in Sids : RecordStop(s) \/ Age(s) \/ Exit(s) \/ Drain(s)
    \/ Reap

Spec == Init /\ [][Next]_vars

\* tokio runs every handler, the reaper ticks for ever; nobody has to ask for
\* anything, to stay or to grow old, and no encoder has to end.
FairSpec ==
    /\ Spec
    /\ \A c \in Clients : WF_vars(Step(c))
    /\ WF_vars(Reap)

-----------------------------------------------------------------------------
(* Properties.                                                              *)

\* A session that ended is on the record once, whether a DELETE, the reaper or
\* both at a time ended it, unless a DELETE is dropped while it removes the
\* directory or the write of the event fails, which only a warning tells of
\* (stream.rs:1294-1306, main.rs:514-526, 987-993).
OneStopPerSession ==
    /\ TypeOK
    /\ \A s \in Sids :
          LET onTheWay == \/ s = reaper.cur \/ s \in reaper.got
                          \/ \E c \in Clients : call[c].at = "rmdir" /\ call[c].sid = s
                          \/ stops[s].due > 0
          IN  /\ stops[s].kept <= 1
              /\ stops[s].kept = 1 => sess[s].st = "gone" /\ ~onTheWay /\ s \notin cut
              /\ sess[s].st = "gone" => (stops[s].kept = 1 \/ onTheWay \/ s \in cut)

\* Where a session is in its life, for whom it matters that it ran.
Phase == [s \in Sids |->
    CASE sess[s].st = "free" -> "none"
      [] sess[s].st = "live" -> "open"
      [] OTHER -> IF stops[s].kept > 0 \/ s \in cut THEN "closed" ELSE "ended"]

Contract == INSTANCE SessionContract WITH
    Owners <- Users, Sessions <- Sids, Room <- MaxConcurrent, RoomEach <- EachCap,
    phase <- Phase, owner <- [s \in Sids |-> sess[s].user], 
    reports <- [s \in Sids |-> stops[s].kept]

\* Every behaviour of handlers, reaper and gate is one of SessionContract: a
\* session is inserted at a moment when both caps have room, never comes back
\* nor changes hands, leaves the map once, and what left it goes on the record
\* once or is given up for good (session.rs:1362-1379, main.rs:987-993).
KeepsContract == Contract!Promise

\* Unless pause and resume ran into each other since, the flag tells whether
\* the encoder is stopped, however often and by whom they are called.
FlagTellsStopped ==
    \A s \in Live :
        Signalling(s) = {} /\ ~sess[s].raced =>
            /\ sess[s].paused => enc[s].proc # "running"
            /\ ~sess[s].paused => enc[s].proc # "stopped"

\* The text at the flag: set true while the ffmpeg child is stopped
\* (session.rs:452).
StoppedMeansPaused ==
    \A s \in Live : enc[s].proc = "stopped" /\ Signalling(s) = {} => sess[s].paused

\* What the text at the flag says it is for: "Used by the keepalive reaper to
\* avoid killing a session that's intentionally suspended" (session.rs:453-454).
\* Not true of the code: reap_idle does not read it, and says why in its own
\* text (session.rs:1373-1382).
SuspendedSpared ==
    [][\A s \in Sids : ReapRemove(s) => s \notin Live \/ ~sess[s].paused]_vars

\* Once a session is silent for the threshold it is touched again or its
\* encoder dies, paused or not and whoever still holds a reference: what
\* reap_idle's text promises (session.rs:1373-1382), against SuspendedSpared.
EncodersReleased == \A s \in Sids : (s \in Live /\ ~sess[s].recent) ~> (sess[s].recent \/ enc[s].proc = "dead")

\* Every request is answered: nobody waits for the start gate for ever.
CallsReturn == \A c \in Clients : call[c].at # "idle" ~> call[c].at = "idle"
=============================================================================
