------------------------------- MODULE Trakt -------------------------------
(***************************************************************************)
(* One user's link with Trakt: the token pair that every call goes through *)
(* (with_user_client, server/src/trakt_sync.rs), the pull job that copies  *)
(* plays into the local mirror user_trakt_history, the tasks that push a   *)
(* local toggle, and the debounced reconcile that a scan ends with         *)
(* (server/src/jobs/pipeline.rs), which marks a title watched from the     *)
(* mirror.                                                                 *)
(*                                                                         *)
(* One title is modelled.  Plays of it on Trakt are numbered in the order  *)
(* they happen, and the cursor last_synced_at is the number of plays that  *)
(* were made when it was stamped.  A token pair is the number of the grant *)
(* that minted it: Trakt honours the newest.  Playback and watchlist pulls *)
(* and the collection hooks are left out; they use the same wrapper.       *)
(***************************************************************************)
EXTENDS Integers, FiniteSets

CONSTANTS
    Callers,     \* tasks that talk to Trakt: pull jobs, push tasks, link polls
    MaxPairs,    \* bound: pairs that Trakt mints
    MaxPlays,    \* bound: plays made elsewhere
    MaxJobs,     \* bound: pull jobs and toggles
    MaxScans,    \* bound: scans that complete
    MaxFaults,   \* bound: failed calls and statements, expiries, restarts
    MaxMoves     \* bound: pairs, plays, jobs, scans and faults taken together

ASSUME TraktAssumption ==
    /\ {MaxPairs, MaxPlays, MaxJobs, MaxScans, MaxFaults, MaxMoves} \subseteq Nat
    /\ MaxPairs # 0   \* the link has a pair

VARIABLES
    row,       \* user_trakt_tokens: the stored pair, 0 without a row
    aging,     \* the stored expires_at is less than REFRESH_LEAD_MS away
    cursor,    \* last_synced_at, Null without one
    seen,      \* last_activities_seen_at, Null without one
    minted,    \* the newest pair, as Trakt knows it
    revoked,   \* Trakt has withdrawn the newest access token
    played,    \* plays made so far
    history,   \* the plays that Trakt lists
    activity,  \* its last_activities rollup
    mirror,    \* plays in user_trakt_history
    title,     \* the title is in the library
    watched,   \* its play_state row says watched
    unmarked,  \* history: the user has cleared the mark
    reported,  \* scans whose Completed event is on its way
    cooling,   \* RECONCILE_LAST_MS is less than a cooldown ago
    trailing,  \* RECONCILE_TRAILING
    tail,      \* the trailing task: "none", "asleep", "due"
    tasks,     \* reconciles that are spawned and have not read yet
    callers,   \* caller |-> where it is
    astray,    \* history: a pair was lost, or a link crossed a refresh
    broken,    \* history: the server has restarted, or a match has failed
    unlinked,  \* history: the user has unlinked
    jobs, scans, faults

remote  == <<minted, revoked, played, history, activity>>
cursors == <<cursor, seen>>
tokens  == <<row, aging>>
local   == <<mirror, watched, unmarked>>
library == <<title, reported, scans>>
debounce == <<cooling, trailing, tail, tasks>>
ghosts  == <<astray, broken, unlinked>>
vars == <<tokens, cursors, remote, local, library, debounce, callers, ghosts,
          jobs, faults>>

Null == -1
Idle == [step |-> "none", at |-> "idle", forced |-> FALSE, tok |-> 0,
         late |-> FALSE, got |-> {}, upto |-> Null, cut |-> FALSE]

(* What a caller runs through for one call: with_user_client, then what    *)
(* the pull does with the answer.                                          *)
Steps  == {"none", "link", "seed", "check", "history", "push", "remove"}
Places == {"idle", "asks", "waits", "mints", "saves", "calls", "refused",
           "stores", "matches", "stamps", "notes"}

TypeOK ==
    /\ row \in 0..MaxPairs /\ minted \in 0..MaxPairs
    /\ {aging, revoked, title, watched, unmarked, cooling, trailing} \subseteq BOOLEAN
    /\ cursor \in Null..MaxPlays /\ played \in 0..MaxPlays
    /\ seen \in Null..activity /\ activity \in Nat
    /\ history \subseteq 1..played /\ mirror \subseteq 1..played
    /\ tail \in {"none", "asleep", "due"}
    /\ tasks \in Nat /\ reported \in 0..MaxScans /\ scans \in 0..MaxScans
    /\ callers \in [Callers -> [step : Steps, at : Places, forced : BOOLEAN,
                                tok : 0..MaxPairs, late : BOOLEAN,
                                got : SUBSET (1..played), upto : Null..activity,
                                cut : BOOLEAN]]
    /\ {astray, broken, unlinked} \subseteq BOOLEAN
    /\ jobs \in 0..MaxJobs /\ faults \in 0..MaxFaults

\* A linked account that has not been synced yet.
Init ==
    /\ row = 1 /\ aging = FALSE /\ cursor = Null /\ seen = Null
    /\ minted = 1 /\ revoked = FALSE /\ played = 0 /\ history = {}
    /\ activity = 0 /\ mirror = {} /\ title = FALSE /\ watched = FALSE
    /\ unmarked = FALSE /\ reported = 0 /\ cooling = FALSE
    /\ trailing = FALSE /\ tail = "none" /\ tasks = 0
    /\ callers = [c \in Callers |-> Idle]
    /\ astray = FALSE /\ broken = FALSE /\ unlinked = FALSE
    /\ jobs = 0 /\ scans = 0 /\ faults = 0

At(c, p)     == callers[c].at = p
Goes(c, p)   == callers' = [callers EXCEPT ![c].at = p]
Turns(c, s, forced) == [Idle EXCEPT !.step = s, !.at = "asks", !.forced = forced]
Becomes(c, r) == callers' = [callers EXCEPT ![c] = r]
Room         == minted + played + jobs + scans + faults < MaxMoves
Fault        == Room /\ faults < MaxFaults /\ faults' = faults + 1

\* Mutant: each call makes a mutex of its own.
LockFreeAlways == TRUE

(* trakt_refresh_lock: held from the re-read to the upsert.                *)
LockFree == \A c \in Callers :
    callers[c].at \in {"mints", "saves"} => callers[c].step = "link"

Unsaved(c) == {callers[d].step : d \in {e \in Callers \ {c} : At(e, "saves")}}

(* ---------------- with_user_client ------------------------------------- *)

(* The next step of a pull after `step` has ended, with or without success.*)
AfterCall(c) ==
    LET k == callers[c] IN
    CASE k.step = "seed" /\ ~k.forced -> Turns(c, "check", FALSE)
      [] k.step = "seed" /\ k.forced  -> Turns(c, "history", FALSE)
      [] OTHER -> Idle

\* Mutant: a history pull that failed stamps the cursor all the same.
FailedStamps(c) == IF callers[c].step = "history"
                   THEN [callers[c] EXCEPT !.at = "stamps"] ELSE Idle

\* An error: a failed check falls back to the full pull.
Failed(c) == IF callers[c].step = "check" THEN Turns(c, "history", FALSE)
             ELSE AfterCall(c)

(* get_trakt_tokens; without a link a seed still stamps, a pull ends.      *)
Ask(c) ==
    /\ At(c, "asks")
    /\ \/ /\ row = 0
          /\ Becomes(c, IF callers[c].step = "seed"
                        THEN [callers[c] EXCEPT !.at = "stamps"] ELSE Idle)
       \/ /\ row # 0
          /\ Becomes(c, [callers[c] EXCEPT !.tok = row,
                             !.at = IF aging THEN "waits" ELSE "calls"])
    /\ UNCHANGED <<tokens, cursors, remote, local, library, debounce, ghosts,
                   jobs, faults>>

(* Under the lock the row is read again: a fresh pair is used as it is; a  *)
(* row that is gone leaves the old pair to be refreshed.                   *)
Reread(c) ==
    /\ At(c, "waits")
    /\ LockFree
    /\ Becomes(c, [callers[c] EXCEPT
                       !.tok = IF row = 0 THEN @ ELSE row,
                       !.at = IF row # 0 /\ ~aging THEN "calls" ELSE "mints"])
    /\ UNCHANGED <<tokens, cursors, remote, local, library, debounce, ghosts,
                   jobs, faults>>

(* A 401: refresh too, unless somebody has replaced the pair meanwhile.    *)
RereadLate(c) ==
    /\ At(c, "refused")
    /\ LockFree
    /\ IF row = callers[c].tok
       THEN Becomes(c, [callers[c] EXCEPT !.at = "mints", !.late = TRUE])
       ELSE Becomes(c, Failed(c))
    /\ UNCHANGED <<tokens, cursors, remote, local, library, debounce, ghosts,
                   jobs, faults>>

(* POST /oauth/token.  The newest pair is renewed; an older one may be, as *)
(* "Trakt mints fresh pairs for each call", or is turned down.             *)
Mint(c) ==
    /\ At(c, "mints")
    /\ minted < MaxPairs
    /\ minted' = minted + 1 /\ revoked' = FALSE
    /\ astray' = (astray \/ "link" \in Unsaved(c))
    /\ Becomes(c, [callers[c] EXCEPT !.tok = minted + 1, !.at = "saves"])
    /\ UNCHANGED <<tokens, cursors, played, history, activity, local, library,
                   debounce, broken, unlinked, jobs, faults>>

\* Without a new pair the call goes out with the stale one; a late refresh
\* ends.
MintsNone(c) == IF callers[c].late THEN Becomes(c, Failed(c)) ELSE Goes(c, "calls")

MintRefused(c) ==
    /\ At(c, "mints")
    /\ callers[c].tok # minted \/ minted = MaxPairs
    /\ MintsNone(c)
    /\ UNCHANGED <<tokens, cursors, remote, local, library, debounce, ghosts,
                   jobs, faults>>

(* The request fails on its way out, for the newest pair too; or Trakt     *)
(* mints, and the answer is lost or cannot be read.                        *)
MintFails(c) ==
    /\ At(c, "mints")
    /\ Fault
    /\ \/ UNCHANGED <<minted, revoked, astray>>
       \/ minted < MaxPairs /\ minted' = minted + 1 /\ revoked' = FALSE /\ astray' = TRUE
    /\ MintsNone(c)
    /\ UNCHANGED <<tokens, cursors, played, history, activity, local, library,
                   debounce, broken, unlinked, jobs>>

(* upsert_trakt_tokens: a new row where the user has unlinked meanwhile.   *)
Save(c) ==
    /\ At(c, "saves")
    /\ row' = callers[c].tok /\ aging' = FALSE
    /\ IF callers[c].step = "link" THEN Becomes(c, Idle)
       ELSE IF callers[c].late THEN Becomes(c, Failed(c)) ELSE Goes(c, "calls")
    /\ UNCHANGED <<cursors, remote, local, library, debounce, ghosts, jobs,
                   faults>>

\* The upsert fails: the pair that Trakt now honours is lost.
SaveFails(c) ==
    /\ At(c, "saves")
    /\ Fault
    /\ astray' = TRUE
    /\ Becomes(c, IF callers[c].step = "link" THEN Idle ELSE Failed(c))
    /\ UNCHANGED <<tokens, cursors, remote, local, library, debounce, broken,
                   unlinked, jobs>>

(* What Trakt answers to a pair: the newest is good until it is withdrawn, *)
(* an older one may still be.                                              *)
Accepts(t) == t # minted \/ ~revoked
Refuses(t) == t # minted \/ revoked

CallFails(c) ==
    /\ At(c, "calls")
    /\ Fault
    /\ Becomes(c, Failed(c))
    /\ UNCHANGED <<tokens, cursors, remote, local, library, debounce, ghosts,
                   jobs>>

CallRefused(c) ==
    /\ At(c, "calls")
    /\ callers[c].step # "history"
    /\ Refuses(callers[c].tok)
    /\ Goes(c, "refused")
    /\ UNCHANGED <<tokens, cursors, remote, local, library, debounce, ghosts,
                   jobs, faults>>

(* ---------------- The pull job ----------------------------------------- *)

(* trakt_pull_task and sync_now enqueue one without looking at the others. *)
StartPull(c, forced) ==
    /\ At(c, "idle")
    /\ Room /\ jobs < MaxJobs /\ jobs' = jobs + 1
    /\ row # 0
    /\ Becomes(c, Turns(c, IF forced \/ cursor = Null THEN "seed" ELSE "check",
                        forced))
    /\ UNCHANGED <<tokens, cursors, remote, local, library, debounce, ghosts,
                   faults>>

\* pull_user_watched: the snapshot stands for every play so far.
Seed(c) ==
    /\ At(c, "calls") /\ callers[c].step = "seed"
    /\ Accepts(callers[c].tok)
    /\ Becomes(c, [callers[c] EXCEPT !.got = history, !.upto = played,
                                     !.tok = 0, !.at = "stores"])
    /\ UNCHANGED <<tokens, cursors, remote, local, library, debounce, ghosts,
                   jobs, faults>>

\* check_last_activities: an unchanged rollup ends the job.
Check(c) ==
    /\ At(c, "calls") /\ callers[c].step = "check"
    /\ Accepts(callers[c].tok)
    /\ Becomes(c, IF seen = activity THEN Idle
                  ELSE [callers[c] EXCEPT !.upto = activity, !.tok = 0,
                                                    !.at = "notes"])
    /\ UNCHANGED <<tokens, cursors, remote, local, library, debounce, ghosts,
                   jobs, faults>>

\* The rollup is kept before anything is pulled.
Note(c) ==
    /\ At(c, "notes")
    /\ seen' = IF row = 0 THEN seen ELSE callers[c].upto
    /\ Becomes(c, Turns(c, "history", FALSE))
    /\ UNCHANGED <<tokens, cursor, remote, local, library, debounce, ghosts,
                   jobs, faults>>

\* pull_history from the cursor on, newest page first, in one step: what is
\* added or removed between two pages cannot show with one title's few plays.
Since == {p \in history : p > cursor}
Read(c) ==
    /\ At(c, "calls") /\ callers[c].step = "history"
    /\ Accepts(callers[c].tok)
    /\ Becomes(c, [callers[c] EXCEPT !.got = Since, !.upto = played,
                                     !.tok = 0, !.at = "stores"])
    /\ UNCHANGED <<tokens, cursors, remote, local, library, debounce, ghosts,
                   jobs, faults>>

\* An error status on some page, a 401 among them: the pages read so far
\* are returned as if they were all.
ReadCut(c) ==
    /\ At(c, "calls") /\ callers[c].step = "history"
    /\ \/ Refuses(callers[c].tok) /\ UNCHANGED faults
       \/ Fault
    /\ \E k \in 0..played :
          Becomes(c, [callers[c] EXCEPT !.got = {p \in Since : p > k},
                                        !.upto = played, !.cut = TRUE,
                                        !.tok = 0, !.at = "stores"])
    /\ UNCHANGED <<tokens, cursors, remote, local, library, debounce, ghosts,
                   jobs>>

(* store_trakt_history, in one transaction.                                *)
Store(c) ==
    /\ At(c, "stores")
    /\ mirror' = mirror \cup callers[c].got
    /\ Becomes(c, [callers[c] EXCEPT !.got = {}, !.at = "matches"])
    /\ UNCHANGED <<tokens, cursors, remote, watched, unmarked, library,
                   debounce, ghosts, jobs, faults>>

(* reconcile_trakt_history: marks the title, never clears it.              *)
Matched == watched \/ (title /\ mirror # {})
Match(c) ==
    /\ At(c, "matches")
    /\ watched' = Matched
    /\ Goes(c, "stamps")
    /\ UNCHANGED <<tokens, cursors, remote, mirror, unmarked, library,
                   debounce, ghosts, jobs, faults>>

(* Either of the two fails: the pull ends without a stamp.                 *)
StoreFails(c) ==
    /\ callers[c].at \in {"stores", "matches"}
    /\ Fault
    /\ broken' = (broken \/ At(c, "matches"))
    /\ Becomes(c, AfterCall(c))
    /\ UNCHANGED <<tokens, cursors, remote, local, library, debounce, astray, unlinked,
                   jobs>>

(* update_trakt_last_synced(now).                                          *)
Stamp(c) ==
    /\ At(c, "stamps")
    /\ cursor' = IF row = 0 THEN Null ELSE played
    /\ Becomes(c, AfterCall(c))
    /\ UNCHANGED <<tokens, seen, remote, local, library, debounce, ghosts,
                   jobs, faults>>

(* ---------------- Linking, toggles, and what goes on at Trakt ---------- *)

(* link_poll: Ready(pair), then the upsert, without the lock.              *)
Link(c) ==
    /\ At(c, "idle")
    /\ Room /\ minted < MaxPairs
    /\ minted' = minted + 1 /\ revoked' = FALSE
    /\ astray' = (astray \/ Unsaved(c) # {})
    /\ Becomes(c, [Idle EXCEPT !.step = "link", !.at = "saves",
                               !.tok = minted + 1])
    /\ UNCHANGED <<tokens, cursors, played, history, activity, local, library,
                   debounce, broken, unlinked, jobs, faults>>

\* Of a grant that Trakt has given to a link poll the answer is lost too.
LinkLost(c) ==
    /\ At(c, "idle")
    /\ Fault /\ minted < MaxPairs
    /\ minted' = minted + 1 /\ revoked' = FALSE /\ astray' = TRUE
    /\ UNCHANGED <<tokens, cursors, played, history, activity, local, library,
                   debounce, callers, broken, unlinked, jobs>>

Unlink ==
    /\ row # 0
    /\ row' = 0 /\ aging' = FALSE /\ cursor' = Null /\ seen' = Null
    /\ unlinked' = TRUE
    /\ UNCHANGED <<remote, local, library, debounce, callers, astray, broken,
                   jobs, faults>>

(* set_watched, then push_watched_to_trakt or its mirror in a task.        *)
SetWatched(c, w) ==
    /\ title
    /\ At(c, "idle")
    /\ Room /\ jobs < MaxJobs /\ jobs' = jobs + 1
    /\ watched' = w
    /\ unmarked' = (unmarked \/ ~w)
    /\ Becomes(c, Turns(c, IF w THEN "push" ELSE "remove", FALSE))
    /\ UNCHANGED <<tokens, cursors, remote, mirror, library, debounce, ghosts,
                   faults>>

\* The play that a push adds is one this server has marked already: only
\* the rollup of it is kept.
Push(c) ==
    /\ At(c, "calls") /\ callers[c].step \in {"push", "remove"}
    /\ Accepts(callers[c].tok)
    /\ activity' = activity + 1
    /\ history' = IF callers[c].step = "push" THEN history ELSE {}
    /\ Becomes(c, Idle)
    /\ UNCHANGED <<tokens, cursors, minted, revoked, played, local, library,
                   debounce, ghosts, jobs, faults>>

Play ==
    /\ Room /\ played < MaxPlays
    /\ played' = played + 1
    /\ history' = history \cup {played + 1}
    /\ activity' = activity + 1
    /\ UNCHANGED <<tokens, cursors, minted, revoked, local, library, debounce,
                   callers, ghosts, jobs, faults>>

Age ==
    /\ row # 0 /\ ~aging
    /\ Fault
    /\ aging' = TRUE
    /\ UNCHANGED <<row, cursors, remote, local, library, debounce, callers,
                   ghosts, jobs>>

Revoke ==
    /\ minted # 0 /\ ~revoked
    /\ Fault
    /\ revoked' = TRUE
    /\ UNCHANGED <<tokens, cursors, minted, played, history, activity, local,
                   library, debounce, callers, ghosts, jobs>>

(* ---------------- The reconcile after a scan --------------------------- *)

\* A scan adds files, of the title or of another one, and reports.
Scan ==
    /\ Room /\ scans < MaxScans /\ scans' = scans + 1
    /\ title' \in {title, TRUE}
    /\ reported' = reported + 1
    /\ UNCHANGED <<tokens, cursors, remote, local, debounce, callers, ghosts,
                   jobs, faults>>

\* Mutant: a debounce with no trailing run.
CompletedLeading ==
    /\ reported > 0 /\ reported' = reported - 1
    /\ \/ ~cooling /\ cooling' = TRUE /\ tasks' = tasks + 1
          /\ UNCHANGED <<trailing, tail>>
       \/ cooling /\ UNCHANGED debounce
    /\ UNCHANGED <<tokens, cursors, remote, local, title, scans, callers,
                   ghosts, jobs, faults>>

(* maybe_reconcile_after_scan: at once outside the window, else one run at *)
(* its end.                                                                *)
Completed ==
    /\ reported > 0 /\ reported' = reported - 1
    /\ \/ ~cooling /\ cooling' = TRUE /\ tasks' = tasks + 1
          /\ UNCHANGED <<trailing, tail>>
       \/ cooling /\ ~trailing /\ trailing' = TRUE /\ tail' = "asleep"
          /\ UNCHANGED <<cooling, tasks>>
       \/ cooling /\ trailing /\ UNCHANGED debounce
    /\ UNCHANGED <<tokens, cursors, remote, local, title, scans, callers,
                   ghosts, jobs, faults>>

\* The window passes; a trailing task sleeps exactly that long.
Cool ==
    /\ cooling /\ cooling' = FALSE
    /\ tail' = IF tail = "asleep" THEN "due" ELSE tail
    /\ UNCHANGED <<tokens, cursors, remote, local, library, trailing, tasks,
                   callers, ghosts, jobs, faults>>

Wake ==
    /\ tail = "due" /\ tail' = "none"
    /\ cooling' = TRUE /\ trailing' = FALSE /\ tasks' = tasks + 1
    /\ UNCHANGED <<tokens, cursors, remote, local, library, callers, ghosts,
                   jobs, faults>>

(* reconcile_all_linked_users: from the mirror alone.                      *)
Reconcile ==
    /\ tasks > 0 /\ tasks' = tasks - 1
    /\ watched' = IF row = 0 THEN watched ELSE Matched
    /\ UNCHANGED <<tokens, cursors, remote, mirror, unmarked, library, cooling,
                   trailing, tail, callers, ghosts, jobs, faults>>

\* The process dies; the job of a pull is run again by the queue.
Crash ==
    /\ Fault
    /\ callers' = [c \in Callers |-> Idle]
    /\ astray' = (astray \/ \E c \in Callers : At(c, "saves"))
    /\ broken' = TRUE
    /\ reported' = 0 /\ cooling' = FALSE /\ trailing' = FALSE
    /\ tail' = "none" /\ tasks' = 0
    /\ UNCHANGED <<tokens, cursors, remote, local, title, scans, unlinked, jobs>>

Works(c) ==
    \/ Ask(c) \/ Reread(c) \/ RereadLate(c) \/ Mint(c) \/ MintRefused(c)
    \/ Save(c) \/ CallRefused(c) \/ Seed(c) \/ Check(c) \/ Note(c) \/ Read(c)
    \/ ReadCut(c) \/ Store(c) \/ Match(c) \/ Stamp(c) \/ Push(c)

Next ==
    \/ \E c \in Callers :
          \/ Works(c) \/ MintFails(c) \/ SaveFails(c) \/ CallFails(c)
          \/ StoreFails(c) \/ Link(c) \/ LinkLost(c)
          \/ \E b \in BOOLEAN : StartPull(c, b) \/ SetWatched(c, b)
    \/ Unlink \/ Play \/ Age \/ Revoke
    \/ Scan \/ Completed \/ Cool \/ Wake \/ Reconcile \/ Crash

Spec == Init /\ [][Next]_vars

(* The process does not stand still while a task of it can go on: Tokio    *)
(* runs what can run, timers fire, answers come.                           *)
Proceeds == \/ \E c \in Callers : Works(c)
            \/ Completed \/ Cool \/ Wake \/ Reconcile

FairSpec == Spec /\ WF_vars(Proceeds)

(* ---------------- What the sync promises ------------------------------- *)

(* The pair on file is the one that Trakt honours whenever nobody is       *)
(* between a grant and its upsert, however many calls saw the old one run  *)
(* out: "only one of the racing callers actually hits Trakt".  Exempt is a *)
(* pair that is lost, because the answer which carries it is, the upsert   *)
(* fails or the server restarts, and a link poll that crosses a refresh,   *)
(* which takes no lock.                                                    *)
TokensCurrent ==
    /\ TypeOK
    /\ (row # 0 /\ ~astray /\ \A c \in Callers : ~At(c, "saves"))
          => row = minted

(* The cursor moves past a play on Trakt that the mirror does not have     *)
(* only after a read that came before the play, or was cut short: a pull   *)
(* that failed moves nothing, and what a pull has been told of is in the   *)
(* mirror before the cursor passes it.  Exempt is a pull that an unlink    *)
(* overtook: it goes on and stamps the row of the next link.               *)
Behind(p) == p \in history \ mirror /\ p <= cursor
CursorKeepsPlays ==
    [][\A p \in history : (p <= cursor' /\ ~(p <= cursor) /\ p \notin mirror)
          => \/ unlinked
             \/ \E c \in Callers :
                   /\ At(c, "stamps") /\ callers[c].upto # Null
                   /\ callers[c].cut \/ p > callers[c].upto]_vars

(* A play in the mirror and a title in the library meet, whichever came    *)
(* first and however the completions of scans and the pulls overlap: "but  *)
(* ALWAYS guarantee a trailing run after a burst".  Exempt is what a       *)
(* restart, a failed match or an unlink interrupts and a title whose mark  *)
(* the user has cleared; that the reconcile itself or the note of a scan's *)
(* completion fails (trakt_sync.rs:1058-1073, scanner.rs:272-281) has no   *)
(* action here, and would be exempt too.                                   *)
MirrorReachesLibrary ==
    (title /\ mirror # {} /\ row # 0)
        ~> (watched \/ unmarked \/ broken \/ unlinked)

(* As trakt_pull_user.rs says, "the delta `/sync/history` pull then        *)
(* carries new watches from here on".                                      *)
NoPlayPassedBy ==
    (\A c \in Callers : At(c, "idle")) => \A p \in history : ~Behind(p)
=============================================================================
