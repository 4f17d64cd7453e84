------------------------------ MODULE Discovery ------------------------------
(***************************************************************************)
(* How a file on a volume becomes a title in the library: the scan of one  *)
(* library (library/src/scanner.rs) snapshots the rows it knows, walks the *)
(* roots, upserts what it found, soft-deletes what is missing and reports; *)
(* the report feeds the discovery pipeline (server/src/jobs/pipeline.rs),  *)
(* which batches marker jobs and asks for one announcement job.  Verify    *)
(* and purge passes run beside it, volumes come and go under it, and an    *)
(* admin may sweep up the files that the pipeline lost.                    *)
(*                                                                         *)
(* A row of media_files keeps: st ("none", "live", "gone" for removed_at   *)
(* set), old (gone for longer than the grace window), marked               *)
(* (markers_detected_at).  One file is one movie, so a file stands for the *)
(* item that an announcement names.  The queue around a job is JobQueue;   *)
(* here a job is its status.  Ids of purged rows do not come back.         *)
(***************************************************************************)
EXTENDS Naturals, Sequences, FiniteSets

CONSTANTS
    Roots,          \* the library's root directories, each on its own volume
    Names,          \* file names under a root
    ChannelCap,     \* PIPELINE_CHANNEL_CAPACITY, 4000
    MaxScans,       \* bound: scans that start
    MaxMishaps      \* bound: volume changes, failed statements, restarts, verify
                    \* passes and sweeps taken together

ASSUME DiscoveryAssumption ==
    /\ ChannelCap \in Nat \ {0}
    /\ MaxScans \in Nat /\ MaxMishaps \in Nat

VARIABLES
    disk,       \* files that exist on their volume
    online,     \* roots whose volume is mounted
    row,        \* file |-> its row of media_files
    scan,       \* the running scan
    stays,      \* history: files that the scan must not take for missing, on
                \* their volume ever since it began
    chan, buf,  \* file ids in the pipeline's channel, and with a drainer
    job,        \* file |-> status of its newest marker job
    lost,       \* history: files whose event, batch or job came to nothing
    asked,      \* a spawned enqueue_for_scan that has not run
    notify,     \* the notify_new_content job
    ledger,     \* notified_content
    told,       \* history: how often a title was announced
    unrecorded, \* history: titles whose ledger insert failed
    verify,     \* files that a running verify pass did not find
    scans, mishaps

vars == <<disk, online, row, scan, stays, chan, buf, job, lost, asked, notify,
          ledger, told, unrecorded, verify, scans, mishaps>>
budgets   == <<scans, mishaps>>
volumes   == <<disk, online>>
pipeline  == <<chan, buf, job, lost>>
announcer == <<asked, notify, ledger, told, unrecorded>>

Files     == Roots \X Names
RootOf(f) == f[1]
Found(f)  == f \in disk /\ RootOf(f) \in online
Live      == {f \in Files : row[f].st = "live"}
NeedsMarkers == {f \in Live : ~row[f].marked}

NoRow  == [st |-> "none", old |-> FALSE, marked |-> FALSE]
NoScan == [pc |-> "idle", known |-> {}, walk |-> {}, reach |-> {},
           seen |-> {}, left |-> {}, added |-> FALSE]
NoJob  == [pc |-> "none", titles |-> {}, todo |-> <<>>]

Mishap ==
    /\ mishaps < MaxMishaps
    /\ mishaps' = mishaps + 1
    /\ UNCHANGED scans

Init ==
    /\ disk = Files /\ online = Roots
    /\ row = [f \in Files |-> NoRow]
    /\ scan = NoScan /\ stays = {}
    /\ chan = {} /\ buf = {} /\ job = [f \in Files |-> "none"] /\ lost = {}
    /\ asked = FALSE /\ notify = NoJob /\ ledger = {}
    /\ told = [f \in Files |-> 0] /\ unrecorded = {}
    /\ verify = {}
    /\ scans = 0 /\ mishaps = 0

----------------------------------------------------------------------------
(* The volumes, which nobody asks for permission                           *)

VolumeChange ==
    /\ Mishap
    /\ \/ \E r \in Roots :
            /\ online' = IF r \in online THEN online \ {r} ELSE online \cup {r}
            /\ UNCHANGED disk
       \/ \E f \in Files :
            /\ RootOf(f) \in online
            /\ disk' = IF f \in disk THEN disk \ {f} ELSE disk \cup {f}
            /\ UNCHANGED online
    /\ stays' = stays \cap disk'
    /\ UNCHANGED <<row, scan, pipeline, announcer, verify>>

----------------------------------------------------------------------------
(* The scan.  Scan jobs of one library exclude each other (LibraryScans).  *)

\* Mutant: the drainer ends with its channel, without a last flush.
StartScanUnflushed ==
    /\ scan.pc = "idle"
    /\ scans < MaxScans /\ scans' = scans + 1
    /\ scan' = [NoScan EXCEPT !.pc = "walk", !.known = Live, !.walk = Roots]
    /\ stays' = disk
    /\ buf' = {} /\ chan' = {}
    /\ UNCHANGED <<volumes, row, job, lost, announcer, verify, mishaps>>

\* The snapshot of known paths leaves out soft-deleted rows.  A new emitter
\* has a channel of its own; what an older one still holds will be flushed.
StartScan ==
    /\ scan.pc = "idle"
    /\ scans < MaxScans /\ scans' = scans + 1
    /\ scan' = [NoScan EXCEPT !.pc = "walk", !.known = Live, !.walk = Roots]
    /\ stays' = disk
    /\ buf' = buf \cup chan /\ chan' = {}
    /\ UNCHANGED <<volumes, row, job, lost, announcer, verify, mishaps>>

\* Mutant: exists() was asked before the volume went away.
ReachesUpfront(r) == TRUE

\* A root is committed to reachable_roots only if its walk read an entry.
Reaches(r) == r \in online

Walked(r, files, reached) ==
    LET rest == scan.walk \ {r}
    IN  scan' = [scan EXCEPT
            !.walk = rest,
            !.reach = IF reached THEN @ \cup {r} ELSE @,
            !.seen = @ \cup files, !.left = @ \cup files,
            !.pc = IF rest = {} THEN "process" ELSE "walk"]

Under(r) == {f \in Files : RootOf(f) = r}

\* collect_candidates: one root after the other.
Walk(r) ==
    /\ scan.pc = "walk" /\ r \in scan.walk
    /\ Walked(r, {f \in Under(r) : Found(f)}, Reaches(r))
    /\ UNCHANGED <<volumes, row, stays, pipeline, announcer, verify, budgets>>

\* The volume goes away when the walk has read its first entries: the rest
\* are walk errors, and the root counts as reached.
WalkCutShort(r) ==
    /\ scan.pc = "walk" /\ r \in scan.walk \cap online
    /\ Mishap
    /\ online' = online \ {r}
    /\ \E files \in SUBSET {f \in Under(r) : Found(f)} : Walked(r, files, TRUE)
    /\ stays' = stays \ Under(r)
    /\ UNCHANGED <<disk, row, pipeline, announcer, verify>>

Upserted(f) == [row EXCEPT ![f].st = "live", ![f].old = FALSE]

\* FileAdded: try_send drops the id when the channel is full.
Emitted(f) == IF Cardinality(chan) < ChannelCap THEN chan \cup {f} ELSE chan

\* process_file, up to eight at a time: a known path is left alone whatever
\* became of its row since, a path that cannot be read is an error.
Process(f) ==
    /\ scan.pc = "process" /\ f \in scan.left
    /\ LET added == f \notin scan.known /\ Found(f)
       IN  /\ scan' = [scan EXCEPT !.left = @ \ {f}, !.added = @ \/ added]
           /\ row' = IF added THEN Upserted(f) ELSE row
           /\ chan' = IF added THEN Emitted(f) ELSE chan
           /\ lost' = IF ~added THEN lost ELSE IF f \in chan' THEN lost \ {f} ELSE lost \cup {f}
    /\ UNCHANGED <<volumes, stays, buf, job, announcer, verify, budgets>>

\* The row is in but replace_media_streams fails: the file is not Added, and
\* its path is known to every later scan.
ProcessFails(f) ==
    /\ scan.pc = "process" /\ f \in scan.left
    /\ f \notin scan.known /\ Found(f)
    /\ Mishap
    /\ scan' = [scan EXCEPT !.left = @ \ {f}]
    /\ row' = Upserted(f)
    /\ lost' = lost \cup {f}
    /\ UNCHANGED <<volumes, stays, chan, buf, job, announcer, verify>>

Removed(fs) == [f \in Files |->
    IF f \in fs /\ row[f].st = "live" THEN [row[f] EXCEPT !.st = "gone"] ELSE row[f]]

\* The reconciliation pass; a failing statement skips it.
Reconcile ==
    /\ scan.pc = "process" /\ scan.left = {}
    /\ scan' = [scan EXCEPT !.pc = "report"]
    /\ \/ /\ row' = Removed({f \in Files \ scan.seen : RootOf(f) \in scan.reach})
          /\ UNCHANGED budgets
       \/ Mishap /\ UNCHANGED row
    /\ UNCHANGED <<volumes, stays, pipeline, announcer, verify>>

\* Purging a row takes what hangs on it along.
Purge(fs) ==
    /\ row' = [f \in Files |-> IF f \in fs THEN NoRow ELSE row[f]]
    /\ job' = [f \in Files |-> IF f \in fs THEN "none" ELSE job[f]]
    /\ ledger' = ledger \ fs
    /\ told' = [f \in Files |-> IF f \in fs THEN 0 ELSE told[f]]
    /\ unrecorded' = unrecorded \ fs
    /\ chan' = chan \ fs /\ buf' = buf \ fs /\ lost' = lost \ fs
    /\ notify' = [notify EXCEPT !.titles = @ \ fs]
    /\ verify' = verify \ fs

Gone == {f \in Files : row[f].st = "gone"}

\* The Completed event, after the optional empty-trash pass.
Report ==
    /\ scan.pc = "report"
    /\ \E trash \in {{}, Gone} : Purge(trash)
    /\ scan' = NoScan /\ stays' = {}
    /\ asked' = (asked \/ scan.added)
    /\ UNCHANGED <<volumes, budgets>>

\* mark_scan_completed fails: nothing is reported.
ReportFails ==
    /\ scan.pc = "report"
    /\ Mishap
    /\ scan' = NoScan /\ stays' = {}
    /\ UNCHANGED <<volumes, row, pipeline, announcer, verify>>

----------------------------------------------------------------------------
(* Verify and purge                                                        *)

\* verify_library reads the rows, stats one path after the other, and marks
\* the missing ones at the end; it does not ask whether a root is mounted.
VerifyStats ==
    /\ verify = {}
    /\ Mishap
    /\ verify' = {f \in Live : ~Found(f)}
    /\ UNCHANGED <<volumes, row, scan, stays, pipeline, announcer>>

VerifyMarks ==
    /\ verify # {}
    /\ row' = Removed(verify)
    /\ verify' = {}
    /\ UNCHANGED <<volumes, scan, stays, pipeline, announcer, budgets>>

GraceElapses(f) ==
    /\ row[f].st = "gone" /\ ~row[f].old
    /\ row' = [row EXCEPT ![f].old = TRUE]
    /\ UNCHANGED <<volumes, scan, stays, pipeline, announcer, verify, budgets>>

PurgeRemoved ==
    /\ \E f \in Gone : row[f].old
    /\ Purge({f \in Gone : row[f].old})
    /\ UNCHANGED <<volumes, scan, stays, asked, budgets>>

----------------------------------------------------------------------------
(* The marker jobs                                                         *)

\* enqueue_job_unique looks for a job of the file that is not finished.
Busy(f) == job[f] \in {"queued", "running", "failed"}

Enqueued(fs) == [f \in Files |->
    IF f \in fs /\ ~Busy(f) THEN "queued" ELSE job[f]]

Receive(f) ==
    /\ f \in chan
    /\ chan' = chan \ {f} /\ buf' = buf \cup {f}
    /\ UNCHANGED <<volumes, row, scan, stays, job, lost, announcer, verify, budgets>>

\* A batch is whatever the flush timer or the size limit cuts off.  One that
\* cannot be written is gone.
Flush(batch) ==
    /\ batch # {}
    /\ buf' = buf \ batch
    /\ \/ job' = Enqueued(batch) /\ lost' = lost \ batch /\ UNCHANGED budgets
       \/ Mishap /\ lost' = lost \cup (batch \cap NeedsMarkers) /\ UNCHANGED job
    /\ UNCHANGED <<volumes, row, scan, stays, chan, announcer, verify>>

\* The full sweep, which an admin may ask for.  There is a detect_markers task
\* too, but no row of scheduled_tasks for it and no route that makes one.
Sweep ==
    /\ \E f \in NeedsMarkers : ~Busy(f)
    /\ Mishap
    /\ job' = Enqueued(NeedsMarkers) /\ lost' = lost \ NeedsMarkers
    /\ UNCHANGED <<volumes, row, scan, stays, chan, buf, announcer, verify>>

\* A claimed job of a row that is gone or marked is done at once.
StartJob(f) ==
    /\ job[f] \in {"queued", "failed"}
    /\ job' = [job EXCEPT ![f] = IF f \in NeedsMarkers THEN "running" ELSE "none"]
    /\ UNCHANGED <<volumes, row, scan, stays, chan, buf, lost, announcer, verify, budgets>>

\* An analysis that fails stamps the row as well.
FinishJob(f) ==
    /\ job[f] = "running"
    /\ job' = [job EXCEPT ![f] = "none"]
    /\ row' = [row EXCEPT ![f].marked = TRUE] /\ lost' = lost \ {f}
    /\ UNCHANGED <<volumes, scan, stays, chan, buf, announcer, verify, budgets>>

FailJob(f) ==
    /\ job[f] = "running"
    /\ Mishap
    /\ \E st \in {"failed", "dead"} :
          /\ job' = [job EXCEPT ![f] = st]
          /\ lost' = IF st = "dead" THEN lost \cup {f} ELSE lost
    /\ UNCHANGED <<volumes, row, scan, stays, chan, buf, announcer, verify>>

----------------------------------------------------------------------------
(* The announcement                                                        *)

\* enqueue_for_scan: a job of this library that is not finished will do.
Ask ==
    /\ asked /\ asked' = FALSE
    /\ \/ /\ notify' = IF notify.pc = "none" THEN [notify EXCEPT !.pc = "queued"]
                                             ELSE notify
          /\ UNCHANGED budgets
       \/ Mishap /\ UNCHANGED notify
    /\ UNCHANGED <<volumes, row, scan, stays, pipeline, ledger, told,
                   unrecorded, verify>>

\* Mutant: the messages first.
CourseSendsFirst == <<"send", "record">>

\* The order of notify_movies.
Course == <<"record", "send">>

List ==
    /\ notify.pc = "queued"
    /\ LET new == Live \ ledger
       IN  notify' = IF new = {} THEN NoJob
                     ELSE [pc |-> "running", titles |-> new, todo |-> Course]
    /\ UNCHANGED <<volumes, row, scan, stays, pipeline, asked, ledger, told,
                   unrecorded, verify, budgets>>

NotifyDoes(what) ==
    /\ notify.pc = "running" /\ Head(notify.todo) = what
    /\ notify' = IF Len(notify.todo) = 1 THEN NoJob ELSE [notify EXCEPT !.todo = Tail(@)]

\* record_movies goes on after an insert that fails.
Record ==
    /\ NotifyDoes("record")
    /\ \/ ledger' = ledger \cup notify.titles /\ UNCHANGED <<unrecorded, budgets>>
       \/ \E f \in notify.titles :
            /\ Mishap
            /\ ledger' = ledger \cup (notify.titles \ {f})
            /\ unrecorded' = unrecorded \cup {f}
    /\ UNCHANGED <<volumes, row, scan, stays, pipeline, asked, told, verify>>

Send ==
    /\ NotifyDoes("send")
    /\ told' = [f \in Files |-> IF f \in notify.titles /\ told[f] < 2
                                THEN told[f] + 1 ELSE told[f]]
    /\ UNCHANGED <<volumes, row, scan, stays, pipeline, asked, ledger,
                   unrecorded, verify, budgets>>

----------------------------------------------------------------------------
\* A restart takes the scan, the channels and the spawned tasks; the startup
\* reclaim puts running jobs back into the queue.
Crash ==
    /\ Mishap
    /\ scan' = NoScan /\ stays' = {} /\ chan' = {} /\ buf' = {}
    /\ lost' = lost \cup ((chan \cup buf) \cap NeedsMarkers)
    /\ job' = [f \in Files |-> IF job[f] = "running" THEN "queued" ELSE job[f]]
    /\ asked' = FALSE /\ verify' = {}
    /\ notify' = IF notify.pc = "none" THEN NoJob
                 ELSE [NoJob EXCEPT !.pc = "queued"]
    /\ UNCHANGED <<volumes, row, ledger, told, unrecorded>>

ScanStep ==
    \/ StartScan \/ Reconcile \/ Report \/ ReportFails
    \/ \E r \in Roots : Walk(r) \/ WalkCutShort(r)
    \/ \E f \in Files : Process(f) \/ ProcessFails(f)

Drain(f) == Receive(f) \/ \E batch \in SUBSET buf : f \in batch /\ Flush(batch)

JobStep(f) == StartJob(f) \/ FinishJob(f)

Next ==
    \/ VolumeChange \/ ScanStep
    \/ VerifyStats \/ VerifyMarks \/ PurgeRemoved \/ Sweep
    \/ \E f \in Files : GraceElapses(f) \/ Drain(f) \/ JobStep(f) \/ FailJob(f)
    \/ Ask \/ List \/ Record \/ Send
    \/ Crash

Spec == Init /\ [][Next]_vars

\* The drainer receives and its timer flushes, and the workers keep claiming.
\* Nothing obliges an admin to sweep, nor a scan or a volume to come back.
FairSpec ==
    /\ Spec
    /\ \A f \in Files : WF_vars(Drain(f)) /\ WF_vars(JobStep(f))

----------------------------------------------------------------------------
(* Properties                                                              *)

TypeOK ==
    /\ disk \subseteq Files /\ online \subseteq Roots
    /\ row \in [Files -> [st : {"none", "live", "gone"}, old : BOOLEAN, marked : BOOLEAN]]
    /\ scan \in [pc : {"idle", "walk", "process", "report"}, known : SUBSET Files,
                  walk : SUBSET Roots, reach : SUBSET Roots, seen : SUBSET Files,
                  left : SUBSET Files, added : BOOLEAN]
    /\ stays \subseteq disk
    /\ chan \subseteq Files /\ buf \subseteq Files
    /\ job \in [Files -> {"none", "queued", "running", "failed", "dead"}] /\ lost \subseteq Files
    /\ asked \in BOOLEAN
    /\ notify.pc \in {"none", "queued", "running"} /\ notify.titles \subseteq Files
    /\ ledger \subseteq Files /\ unrecorded \subseteq Files /\ verify \subseteq Files
    /\ told \in [Files -> 0..2]

\* "Partial unmounts MUST NOT eat the offline files" (scanner.rs:543-545): the
\* reconciliation pass never soft-deletes a file that has been on its volume
\* since the scan began, mounted or not, unless the walk of its root broke off.
ReconcileSpares ==
    [][\A f \in Files :
        scan.pc = "process" /\ scan'.pc = "report" /\ row[f].st = "live"
            /\ row'[f].st # "live"
        => f \notin stays]_vars

\* notified_content: a title is announced at most once as long as its ledger
\* insert went through, restarts of the process between the ledger and the
\* messages included (notify_new_content.rs:167-171).
AnnouncedOnce ==
    /\ TypeOK
    /\ \A f \in Files \ unrecorded : told[f] <= 1

\* The safety half of the next property: a live row that has not been analysed is
\* in the channel, with a drainer or in the queue, or its way is known to have
\* ended.  No way ends unseen between the emitter, the drainers and the dedup
\* (pipeline.rs:116-180, 219-300).
OnItsWay == \A f \in NeedsMarkers : f \in chan \cup buf \cup lost \/ Busy(f)

\* A live row is analysed in the end, or stops being live, as long as its event
\* gets into the channel and neither its batch, its job nor the process fails for
\* good: no scan that follows, no dedup against an older job, no retry, no restart
\* between the queue and the analysis loses it (pipeline.rs:230-270, 116-128).
EveryFileAnalysed ==
    \A f \in Files : f \in NeedsMarkers ~> f \notin NeedsMarkers \/ f \in lost

\* Not true of the code.  "The safety-net scheduled tasks (detect_markers, ...)
\* will catch any missed files on their next sweep" (pipeline.rs:98-100, 139-143):
\* detect_markers is never scheduled, so a file whose event was dropped waits for
\* an admin.
SafetyNet == \A f \in Files : f \in NeedsMarkers ~> f \notin NeedsMarkers

\* Not true of the code.  "They keep existing for a grace window so a temporary
\* unmount doesn't immediately destroy associated play state" (scheduler/mod.rs
\* 2115): a row is purged after its grace window, or when its file is deleted.
UnmountSurvives ==
    [][\A f \in Files :
        row[f].st = "gone" /\ row'[f].st = "none" => row[f].old \/ f \notin disk]_vars

=============================================================================
