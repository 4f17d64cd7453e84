--------------------------- MODULE DiscoveryProofs ---------------------------
(***************************************************************************)
(* What holds of Discovery.tla for any roots, names, capacities and number *)
(* of scans and mishaps: the announcements and the reconciliation pass.    *)
(***************************************************************************)
EXTENDS Discovery, TLAPS

\* What the announcement job can look like: it holds titles only while it
\* runs, and then one of the two steps is still ahead of it.
JobShape ==
    /\ notify \in [pc : {"none", "queued", "running"}, titles : SUBSET Files,
                   todo : {<<>>, <<"record", "send">>, <<"send">>}]
    /\ notify.pc = "running" <=> notify.todo # <<>>
    /\ notify.pc # "running" => notify.titles = {}

TypeInv == TypeOK /\ JobShape

\* AnnouncedOnce is not inductive: nothing in it says that a title on its way
\* to the messages is untold, and in the ledger by the time they are sent.
Announced(f) ==
    /\ told[f] <= 1
    /\ f \notin ledger => told[f] = 0
    /\ f \in notify.titles => told[f] = 0
    /\ f \in notify.titles /\ notify.todo = <<"send">> => f \in ledger

AnnounceInv == \A f \in Files \ unrecorded : Announced(f)

\* ReconcileSpares rests on the walk: what it may not take for missing under a
\* root that it counts as reached, it has seen.
WalkInv ==
    scan.pc \in {"walk", "process"} =>
        \A f \in stays : RootOf(f) \in scan.reach => f \in scan.seen

IInv == TypeInv /\ AnnounceInv /\ WalkInv

-----------------------------------------------------------------------------
(* Types.                                                                  *)

LEMMA InitType == Init => TypeInv
  <1> SUFFICES ASSUME Init PROVE TypeInv
    OBVIOUS
  <1>1. TypeOK
    <2>1. told \in [Files -> 0..2] /\ job \in [Files -> {"none", "queued", "running", "failed", "dead"}]
      BY DEF Init
    <2>2. row \in [Files -> [st : {"none", "live", "gone"}, old : BOOLEAN, marked : BOOLEAN]]
      BY DEF Init, NoRow
    <2> QED
      BY <2>1, <2>2 DEF Init, TypeOK, NoScan, NoJob
  <1>2. JobShape
    BY DEF Init, JobShape, NoJob
  <1> QED
    BY <1>1, <1>2 DEF TypeInv

\* The rows stay rows under the three ways to write them.
LEMMA RowTypes ==
    ASSUME TypeOK
    PROVE  /\ \A f \in Files : Upserted(f) \in
                  [Files -> [st : {"none", "live", "gone"}, old : BOOLEAN, marked : BOOLEAN]]
           /\ \A fs : Removed(fs) \in
                  [Files -> [st : {"none", "live", "gone"}, old : BOOLEAN, marked : BOOLEAN]]
           /\ \A fs : [f \in Files |-> IF f \in fs THEN NoRow ELSE row[f]] \in
                  [Files -> [st : {"none", "live", "gone"}, old : BOOLEAN, marked : BOOLEAN]]
  BY DEF TypeOK, Upserted, Removed, NoRow

LEMMA PurgeType ==
    ASSUME TypeInv, NEW fs \in SUBSET Files, Purge(fs)
    PROVE  /\ row' \in [Files -> [st : {"none", "live", "gone"}, old : BOOLEAN, marked : BOOLEAN]]
           /\ job' \in [Files -> {"none", "queued", "running", "failed", "dead"}]
           /\ ledger' \subseteq Files /\ told' \in [Files -> 0..2]
           /\ unrecorded' \subseteq Files /\ chan' \subseteq Files /\ buf' \subseteq Files
           /\ lost' \subseteq Files /\ verify' \subseteq Files
           /\ JobShape'
  <1>1. JobShape'
    BY DEF Purge, JobShape, TypeInv
  <1>2. row' \in [Files -> [st : {"none", "live", "gone"}, old : BOOLEAN, marked : BOOLEAN]]
    BY RowTypes DEF Purge, TypeInv
  <1> QED
    BY <1>1, <1>2 DEF Purge, TypeInv, TypeOK

\* The steps of the job are taken in the order of notify_movies.
LEMMA RecordNext ==
    ASSUME TypeInv, NotifyDoes("record")
    PROVE  /\ notify.todo = <<"record", "send">> /\ notify.pc = "running"
           /\ notify' = [notify EXCEPT !.todo = <<"send">>]
  <1>1. notify.todo = <<"record", "send">>
    BY DEF TypeInv, JobShape, NotifyDoes
  <1>2. Len(<<"record", "send">>) = 2 /\ Tail(<<"record", "send">>) = <<"send">>
    OBVIOUS
  <1> QED
    BY <1>1, <1>2 DEF NotifyDoes

LEMMA SendNext ==
    ASSUME TypeInv, NotifyDoes("send")
    PROVE  /\ notify.todo = <<"send">> /\ notify.pc = "running"
           /\ notify' = NoJob
  <1>1. notify.todo = <<"send">>
    BY DEF TypeInv, JobShape, NotifyDoes
  <1> QED
    BY <1>1 DEF NotifyDoes

LEMMA ScanType == TypeInv /\ ScanStep => TypeInv'
  <1> SUFFICES ASSUME TypeInv, ScanStep PROVE TypeInv'
    OBVIOUS
  <1> USE DEF TypeInv
  <1>1. CASE StartScan
    <2>1. JobShape'
      BY <1>1 DEF StartScan, JobShape, announcer
    <2>2. scan' \in [pc : {"idle", "walk", "process", "report"}, known : SUBSET Files,
                     walk : SUBSET Roots, reach : SUBSET Roots, seen : SUBSET Files,
                     left : SUBSET Files, added : BOOLEAN]
      BY <1>1 DEF StartScan, NoScan, Live
    <2> QED
      BY <1>1, <2>1, <2>2 DEF StartScan, TypeOK, volumes, announcer
  <1>2. CASE Reconcile
    <2>1. JobShape'
      BY <1>2 DEF Reconcile, JobShape, announcer
    <2>2. row' \in [Files -> [st : {"none", "live", "gone"}, old : BOOLEAN, marked : BOOLEAN]]
      BY <1>2, RowTypes DEF Reconcile, TypeOK
    <2> QED
      BY <1>2, <2>1, <2>2 DEF Reconcile, TypeOK, volumes, announcer, pipeline
  <1>3. CASE Report
    <2>1. PICK trash \in {{}, Gone} : Purge(trash)
      BY <1>3 DEF Report
    <2>2. trash \subseteq Files
      BY DEF Gone
    <2> QED
      BY <1>3, <2>1, <2>2, PurgeType DEF Report, TypeOK, NoScan, volumes, JobShape
  <1>4. CASE ReportFails
    BY <1>4 DEF ReportFails, TypeOK, JobShape, NoScan, volumes, pipeline, announcer
  <1>5. ASSUME NEW r \in Roots, Walk(r) \/ WalkCutShort(r) PROVE TypeInv'
    <2>1. \E files \in SUBSET Files, reached \in BOOLEAN : Walked(r, files, reached)
      <3>1. CASE Walk(r)
        <4>1. Walked(r, {f \in Under(r) : Found(f)}, r \in online)
          BY <3>1 DEF Walk, Reaches
        <4>2. {f \in Under(r) : Found(f)} \in SUBSET Files /\ (r \in online) \in BOOLEAN
          BY DEF Under
        <4> QED
          BY <4>1, <4>2, Zenon
      <3>2. CASE WalkCutShort(r)
        <4>1. PICK files \in SUBSET {f \in Under(r) : Found(f)} : Walked(r, files, TRUE)
          BY <3>2 DEF WalkCutShort
        <4> QED
          BY <4>1 DEF Under
      <3> QED
        BY <1>5, <3>1, <3>2
    <2>2. scan' \in [pc : {"idle", "walk", "process", "report"}, known : SUBSET Files,
                     walk : SUBSET Roots, reach : SUBSET Roots, seen : SUBSET Files,
                     left : SUBSET Files, added : BOOLEAN]
      <3>1. PICK files \in SUBSET Files, reached \in BOOLEAN : Walked(r, files, reached)
        BY <2>1
      <3>2. PICK pc \in {"walk", "process"}, reach \in SUBSET Roots :
              scan' = [scan EXCEPT !.walk = @ \ {r}, !.reach = reach, !.seen = @ \cup files,
                                   !.left = @ \cup files, !.pc = pc]
        <4>1. scan.reach \in SUBSET Roots /\ scan.reach \cup {r} \in SUBSET Roots
          BY DEF TypeOK
        <4> QED
          BY <3>1, <4>1 DEF Walked
      <3> QED
        BY <3>2 DEF TypeOK
    <2>3. JobShape'
      BY <1>5 DEF Walk, WalkCutShort, JobShape, announcer
    <2> QED
      BY <1>5, <2>2, <2>3 DEF Walk, WalkCutShort, TypeOK, volumes, announcer, pipeline
  <1>6. ASSUME NEW f \in Files, Process(f) PROVE TypeInv'
    <2>1. JobShape'
      BY <1>6 DEF Process, JobShape, announcer
    <2>2. row' \in [Files -> [st : {"none", "live", "gone"}, old : BOOLEAN, marked : BOOLEAN]]
      BY <1>6, RowTypes DEF Process, TypeOK
    <2> QED
      BY <1>6, <2>1, <2>2 DEF Process, TypeOK, volumes, announcer, Emitted, Found
  <1>7. ASSUME NEW f \in Files, ProcessFails(f) PROVE TypeInv'
    <2>1. JobShape'
      BY <1>7 DEF ProcessFails, JobShape, announcer
    <2> QED
      BY <1>7, <2>1, RowTypes DEF ProcessFails, TypeOK, volumes, announcer
  <1> QED
    BY <1>1, <1>2, <1>3, <1>4, <1>5, <1>6, <1>7 DEF ScanStep

LEMMA NextType == TypeInv /\ [Next]_vars => TypeInv'
  <1> SUFFICES ASSUME TypeInv, [Next]_vars PROVE TypeInv'
    OBVIOUS
  <1> USE DEF TypeInv
  <1>1. CASE VolumeChange
    BY <1>1 DEF VolumeChange, TypeOK, JobShape, pipeline, announcer
  <1>2. CASE ScanStep
    BY <1>2, ScanType
  <1>3. CASE VerifyStats
    BY <1>3 DEF VerifyStats, TypeOK, JobShape, volumes, pipeline, announcer, Live
  <1>4. CASE VerifyMarks
    BY <1>4, RowTypes DEF VerifyMarks, TypeOK, JobShape, volumes, pipeline, announcer
  <1>5. CASE PurgeRemoved
    <2>1. {f \in Gone : row[f].old} \subseteq Files
      BY DEF Gone
    <2> QED
      BY <1>5, <2>1, PurgeType DEF PurgeRemoved, TypeOK, JobShape, volumes
  <1>6. CASE Sweep
    BY <1>6 DEF Sweep, TypeOK, JobShape, Enqueued, volumes, announcer
  <1>7. ASSUME NEW f \in Files, GraceElapses(f) PROVE TypeInv'
    BY <1>7 DEF GraceElapses, TypeOK, JobShape, volumes, pipeline, announcer
  <1>8. ASSUME NEW f \in Files, Receive(f) PROVE TypeInv'
    BY <1>8 DEF Receive, TypeOK, JobShape, volumes, announcer
  <1>9. ASSUME NEW f \in Files, JobStep(f) PROVE TypeInv'
    <2>1. CASE StartJob(f)
      BY <2>1 DEF StartJob, TypeOK, JobShape, volumes, announcer
    <2>2. CASE FinishJob(f)
      <3>1. row' \in [Files -> [st : {"none", "live", "gone"}, old : BOOLEAN, marked : BOOLEAN]]
        BY <2>2 DEF FinishJob, TypeOK
      <3> QED
        BY <2>2, <3>1 DEF FinishJob, TypeOK, JobShape, volumes, announcer
    <2> QED
      BY <1>9, <2>1, <2>2 DEF JobStep
  <1>10. ASSUME NEW f \in Files, FailJob(f) PROVE TypeInv'
    BY <1>10 DEF FailJob, TypeOK, JobShape, volumes, announcer
  <1>11. ASSUME NEW batch \in SUBSET buf, Flush(batch) PROVE TypeInv'
    BY <1>11 DEF Flush, TypeOK, JobShape, Enqueued, volumes, announcer
  <1>12. CASE Ask
    BY <1>12 DEF Ask, TypeOK, JobShape, volumes, pipeline
  <1>13. CASE List
    BY <1>13 DEF List, TypeOK, JobShape, NoJob, Course, Live, volumes, pipeline
  <1>14. CASE Record
    <2>1. ledger' \subseteq Files /\ unrecorded' \subseteq Files
      BY <1>14 DEF Record, NotifyDoes, TypeOK
    <2>2. notify' = [notify EXCEPT !.todo = <<"send">>] /\ notify.pc = "running"
      BY <1>14, RecordNext DEF Record
    <2> QED
      BY <1>14, <2>1, <2>2 DEF Record, TypeOK, JobShape, volumes, pipeline
  <1>15. CASE Send
    <2>1. notify' = NoJob
      BY <1>15, SendNext DEF Send
    <2>2. told' \in [Files -> 0..2]
      BY <1>15 DEF Send, TypeOK
    <2> QED
      BY <1>15, <2>1, <2>2 DEF Send, TypeOK, JobShape, NoJob, volumes, pipeline
  <1>16. CASE Crash
    BY <1>16 DEF Crash, TypeOK, JobShape, NoJob, NoScan, volumes
  <1>17. CASE UNCHANGED vars
    BY <1>17 DEF vars, TypeOK, JobShape
  <1> QED
    BY <1>1, <1>2, <1>3, <1>4, <1>5, <1>6, <1>7, <1>8, <1>9, <1>10, <1>11, <1>12,
       <1>13, <1>14, <1>15, <1>16, <1>17 DEF Next, Drain

-----------------------------------------------------------------------------
(* Announcements.                                                          *)

LEMMA PurgeAnnounces ==
    ASSUME TypeInv, AnnounceInv, NEW fs \in SUBSET Files, Purge(fs)
    PROVE  AnnounceInv'
  <1> SUFFICES ASSUME NEW f \in Files, f \notin unrecorded' PROVE Announced(f)'
    BY DEF AnnounceInv
  <1>1. CASE f \in fs
    BY <1>1 DEF Purge, Announced, TypeInv, JobShape
  <1>2. CASE f \notin fs
    <2>1. f \notin unrecorded /\ Announced(f)
      BY <1>2 DEF Purge, AnnounceInv
    <2>2. told'[f] = told[f] /\ (f \in ledger' <=> f \in ledger)
      BY <1>2 DEF Purge, TypeInv, TypeOK
    <2>3. (f \in notify'.titles <=> f \in notify.titles) /\ notify'.todo = notify.todo
      BY <1>2 DEF Purge, TypeInv, JobShape
    <2> QED
      BY <2>1, <2>2, <2>3 DEF Announced
  <1> QED
    BY <1>1, <1>2

LEMMA NextAnnounce == TypeInv /\ AnnounceInv /\ [Next]_vars => AnnounceInv'
  <1> SUFFICES ASSUME TypeInv, AnnounceInv, [Next]_vars PROVE AnnounceInv'
    OBVIOUS
  <1>1. CASE UNCHANGED <<notify, ledger, told, unrecorded>>
    BY <1>1 DEF AnnounceInv, Announced
  <1>2. CASE Report
    <2>1. PICK trash \in {{}, Gone} : Purge(trash)
      BY <1>2 DEF Report
    <2> QED
      BY <2>1, PurgeAnnounces DEF Gone
  <1>3. CASE PurgeRemoved
    <2>1. {f \in Gone : row[f].old} \subseteq Files
      BY DEF Gone
    <2> QED
      BY <1>3, <2>1, PurgeAnnounces DEF PurgeRemoved
  <1>4. CASE Ask
    BY <1>4 DEF Ask, AnnounceInv, Announced, TypeInv, JobShape
  <1>5. CASE List
    BY <1>5 DEF List, AnnounceInv, Announced, TypeInv, JobShape, NoJob, Course
  <1>6. CASE Record
    <2>1. notify'.titles = notify.titles /\ told' = told
      BY <1>6, RecordNext DEF Record, TypeInv, JobShape
    <2> SUFFICES ASSUME NEW f \in Files, f \notin unrecorded' PROVE Announced(f)'
      BY DEF AnnounceInv
    <2>2. f \notin unrecorded /\ ledger \subseteq ledger' /\ (f \in notify.titles => f \in ledger')
      BY <1>6 DEF Record
    <2> QED
      BY <2>1, <2>2 DEF AnnounceInv, Announced
  <1>7. CASE Send
    <2>1. notify' = NoJob /\ notify.todo = <<"send">> /\ ledger' = ledger /\ unrecorded' = unrecorded
      BY <1>7, SendNext DEF Send
    <2> SUFFICES ASSUME NEW f \in Files, f \notin unrecorded PROVE Announced(f)'
      BY <2>1 DEF AnnounceInv
    <2>2. Announced(f)
      BY DEF AnnounceInv
    <2>3. f \in notify.titles => told[f] = 0 /\ told'[f] = 1 /\ f \in ledger
      BY <1>7, <2>1, <2>2 DEF Send, Announced
    <2>4. f \notin notify.titles => told'[f] = told[f]
      BY <1>7 DEF Send, TypeInv, TypeOK
    <2> QED
      BY <2>1, <2>2, <2>3, <2>4 DEF Announced, NoJob
  <1>8. CASE Crash
    BY <1>8 DEF Crash, AnnounceInv, Announced, NoJob
  <1>9. CASE ScanStep /\ ~Report
    BY <1>1, <1>9 DEF ScanStep, StartScan, Reconcile, ReportFails, Walk, WalkCutShort,
                      Process, ProcessFails, announcer
  <1>10. CASE \E f \in Files : GraceElapses(f) \/ Receive(f) \/ JobStep(f) \/ FailJob(f)
    BY <1>1, <1>10 DEF GraceElapses, Receive, JobStep, StartJob, FinishJob, FailJob, announcer
  <1>11. CASE VolumeChange \/ VerifyStats \/ VerifyMarks \/ Sweep \/ UNCHANGED vars
    BY <1>1, <1>11 DEF VolumeChange, VerifyStats, VerifyMarks, Sweep, vars, announcer
  <1>12. CASE \E batch \in SUBSET buf : Flush(batch)
    BY <1>1, <1>12 DEF Flush, announcer
  <1> QED
    BY <1>2, <1>3, <1>4, <1>5, <1>6, <1>7, <1>8, <1>9, <1>10, <1>11, <1>12 DEF Next, Drain

-----------------------------------------------------------------------------
(* The walk.                                                               *)

LEMMA NextWalk == TypeInv /\ WalkInv /\ [Next]_vars => WalkInv'
  <1> SUFFICES ASSUME TypeInv, WalkInv, [Next]_vars PROVE WalkInv'
    OBVIOUS
  <1>1. CASE stays' \subseteq stays /\ UNCHANGED scan
    BY <1>1 DEF WalkInv
  <1>2. CASE scan' = NoScan
    BY <1>2 DEF WalkInv, NoScan
  <1>3. CASE StartScan
    BY <1>3 DEF StartScan, WalkInv, NoScan
  <1>4. ASSUME NEW r \in Roots, Walk(r) PROVE WalkInv'
    <2>1. stays' = stays /\ scan.pc = "walk" /\ stays \subseteq disk /\ disk \subseteq Files
      BY <1>4 DEF Walk, TypeInv, TypeOK
    <2>2. /\ scan'.seen = scan.seen \cup {f \in Under(r) : Found(f)}
          /\ scan'.reach = IF r \in online THEN scan.reach \cup {r} ELSE scan.reach
      BY <1>4 DEF Walk, Walked, Reaches, TypeInv, TypeOK
    <2> SUFFICES ASSUME NEW f \in stays, RootOf(f) \in scan'.reach PROVE f \in scan'.seen
      BY <2>1 DEF WalkInv
    <2>3. CASE RootOf(f) \in scan.reach
      BY <2>1, <2>2, <2>3 DEF WalkInv
    <2>4. CASE RootOf(f) \notin scan.reach
      <3>1. RootOf(f) = r /\ r \in online
        BY <2>2, <2>4
      <3> QED
        BY <2>1, <2>2, <3>1 DEF Under, Found
    <2> QED
      BY <2>3, <2>4
  <1>5. ASSUME NEW r \in Roots, WalkCutShort(r) PROVE WalkInv'
    <2>1. stays' = stays \ Under(r) /\ scan.pc = "walk" /\ stays \subseteq Files
      BY <1>5 DEF WalkCutShort, TypeInv, TypeOK
    <2>2. scan.seen \subseteq scan'.seen /\ scan'.reach = scan.reach \cup {r}
      BY <1>5 DEF WalkCutShort, Walked, TypeInv, TypeOK
    <2> QED
      BY <2>1, <2>2 DEF WalkInv, Under
  <1>6. CASE \E f \in Files : Process(f) \/ ProcessFails(f)
    <2>1. UNCHANGED stays /\ scan'.pc = scan.pc /\ scan'.reach = scan.reach /\ scan'.seen = scan.seen
      BY <1>6 DEF Process, ProcessFails, TypeInv, TypeOK
    <2> QED
      BY <2>1 DEF WalkInv
  <1>7. CASE Reconcile
    BY <1>7 DEF Reconcile, WalkInv, TypeInv, TypeOK
  <1>8. CASE Report \/ ReportFails \/ Crash
    BY <1>2, <1>8 DEF Report, ReportFails, Crash
  <1>9. CASE \E f \in Files : GraceElapses(f) \/ Receive(f) \/ JobStep(f) \/ FailJob(f)
    BY <1>1, <1>9 DEF GraceElapses, Receive, JobStep, StartJob, FinishJob, FailJob
  <1>10. CASE VolumeChange \/ VerifyStats \/ VerifyMarks \/ PurgeRemoved \/ Sweep \/ UNCHANGED vars
    BY <1>1, <1>10 DEF VolumeChange, VerifyStats, VerifyMarks, PurgeRemoved, Sweep, vars
  <1>11. CASE Ask \/ List \/ Record \/ Send \/ \E batch \in SUBSET buf : Flush(batch)
    BY <1>1, <1>11 DEF Flush, Ask, List, Record, Send
  <1> QED
    BY <1>3, <1>4, <1>5, <1>6, <1>7, <1>8, <1>9, <1>10, <1>11 DEF Next, Drain, ScanStep

-----------------------------------------------------------------------------
(* Theorems.                                                               *)

LEMMA InitInv == Init => IInv
  BY InitType DEF IInv, Init, AnnounceInv, Announced, WalkInv, NoScan, NoJob

LEMMA NextInv == IInv /\ [Next]_vars => IInv'
  BY NextType, NextAnnounce, NextWalk DEF IInv

\* A title is announced once at most as long as its ledger insert went through,
\* whatever restarts, purges and scans come between its record and the messages.
THEOREM AnnouncedOnceCorrect == Spec => []AnnouncedOnce
  <1>1. IInv => AnnouncedOnce
    BY DEF IInv, TypeInv, AnnounceInv, Announced, AnnouncedOnce
  <1> QED
    BY <1>1, InitInv, NextInv, PTL DEF Spec

\* No reconciliation pass soft-deletes a file that was on its volume ever since
\* the scan began, in whatever order volumes come and go during the walk.
THEOREM ReconcileSparesCorrect == Spec => ReconcileSpares
  <1>1. ASSUME IInv, [Next]_vars, NEW f \in Files, scan.pc = "process",
               scan'.pc = "report", row[f].st = "live", row'[f].st # "live"
        PROVE  f \notin stays
    <2>1. Reconcile
      <3>1. scan \in [pc : {"idle", "walk", "process", "report"}, known : SUBSET Files,
                      walk : SUBSET Roots, reach : SUBSET Roots, seen : SUBSET Files,
                      left : SUBSET Files, added : BOOLEAN]
        BY <1>1 DEF IInv, TypeInv, TypeOK
      <3>2. ~UNCHANGED scan /\ scan' # NoScan
        BY <1>1 DEF NoScan
      <3>3. ~(\E g \in Files : Process(g) \/ ProcessFails(g))
        BY <1>1, <3>1 DEF Process, ProcessFails
      <3>4. ~StartScan /\ ~(\E r \in Roots : Walk(r) \/ WalkCutShort(r)) /\ ~Report /\ ~ReportFails
        BY <1>1 DEF StartScan, Walk, WalkCutShort, Report, ReportFails
      <3>5. ScanStep
        BY <1>1, <3>2 DEF Next, vars, VolumeChange, VerifyStats, VerifyMarks, PurgeRemoved,
                          Sweep, GraceElapses, Receive, JobStep, StartJob, FinishJob, FailJob,
                          Drain, Flush, Ask, List, Record, Send, Crash
      <3> QED
        BY <3>3, <3>4, <3>5 DEF ScanStep
    <2>2. row' = Removed({g \in Files \ scan.seen : RootOf(g) \in scan.reach})
      BY <1>1, <2>1 DEF Reconcile
    <2>3. f \notin scan.seen /\ RootOf(f) \in scan.reach
      BY <1>1, <2>2 DEF Removed
    <2> QED
      BY <1>1, <2>3 DEF IInv, WalkInv
  <1>2. IInv /\ [Next]_vars =>
          [\A f \in Files :
              scan.pc = "process" /\ scan'.pc = "report" /\ row[f].st = "live"
                  /\ row'[f].st # "live"
              => f \notin stays]_vars
    BY <1>1
  <1> QED
    BY <1>2, InitInv, NextInv, PTL DEF Spec, ReconcileSpares

-----------------------------------------------------------------------------
(* The way of a file to its analysis.                                      *)

LEMMA WayScan ==
    ASSUME TypeInv, OnItsWay, ScanStep
    PROVE  OnItsWay'
  <1> SUFFICES ASSUME NEW f \in Files, f \in NeedsMarkers'
               PROVE  f \in chan' \cup buf' \cup lost' \/ Busy(f)'
    BY DEF OnItsWay, NeedsMarkers, Live
  <1> USE DEF NeedsMarkers, Live
  <1>1. CASE StartScan \/ ReportFails \/ \E r \in Roots : Walk(r) \/ WalkCutShort(r)
    BY <1>1 DEF StartScan, ReportFails, Walk, WalkCutShort, pipeline, OnItsWay, Busy
  <1>2. CASE Reconcile
    <2>1. row'[f].st = "live" => row'[f] = row[f]
      BY <1>2 DEF Reconcile, Removed, TypeInv, TypeOK
    <2> QED
      BY <1>2, <2>1 DEF Reconcile, pipeline, OnItsWay, Busy
  <1>3. CASE Report
    <2>1. PICK trash \in {{}, Gone} : Purge(trash)
      BY <1>3 DEF Report
    <2> QED
      BY <2>1 DEF Purge, NoRow, OnItsWay, Busy, TypeInv, TypeOK
  <1>4. ASSUME NEW g \in Files, Process(g) PROVE f \in chan' \cup buf' \cup lost' \/ Busy(f)'
    <2>1. chan \subseteq chan' /\ buf' = buf /\ job' = job
      BY <1>4 DEF Process, Emitted
    <2>2. CASE g \notin scan.known /\ Found(g)
      <3>1. /\ row' = [row EXCEPT ![g].st = "live", ![g].old = FALSE]
            /\ lost' = IF g \in chan' THEN lost \ {g} ELSE lost \cup {g}
        BY <1>4, <2>2 DEF Process, Upserted
      <3> QED
        BY <2>1, <3>1 DEF OnItsWay, Busy, TypeInv, TypeOK
    <2>3. CASE ~(g \notin scan.known /\ Found(g))
      BY <1>4, <2>1, <2>3 DEF Process, OnItsWay, Busy
    <2> QED
      BY <2>2, <2>3
  <1>5. ASSUME NEW g \in Files, ProcessFails(g) PROVE f \in chan' \cup buf' \cup lost' \/ Busy(f)'
    BY <1>5 DEF ProcessFails, Upserted, OnItsWay, Busy, TypeInv, TypeOK
  <1> QED
    BY <1>1, <1>2, <1>3, <1>4, <1>5 DEF ScanStep

LEMMA WayStep == TypeInv /\ OnItsWay /\ [Next]_vars => OnItsWay'
  <1> SUFFICES ASSUME TypeInv, OnItsWay, [Next]_vars, NEW f \in Files, f \in NeedsMarkers'
               PROVE  f \in chan' \cup buf' \cup lost' \/ Busy(f)'
    BY DEF OnItsWay, NeedsMarkers, Live
  <1> USE DEF NeedsMarkers, Live
  <1>1. CASE ScanStep
    BY <1>1, WayScan DEF OnItsWay
  <1>2. CASE VolumeChange \/ VerifyStats \/ Ask \/ List \/ Record \/ Send \/ UNCHANGED vars
    BY <1>2 DEF VolumeChange, VerifyStats, Ask, List, Record, Send, vars, pipeline, OnItsWay, Busy
  <1>3. CASE VerifyMarks
    <2>1. row'[f].st = "live" => row'[f] = row[f]
      BY <1>3 DEF VerifyMarks, Removed, TypeInv, TypeOK
    <2> QED
      BY <1>3, <2>1 DEF VerifyMarks, pipeline, OnItsWay, Busy
  <1>4. CASE PurgeRemoved
    BY <1>4 DEF PurgeRemoved, Purge, NoRow, OnItsWay, Busy, TypeInv, TypeOK
  <1>5. CASE Sweep
    BY <1>5 DEF Sweep, Enqueued, OnItsWay, Busy
  <1>6. ASSUME NEW g \in Files, GraceElapses(g) PROVE f \in chan' \cup buf' \cup lost' \/ Busy(f)'
    BY <1>6 DEF GraceElapses, pipeline, OnItsWay, Busy, TypeInv, TypeOK
  <1>7. ASSUME NEW g \in Files, Receive(g) PROVE f \in chan' \cup buf' \cup lost' \/ Busy(f)'
    BY <1>7 DEF Receive, OnItsWay, Busy
  <1>8. ASSUME NEW batch \in SUBSET buf, Flush(batch)
        PROVE  f \in chan' \cup buf' \cup lost' \/ Busy(f)'
    <2>1. row' = row /\ chan' = chan /\ buf' = buf \ batch
      BY <1>8 DEF Flush
    <2>2. CASE job' = Enqueued(batch) /\ lost' = lost \ batch
      BY <2>1, <2>2 DEF Enqueued, OnItsWay, Busy
    <2>3. CASE lost' = lost \cup (batch \cap NeedsMarkers) /\ job' = job
      BY <2>1, <2>3 DEF OnItsWay, Busy
    <2> QED
      BY <1>8, <2>2, <2>3 DEF Flush
  <1>9. ASSUME NEW g \in Files, StartJob(g) PROVE f \in chan' \cup buf' \cup lost' \/ Busy(f)'
    BY <1>9 DEF StartJob, OnItsWay, Busy, TypeInv, TypeOK
  <1>10. ASSUME NEW g \in Files, FinishJob(g) PROVE f \in chan' \cup buf' \cup lost' \/ Busy(f)'
    BY <1>10 DEF FinishJob, OnItsWay, Busy, TypeInv, TypeOK
  <1>11. ASSUME NEW g \in Files, FailJob(g) PROVE f \in chan' \cup buf' \cup lost' \/ Busy(f)'
    BY <1>11 DEF FailJob, OnItsWay, Busy, TypeInv, TypeOK
  <1>12. CASE Crash
    BY <1>12 DEF Crash, OnItsWay, Busy
  <1> QED
    BY <1>1, <1>2, <1>3, <1>4, <1>5, <1>6, <1>7, <1>8, <1>9, <1>10, <1>11, <1>12
    DEF Next, Drain, JobStep

\* A live row without its analysis is on its way to one, or its way is known to
\* have ended: in a full channel, a failed batch, a job that died, a scan that
\* failed at it or a restart that found it in memory (pipeline.rs:116-180, 219-300).
THEOREM OnItsWayCorrect == Spec => []OnItsWay
  <1>1. Init => OnItsWay
    BY DEF Init, OnItsWay, NeedsMarkers, Live, NoRow
  <1>2. IInv /\ OnItsWay /\ [Next]_vars => OnItsWay'
    BY WayStep DEF IInv
  <1> QED
    BY <1>1, <1>2, InitInv, NextInv, PTL DEF Spec
=============================================================================
