--------------------------- MODULE TranscodeProofs ---------------------------
(***************************************************************************)
(* What holds of Transcode.tla for any users, tabs, titles, caps and any   *)
(* number of sessions: the caps, the stop events and the pause flag.       *)
(***************************************************************************)
EXTENDS Transcode, FiniteSetTheorems, TLAPS

SessionRow == [st : {"free", "live", "gone"}, user : Users, title : Titles,
               paused : BOOLEAN, recent : BOOLEAN, raced : BOOLEAN]
CallRow    == [at : Places, sid : Sids \cup {NoSid}, title : Titles \cup {"none"}]
EncRow     == [proc : Procs, drained : BOOLEAN]
StopRow    == [due : Nat, kept : Nat]

\* A create, from its place in the queue to its answer.
PastGate == {"find", "adopt", "cont", "touch", "caps", "start"}
Creating == PastGate \cup {"gate"}

\* A handler that has picked a session.
Chosen == {"adopt", "cont", "touch", "stop", "go", "serve", "remove", "rmdir"}

\* Handlers and reaper work on sessions that were started once.
SidsKnown ==
    /\ \A c \in Clients : call[c].at \in Chosen =>
          call[c].sid \in Sids /\ sess[call[c].sid].st # "free"
    /\ \A c \in Clients : call[c].at \in Creating => call[c].title \in Titles
    /\ \A s \in reaper.todo : sess[s].st # "free"

TypeInv == TypeOK /\ SidsKnown

-----------------------------------------------------------------------------
(* Types.                                                                  *)

\* A row differs from the one before in what the action names.
LEMMA RowTypes ==
    ASSUME TypeOK
    PROVE  /\ \A s \in Sids : Touched(s) \in [Sids -> SessionRow]
           /\ \A s \in Sids : Taken(s) \in [Sids -> SessionRow]
           /\ \A s \in Sids, from, to \in Procs : Signal(s, from, to) \in [Sids -> EncRow]
           /\ \A live, calls : \A e \in [Sids -> EncRow] : Dropped(e, live, calls) \in [Sids -> EncRow]
  <1>0. sess \in [Sids -> SessionRow] /\ enc \in [Sids -> EncRow]
    BY DEF TypeOK, SessionRow, EncRow
  <1>1. ASSUME NEW s \in Sids PROVE Touched(s) \in [Sids -> SessionRow]
    <2>1. ASSUME NEW b \in BOOLEAN PROVE [sess[s] EXCEPT !.recent = b] \in SessionRow
      BY <1>0 DEF SessionRow
    <2>2. (s \in Live) \in BOOLEAN
      OBVIOUS
    <2> QED
      BY <1>0, <2>1, <2>2 DEF Touched
  <1>2. ASSUME NEW s \in Sids PROVE Taken(s) \in [Sids -> SessionRow]
    <2> DEFINE read == \E c \in Clients : call[c].sid = s /\ call[c].at = "adopt"
    <2>1. (sess[s].paused /\ read) \in BOOLEAN
      OBVIOUS
    <2>2. ASSUME NEW b \in BOOLEAN
          PROVE  [sess[s] EXCEPT !.st = "gone", !.recent = FALSE, !.raced = FALSE, !.paused = b]
                    \in SessionRow
      BY <1>0 DEF SessionRow
    <2>3. Taken(s) = [sess EXCEPT ![s] = [sess[s] EXCEPT !.st = "gone", !.recent = FALSE,
                                             !.raced = FALSE, !.paused = sess[s].paused /\ read]]
      BY <1>0 DEF Taken
    <2> HIDE DEF read
    <2> QED
      BY <1>0, <2>1, <2>2, <2>3
  <1>3. ASSUME NEW s \in Sids, NEW from \in Procs, NEW to \in Procs
        PROVE  Signal(s, from, to) \in [Sids -> EncRow]
    <2>1. [enc[s] EXCEPT !.proc = to] \in EncRow
      BY <1>0 DEF EncRow
    <2> QED
      BY <1>0, <2>1 DEF Signal
  <1>4. \A live, calls : \A e \in [Sids -> EncRow] : Dropped(e, live, calls) \in [Sids -> EncRow]
    BY DEF Dropped, EncRow, Procs
  <1> QED
    BY <1>1, <1>2, <1>3, <1>4

\* Proceed keeps the call table well-typed and its caller on a known session.
LEMMA ProceedType ==
    ASSUME TypeOK, NEW c \in Clients, NEW at \in Places, NEW live \in [Sids -> SessionRow],
           NEW e \in [Sids -> EncRow], Proceed(c, at, live, e)
    PROVE  /\ call' \in [Clients -> CallRow]
           /\ sess' = live
           /\ enc' \in [Sids -> EncRow]
           /\ call' = [call EXCEPT ![c] = IF at = "idle" THEN Idle ELSE [@ EXCEPT !.at = at]]
  <1>1. [call EXCEPT ![c] = IF at = "idle" THEN Idle ELSE [@ EXCEPT !.at = at]]
          \in [Clients -> CallRow]
    <2>1. call[c] \in CallRow /\ Idle \in CallRow
      BY DEF TypeOK, CallRow, Idle, Places
    <2> QED
      BY <2>1 DEF TypeOK, CallRow
  <1> QED
    BY <1>1, RowTypes DEF Proceed

\* Giving up a place leaves a queue.
LEMMA WithoutType ==
    ASSUME TypeOK, NEW c \in Clients
    PROVE  Without(c) \in Seq(Clients)
  <1> DEFINE places == {i \in DOMAIN gate : gate[i] = c}
             before == CHOOSE i \in places : TRUE
  <1>1. CASE places = {}
    BY <1>1 DEF Without, TypeOK
  <1>2. CASE places # {}
    <2>1. before \in 1..Len(gate) /\ Len(gate) \in Nat
      BY <1>2 DEF TypeOK
    <2>2. Without(c) = [i \in 1..(Len(gate) - 1) |-> gate[IF i < before THEN i ELSE i + 1]]
      BY <1>2 DEF Without
    <2>3. \A i \in 1..(Len(gate) - 1) : gate[IF i < before THEN i ELSE i + 1] \in Clients
      BY <2>1 DEF TypeOK
    <2> QED
      BY <2>1, <2>2, <2>3
  <1> QED
    BY <1>1, <1>2

\* What a step of a client has to keep.
LEMMA CallerKnown ==
    ASSUME TypeInv, NEW c \in Clients, NEW k \in CallRow, call' = [call EXCEPT ![c] = k],
           k.at \in Chosen => k.sid \in Sids /\ sess[k.sid].st # "free",
           k.at \in Creating => k.title \in Titles,
           \A r \in Sids : sess[r].st # "free" => sess'[r].st # "free",
           reaper' = reaper
    PROVE  SidsKnown'
  <1>1. ASSUME NEW d \in Clients PROVE call'[d] = IF d = c THEN k ELSE call[d]
    BY DEF TypeInv, TypeOK
  <1>2. \A d \in Clients : call'[d].at \in Chosen =>
          call'[d].sid \in Sids /\ sess'[call'[d].sid].st # "free"
    BY <1>1 DEF TypeInv, SidsKnown
  <1>3. \A d \in Clients : call'[d].at \in Creating => call'[d].title \in Titles
    BY <1>1 DEF TypeInv, SidsKnown
  <1>4. \A s \in reaper'.todo : sess'[s].st # "free"
    BY DEF TypeInv, SidsKnown, TypeOK
  <1> QED
    BY <1>2, <1>3, <1>4 DEF SidsKnown

\* The steps that go through Proceed.
LEMMA ProceedKeeps ==
    ASSUME TypeInv, NEW c \in Clients, NEW at \in Places, NEW live \in [Sids -> SessionRow],
           NEW e \in [Sids -> EncRow], Proceed(c, at, live, e),
           at \in Chosen => call[c].at \in Chosen,
           at \in Creating => call[c].at \in Creating,
           \A r \in Sids : sess[r].st # "free" => live[r].st # "free",
           gate' \in Seq(Clients), reaper' = reaper,
           stops' \in [Sids -> StopRow], cut' \subseteq Sids
    PROVE  TypeInv'
  <1> DEFINE k == IF at = "idle" THEN Idle ELSE [call[c] EXCEPT !.at = at]
  <1>1. call' \in [Clients -> CallRow] /\ sess' = live /\ enc' \in [Sids -> EncRow]
    BY ProceedType DEF TypeInv
  <1>2. TypeOK'
    BY <1>1 DEF TypeInv, TypeOK, SessionRow, EncRow, CallRow, StopRow
  <1>3. call' = [call EXCEPT ![c] = k] /\ k \in CallRow
    <2>1. call[c] \in CallRow /\ Idle \in CallRow
      BY DEF TypeInv, TypeOK, CallRow, Idle, Places
    <2> QED
      BY <2>1 DEF Proceed, TypeInv, TypeOK, CallRow
  <1>4. at # "idle" => k.at = at /\ k.sid = call[c].sid /\ k.title = call[c].title
    BY DEF TypeInv, TypeOK
  <1>5. k.at \in Chosen => k.sid \in Sids /\ sess[k.sid].st # "free"
    BY <1>4 DEF TypeInv, SidsKnown, Idle, Chosen
  <1>6. k.at \in Creating => k.title \in Titles
    BY <1>4 DEF TypeInv, SidsKnown, Idle, Creating, PastGate
  <1>7. SidsKnown'
    BY <1>1, <1>3, <1>5, <1>6, CallerKnown
  <1> QED
    BY <1>2, <1>7 DEF TypeInv

\* Sessions that were started stay so, whatever a handler does to their rows.
LEMMA StaysStarted ==
    ASSUME TypeOK, NEW s \in Sids, NEW r \in Sids, sess[r].st # "free"
    PROVE  Touched(s)[r].st # "free" /\ Taken(s)[r].st # "free"
  BY DEF TypeOK, Touched, Taken

LEMMA SessType ==
    TypeOK => sess \in [Sids -> SessionRow] /\ enc \in [Sids -> EncRow] /\ stops \in [Sids -> StopRow]
  BY DEF TypeOK, SessionRow, EncRow, StopRow

\* What Emit does to the rows.
LEMMA EmitRows ==
    ASSUME TypeOK, NEW gone, Emit(gone)
    PROVE  /\ stops' \in [Sids -> StopRow]
           /\ \A s \in Sids : /\ stops'[s].kept = stops[s].kept
                              /\ stops'[s].due = IF s \in gone THEN stops[s].due + 1 ELSE stops[s].due
  BY SessType DEF Emit, StopRow

LEMMA CallType == TypeOK => call \in [Clients -> CallRow] /\ Idle \in CallRow
  BY DEF TypeOK, CallRow, Idle, Places

\* A swap of the pause flag.
LEMMA SwapType ==
    ASSUME TypeInv, NEW c \in Clients, NEW s \in Sids, NEW b \in BOOLEAN,
           NEW at \in {"cont", "stop", "go"}, Swap(c, s, b, at),
           sess[s].st # "free", at = "cont" => call[c].title \in Titles
    PROVE  TypeInv'
  <1>0. /\ sess \in [Sids -> SessionRow] /\ call \in [Clients -> CallRow]
        /\ (s \in Live /\ Signalling(s) # {}) \in BOOLEAN
    BY SessType, CallType DEF TypeInv
  <1>1. PICK raced \in BOOLEAN : sess' = [sess EXCEPT ![s].paused = b, ![s].raced = raced]
    BY <1>0 DEF Swap
  <1>2. [sess[s] EXCEPT !.paused = b, !.raced = raced] \in SessionRow
    BY <1>0 DEF SessionRow
  <1>3. sess' \in [Sids -> SessionRow] /\ \A r \in Sids : sess'[r].st = sess[r].st
    BY <1>0, <1>1, <1>2 DEF SessionRow
  <1>4. /\ [call[c] EXCEPT !.at = at, !.sid = s] \in CallRow
        /\ call' = [call EXCEPT ![c] = [call[c] EXCEPT !.at = at, !.sid = s]]
    BY <1>0 DEF Swap, CallRow, Places
  <1>5. call' \in [Clients -> CallRow]
    BY <1>0, <1>4
  <1>6. [call[c] EXCEPT !.at = at, !.sid = s].at = at /\ [call[c] EXCEPT !.at = at, !.sid = s].sid = s
        /\ [call[c] EXCEPT !.at = at, !.sid = s].title = call[c].title
    BY <1>0 DEF CallRow
  <1>7. SidsKnown'
    BY <1>3, <1>4, <1>6, CallerKnown DEF Swap, Creating, PastGate
  <1> QED
    BY <1>3, <1>5, <1>7 DEF Swap, TypeInv, TypeOK, SessionRow, CallRow

\* The steps of POST /sessions.
LEMMA CreateType ==
    ASSUME TypeInv, NEW c \in Clients,
           \/ CheckCpu(c) \/ Find(c) \/ AdoptSwap(c) \/ AdoptCont(c) \/ AdoptTouch(c)
           \/ CheckCaps(c) \/ Start(c) \/ StartFails(c)
    PROVE  TypeInv'
  <1> USE DEF TypeInv
  <1>0. /\ sess \in [Sids -> SessionRow] /\ enc \in [Sids -> EncRow]
        /\ gate \in Seq(Clients) /\ Without(c) \in Seq(Clients)
        /\ stops \in [Sids -> StopRow] /\ cut \subseteq Sids
    BY SessType, WithoutType DEF TypeOK
  <1>1. CASE CheckCpu(c) \/ CheckCaps(c) \/ StartFails(c)
    <2>1. PICK at \in {"idle", "find", "start"} :
             /\ Proceed(c, at, sess, enc)
             /\ at # "idle" => call[c].at \in Creating
             /\ gate' \in {gate, Without(c)}
      BY <1>1 DEF CheckCpu, CheckCaps, StartFails, Answer, Creating, PastGate
    <2>2. reaper' = reaper /\ stops' = stops /\ cut' = cut
      BY <1>1 DEF CheckCpu, CheckCaps, StartFails
    <2>3. at \in Places /\ at \notin Chosen /\ ("idle" \notin Creating)
      BY DEF Chosen, Places, Creating, PastGate
    <2>4. at \in Creating => call[c].at \in Creating
      BY <2>1, <2>3
    <2> QED
      BY <1>0, <2>1, <2>2, <2>3, <2>4, ProceedKeeps
  <1>2. CASE Find(c)
    <2>1. PICK k \in CallRow : /\ call' = [call EXCEPT ![c] = k] /\ k.title = call[c].title
                              /\ \/ k.at = "adopt" /\ k.sid \in Live
                                 \/ k.at = "caps"
      <3>1. call[c] \in CallRow /\ call \in [Clients -> CallRow]
        BY CallType
      <3>2. CASE \E s \in Compatible(c) : call' = [call EXCEPT ![c].at = "adopt", ![c].sid = s]
        <4>1. PICK s \in Compatible(c) : call' = [call EXCEPT ![c].at = "adopt", ![c].sid = s]
          BY <3>2
        <4>2. s \in Live /\ s \in Sids
          BY DEF Compatible, Mine, Live
        <4>3. [call[c] EXCEPT !.at = "adopt", !.sid = s] \in CallRow
          BY <3>1, <4>2 DEF CallRow, Places
        <4>4. call' = [call EXCEPT ![c] = [call[c] EXCEPT !.at = "adopt", !.sid = s]]
          BY <3>1, <4>1
        <4> QED
          BY <3>1, <4>2, <4>3, <4>4 DEF CallRow
      <3>3. CASE call' = [call EXCEPT ![c].at = "caps"]
        <4>1. [call[c] EXCEPT !.at = "caps"] \in CallRow
          BY <3>1 DEF CallRow, Places
        <4>2. call' = [call EXCEPT ![c] = [call[c] EXCEPT !.at = "caps"]]
          BY <3>1, <3>3
        <4> QED
          BY <3>1, <4>1, <4>2 DEF CallRow
      <3> QED
        BY <1>2, <3>2, <3>3 DEF Find
    <2>2. call[c].title \in Titles
      BY <1>2 DEF Find, SidsKnown, Creating, PastGate
    <2>3. SidsKnown'
      BY <1>2, <2>1, <2>2, CallerKnown DEF Find, Live, Chosen, Creating, PastGate
    <2>4. call' \in [Clients -> CallRow]
      BY <2>1, CallType
    <2> QED
      BY <1>2, <2>3, <2>4 DEF Find, TypeOK, CallRow
  <1>3. CASE AdoptSwap(c)
    <2>1. Swap(c, call[c].sid, FALSE, "cont") /\ call[c].at = "adopt" /\ call[c].sid \in Sids
      BY <1>3 DEF AdoptSwap, SidsKnown, Chosen
    <2>2. call[c].title \in Titles /\ sess[call[c].sid].st # "free"
      BY <2>1 DEF SidsKnown, Creating, PastGate, Chosen
    <2> QED
      BY <2>1, <2>2, SwapType DEF Creating, PastGate
  <1>4. CASE AdoptCont(c) \/ AdoptTouch(c)
    <2>1. PICK at \in {"idle", "touch"}, e \in [Sids -> EncRow] :
             /\ Proceed(c, at, Touched(call[c].sid), e)
             /\ gate' \in {gate, Without(c)}
      <3>1. \A s \in Sids : Signal(s, "stopped", "running") \in [Sids -> EncRow]
        BY RowTypes DEF Procs
      <3>2. call[c].at \in Chosen \cup {"touch"} /\ call[c].sid \in Sids
        BY <1>4 DEF AdoptCont, AdoptTouch, SidsKnown, Chosen
      <3> QED
        BY <1>0, <1>4, <3>1, <3>2 DEF AdoptCont, AdoptTouch, Answer
    <2>2. /\ call[c].at \in Chosen /\ call[c].at \in Creating /\ call[c].sid \in Sids
          /\ at \in Places
      BY <1>4 DEF AdoptCont, AdoptTouch, SidsKnown, Chosen, Creating, PastGate, Places
    <2>3. /\ Touched(call[c].sid) \in [Sids -> SessionRow]
          /\ \A r \in Sids : sess[r].st # "free" => Touched(call[c].sid)[r].st # "free"
      BY <2>2, RowTypes, StaysStarted
    <2>4. reaper' = reaper /\ stops' = stops /\ cut' = cut
      BY <1>4 DEF AdoptCont, AdoptTouch
    <2> QED
      BY <1>0, <2>1, <2>2, <2>3, <2>4, ProceedKeeps
  <1>5. CASE Start(c)
    <2>1. call[c].at = "start" /\ call[c].title \in Titles
      BY <1>5 DEF Start, SidsKnown, Creating, PastGate
    <2>2. PICK s \in Sids :
             /\ sess[s].st = "free"
             /\ Answer(c, [sess EXCEPT ![s] = [st |-> "live", user |-> UserOf(c),
                            title |-> call[c].title, paused |-> FALSE, recent |-> TRUE, raced |-> FALSE]],
                       [enc EXCEPT ![s].proc = "running"])
      BY <1>5 DEF Start
    <2> DEFINE live == [sess EXCEPT ![s] = [st |-> "live", user |-> UserOf(c),
                            title |-> call[c].title, paused |-> FALSE, recent |-> TRUE, raced |-> FALSE]]
               e == [enc EXCEPT ![s].proc = "running"]
    <2>3. live \in [Sids -> SessionRow] /\ \A r \in Sids : sess[r].st # "free" => live[r].st # "free"
      BY <1>0, <2>1 DEF SessionRow, UserOf, Clients
    <2>4. e \in [Sids -> EncRow]
      BY <1>0 DEF EncRow, Procs
    <2>5. reaper' = reaper /\ stops' = stops /\ cut' = cut /\ gate' = Without(c)
      BY <1>5, <2>2 DEF Start, Answer
    <2>6. "idle" \in Places /\ "idle" \notin Chosen /\ "idle" \notin Creating
      BY DEF Places, Chosen, Creating, PastGate
    <2>7. Proceed(c, "idle", live, e)
      BY <2>2 DEF Answer
    <2> HIDE DEF live, e
    <2> QED
      BY <1>0, <2>3, <2>4, <2>5, <2>6, <2>7, ProceedKeeps
  <1> QED
    BY <1>1, <1>2, <1>3, <1>4, <1>5

\* The requests about a session, and a create that joins the queue.
LEMMA RequestType ==
    ASSUME TypeInv, NEW c \in Clients,
           \/ \E t \in Titles : Create(c, t)
           \/ \E s \in Sids : Pause(c, s) \/ Resume(c, s) \/ Fetch(c, s) \/ Delete(c, s)
    PROVE  TypeInv'
  <1> USE DEF TypeInv
  <1>0. /\ sess \in [Sids -> SessionRow] /\ enc \in [Sids -> EncRow]
        /\ call \in [Clients -> CallRow]
    BY SessType, CallType
  <1>1. ASSUME NEW t \in Titles, Create(c, t) PROVE TypeInv'
    <2>1. [at |-> "gate", sid |-> NoSid, title |-> t] \in CallRow
      BY DEF CallRow, Places
    <2>2. call' \in [Clients -> CallRow] /\ gate' \in Seq(Clients)
      BY <1>0, <1>1, <2>1 DEF Create, TypeOK
    <2>3. SidsKnown'
      BY <1>1, <2>1, CallerKnown DEF Create, Chosen
    <2> QED
      BY <1>1, <2>2, <2>3 DEF Create, TypeOK, CallRow
  <1>2. ASSUME NEW s \in Sids, Pause(c, s) \/ Resume(c, s) PROVE TypeInv'
    <2>1. \E b \in BOOLEAN, at \in {"stop", "go"} : Swap(c, s, b, at)
      BY <1>2 DEF Pause, Resume
    <2>2. sess[s].st # "free"
      BY <1>2 DEF Pause, Resume, Mine, Live
    <2> QED
      BY <2>1, <2>2, SwapType
  <1>3. ASSUME NEW s \in Sids, Fetch(c, s) \/ Delete(c, s) PROVE TypeInv'
    <2>1. PICK at \in {"serve", "remove"} : call' = [call EXCEPT ![c].at = at, ![c].sid = s]
      BY <1>3 DEF Fetch, Delete
    <2>2. /\ [call[c] EXCEPT !.at = at, !.sid = s] \in CallRow
          /\ call' = [call EXCEPT ![c] = [call[c] EXCEPT !.at = at, !.sid = s]]
          /\ [call[c] EXCEPT !.at = at, !.sid = s].at = at
          /\ [call[c] EXCEPT !.at = at, !.sid = s].sid = s
      BY <1>0, <2>1 DEF CallRow, Places
    <2>3. sess' \in [Sids -> SessionRow] /\ \A r \in Sids : sess[r].st # "free" => sess'[r].st # "free"
      BY <1>0, <1>3, RowTypes, StaysStarted DEF Fetch, Delete
    <2>4. sess[s].st # "free"
      BY <1>3 DEF Fetch, Delete, Mine, Live
    <2>5. reaper' = reaper /\ enc' = enc /\ gate' = gate /\ stops' = stops /\ cut' = cut
      BY <1>3 DEF Fetch, Delete
    <2>6. at \notin Creating
      BY DEF Creating, PastGate
    <2>7. SidsKnown'
      BY <2>2, <2>3, <2>4, <2>5, <2>6, CallerKnown
    <2>8. call' \in [Clients -> CallRow]
      BY <1>0, <2>2
    <2> QED
      BY <2>3, <2>5, <2>7, <2>8 DEF TypeOK, SessionRow, CallRow
  <1> QED
    BY <1>1, <1>2, <1>3

\* What follows such a request, and a client that goes away.
LEMMA FollowType ==
    ASSUME TypeInv, NEW c \in Clients,
           PauseSignal(c) \/ ResumeSignal(c) \/ Served(c) \/ Remove(c) \/ Rmdir(c) \/ Drop(c)
    PROVE  TypeInv'
  <1> USE DEF TypeInv
  <1>0. /\ sess \in [Sids -> SessionRow] /\ enc \in [Sids -> EncRow]
        /\ gate \in Seq(Clients) /\ Without(c) \in Seq(Clients)
        /\ stops \in [Sids -> StopRow] /\ cut \subseteq Sids
        /\ "idle" \in Places /\ "idle" \notin Chosen /\ "idle" \notin Creating
    BY SessType, WithoutType DEF TypeOK, Places, Chosen, Creating, PastGate
  <1>1. CASE PauseSignal(c) \/ ResumeSignal(c) \/ Served(c)
    <2>1. call[c].sid \in Sids
      BY <1>1 DEF PauseSignal, ResumeSignal, Served, SidsKnown, Chosen
    <2>2. PICK live \in {sess, Touched(call[c].sid)},
               e \in {enc, Signal(call[c].sid, "running", "stopped"),
                      Signal(call[c].sid, "stopped", "running")} :
             Proceed(c, "idle", live, e)
      BY <1>1 DEF PauseSignal, ResumeSignal, Served
    <2>3. e \in [Sids -> EncRow]
      BY <1>0, <2>1, RowTypes DEF Procs
    <2>4. /\ live \in [Sids -> SessionRow]
          /\ \A r \in Sids : sess[r].st # "free" => live[r].st # "free"
      BY <1>0, <2>1, RowTypes, StaysStarted
    <2>5. reaper' = reaper /\ stops' = stops /\ cut' = cut /\ gate' = gate
      BY <1>1 DEF PauseSignal, ResumeSignal, Served
    <2> QED
      BY <1>0, <2>2, <2>3, <2>4, <2>5, ProceedKeeps
  <1>2. CASE Remove(c)
    <2>1. call[c].sid \in Sids /\ call[c].at \in Chosen
      BY <1>2 DEF Remove, SidsKnown, Chosen
    <2>2. PICK at \in {"rmdir", "idle"} : Proceed(c, at, Taken(call[c].sid), enc)
      BY <1>2 DEF Remove
    <2>3. /\ Taken(call[c].sid) \in [Sids -> SessionRow]
          /\ \A r \in Sids : sess[r].st # "free" => Taken(call[c].sid)[r].st # "free"
      BY <2>1, RowTypes, StaysStarted
    <2>4. reaper' = reaper /\ stops' = stops /\ cut' = cut /\ gate' = gate
      BY <1>2 DEF Remove
    <2>5. at \in Places /\ at \notin Creating
      BY DEF Places, Creating, PastGate
    <2> QED
      BY <1>0, <2>1, <2>2, <2>3, <2>4, <2>5, ProceedKeeps
  <1>3. CASE Rmdir(c)
    <2>1. /\ stops' \in [Sids -> StopRow] /\ reaper' = reaper /\ cut' = cut /\ gate' = gate
          /\ Proceed(c, "idle", sess, enc)
      BY <1>0, <1>3, EmitRows DEF Rmdir
    <2> QED
      BY <1>0, <2>1, ProceedKeeps
  <1>4. CASE Drop(c)
    <2>1. cut' \subseteq Sids
      BY <1>0, <1>4 DEF Drop, SidsKnown, Chosen
    <2>2. stops' = stops /\ reaper' = reaper /\ gate' = Without(c) /\ Proceed(c, "idle", sess, enc)
      BY <1>4 DEF Drop, Answer
    <2> QED
      BY <1>0, <2>1, <2>2, ProceedKeeps
  <1> QED
    BY <1>1, <1>2, <1>3, <1>4

\* The reaper, ffmpeg and time.
LEMMA ElseType ==
    ASSUME TypeInv, Reap \/ \E s \in Sids : RecordStop(s) \/ Age(s) \/ Exit(s) \/ Drain(s)
    PROVE  TypeInv'
  <1> USE DEF TypeInv
  <1>0. /\ sess \in [Sids -> SessionRow] /\ enc \in [Sids -> EncRow]
        /\ stops \in [Sids -> StopRow]
        /\ reaper \in [todo : SUBSET Sids, cur : Sids \cup {NoSid}, got : SUBSET Sids]
    BY SessType DEF TypeOK
  <1>1. CASE ReapList
    <2>1. Stale \subseteq Sids /\ \A s \in Stale : sess[s].st # "free"
      BY DEF Stale, Live
    <2> QED
      BY <1>1, <2>1 DEF ReapList, TypeOK, SidsKnown
  <1>2. ASSUME NEW s \in Sids, ReapRemove(s) PROVE TypeInv'
    <2>1. sess' \in [Sids -> SessionRow] /\ \A r \in Sids : sess[r].st # "free" => sess'[r].st # "free"
      BY <1>2, RowTypes, StaysStarted DEF ReapRemove
    <2>2. enc' \in [Sids -> EncRow]
      BY <1>0, <1>2, RowTypes DEF ReapRemove
    <2>3. /\ reaper' \in [todo : SUBSET Sids, cur : Sids \cup {NoSid}, got : SUBSET Sids]
          /\ reaper'.todo \subseteq reaper.todo
      BY <1>0, <1>2 DEF ReapRemove
    <2>4. SidsKnown'
      BY <1>2, <2>1, <2>3 DEF ReapRemove, SidsKnown, TypeOK
    <2> QED
      BY <1>2, <2>1, <2>2, <2>3, <2>4 DEF ReapRemove, TypeOK, SessionRow, EncRow
  <1>3. CASE ReapRmdir
    BY <1>3 DEF ReapRmdir, TypeOK, SidsKnown
  <1>4. CASE ReapHook
    <2>1. stops' \in [Sids -> StopRow]
      BY <1>4, EmitRows DEF ReapHook
    <2> QED
      BY <1>4, <2>1 DEF ReapHook, TypeOK, SidsKnown, StopRow
  <1>5. ASSUME NEW s \in Sids, Age(s) PROVE TypeInv'
    <2>1. [sess[s] EXCEPT !.recent = FALSE] \in SessionRow
      BY <1>0 DEF SessionRow
    <2>2. sess' \in [Sids -> SessionRow] /\ \A r \in Sids : sess'[r].st = sess[r].st
      BY <1>0, <1>5, <2>1 DEF Age, SessionRow
    <2> QED
      BY <1>5, <2>2 DEF Age, TypeOK, SidsKnown, SessionRow
  <1>6. ASSUME NEW s \in Sids, Exit(s) \/ Drain(s) PROVE TypeInv'
    <2>1. enc' \in [Sids -> EncRow]
      <3>1. /\ [enc[s] EXCEPT !.proc = "zombie"] \in EncRow
            /\ [enc[s] EXCEPT !.drained = TRUE] \in EncRow
            /\ [proc |-> "dead", drained |-> TRUE] \in EncRow
        BY <1>0 DEF EncRow, Procs
      <3> QED
        BY <1>0, <1>6, <3>1 DEF Exit, Drain
    <2> QED
      BY <1>6, <2>1 DEF Exit, Drain, TypeOK, SidsKnown, EncRow
  <1>7. ASSUME NEW s \in Sids, RecordStop(s) PROVE TypeInv'
    <2>1. stops[s].due \in Nat /\ stops[s].kept \in Nat /\ stops[s].due > 0
      BY <1>0, <1>7 DEF RecordStop, StopRow
    <2>2. /\ [due |-> stops[s].due - 1, kept |-> stops[s].kept + 1] \in StopRow
          /\ [stops[s] EXCEPT !.due = stops[s].due - 1] \in StopRow
      BY <1>0, <2>1 DEF StopRow
    <2>3. stops' \in [Sids -> StopRow]
      BY <1>0, <1>7, <2>2 DEF RecordStop
    <2>4. cut' \subseteq Sids
      BY <1>7 DEF RecordStop, TypeOK
    <2> QED
      BY <1>7, <2>3, <2>4 DEF RecordStop, TypeOK, SidsKnown, StopRow
  <1> QED
    BY <1>1, <1>2, <1>3, <1>4, <1>5, <1>6, <1>7 DEF Reap

LEMMA NextType == TypeInv /\ [Next]_vars => TypeInv'
  <1> SUFFICES ASSUME TypeInv, [Next]_vars PROVE TypeInv'
    OBVIOUS
  <1>1. CASE UNCHANGED vars
    BY <1>1 DEF vars, TypeInv, TypeOK, SidsKnown
  <1> QED
    BY <1>1, CreateType, RequestType, FollowType, ElseType DEF Next, Step

LEMMA InitType == Init => TypeInv
  <1> SUFFICES ASSUME Init PROVE TypeInv
    OBVIOUS
  <1>1. sess \in [Sids -> SessionRow]
    BY TranscodeAssumption DEF Init, SessionRow
  <1>2. enc \in [Sids -> EncRow] /\ call \in [Clients -> CallRow]
    BY DEF Init, EncRow, CallRow, Procs, Idle, Places
  <1>4. gate \in Seq(Clients) /\ stops \in [Sids -> StopRow]
    BY DEF Init, StopRow
  <1>3. SidsKnown
    BY DEF Init, SidsKnown, Idle, Chosen, Creating, PastGate
  <1> QED
    BY <1>1, <1>2, <1>3, <1>4 DEF Init, TypeInv, TypeOK, SessionRow, EncRow, CallRow, StopRow

-----------------------------------------------------------------------------
(* The start gate: who is past it is first in the queue, so one at a time. *)

GateInv ==
    /\ \A c \in Clients : call[c].at \in Creating <=> \E i \in DOMAIN gate : gate[i] = c
    /\ \A i, j \in DOMAIN gate : gate[i] = gate[j] => i = j
    /\ \A c \in Clients : call[c].at \in PastGate => gate # <<>> /\ gate[1] = c

\* Without(c) has the others, in their order, and the first one first.
LEMMA WithoutOthers ==
    ASSUME TypeOK, NEW c \in Clients, \A i, j \in DOMAIN gate : gate[i] = gate[j] => i = j
    PROVE  LET w == Without(c) IN
           /\ \A d \in Clients : (\E i \in DOMAIN w : w[i] = d)
                                  <=> d # c /\ \E i \in DOMAIN gate : gate[i] = d
           /\ \A i, j \in DOMAIN w : w[i] = w[j] => i = j
           /\ gate # <<>> /\ gate[1] # c => w # <<>> /\ w[1] = gate[1]
  <1> DEFINE places == {i \in DOMAIN gate : gate[i] = c}
             before == CHOOSE i \in places : TRUE
  <1>0. DOMAIN gate = 1..Len(gate) /\ Len(gate) \in Nat
    BY DEF TypeOK
  <1>1. CASE places = {}
    BY <1>1 DEF Without
  <1>2. CASE places # {}
    <2>1. before \in 1..Len(gate) /\ gate[before] = c
      BY <1>0, <1>2
    <2> HIDE DEF before
    <2>2. Without(c) = [i \in 1..(Len(gate) - 1) |-> gate[IF i < before THEN i ELSE i + 1]]
      BY <1>2 DEF Without, before
    <2> DEFINE w == Without(c)
               old(i) == IF i < before THEN i ELSE i + 1
    <2>3. DOMAIN w = 1..(Len(gate) - 1) /\ \A i \in DOMAIN w : w[i] = gate[old(i)]
      BY <2>2
    <2>4. \A i \in DOMAIN w : old(i) \in DOMAIN gate /\ old(i) # before
      BY <1>0, <2>1, <2>3
    <2>5. \A i, j \in DOMAIN w : old(i) = old(j) => i = j
      BY <1>0, <2>1, <2>3
    <2>6. \A k \in DOMAIN gate \ {before} : \E i \in DOMAIN w : old(i) = k
      <3> SUFFICES ASSUME NEW k \in DOMAIN gate \ {before} PROVE \E i \in DOMAIN w : old(i) = k
        OBVIOUS
      <3>1. CASE k < before
        BY <1>0, <2>1, <2>3, <3>1
      <3>2. CASE k > before
        <4>1. k - 1 \in DOMAIN w /\ old(k - 1) = k
          BY <1>0, <2>1, <2>3, <3>2
        <4> QED
          BY <4>1
      <3> QED
        BY <1>0, <2>1, <3>1, <3>2
    <2>7. \A d \in Clients : (\E i \in DOMAIN w : w[i] = d)
                               <=> d # c /\ \E i \in DOMAIN gate : gate[i] = d
      <3> HIDE DEF w, old
      <3>1. ASSUME NEW i \in DOMAIN w PROVE w[i] # c /\ \E k \in DOMAIN gate : gate[k] = w[i]
        BY <1>0, <2>1, <2>3, <2>4
      <3>2. ASSUME NEW k \in DOMAIN gate, gate[k] # c PROVE \E i \in DOMAIN w : w[i] = gate[k]
        BY <2>1, <2>3, <2>6, <3>2
      <3> QED
        BY <3>1, <3>2
    <2>8. \A i, j \in DOMAIN w : w[i] = w[j] => i = j
      <3> HIDE DEF w, old
      <3> QED
        BY <2>3, <2>4, <2>5
    <2>9. gate # <<>> /\ gate[1] # c => w # <<>> /\ w[1] = gate[1]
      <3> SUFFICES ASSUME gate # <<>>, gate[1] # c PROVE w # <<>> /\ w[1] = gate[1]
        OBVIOUS
      <3>1. before > 1 /\ Len(gate) > 1
        BY <1>0, <2>1
      <3>2. 1 \in DOMAIN w /\ old(1) = 1
        BY <1>0, <2>1, <2>3, <3>1
      <3> QED
        BY <2>3, <3>2
    <2> QED
      BY <2>7, <2>8, <2>9
  <1> QED
    BY <1>1, <1>2

\* A step of c that gives up its place.
LEMMA GateLeft ==
    ASSUME TypeInv, GateInv, NEW c \in Clients, gate' = Without(c),
           NEW k \in CallRow, call' = [call EXCEPT ![c] = k], k.at \notin Creating
    PROVE  GateInv'
  <1>1. \A d \in Clients : call'[d] = IF d = c THEN k ELSE call[d]
    BY DEF TypeInv, TypeOK
  <1>2. /\ \A d \in Clients : (\E i \in DOMAIN gate' : gate'[i] = d)
                               <=> d # c /\ \E i \in DOMAIN gate : gate[i] = d
        /\ \A i, j \in DOMAIN gate' : gate'[i] = gate'[j] => i = j
        /\ gate # <<>> /\ gate[1] # c => gate' # <<>> /\ gate'[1] = gate[1]
    BY WithoutOthers DEF TypeInv, GateInv
  <1>3. \A d \in Clients : call'[d].at \in Creating <=> \E i \in DOMAIN gate' : gate'[i] = d
    BY <1>1, <1>2 DEF GateInv
  <1>4. \A d \in Clients : call'[d].at \in PastGate => gate' # <<>> /\ gate'[1] = d
    BY <1>1, <1>2 DEF GateInv, Creating
  <1> QED
    BY <1>2, <1>3, <1>4 DEF GateInv

\* A step of c that leaves the gate as it is.
LEMMA GateKept ==
    ASSUME TypeInv, GateInv, NEW c \in Clients, gate' = gate,
           NEW k \in CallRow, call' = [call EXCEPT ![c] = k],
           k.at \in Creating <=> call[c].at \in Creating,
           k.at \in PastGate => call[c].at \in PastGate \/ (gate # <<>> /\ gate[1] = c)
    PROVE  GateInv'
  <1>1. \A d \in Clients : call'[d] = IF d = c THEN k ELSE call[d]
    BY DEF TypeInv, TypeOK
  <1> QED
    BY <1>1 DEF GateInv

\* What Proceed does to the call of c.
LEMMA ProceedCall ==
    ASSUME TypeInv, NEW c \in Clients, NEW at \in Places, NEW live, NEW e, Proceed(c, at, live, e)
    PROVE  \E k \in CallRow :
              /\ call' = [call EXCEPT ![c] = k]
              /\ k.at = at
              /\ at # "idle" => k.sid = call[c].sid /\ k.title = call[c].title
  <1>0. call \in [Clients -> CallRow] /\ Idle \in CallRow
    BY CallType DEF TypeInv
  <1>1. CASE at = "idle"
    BY <1>0, <1>1 DEF Proceed, Idle
  <1>2. CASE at # "idle"
    <2>1. [call[c] EXCEPT !.at = at] \in CallRow
      BY <1>0 DEF CallRow
    <2> QED
      BY <1>0, <1>2, <2>1 DEF Proceed, CallRow
  <1> QED
    BY <1>1, <1>2

LEMMA AnswerGate ==
    ASSUME TypeInv, GateInv, NEW c \in Clients, NEW live, NEW e, Answer(c, live, e)
    PROVE  GateInv'
  <1>1. "idle" \in Places /\ "idle" \notin Creating
    BY DEF Places, Creating, PastGate
  <1>2. PICK k \in CallRow : call' = [call EXCEPT ![c] = k] /\ k.at = "idle"
    BY <1>1, ProceedCall DEF Answer
  <1> QED
    BY <1>1, <1>2, GateLeft DEF Answer

\* Proceed with the gate as it is: within a create, or outside of one.
LEMMA ProceedGate ==
    ASSUME TypeInv, GateInv, NEW c \in Clients, NEW at \in Places, NEW live, NEW e,
           Proceed(c, at, live, e), gate' = gate,
           \/ at \notin Creating /\ call[c].at \notin Creating
           \/ at \in PastGate /\ call[c].at \in Creating /\ gate # <<>> /\ gate[1] = c
    PROVE  GateInv'
  <1>1. PICK k \in CallRow : call' = [call EXCEPT ![c] = k] /\ k.at = at
    BY ProceedCall
  <1> QED
    BY <1>1, GateKept DEF Creating

LEMMA CreateGate ==
    ASSUME TypeInv, GateInv, NEW c \in Clients,
           \/ CheckCpu(c) \/ Find(c) \/ AdoptSwap(c) \/ AdoptCont(c) \/ AdoptTouch(c)
           \/ CheckCaps(c) \/ Start(c) \/ StartFails(c)
    PROVE  GateInv'
  <1>0. call \in [Clients -> CallRow]
    BY CallType DEF TypeInv
  <1>1. CASE \E live, e : Answer(c, live, e)
    BY <1>1, AnswerGate
  <1>2. CASE CheckCpu(c) /\ ~\E live, e : Answer(c, live, e)
    <2>1. Proceed(c, "find", sess, enc) /\ gate' = gate /\ gate # <<>> /\ Head(gate) = c
          /\ call[c].at = "gate"
      BY <1>2 DEF CheckCpu, HoldsGate
    <2>2. gate[1] = c
      BY <2>1 DEF TypeInv, TypeOK
    <2>3. "find" \in Places /\ "find" \in PastGate /\ "gate" \in Creating
      BY DEF Places, PastGate, Creating
    <2> QED
      BY <2>1, <2>2, <2>3, ProceedGate
  <1>3. CASE Find(c)
    <2>1. PICK k \in CallRow : call' = [call EXCEPT ![c] = k] /\ k.at \in {"adopt", "caps"}
      <3>1. CASE \E s \in Compatible(c) : call' = [call EXCEPT ![c].at = "adopt", ![c].sid = s]
        <4>1. PICK s \in Compatible(c) : call' = [call EXCEPT ![c].at = "adopt", ![c].sid = s]
          BY <3>1
        <4>2. s \in Sids
          BY DEF Compatible, Mine, Live
        <4>3. [call[c] EXCEPT !.at = "adopt", !.sid = s] \in CallRow
          BY <1>0, <4>2 DEF CallRow, Places
        <4>4. call' = [call EXCEPT ![c] = [call[c] EXCEPT !.at = "adopt", !.sid = s]]
          BY <1>0, <4>1
        <4> QED
          BY <1>0, <4>3, <4>4 DEF CallRow
      <3>2. CASE call' = [call EXCEPT ![c].at = "caps"]
        <4>1. [call[c] EXCEPT !.at = "caps"] \in CallRow
          BY <1>0 DEF CallRow, Places
        <4>2. call' = [call EXCEPT ![c] = [call[c] EXCEPT !.at = "caps"]]
          BY <1>0, <3>2
        <4> QED
          BY <1>0, <4>1, <4>2 DEF CallRow
      <3> QED
        BY <1>3, <3>1, <3>2 DEF Find
    <2> QED
      BY <1>3, <2>1, GateKept DEF Find, Creating, PastGate
  <1>4. CASE AdoptSwap(c)
    <2>1. Swap(c, call[c].sid, FALSE, "cont") /\ call[c].at = "adopt" /\ call[c].sid \in Sids
      BY <1>4 DEF AdoptSwap, TypeInv, SidsKnown, Chosen
    <2>2. PICK k \in CallRow : call' = [call EXCEPT ![c] = k] /\ k.at = "cont"
      <3>1. [call[c] EXCEPT !.at = "cont", !.sid = call[c].sid] \in CallRow
        BY <1>0, <2>1 DEF CallRow, Places
      <3>2. call' = [call EXCEPT ![c] = [call[c] EXCEPT !.at = "cont", !.sid = call[c].sid]]
        BY <1>0, <2>1 DEF Swap
      <3> QED
        BY <1>0, <3>1, <3>2 DEF CallRow
    <2>3. gate' = gate
      BY <2>1 DEF Swap
    <2>4. /\ k.at \in Creating <=> call[c].at \in Creating
          /\ k.at \in PastGate => call[c].at \in PastGate
      BY <2>1, <2>2 DEF Creating, PastGate
    <2> QED
      BY <2>2, <2>3, <2>4, GateKept
  <1>5. CASE AdoptCont(c) \/ (CheckCaps(c) /\ ~\E live, e : Answer(c, live, e))
    <2>1. PICK at \in {"touch", "start"} :
             \E live, e : Proceed(c, at, live, e) /\ gate' = gate
      BY <1>5 DEF AdoptCont, CheckCaps
    <2>2. call[c].at \in PastGate /\ call[c].at \in Creating /\ at \in Places /\ at \in PastGate
      BY <1>5 DEF AdoptCont, CheckCaps, PastGate, Creating, Places
    <2>3. gate # <<>> /\ gate[1] = c
      BY <2>2 DEF GateInv
    <2> QED
      BY <2>1, <2>2, <2>3, ProceedGate
  <1>6. AdoptTouch(c) \/ Start(c) \/ StartFails(c) => \E live, e : Answer(c, live, e)
    BY DEF AdoptTouch, Start, StartFails
  <1> QED
    BY <1>1, <1>2, <1>3, <1>4, <1>5, <1>6

LEMMA JoinGate ==
    ASSUME TypeInv, GateInv, NEW c \in Clients, NEW t \in Titles, Create(c, t)
    PROVE  GateInv'
  <1>1. \A d \in Clients : call'[d].at = IF d = c THEN "gate" ELSE call[d].at
    BY DEF Create, TypeInv, TypeOK
  <1>2. ~\E i \in DOMAIN gate : gate[i] = c
    BY DEF Create, GateInv, Creating, PastGate
  <1>3. /\ gate' = Append(gate, c) /\ gate \in Seq(Clients) /\ Len(gate) \in Nat
        /\ DOMAIN gate = 1..Len(gate) /\ DOMAIN gate' = 1..(Len(gate) + 1)
    BY DEF Create, TypeInv, TypeOK
  <1>4. \A i \in DOMAIN gate' : gate'[i] = IF i = Len(gate) + 1 THEN c ELSE gate[i]
    BY <1>3
  <1>5. \A d \in Clients : (\E i \in DOMAIN gate' : gate'[i] = d)
                            <=> d = c \/ \E i \in DOMAIN gate : gate[i] = d
    <2>1. Len(gate) + 1 \in DOMAIN gate' /\ \A i \in DOMAIN gate : i \in DOMAIN gate' /\ i # Len(gate) + 1
      BY <1>3
    <2> QED
      BY <1>3, <1>4, <2>1
  <1>6. \A i, j \in DOMAIN gate' : gate'[i] = gate'[j] => i = j
    BY <1>2, <1>3, <1>4 DEF GateInv
  <1>7. gate # <<>> => gate' # <<>> /\ gate'[1] = gate[1]
    BY <1>3, <1>4
  <1>8. \A d \in Clients : call'[d].at \in PastGate => gate' # <<>> /\ gate'[1] = d
    BY <1>1, <1>7 DEF GateInv, PastGate
  <1>9. \A d \in Clients : call'[d].at \in Creating <=> \E i \in DOMAIN gate' : gate'[i] = d
    BY <1>1, <1>5 DEF GateInv, Creating
  <1> QED
    BY <1>6, <1>8, <1>9 DEF GateInv

LEMMA NextGate == TypeInv /\ GateInv /\ [Next]_vars => GateInv'
  <1> SUFFICES ASSUME TypeInv, GateInv, [Next]_vars PROVE GateInv'
    OBVIOUS
  <1>0. call \in [Clients -> CallRow]
    BY CallType DEF TypeInv
  <1>1. CASE UNCHANGED <<call, gate>>
    BY <1>1 DEF GateInv
  <1>2. ASSUME NEW c \in Clients, Step(c) \/ Drop(c) PROVE GateInv'
    <2>1. CASE PauseSignal(c) \/ ResumeSignal(c) \/ Served(c) \/ Remove(c) \/ Rmdir(c)
      <3>1. PICK at \in {"idle", "rmdir"} : \E live, e : Proceed(c, at, live, e) /\ gate' = gate
        BY <2>1 DEF PauseSignal, ResumeSignal, Served, Remove, Rmdir
      <3>2. call[c].at \notin Creating /\ at \notin Creating /\ at \in Places
        BY <2>1 DEF PauseSignal, ResumeSignal, Served, Remove, Rmdir, Creating, PastGate, Places
      <3> QED
        BY <3>1, <3>2, ProceedGate
    <2>2. CASE Drop(c)
      BY <2>2, AnswerGate DEF Drop
    <2> QED
      BY <1>2, <2>1, <2>2, CreateGate DEF Step
  <1>3. ASSUME NEW c \in Clients, NEW s \in Sids, Pause(c, s) \/ Resume(c, s) \/ Fetch(c, s) \/ Delete(c, s)
        PROVE  GateInv'
    <2>1. PICK at \in {"stop", "go", "serve", "remove"} :
             call' = [call EXCEPT ![c].at = at, ![c].sid = s] /\ gate' = gate /\ call[c].at = "idle"
      BY <1>3 DEF Pause, Resume, Swap, Fetch, Delete
    <2>2. /\ [call[c] EXCEPT !.at = at, !.sid = s] \in CallRow
          /\ call' = [call EXCEPT ![c] = [call[c] EXCEPT !.at = at, !.sid = s]]
          /\ [call[c] EXCEPT !.at = at, !.sid = s].at = at
      BY <1>0, <2>1 DEF CallRow, Places
    <2>3. at \notin Creating /\ call[c].at \notin Creating
      BY <2>1 DEF Creating, PastGate
    <2> QED
      BY <2>1, <2>2, <2>3, GateKept DEF Creating
  <1>4. CASE Reap \/ (\E s \in Sids : RecordStop(s) \/ Age(s) \/ Exit(s) \/ Drain(s)) \/ UNCHANGED vars
    BY <1>1, <1>4 DEF Reap, ReapList, ReapRemove, ReapRmdir, ReapHook, RecordStop, Age, Exit, Drain, vars
  <1> QED
    BY <1>2, <1>3, <1>4, JoinGate DEF Next

LEMMA InitGate == Init => GateInv
  BY DEF Init, GateInv, Idle, Creating, PastGate

-----------------------------------------------------------------------------
(* Steps seen from the registry and the call table.                        *)

LEMMA CallSteps ==
    ASSUME TypeInv, NEW c \in Clients, NEW at \in Places, NEW live, NEW e, Proceed(c, at, live, e)
    PROVE  /\ call'[c].at = at
           /\ at # "idle" => call'[c].sid = call[c].sid
           /\ \A d \in Clients : d # c => call'[d] = call[d]
  <1>1. PICK k \in CallRow : call' = [call EXCEPT ![c] = k] /\ k.at = at
                              /\ (at # "idle" => k.sid = call[c].sid)
    BY ProceedCall
  <1> QED
    BY <1>1, CallType DEF TypeInv

\* Handlers, but for Start, do not add a session, nor move one.
Quiet ==
    \A r \in Sids : /\ sess'[r].user = sess[r].user
                    /\ sess'[r].st = "live" => sess[r].st = "live"
                    /\ sess'[r].st = "free" <=> sess[r].st = "free"

LEMMA RowsQuiet ==
    ASSUME TypeInv, NEW s \in Sids, sess[s].st # "free", sess' \in {sess, Touched(s), Taken(s)}
    PROVE  Quiet
  <1>0. sess \in [Sids -> SessionRow]
    BY SessType DEF TypeInv
  <1>1. CASE sess' = sess
    BY <1>1 DEF Quiet
  <1>2. CASE sess' = Touched(s)
    BY <1>0, <1>2 DEF Touched, Quiet, SessionRow
  <1>3. CASE sess' = Taken(s)
    <2>1. \A r \in Sids : /\ Taken(s)[r].user = sess[r].user
                          /\ Taken(s)[r].st = IF r = s THEN "gone" ELSE sess[r].st
      BY <1>0 DEF Taken, SessionRow
    <2> QED
      BY <1>3, <2>1 DEF Quiet
  <1> QED
    BY <1>1, <1>2, <1>3

\* And, but for CheckCaps, they send nobody on to the spawn.
LEMMA ProceedQuiet ==
    ASSUME TypeInv, NEW c \in Clients,
           \/ CheckCpu(c) \/ AdoptCont(c) \/ AdoptTouch(c) \/ StartFails(c)
           \/ PauseSignal(c) \/ ResumeSignal(c) \/ Served(c) \/ Remove(c) \/ Rmdir(c) \/ Drop(c)
    PROVE  /\ Quiet
           /\ \A d \in Clients : call'[d].at = "start" => call[d].at = "start"
  <1>1. PICK at \in {"idle", "find", "touch", "rmdir"} :
           \E live, e : Proceed(c, at, live, e)
    BY DEF CheckCpu, AdoptCont, AdoptTouch, StartFails, Answer,
           PauseSignal, ResumeSignal, Served, Remove, Rmdir, Drop
  <1>2. \A d \in Clients : call'[d].at = "start" => call[d].at = "start"
    <2>1. at \in Places /\ at # "start"
      BY DEF Places
    <2> QED
      BY <1>1, <2>1, CallSteps
  <1>3. CASE sess' = sess
    BY <1>2, <1>3 DEF Quiet
  <1>4. CASE sess' # sess
    <2>1. sess' \in {Touched(call[c].sid), Taken(call[c].sid)}
      BY <1>4 DEF CheckCpu, AdoptCont, AdoptTouch, StartFails, Answer, Proceed,
                  PauseSignal, ResumeSignal, Served, Remove, Rmdir, Drop
    <2>2. call[c].at \in Chosen
      BY <1>4 DEF CheckCpu, AdoptCont, AdoptTouch, StartFails, Answer, Proceed,
                  PauseSignal, ResumeSignal, Served, Remove, Rmdir, Drop, Chosen
    <2>3. call[c].sid \in Sids /\ sess[call[c].sid].st # "free"
      BY <2>2 DEF TypeInv, SidsKnown
    <2> QED
      BY <1>2, <2>1, <2>3, RowsQuiet
  <1> QED
    BY <1>3, <1>4

LEMMA RequestQuiet ==
    ASSUME TypeInv, NEW c \in Clients,
           \/ \E t \in Titles : Create(c, t)
           \/ \E s \in Sids : Pause(c, s) \/ Resume(c, s) \/ Fetch(c, s) \/ Delete(c, s)
           \/ Find(c) \/ AdoptSwap(c)
    PROVE  /\ Quiet
           /\ \A d \in Clients : call'[d].at = "start" => call[d].at = "start"
  <1>0. /\ sess \in [Sids -> SessionRow] /\ call \in [Clients -> CallRow]
    BY SessType, CallType DEF TypeInv
  <1>1. ASSUME NEW t \in Titles, Create(c, t)
        PROVE  Quiet /\ \A d \in Clients : call'[d].at = "start" => call[d].at = "start"
    BY <1>0, <1>1 DEF Create, Quiet
  <1>2. ASSUME NEW s \in Sids, NEW b \in BOOLEAN, NEW at \in {"cont", "stop", "go"}, Swap(c, s, b, at)
        PROVE  Quiet /\ \A d \in Clients : call'[d].at = "start" => call[d].at = "start"
    <2>1. \A d \in Clients : call'[d].at = "start" => call[d].at = "start"
      BY <1>0, <1>2 DEF Swap, CallRow
    <2>2. PICK raced \in BOOLEAN : sess' = [sess EXCEPT ![s].paused = b, ![s].raced = raced]
      <3>1. (s \in Live /\ Signalling(s) # {}) \in BOOLEAN
        OBVIOUS
      <3> QED
        BY <1>2, <3>1 DEF Swap
    <2>3. Quiet
      BY <1>0, <2>2 DEF Quiet, SessionRow
    <2> QED
      BY <2>1, <2>3
  <1>3. CASE AdoptSwap(c)
    <2>1. call[c].sid \in Sids /\ Swap(c, call[c].sid, FALSE, "cont")
      BY <1>3 DEF AdoptSwap, TypeInv, SidsKnown, Chosen
    <2> QED
      BY <1>2, <2>1
  <1>4. ASSUME NEW s \in Sids, Pause(c, s) \/ Resume(c, s)
        PROVE  Quiet /\ \A d \in Clients : call'[d].at = "start" => call[d].at = "start"
    BY <1>2, <1>4 DEF Pause, Resume
  <1>5. ASSUME NEW s \in Sids, Fetch(c, s) \/ Delete(c, s)
        PROVE  Quiet /\ \A d \in Clients : call'[d].at = "start" => call[d].at = "start"
    <2>1. sess' \in {sess, Touched(s)} /\ sess[s].st # "free"
      BY <1>5 DEF Fetch, Delete, Mine, Live
    <2>2. \A d \in Clients : call'[d].at = "start" => call[d].at = "start"
      BY <1>0, <1>5 DEF Fetch, Delete, CallRow
    <2> QED
      BY <2>1, <2>2, RowsQuiet
  <1>6. CASE Find(c)
    <2>1. sess' = sess
      BY <1>6 DEF Find
    <2>2. \A d \in Clients : call'[d].at = "start" => call[d].at = "start"
      BY <1>0, <1>6 DEF Find, CallRow
    <2> QED
      BY <2>1, <2>2 DEF Quiet
  <1> QED
    BY <1>1, <1>3, <1>4, <1>5, <1>6

LEMMA ElseQuiet ==
    ASSUME TypeInv, Reap \/ (\E s \in Sids : RecordStop(s) \/ Age(s) \/ Exit(s) \/ Drain(s)) \/ UNCHANGED vars
    PROVE  Quiet /\ call' = call
  <1>0. sess \in [Sids -> SessionRow]
    BY SessType DEF TypeInv
  <1>1. ASSUME NEW s \in Sids, ReapRemove(s) PROVE Quiet /\ call' = call
    BY <1>1, RowsQuiet DEF ReapRemove, TypeInv, SidsKnown
  <1>2. ASSUME NEW s \in Sids, Age(s) PROVE Quiet /\ call' = call
    BY <1>0, <1>2 DEF Age, Quiet, SessionRow
  <1>3. CASE UNCHANGED <<sess, call>>
    BY <1>3 DEF Quiet
  <1> QED
    BY <1>1, <1>2, <1>3 DEF Reap, ReapList, ReapRmdir, ReapHook, RecordStop, Exit, Drain, vars

-----------------------------------------------------------------------------
(* The caps.                                                               *)

Of(u) == {s \in Live : sess[s].user = u}

LEMMA EachNat == EachCap \in Nat
  BY TranscodeAssumption DEF EachCap

CapInv ==
    /\ Cardinality(Live) <= MaxConcurrent
    /\ \A u \in Users : Cardinality(Of(u)) <= EachCap
    /\ \A c \in Clients : call[c].at = "start" =>
          Cardinality(Live) < MaxConcurrent /\ Cardinality(Of(UserOf(c))) < EachCap

LEMMA FiniteSids == IsFiniteSet(Sids) /\ \A S \in SUBSET Sids : IsFiniteSet(S) /\ Cardinality(S) \in Nat
  <1>1. IsFiniteSet(Sids)
    BY TranscodeAssumption, FS_Interval DEF Sids
  <1> QED
    BY <1>1, FS_Subset, FS_CardinalityType

\* A step that adds no session and sends nobody to the spawn.
LEMMA CapKept ==
    ASSUME CapInv, Quiet, \A d \in Clients : call'[d].at = "start" => call[d].at = "start"
    PROVE  CapInv'
  <1>1. Live' \subseteq Live /\ Live \subseteq Sids
    BY DEF Quiet, Live
  <1>2. \A u : Of(u)' \subseteq Of(u) /\ Of(u) \subseteq Sids
    BY DEF Quiet, Live, Of
  <1>3. \A S, T \in SUBSET Sids : S \subseteq T =>
           Cardinality(S) <= Cardinality(T) /\ Cardinality(S) \in Nat /\ Cardinality(T) \in Nat
    BY FiniteSids, FS_Subset
  <1>4. /\ Cardinality(Live') <= Cardinality(Live)
        /\ Cardinality(Live') \in Nat /\ Cardinality(Live) \in Nat
    BY <1>1, <1>3
  <1>5. \A u : /\ Cardinality(Of(u)') <= Cardinality(Of(u))
               /\ Cardinality(Of(u)') \in Nat /\ Cardinality(Of(u)) \in Nat
    BY <1>2, <1>3
  <1>6. \A c \in Clients : UserOf(c) \in Users
    BY DEF Clients, UserOf
  <1> HIDE DEF Of, Live
  <1> QED
    BY <1>4, <1>5, <1>6, EachNat, TranscodeAssumption DEF CapInv

\* The check: nothing changes but the place of c, and there is room.
LEMMA CapChecked ==
    ASSUME TypeInv, CapInv, NEW c \in Clients, CheckCaps(c)
    PROVE  CapInv'
  <1>1. sess' = sess /\ \A r \in Sids : sess'[r] = sess[r]
    BY DEF CheckCaps, Answer, Proceed
  <1>2. Live' = Live /\ \A u : Of(u)' = Of(u)
    BY <1>1 DEF Live, Of
  <1>3. CASE Answer(c, sess, enc)
    <2>1. \A d \in Clients : call'[d].at = "start" => call[d].at = "start"
      BY <1>3, CallSteps DEF Answer, Places
    <2> QED
      BY <1>2, <2>1 DEF CapInv
  <1>4. CASE /\ ~(Cardinality(Live) >= MaxConcurrent \/ (RemoteCap > 0 /\ Cardinality(Mine(c)) >= RemoteCap))
             /\ Proceed(c, "start", sess, enc)
    <2>1. \A d \in Clients : call'[d].at = "start" => call[d].at = "start" \/ d = c
      BY <1>4, CallSteps DEF Places
    <2>2. Mine(c) = Of(UserOf(c))
      BY DEF Mine, Of
    <2>3. /\ Cardinality(Live) \in Nat /\ Cardinality(Of(UserOf(c))) \in Nat
          /\ Cardinality(Of(UserOf(c))) <= Cardinality(Live)
      <3>1. Of(UserOf(c)) \subseteq Live /\ Live \subseteq Sids
        BY DEF Live, Of
      <3> HIDE DEF Live, Of
      <3> QED
        BY <3>1, FiniteSids, FS_Subset
    <2> HIDE DEF Live, Of
    <2>4. Cardinality(Live) < MaxConcurrent /\ Cardinality(Of(UserOf(c))) < EachCap
      BY <1>4, <2>2, <2>3, TranscodeAssumption DEF EachCap
    <2> QED
      BY <1>2, <2>1, <2>4 DEF CapInv
  <1> QED
    BY <1>3, <1>4 DEF CheckCaps

\* The insert: one session more, and by the gate nobody else is past the check.
LEMMA CapStarted ==
    ASSUME TypeInv, GateInv, CapInv, NEW c \in Clients, Start(c)
    PROVE  CapInv'
  <1>0. /\ call[c].at = "start" /\ Cardinality(Live) < MaxConcurrent
        /\ Cardinality(Of(UserOf(c))) < EachCap
    BY DEF Start, CapInv
  <1>1. PICK s \in Sids :
           /\ sess[s].st = "free"
           /\ Answer(c, [sess EXCEPT ![s] = [st |-> "live", user |-> UserOf(c),
                            title |-> call[c].title, paused |-> FALSE, recent |-> TRUE, raced |-> FALSE]],
                     [enc EXCEPT ![s].proc = "running"])
    BY DEF Start
  <1>2. \A d \in Clients : call'[d].at # "start"
    <2>1. \A d \in Clients : d # c => call[d].at # "start"
      BY <1>0 DEF GateInv, PastGate
    <2>2. call'[c].at = "idle" /\ \A d \in Clients : d # c => call'[d] = call[d]
      <3>1. "idle" \in Places
        BY DEF Places
      <3>2. \E live, e : Proceed(c, "idle", live, e)
        BY <1>1 DEF Answer
      <3> QED
        BY <3>1, <3>2, CallSteps
    <2> QED
      BY <2>1, <2>2
  <1>3. \A r \in Sids : /\ r = s => sess'[r].st = "live" /\ sess'[r].user = UserOf(c)
                        /\ r # s => sess'[r] = sess[r]
    BY <1>1, SessType DEF Answer, Proceed, TypeInv
  <1>4. Live' = Live \cup {s} /\ s \notin Live
    BY <1>1, <1>3 DEF Live
  <1>5. /\ Of(UserOf(c))' = Of(UserOf(c)) \cup {s} /\ s \notin Of(UserOf(c))
        /\ \A u \in Users : u # UserOf(c) => Of(u)' = Of(u)
    BY <1>1, <1>3, <1>4 DEF Of, Live
  <1>6. /\ IsFiniteSet(Live) /\ IsFiniteSet(Of(UserOf(c)))
        /\ Cardinality(Live) \in Nat /\ Cardinality(Of(UserOf(c))) \in Nat
    BY FiniteSids DEF Live, Of
  <1> HIDE DEF Live, Of
  <1>7. Cardinality(Live') = Cardinality(Live) + 1
    BY <1>4, <1>6, FS_AddElement
  <1>8. Cardinality(Of(UserOf(c))') = Cardinality(Of(UserOf(c))) + 1
    BY <1>5, <1>6, FS_AddElement
  <1>9. Cardinality(Live') <= MaxConcurrent
    BY <1>0, <1>6, <1>7, EachNat, TranscodeAssumption
  <1>10. Cardinality(Of(UserOf(c))') <= EachCap
    BY <1>0, <1>6, <1>8, EachNat, TranscodeAssumption
  <1>11. \A u \in Users : Cardinality(Of(u)') <= EachCap
    BY <1>5, <1>10 DEF CapInv
  <1> QED
    BY <1>2, <1>9, <1>11 DEF CapInv

LEMMA NextCap == TypeInv /\ GateInv /\ CapInv /\ [Next]_vars => CapInv'
  <1> SUFFICES ASSUME TypeInv, GateInv, CapInv, [Next]_vars PROVE CapInv'
    OBVIOUS
  <1>1. CASE Reap \/ (\E s \in Sids : RecordStop(s) \/ Age(s) \/ Exit(s) \/ Drain(s)) \/ UNCHANGED vars
    BY <1>1, ElseQuiet, CapKept
  <1>2. ASSUME NEW c \in Clients,
               \/ \E t \in Titles : Create(c, t)
               \/ \E s \in Sids : Pause(c, s) \/ Resume(c, s) \/ Fetch(c, s) \/ Delete(c, s)
        PROVE  CapInv'
    BY <1>2, RequestQuiet, CapKept
  <1>3. ASSUME NEW c \in Clients, Step(c) \/ Drop(c) PROVE CapInv'
    <2>1. CASE Find(c) \/ AdoptSwap(c)
      BY <2>1, RequestQuiet, CapKept
    <2>2. CASE CheckCaps(c)
      BY <2>2, CapChecked
    <2>3. CASE Start(c)
      BY <2>3, CapStarted
    <2>4. CASE \/ CheckCpu(c) \/ AdoptCont(c) \/ AdoptTouch(c) \/ StartFails(c)
               \/ PauseSignal(c) \/ ResumeSignal(c) \/ Served(c) \/ Remove(c) \/ Rmdir(c) \/ Drop(c)
      BY <2>4, ProceedQuiet, CapKept
    <2> QED
      BY <1>3, <2>1, <2>2, <2>3, <2>4 DEF Step
  <1> QED
    BY <1>1, <1>2, <1>3 DEF Next

LEMMA InitCap == Init => CapInv
  <1> SUFFICES ASSUME Init PROVE CapInv
    OBVIOUS
  <1>1. Live = {} /\ \A u : Of(u) = {}
    BY DEF Init, Live, Of
  <1>2. \A c \in Clients : call[c].at # "start"
    BY DEF Init, Idle
  <1>3. Cardinality({}) = 0
    BY FS_EmptySet
  <1>4. Cardinality(Live) = 0 /\ \A u \in Users : Cardinality(Of(u)) = 0
    BY <1>1, <1>3
  <1>5. 0 <= MaxConcurrent /\ 0 <= EachCap
    BY EachNat, TranscodeAssumption
  <1> QED
    BY <1>2, <1>4, <1>5 DEF CapInv

\* The check of the caps and the insert are one step for every other create,
\* because of the gate: no cap is ever passed, and a create past the caps has
\* room left (stream.rs:651-662, 985-1020).
CapsHold ==
    /\ Cardinality(Live) <= MaxConcurrent
    /\ \A u \in Users : Cardinality({s \in Live : sess[s].user = u}) <= EachCap
    /\ \A c \in Clients : call[c].at = "start" => Cardinality(Live) < MaxConcurrent

\* What the gate is for, for any number of users, tabs and sessions: the
\* registry never holds more sessions than the caps allow, all together and per
\* user, and a create past the check still has room (stream.rs:651-662).
THEOREM CapsHoldCorrect == Spec => []CapsHold
  <1>1. Init => TypeInv /\ GateInv /\ CapInv
    BY InitType, InitGate, InitCap
  <1>2. TypeInv /\ GateInv /\ CapInv /\ [Next]_vars => (TypeInv /\ GateInv /\ CapInv)'
    BY NextType, NextGate, NextCap
  <1>3. TypeInv /\ GateInv /\ CapInv => CapsHold
    BY DEF CapInv, CapsHold, Of
  <1> QED
    BY <1>1, <1>2, <1>3, PTL DEF Spec

-----------------------------------------------------------------------------
(* The stop events.                                                        *)

Gone(s)      == sess[s].st = "gone"
Ending(c, s) == call[c].at = "rmdir" /\ call[c].sid = s

\* Events of a session on the record or on their way to it.
Sent(s) == stops[s].due + stops[s].kept

\* Who took a session out of the map has it for himself until he sends the event.
StopInv ==
    /\ \A s \in Sids : ~Gone(s) =>
          /\ Sent(s) = 0 /\ s # reaper.cur /\ s \notin reaper.got
          /\ \A c \in Clients : ~Ending(c, s)
    /\ \A s \in Sids : Sent(s) # 0 =>
          /\ Sent(s) = 1 /\ s # reaper.cur /\ s \notin reaper.got
          /\ \A c \in Clients : ~Ending(c, s)
    /\ reaper.cur \in Sids =>
          reaper.cur \notin reaper.got /\ \A c \in Clients : ~Ending(c, reaper.cur)
    /\ \A s \in reaper.got, c \in Clients : ~Ending(c, s)
    /\ \A s \in Sids, c, d \in Clients : Ending(c, s) /\ Ending(d, s) => c = d
    /\ \A s \in Sids : Gone(s) =>
          \/ Sent(s) = 1 \/ s = reaper.cur \/ s \in reaper.got \/ s \in cut
          \/ \E c \in Clients : Ending(c, s)

\* A step that ends no session and passes none on.
Uninvolved ==
    /\ \A s \in Sids : Gone(s)' <=> Gone(s)
    /\ \A c \in Clients, s \in Sids : Ending(c, s)' <=> Ending(c, s)
    /\ stops' = stops /\ cut' = cut
    /\ reaper'.cur = reaper.cur /\ reaper'.got = reaper.got

LEMMA StopKept ==
    ASSUME TypeInv, StopInv, Uninvolved
    PROVE  StopInv'
  <1>1. reaper.got \subseteq Sids
    BY DEF TypeInv, TypeOK
  <1> HIDE DEF Gone, Ending
  <1> QED
    BY <1>1 DEF StopInv, Uninvolved, Sent

LEMMA ProceedUninvolved ==
    ASSUME TypeInv, NEW c \in Clients,
           \/ CheckCpu(c) \/ AdoptCont(c) \/ AdoptTouch(c) \/ CheckCaps(c) \/ Start(c)
           \/ StartFails(c) \/ PauseSignal(c) \/ ResumeSignal(c) \/ Served(c)
    PROVE  Uninvolved
  <1>0. sess \in [Sids -> SessionRow]
    BY SessType DEF TypeInv
  <1>1. PICK at \in {"idle", "find", "touch", "start"} : \E live, e : Proceed(c, at, live, e)
    BY DEF CheckCpu, AdoptCont, AdoptTouch, CheckCaps, Start, StartFails, Answer,
           PauseSignal, ResumeSignal, Served
  <1>2. \A d \in Clients, s \in Sids : Ending(d, s)' <=> Ending(d, s)
    <2>1. at \in Places /\ at # "rmdir" /\ call[c].at # "rmdir"
      BY DEF Places, CheckCpu, AdoptCont, AdoptTouch, CheckCaps, Start, StartFails, PauseSignal,
             ResumeSignal, Served
    <2> QED
      BY <1>1, <2>1, CallSteps DEF Ending
  <1>3. \A s \in Sids : Gone(s)' <=> Gone(s)
    <2>1. CASE sess' = sess
      BY <2>1 DEF Gone
    <2>2. CASE AdoptCont(c) \/ AdoptTouch(c) \/ ResumeSignal(c)
      <3>1. call[c].sid \in Sids
        BY <2>2 DEF AdoptCont, AdoptTouch, ResumeSignal, TypeInv, SidsKnown, Chosen
      <3>2. sess' = Touched(call[c].sid)
        BY <2>2 DEF AdoptCont, AdoptTouch, ResumeSignal, Answer, Proceed
      <3> QED
        BY <1>0, <3>1, <3>2 DEF Touched, Gone, SessionRow
    <2>3. CASE Start(c)
      <3>1. PICK s \in Sids :
               /\ sess[s].st = "free"
               /\ sess' = [sess EXCEPT ![s] = [st |-> "live", user |-> UserOf(c),
                            title |-> call[c].title, paused |-> FALSE, recent |-> TRUE, raced |-> FALSE]]
        BY <2>3 DEF Start, Answer, Proceed
      <3> QED
        BY <1>0, <3>1 DEF Gone
    <2> QED
      BY <2>1, <2>2, <2>3 DEF CheckCpu, CheckCaps, StartFails, Answer, Proceed, PauseSignal, Served
  <1>4. stops' = stops /\ cut' = cut /\ reaper' = reaper
    BY DEF CheckCpu, AdoptCont, AdoptTouch, CheckCaps, Start, StartFails, PauseSignal, ResumeSignal,
           Served
  <1> QED
    BY <1>2, <1>3, <1>4 DEF Uninvolved

LEMMA RequestUninvolved ==
    ASSUME TypeInv, NEW c \in Clients,
           \/ \E t \in Titles : Create(c, t)
           \/ \E s \in Sids : Pause(c, s) \/ Resume(c, s) \/ Fetch(c, s) \/ Delete(c, s)
           \/ Find(c) \/ AdoptSwap(c)
    PROVE  Uninvolved
  <1>0. /\ sess \in [Sids -> SessionRow] /\ call \in [Clients -> CallRow]
    BY SessType, CallType DEF TypeInv
  <1>1. stops' = stops /\ cut' = cut /\ reaper' = reaper
    BY DEF Create, Pause, Resume, Fetch, Delete, Find, AdoptSwap, Swap
  <1>2. \A d \in Clients : \/ (call[d].at # "rmdir" /\ call'[d].at # "rmdir")
                             \/ call'[d] = call[d]
    <2>1. CASE \E t \in Titles : Create(c, t)
      BY <1>0, <2>1 DEF Create
    <2>2. CASE Find(c)
      BY <1>0, <2>2 DEF Find, CallRow
    <2>3. CASE AdoptSwap(c)
      BY <1>0, <2>3 DEF AdoptSwap, Swap, CallRow
    <2>4. ASSUME NEW s \in Sids, Pause(c, s) \/ Resume(c, s) \/ Fetch(c, s) \/ Delete(c, s)
          PROVE  \A d \in Clients : \/ (call[d].at # "rmdir" /\ call'[d].at # "rmdir")
                             \/ call'[d] = call[d]
      BY <1>0, <2>4 DEF Pause, Resume, Fetch, Delete, Swap, CallRow
    <2> QED
      BY <2>1, <2>2, <2>3, <2>4
  <1>3. \A r \in Sids : sess'[r].st = sess[r].st
    <2>1. CASE sess' = sess
      BY <2>1
    <2>2. ASSUME NEW s \in Sids, Fetch(c, s) PROVE \A r \in Sids : sess'[r].st = sess[r].st
      BY <1>0, <2>2 DEF Fetch, Touched, SessionRow
    <2>3. ASSUME NEW s \in Sids, NEW b \in BOOLEAN, NEW at, Swap(c, s, b, at)
          PROVE  \A r \in Sids : sess'[r].st = sess[r].st
      <3>1. PICK raced \in BOOLEAN : sess' = [sess EXCEPT ![s].paused = b, ![s].raced = raced]
        <4>1. (s \in Live /\ Signalling(s) # {}) \in BOOLEAN
          OBVIOUS
        <4> QED
          BY <2>3, <4>1 DEF Swap
      <3> QED
        BY <1>0, <3>1 DEF SessionRow
    <2>4. CASE AdoptSwap(c)
      <3>1. call[c].sid \in Sids /\ Swap(c, call[c].sid, FALSE, "cont")
        BY <2>4 DEF AdoptSwap, TypeInv, SidsKnown, Chosen
      <3> QED
        BY <2>3, <3>1
    <2>5. ASSUME NEW s \in Sids, Pause(c, s) \/ Resume(c, s)
          PROVE  \A r \in Sids : sess'[r].st = sess[r].st
      BY <2>3, <2>5 DEF Pause, Resume
    <2> QED
      BY <2>1, <2>2, <2>4, <2>5 DEF Create, Delete, Find
  <1> QED
    BY <1>1, <1>2, <1>3 DEF Uninvolved, Gone, Ending

LEMMA ElseUninvolved ==
    ASSUME TypeInv,
           \/ ReapList \/ (\E s \in Sids : Age(s) \/ Exit(s) \/ Drain(s)) \/ UNCHANGED vars
    PROVE  Uninvolved
  <1>0. /\ sess \in [Sids -> SessionRow]
        /\ reaper \in [todo : SUBSET Sids, cur : Sids \cup {NoSid}, got : SUBSET Sids]
    BY SessType DEF TypeInv, TypeOK
  <1>1. CASE ReapList
    BY <1>0, <1>1 DEF ReapList, Uninvolved, Gone, Ending
  <1>2. ASSUME NEW s \in Sids, Age(s) PROVE Uninvolved
    <2>1. \A r \in Sids : sess'[r].st = sess[r].st
      BY <1>0, <1>2 DEF Age, SessionRow
    <2> QED
      BY <1>2, <2>1 DEF Age, Uninvolved, Gone, Ending
  <1>3. CASE (\E s \in Sids : Exit(s) \/ Drain(s)) \/ UNCHANGED vars
    BY <1>3 DEF Exit, Drain, vars, Uninvolved, Gone, Ending
  <1> QED
    BY <1>1, <1>2, <1>3

\* A DELETE takes the session out, or finds it gone.
LEMMA StopRemove ==
    ASSUME TypeInv, StopInv, NEW c \in Clients, Remove(c)
    PROVE  StopInv'
  <1> DEFINE s == call[c].sid
  <1>0. /\ sess \in [Sids -> SessionRow] /\ s \in Sids /\ ~(sess[s].st = "free")
        /\ call[c].at = "remove"
    BY SessType DEF TypeInv, SidsKnown, Remove, Chosen
  <1>1. /\ stops' = stops /\ cut' = cut /\ reaper' = reaper /\ sess' = Taken(s)
        /\ Proceed(c, IF Removes(s) THEN "rmdir" ELSE "idle", Taken(s), enc)
        /\ \A r \in Sids : Sent(r)' = Sent(r)
    BY DEF Remove, Proceed, Sent
  <1>2. \A r \in Sids : Gone(r)' <=> Gone(r) \/ r = s
    BY <1>0, <1>1 DEF Taken, Gone, SessionRow
  <1>3. CASE Removes(s)
    <2>1. ~Gone(s)
      BY <1>3 DEF Removes, Live, Gone
    <2>2. \A d \in Clients, r \in Sids : Ending(d, r)' <=> Ending(d, r) \/ (d = c /\ r = s)
      <3>1. call'[c].at = "rmdir" /\ call'[c].sid = s /\ \A d \in Clients : d # c => call'[d] = call[d]
        BY <1>1, <1>3, CallSteps DEF Places
      <3> QED
        BY <1>0, <3>1 DEF Ending
    <2>3. reaper.got \subseteq Sids
      BY DEF TypeInv, TypeOK
    <2>4. Sent(s) = 0 /\ s # reaper.cur /\ s \notin reaper.got /\ \A d \in Clients : ~Ending(d, s)
      BY <1>0, <2>1 DEF StopInv
    <2> HIDE DEF Gone, Ending, s
    <2> QED
      BY <1>0, <1>1, <1>2, <2>2, <2>3, <2>4 DEF StopInv
  <1>4. CASE ~Removes(s)
    <2>1. Gone(s)
      BY <1>0, <1>4 DEF Removes, Live, Gone, SessionRow
    <2>2. \A d \in Clients, r \in Sids : Ending(d, r)' <=> Ending(d, r)
      <3>1. call'[c].at = "idle" /\ \A d \in Clients : d # c => call'[d] = call[d]
        BY <1>1, <1>4, CallSteps DEF Places
      <3> QED
        BY <1>0, <3>1 DEF Ending
    <2> HIDE DEF Gone, Ending, s
    <2>3. Uninvolved
      BY <1>0, <1>1, <1>2, <2>1, <2>2 DEF Uninvolved
    <2> QED
      BY <2>3, StopKept
  <1> QED
    BY <1>3, <1>4

\* What Emit does to the count.
LEMMA EmitCounts ==
    ASSUME TypeInv, NEW gone, Emit(gone)
    PROVE  \A s \in Sids : Sent(s)' = IF s \in gone THEN Sent(s) + 1 ELSE Sent(s)
  <1>1. \A s \in Sids : stops[s].due \in Nat /\ stops[s].kept \in Nat
    BY SessType DEF TypeInv, StopRow
  <1> QED
    BY <1>1, EmitRows DEF Sent, TypeInv

\* The event of a DELETE.
LEMMA StopRmdir ==
    ASSUME TypeInv, StopInv, NEW c \in Clients, Rmdir(c)
    PROVE  StopInv'
  <1> DEFINE s == call[c].sid
  <1>1. /\ s \in Sids /\ Ending(c, s)
        /\ sess' = sess /\ cut' = cut /\ reaper' = reaper /\ Emit({s})
        /\ Proceed(c, "idle", sess, enc)
    BY DEF Rmdir, Proceed, Ending, TypeInv, SidsKnown, Chosen
  <1>2. \A r \in Sids : Gone(r)' <=> Gone(r)
    BY <1>1 DEF Gone
  <1>3. \A d \in Clients, r \in Sids : Ending(d, r)' <=> Ending(d, r) /\ d # c
    <2>1. call'[c].at = "idle" /\ \A d \in Clients : d # c => call'[d] = call[d]
      BY <1>1, CallSteps DEF Places
    <2> QED
      BY <2>1 DEF Ending
  <1>4. \A r \in Sids : Sent(r)' = IF r = s THEN Sent(r) + 1 ELSE Sent(r)
    BY <1>1, EmitCounts
  <1>5. Gone(s) /\ Sent(s) = 0 /\ s # reaper.cur /\ s \notin reaper.got
    BY <1>1 DEF StopInv
  <1>6. \A d \in Clients, r \in Sids : Ending(d, r) /\ d = c => r = s
    BY DEF Ending
  <1>7. \A d \in Clients : Ending(d, s) => d = c
    BY <1>1 DEF StopInv
  <1>8. reaper.got \subseteq Sids
    BY DEF TypeInv, TypeOK
  <1> HIDE DEF Gone, Ending, s
  <1> QED
    BY <1>1, <1>2, <1>3, <1>4, <1>5, <1>6, <1>7, <1>8 DEF StopInv

\* A client that goes away: its DELETE leaves no event, and the session is cut.
LEMMA StopDrop ==
    ASSUME TypeInv, StopInv, NEW c \in Clients, Drop(c)
    PROVE  StopInv'
  <1>1. /\ sess' = sess /\ stops' = stops /\ reaper' = reaper
        /\ Proceed(c, "idle", sess, enc)
        /\ cut' = IF call[c].at = "rmdir" THEN cut \cup {call[c].sid} ELSE cut
        /\ \A r \in Sids : Sent(r)' = Sent(r)
    BY DEF Drop, Answer, Proceed, Sent
  <1>2. \A r \in Sids : Gone(r)' <=> Gone(r)
    BY <1>1 DEF Gone
  <1>3. \A d \in Clients, r \in Sids : Ending(d, r)' <=> Ending(d, r) /\ d # c
    <2>1. call'[c].at = "idle" /\ \A d \in Clients : d # c => call'[d] = call[d]
      BY <1>1, CallSteps DEF Places
    <2> QED
      BY <2>1 DEF Ending
  <1>4. \A d \in Clients, r \in Sids : Ending(d, r) => Ending(d, r)' \/ r \in cut'
    BY <1>1, <1>3 DEF Ending
  <1>5. cut \subseteq cut' /\ reaper.got \subseteq Sids
    BY <1>1 DEF TypeInv, TypeOK
  <1> HIDE DEF Gone, Ending
  <1> QED
    BY <1>1, <1>2, <1>3, <1>4, <1>5 DEF StopInv

\* The reaper takes a session out, removes its directory, calls the hook.
LEMMA StopReap ==
    ASSUME TypeInv, StopInv, (\E s \in Sids : ReapRemove(s)) \/ ReapRmdir \/ ReapHook
    PROVE  StopInv'
  <1>0. /\ sess \in [Sids -> SessionRow]
        /\ reaper \in [todo : SUBSET Sids, cur : Sids \cup {NoSid}, got : SUBSET Sids]
        /\ NoSid \notin Sids
    BY SessType DEF TypeInv, TypeOK, NoSid, Sids
  <1>1. ASSUME NEW s \in Sids, ReapRemove(s) PROVE StopInv'
    <2>1. /\ stops' = stops /\ cut' = cut /\ call' = call /\ sess' = Taken(s)
          /\ s \in reaper.todo /\ reaper.cur = NoSid
          /\ reaper'.got = reaper.got /\ reaper'.cur = IF Removes(s) THEN s ELSE NoSid
          /\ \A r \in Sids : Sent(r)' = Sent(r)
      BY <1>0, <1>1 DEF ReapRemove, Sent
    <2>2. \A r \in Sids : Gone(r)' <=> Gone(r) \/ r = s
      BY <1>0, <2>1 DEF Taken, Gone, SessionRow
    <2>3. \A d \in Clients, r \in Sids : Ending(d, r)' <=> Ending(d, r)
      BY <2>1 DEF Ending
    <2>4. CASE Removes(s)
      <3>1. ~Gone(s)
        BY <2>4 DEF Removes, Live, Gone
      <3>2. Sent(s) = 0 /\ s \notin reaper.got /\ \A d \in Clients : ~Ending(d, s)
        BY <3>1 DEF StopInv
      <3> HIDE DEF Gone, Ending
      <3> QED
        BY <1>0, <2>1, <2>2, <2>3, <2>4, <3>2 DEF StopInv
    <2>5. CASE ~Removes(s)
      <3>1. Gone(s)
        BY <1>0, <2>1, <2>5 DEF Removes, Live, Gone, SessionRow, TypeInv, SidsKnown
      <3> HIDE DEF Gone, Ending
      <3>2. Uninvolved
        BY <2>1, <2>2, <2>3, <2>5, <3>1 DEF Uninvolved
      <3> QED
        BY <3>2, StopKept
    <2> QED
      BY <2>4, <2>5
  <1>2. CASE ReapRmdir
    <2>1. /\ stops' = stops /\ cut' = cut /\ call' = call /\ sess' = sess
          /\ reaper.cur \in Sids /\ reaper'.cur = NoSid /\ reaper'.got = reaper.got \cup {reaper.cur}
          /\ \A r \in Sids : Sent(r)' = Sent(r)
      BY <1>0, <1>2 DEF ReapRmdir, Sent
    <2>2. \A r \in Sids : Gone(r)' <=> Gone(r)
      BY <2>1 DEF Gone
    <2>3. \A d \in Clients : \A r : Ending(d, r)' <=> Ending(d, r)
      BY <2>1 DEF Ending
    <2> HIDE DEF Gone, Ending
    <2> QED
      BY <1>0, <2>1, <2>2, <2>3 DEF StopInv
  <1>3. CASE ReapHook
    <2>1. /\ cut' = cut /\ call' = call /\ sess' = sess /\ Emit(reaper.got)
          /\ reaper'.cur = reaper.cur /\ reaper'.got = {} /\ reaper.cur = NoSid
      BY <1>0, <1>3 DEF ReapHook
    <2>2. \A r \in Sids : Gone(r)' <=> Gone(r)
      BY <2>1 DEF Gone
    <2>3. \A d \in Clients : \A r : Ending(d, r)' <=> Ending(d, r)
      BY <2>1 DEF Ending
    <2>4. \A r \in Sids : Sent(r)' = IF r \in reaper.got THEN Sent(r) + 1 ELSE Sent(r)
      BY <2>1, EmitCounts
    <2>5. \A r \in reaper.got : r \in Sids /\ Gone(r) /\ Sent(r) = 0
      BY <1>0 DEF StopInv
    <2> HIDE DEF Gone, Ending
    <2> QED
      BY <1>0, <2>1, <2>2, <2>3, <2>4, <2>5 DEF StopInv
  <1> QED
    BY <1>1, <1>2, <1>3

\* The event is written, or lost.
LEMMA StopRecord ==
    ASSUME TypeInv, StopInv, NEW s \in Sids, RecordStop(s)
    PROVE  StopInv'
  <1>1. stops \in [Sids -> StopRow] /\ sess' = sess /\ call' = call /\ reaper' = reaper
    BY SessType DEF TypeInv, RecordStop
  <1>2. \A r \in Sids : r # s => Sent(r)' = Sent(r)
    BY <1>1 DEF RecordStop, Sent
  <1>3. Sent(s) # 0
    BY <1>1 DEF RecordStop, Sent, StopRow
  <1>4. Sent(s) = 1
    BY <1>3 DEF StopInv
  <1>5. cut \subseteq cut' /\ (Sent(s)' = 1 \/ (Sent(s)' = 0 /\ s \in cut'))
    <2>1. stops[s].due = 1 /\ stops[s].kept = 0
      BY <1>1, <1>4 DEF RecordStop, Sent, StopRow
    <2> QED
      BY <1>1, <2>1 DEF RecordStop, Sent, StopRow
  <1>6. (\A r \in Sids : Gone(r)' <=> Gone(r)) /\ (\A d \in Clients : \A r : Ending(d, r)' <=> Ending(d, r))
    BY <1>1 DEF Gone, Ending
  <1>7. Gone(s) /\ reaper.got \subseteq Sids
    BY <1>3 DEF StopInv, TypeInv, TypeOK
  <1> HIDE DEF Gone, Ending, Sent
  <1> QED
    BY <1>1, <1>2, <1>3, <1>4, <1>5, <1>6, <1>7 DEF StopInv

LEMMA NextStop == TypeInv /\ StopInv /\ [Next]_vars => StopInv'
  <1> SUFFICES ASSUME TypeInv, StopInv, [Next]_vars PROVE StopInv'
    OBVIOUS
  <1>1. CASE ReapList \/ (\E s \in Sids : Age(s) \/ Exit(s) \/ Drain(s)) \/ UNCHANGED vars
    BY <1>1, ElseUninvolved, StopKept
  <1>2. CASE (\E s \in Sids : ReapRemove(s)) \/ ReapRmdir \/ ReapHook
    BY <1>2, StopReap
  <1>5. CASE \E s \in Sids : RecordStop(s)
    BY <1>5, StopRecord
  <1>3. ASSUME NEW c \in Clients,
               \/ \E t \in Titles : Create(c, t)
               \/ \E s \in Sids : Pause(c, s) \/ Resume(c, s) \/ Fetch(c, s) \/ Delete(c, s)
        PROVE  StopInv'
    BY <1>3, RequestUninvolved, StopKept
  <1>4. ASSUME NEW c \in Clients, Step(c) \/ Drop(c) PROVE StopInv'
    <2>1. CASE Find(c) \/ AdoptSwap(c)
      BY <2>1, RequestUninvolved, StopKept
    <2>2. CASE \/ CheckCpu(c) \/ AdoptCont(c) \/ AdoptTouch(c) \/ CheckCaps(c) \/ Start(c)
               \/ StartFails(c) \/ PauseSignal(c) \/ ResumeSignal(c) \/ Served(c)
      BY <2>2, ProceedUninvolved, StopKept
    <2>3. CASE Remove(c) \/ Rmdir(c) \/ Drop(c)
      BY <2>3, StopRemove, StopRmdir, StopDrop
    <2> QED
      BY <1>4, <2>1, <2>2, <2>3 DEF Step
  <1> QED
    BY <1>1, <1>2, <1>3, <1>4, <1>5 DEF Next, Reap

LEMMA InitStop == Init => StopInv
  <1> SUFFICES ASSUME Init PROVE StopInv
    OBVIOUS
  <1>1. \A s \in Sids : ~Gone(s) /\ Sent(s) = 0
    <2>1. \A s \in Sids : ~Gone(s)
      BY DEF Init, Gone
    <2>2. \A s \in Sids : stops[s].due = 0 /\ stops[s].kept = 0
      BY DEF Init
    <2> QED
      BY <2>1, <2>2 DEF Sent
  <1>2. \A c \in Clients : call[c].at = "idle"
    BY DEF Init, Idle
  <1>3. reaper.cur \notin Sids /\ reaper.got = {}
    BY DEF Init, Sids, NoSid
  <1> HIDE DEF Gone
  <1> QED
    BY <1>1, <1>2, <1>3 DEF StopInv, Ending

-----------------------------------------------------------------------------
(* The pause flag.                                                         *)

\* c has swapped the flag of s and not yet sent its signal.
Owes(c, s) == call[c].sid = s /\ call[c].at \in {"cont", "stop", "go"}

Told(s) == /\ sess[s].paused => enc[s].proc # "running"
           /\ ~sess[s].paused => enc[s].proc # "stopped"

\* As long as nobody swapped the flag under a signal still owed, at most one
\* signal is owed, and it is the one the flag calls for.
FlagInv ==
    \A s \in Sids : s \in Live /\ ~sess[s].raced =>
        /\ \A c, d \in Clients : Owes(c, s) /\ Owes(d, s) => c = d
        /\ \A c \in Clients : Owes(c, s) => (sess[s].paused <=> call[c].at = "stop")
        /\ (\A c \in Clients : ~Owes(c, s)) => Told(s)

\* A step that owes nothing and pays nothing.
Undisturbed ==
    /\ \A s \in Sids : s \in Live' =>
          /\ s \in Live
          /\ sess'[s].paused = sess[s].paused /\ sess'[s].raced = sess[s].raced
          /\ enc[s].proc # "running" => enc'[s].proc # "running"
          /\ enc[s].proc # "stopped" => enc'[s].proc # "stopped"
    /\ \A c \in Clients, s \in Sids : Owes(c, s)' <=> Owes(c, s)
    /\ \A c \in Clients, s \in Sids : Owes(c, s) => call'[c].at = call[c].at

LEMMA FlagKept ==
    ASSUME FlagInv, Undisturbed
    PROVE  FlagInv'
  <1>1. ASSUME NEW s \in Sids, s \in Live', ~sess'[s].raced
        PROVE  /\ \A c, d \in Clients : Owes(c, s)' /\ Owes(d, s)' => c = d
               /\ \A c \in Clients : Owes(c, s)' => (sess'[s].paused <=> call'[c].at = "stop")
               /\ (\A c \in Clients : ~Owes(c, s)') => Told(s)'
    <2>1. /\ s \in Live /\ sess'[s].paused = sess[s].paused /\ ~sess[s].raced
          /\ enc[s].proc # "running" => enc'[s].proc # "running"
          /\ enc[s].proc # "stopped" => enc'[s].proc # "stopped"
      BY <1>1 DEF Undisturbed
    <2>2. \A c \in Clients : (Owes(c, s)' <=> Owes(c, s)) /\ (Owes(c, s) => call'[c].at = call[c].at)
      BY DEF Undisturbed
    <2>3. (\A c \in Clients : ~Owes(c, s)') => Told(s)'
      <3> HIDE DEF Owes, Live
      <3> QED
        BY <2>1, <2>2 DEF FlagInv, Told
    <2> HIDE DEF Owes, Live, Told
    <2> QED
      BY <2>1, <2>2, <2>3 DEF FlagInv
  <1> HIDE DEF Owes, Live, Told
  <1> QED
    BY <1>1 DEF FlagInv

\* Of a live session, the process is what the caller made of it.
LEMMA DroppedLive ==
    ASSUME NEW e, NEW live, NEW calls, NEW s \in Sids, live[s].st = "live"
    PROVE  Dropped(e, live, calls)[s] = e[s]
  BY DEF Dropped

\* The fields of a row a touch or a removal leaves.
LEMMA FlagOfRow ==
    ASSUME TypeInv, NEW s \in Sids, sess' \in {sess, Touched(s), Taken(s)}
    PROVE  \A r \in Sids : r \in Live' => r \in Live /\ sess'[r].paused = sess[r].paused
                                           /\ sess'[r].raced = sess[r].raced
  <1>0. sess \in [Sids -> SessionRow]
    BY SessType DEF TypeInv
  <1>1. CASE sess' = sess
    BY <1>1 DEF Live
  <1>2. CASE sess' = Touched(s)
    <2>1. \A r \in Sids : /\ Touched(s)[r].st = sess[r].st /\ Touched(s)[r].paused = sess[r].paused
                          /\ Touched(s)[r].raced = sess[r].raced
      BY <1>0 DEF Touched, SessionRow
    <2> QED
      BY <1>2, <2>1 DEF Live
  <1>3. CASE sess' = Taken(s)
    <2>1. \A r \in Sids : /\ r = s => Taken(s)[r].st = "gone"
                          /\ r # s => Taken(s)[r] = sess[r]
      BY <1>0 DEF Taken, SessionRow
    <2> QED
      BY <1>3, <2>1 DEF Live
  <1> QED
    BY <1>1, <1>2, <1>3

LEMMA ProceedUndisturbed ==
    ASSUME TypeInv, NEW c \in Clients,
           \/ CheckCpu(c) \/ AdoptTouch(c) \/ CheckCaps(c) \/ StartFails(c)
           \/ Served(c) \/ Remove(c) \/ Rmdir(c) \/ Drop(c)
    PROVE  Undisturbed
  <1>1. PICK at \in {"idle", "find", "start", "rmdir"} : Proceed(c, at, sess', enc)
    BY DEF CheckCpu, AdoptTouch, CheckCaps, StartFails, Answer, Served, Remove, Rmdir, Drop, Proceed
  <1>2. \A d \in Clients, s \in Sids : (Owes(d, s)' <=> Owes(d, s)) /\ (Owes(d, s) => call'[d].at = call[d].at)
    <2>1. at \in Places /\ at \notin {"cont", "stop", "go"} /\ call[c].at \notin {"cont", "stop", "go"}
      BY DEF Places, CheckCpu, AdoptTouch, CheckCaps, StartFails, Served, Remove, Rmdir, Drop
    <2> QED
      BY <1>1, <2>1, CallSteps DEF Owes
  <1>3. \A s \in Sids : s \in Live' => enc'[s] = enc[s]
    BY <1>1, DroppedLive DEF Proceed, Live
  <1>4. \A s \in Sids : s \in Live' => s \in Live /\ sess'[s].paused = sess[s].paused
                                         /\ sess'[s].raced = sess[s].raced
    <2>1. CASE sess' = sess
      BY <2>1 DEF Live
    <2>2. CASE AdoptTouch(c) \/ Remove(c)
      <3>1. call[c].sid \in Sids
        BY <2>2 DEF AdoptTouch, Remove, TypeInv, SidsKnown, Chosen
      <3>2. sess' \in {sess, Touched(call[c].sid), Taken(call[c].sid)}
        BY <2>2 DEF AdoptTouch, Remove, Answer, Proceed
      <3> QED
        BY <3>1, <3>2, FlagOfRow
    <2> QED
      BY <2>1, <2>2 DEF CheckCpu, CheckCaps, StartFails, Answer, Proceed, Served, Rmdir, Drop
  <1> HIDE DEF Owes, Live
  <1> QED
    BY <1>2, <1>3, <1>4 DEF Undisturbed

LEMMA ElseUndisturbed ==
    ASSUME TypeInv,
           \/ Reap \/ (\E s \in Sids : RecordStop(s) \/ Age(s) \/ Exit(s) \/ Drain(s)) \/ UNCHANGED vars
           \/ \E c \in Clients : Find(c) \/ \E t \in Titles : Create(c, t)
           \/ \E c \in Clients, s \in Sids : Fetch(c, s) \/ Delete(c, s)
    PROVE  Undisturbed
  <1>0. /\ sess \in [Sids -> SessionRow] /\ enc \in [Sids -> EncRow]
        /\ call \in [Clients -> CallRow]
    BY SessType, CallType DEF TypeInv
  <1>1. CASE UNCHANGED <<sess, enc, call>>
    BY <1>1 DEF Undisturbed, Live, Owes
  <1>2. ASSUME NEW s \in Sids, ReapRemove(s) PROVE Undisturbed
    <2>1. sess' = Taken(s) /\ call' = call /\ enc' = Dropped(enc, sess', call)
      BY <1>2 DEF ReapRemove
    <2>2. \A r \in Sids : r \in Live' => enc'[r] = enc[r]
      BY <2>1, DroppedLive DEF Live
    <2>3. \A r \in Sids : r \in Live' => r \in Live /\ sess'[r].paused = sess[r].paused
                                           /\ sess'[r].raced = sess[r].raced
      BY <2>1, FlagOfRow
    <2> QED
      BY <2>1, <2>2, <2>3 DEF Undisturbed, Owes
  <1>3. ASSUME NEW s \in Sids, Age(s) PROVE Undisturbed
    <2>1. \A r \in Sids : /\ sess'[r].st = sess[r].st /\ sess'[r].paused = sess[r].paused
                          /\ sess'[r].raced = sess[r].raced
      BY <1>0, <1>3 DEF Age, SessionRow
    <2> QED
      BY <1>3, <2>1 DEF Age, Undisturbed, Live, Owes
  <1>4. ASSUME NEW s \in Sids, Exit(s) \/ Drain(s) PROVE Undisturbed
    <2>1. \A r \in Sids : enc'[r].proc = enc[r].proc \/ enc'[r].proc \in {"zombie", "dead"}
      BY <1>0, <1>4 DEF Exit, Drain, EncRow
    <2>2. sess' = sess /\ call' = call
      BY <1>4 DEF Exit, Drain
    <2> QED
      BY <2>1, <2>2 DEF Undisturbed, Live, Owes
  <1>5. ASSUME NEW c \in Clients, Find(c) \/ \E t \in Titles : Create(c, t) PROVE Undisturbed
    <2>1. \A d \in Clients : \/ call'[d] = call[d]
                             \/ call[d].at \in {"find", "idle"} /\ call'[d].at \in {"adopt", "caps", "gate"}
      BY <1>0, <1>5 DEF Find, Create, CallRow
    <2>2. sess' = sess /\ enc' = enc
      BY <1>5 DEF Find, Create
    <2> QED
      BY <2>1, <2>2 DEF Undisturbed, Live, Owes
  <1>6. ASSUME NEW c \in Clients, NEW s \in Sids, Fetch(c, s) \/ Delete(c, s) PROVE Undisturbed
    <2>1. \A d \in Clients : \/ call'[d] = call[d]
                             \/ call[d].at = "idle" /\ call'[d].at \in {"serve", "remove"}
      BY <1>0, <1>6 DEF Fetch, Delete, CallRow
    <2>2. sess' \in {sess, Touched(s)} /\ enc' = enc
      BY <1>6 DEF Fetch, Delete
    <2>3. \A r \in Sids : r \in Live' => r \in Live /\ sess'[r].paused = sess[r].paused
                                           /\ sess'[r].raced = sess[r].raced
      BY <2>2, FlagOfRow
    <2> QED
      BY <2>1, <2>2, <2>3 DEF Undisturbed, Owes
  <1> QED
    BY <1>1, <1>2, <1>3, <1>4, <1>5, <1>6 DEF Reap, ReapList, ReapRmdir, ReapHook, RecordStop, vars

\* The swap: c owes the signal, and the flag is the one it swapped in.
LEMMA FlagSwapped ==
    ASSUME TypeInv, FlagInv, NEW c \in Clients, NEW s \in Sids, NEW b \in BOOLEAN,
           NEW at \in {"cont", "stop", "go"}, Swap(c, s, b, at), b <=> at = "stop",
           call[c].at \notin {"cont", "stop", "go"}
    PROVE  FlagInv'
  <1>0. /\ sess \in [Sids -> SessionRow] /\ call \in [Clients -> CallRow]
    BY SessType, CallType DEF TypeInv
  <1> DEFINE raced == s \in Live /\ Signalling(s) # {}
  <1>1. /\ enc' = enc
        /\ \A r \in Sids : sess'[r].st = sess[r].st /\ (r # s => sess'[r] = sess[r])
        /\ sess'[s].paused = b
        /\ sess'[s].raced = raced
    BY <1>0 DEF Swap, SessionRow
  <1>2. call'[c].at = at /\ call'[c].sid = s /\ \A d \in Clients : d # c => call'[d] = call[d]
    BY <1>0 DEF Swap, CallRow
  <1>3. \A d \in Clients, r \in Sids : Owes(d, r)' <=> Owes(d, r) \/ (d = c /\ r = s)
    BY <1>2 DEF Owes
  <1>4. \A r \in Sids : r \in Live' <=> r \in Live
    BY <1>1 DEF Live
  <1>5. s \in Live /\ ~raced => \A d \in Clients : ~Owes(d, s)
    BY DEF Signalling, Owes
  <1>6. \A d \in Clients, r \in Sids : Owes(d, r) => call'[d].at = call[d].at
    BY <1>2 DEF Owes
  <1>7. \A r \in Sids : r # s => (Told(r)' <=> Told(r))
    BY <1>1 DEF Told
  <1> HIDE DEF Owes, Live, Told, raced
  <1>8. ASSUME s \in Live', ~sess'[s].raced
        PROVE  /\ \A d, k \in Clients : Owes(d, s)' /\ Owes(k, s)' => d = k
               /\ \A d \in Clients : Owes(d, s)' => (sess'[s].paused <=> call'[d].at = "stop")
               /\ ~\A d \in Clients : ~Owes(d, s)'
    BY <1>1, <1>2, <1>3, <1>4, <1>5, <1>8
  <1>9. ASSUME NEW r \in Sids, r # s, r \in Live', ~sess'[r].raced
        PROVE  /\ \A d, k \in Clients : Owes(d, r)' /\ Owes(k, r)' => d = k
               /\ \A d \in Clients : Owes(d, r)' => (sess'[r].paused <=> call'[d].at = "stop")
               /\ (\A d \in Clients : ~Owes(d, r)') => Told(r)'
    BY <1>1, <1>3, <1>4, <1>6, <1>7, <1>9 DEF FlagInv
  <1> QED
    BY <1>8, <1>9 DEF FlagInv

\* The signal: paid, and the process is as the flag says.
LEMMA FlagSignalled ==
    ASSUME TypeInv, FlagInv, NEW c \in Clients, AdoptCont(c) \/ PauseSignal(c) \/ ResumeSignal(c)
    PROVE  FlagInv'
  <1>s. PICK s \in Sids : s = call[c].sid
    BY DEF TypeInv, SidsKnown, AdoptCont, PauseSignal, ResumeSignal, Chosen
  <1>0. /\ sess \in [Sids -> SessionRow] /\ enc \in [Sids -> EncRow]
    BY SessType DEF TypeInv
  <1>1. PICK at \in {"idle", "touch"}, from \in {"running", "stopped"}, to \in {"running", "stopped"} :
           /\ Proceed(c, at, sess', Signal(s, from, to))
           /\ from # to /\ (call[c].at = "stop" <=> to = "stopped")
           /\ sess' \in {sess, Touched(s)} /\ Owes(c, s)
    BY <1>s DEF AdoptCont, PauseSignal, ResumeSignal, Proceed, Owes
  <1>2. \A d \in Clients, r \in Sids : /\ Owes(d, r)' <=> Owes(d, r) /\ d # c
                                       /\ Owes(d, r)' => call'[d].at = call[d].at
    <2>1. at \in Places
      BY DEF Places
    <2>2. call'[c].at = at /\ \A d \in Clients : d # c => call'[d] = call[d]
      BY <1>1, <2>1, CallSteps
    <2> QED
      BY <2>2 DEF Owes
  <1>3. \A r \in Sids : r \in Live' => r \in Live /\ sess'[r].paused = sess[r].paused
                                         /\ sess'[r].raced = sess[r].raced
    BY <1>0, <1>1, FlagOfRow
  <1>4. \A r \in Sids : r \in Live' => enc'[r] = Signal(s, from, to)[r]
    BY <1>1, DroppedLive DEF Proceed, Live
  <1>5. \A r \in Sids : r # s => Signal(s, from, to)[r] = enc[r]
    BY <1>0 DEF Signal
  <1>6. Signal(s, from, to)[s].proc # from
    BY <1>0, <1>1 DEF Signal, EncRow
  <1>7. ASSUME s \in Live', ~sess'[s].raced PROVE Told(s)'
    <2>1. s \in Live /\ ~sess[s].raced /\ (sess'[s].paused <=> to = "stopped")
      BY <1>0, <1>1, <1>3, <1>7 DEF FlagInv
    <2>2. enc'[s].proc # from
      BY <1>0, <1>4, <1>6, <1>7
    <2> QED
      BY <1>1, <2>1, <2>2 DEF Told
  <1>8. ASSUME NEW r \in Sids, r # s, r \in Live' PROVE Told(r)' <=> Told(r)
    BY <1>3, <1>4, <1>5, <1>8 DEF Told
  <1>9. \A r \in Sids : Owes(c, r) => r = s
    BY <1>s DEF Owes
  <1> HIDE DEF Owes, Live, Told
  <1>10. ASSUME NEW r \in Sids, r \in Live', ~sess'[r].raced
         PROVE  /\ \A d, k \in Clients : Owes(d, r)' /\ Owes(k, r)' => d = k
                /\ \A d \in Clients : Owes(d, r)' => (sess'[r].paused <=> call'[d].at = "stop")
    BY <1>2, <1>3, <1>10 DEF FlagInv
  <1>11. ASSUME NEW r \in Sids, r # s, r \in Live', ~sess'[r].raced, \A d \in Clients : ~Owes(d, r)'
         PROVE  Told(r)'
    BY <1>2, <1>3, <1>8, <1>9, <1>11 DEF FlagInv
  <1> QED
    BY <1>7, <1>10, <1>11 DEF FlagInv

\* A session that starts is running, and nobody has heard of it.
LEMMA FlagStarted ==
    ASSUME TypeInv, FlagInv, NEW c \in Clients, Start(c)
    PROVE  FlagInv'
  <1>0. /\ sess \in [Sids -> SessionRow] /\ enc \in [Sids -> EncRow]
    BY SessType DEF TypeInv
  <1>1. PICK s \in Sids :
           /\ sess[s].st = "free"
           /\ Answer(c, [sess EXCEPT ![s] = [st |-> "live", user |-> UserOf(c),
                            title |-> call[c].title, paused |-> FALSE, recent |-> TRUE, raced |-> FALSE]],
                     [enc EXCEPT ![s].proc = "running"])
    BY DEF Start
  <1> DEFINE e == [enc EXCEPT ![s].proc = "running"]
  <1>2. /\ sess'[s].paused = FALSE
        /\ \A r \in Sids : r # s => sess'[r] = sess[r]
    BY <1>0, <1>1 DEF Answer, Proceed
  <1>3. \A d \in Clients, r \in Sids : (Owes(d, r)' <=> Owes(d, r)) /\ (Owes(d, r) => call'[d].at = call[d].at)
    <2>1. call'[c].at = "idle" /\ \A d \in Clients : d # c => call'[d] = call[d]
      <3>1. PICK live, ee : Proceed(c, "idle", live, ee)
        BY <1>1 DEF Answer
      <3>2. "idle" \in Places
        BY DEF Places
      <3> QED
        BY <3>1, <3>2, CallSteps
    <2>2. call[c].at = "start"
      BY DEF Start
    <2> QED
      BY <2>1, <2>2 DEF Owes
  <1>4. \A d \in Clients : ~Owes(d, s)
    BY <1>1 DEF Owes, TypeInv, SidsKnown, Chosen
  <1>5. \A r \in Sids : r \in Live' => enc'[r] = e[r]
    <2>1. enc' = Dropped(e, sess', call')
      BY <1>1 DEF Answer, Proceed
    <2> HIDE DEF e
    <2>2. ASSUME NEW r \in Sids, r \in Live' PROVE enc'[r] = e[r]
      <3>1. sess'[r].st = "live"
        BY <2>2 DEF Live
      <3> QED
        BY <2>1, <3>1, DroppedLive
    <2> QED
      BY <2>2
  <1>6. e[s].proc = "running" /\ \A r \in Sids : r # s => e[r] = enc[r]
    BY <1>0 DEF EncRow
  <1>7. s \in Live' => Told(s)'
    BY <1>2, <1>5, <1>6 DEF Told
  <1>8. ASSUME NEW r \in Sids, r # s, r \in Live'
        PROVE  r \in Live /\ (Told(r)' <=> Told(r))
    BY <1>2, <1>5, <1>6, <1>8 DEF Told, Live
  <1> HIDE DEF Owes, Live, Told
  <1>9. ASSUME NEW r \in Sids, r # s, r \in Live', ~sess'[r].raced
        PROVE  /\ \A d, k \in Clients : Owes(d, r)' /\ Owes(k, r)' => d = k
               /\ \A d \in Clients : Owes(d, r)' => (sess'[r].paused <=> call'[d].at = "stop")
               /\ (\A d \in Clients : ~Owes(d, r)') => Told(r)'
    BY <1>2, <1>3, <1>8, <1>9 DEF FlagInv
  <1> QED
    BY <1>3, <1>4, <1>7, <1>9 DEF FlagInv

LEMMA NextFlag == TypeInv /\ FlagInv /\ [Next]_vars => FlagInv'
  <1> SUFFICES ASSUME TypeInv, FlagInv, [Next]_vars PROVE FlagInv'
    OBVIOUS
  <1>1. CASE Reap \/ (\E s \in Sids : RecordStop(s) \/ Age(s) \/ Exit(s) \/ Drain(s)) \/ UNCHANGED vars
    BY <1>1, ElseUndisturbed, FlagKept
  <1>2. ASSUME NEW c \in Clients, NEW t \in Titles, Create(c, t) PROVE FlagInv'
    BY <1>2, ElseUndisturbed, FlagKept
  <1>3. ASSUME NEW c \in Clients, NEW s \in Sids, Fetch(c, s) \/ Delete(c, s) PROVE FlagInv'
    BY <1>3, ElseUndisturbed, FlagKept
  <1>4. ASSUME NEW c \in Clients, NEW s \in Sids, Pause(c, s) PROVE FlagInv'
    <2>1. Swap(c, s, TRUE, "stop") /\ call[c].at = "idle"
      BY <1>4 DEF Pause
    <2> QED
      BY <2>1, FlagSwapped
  <1>5. ASSUME NEW c \in Clients, NEW s \in Sids, Resume(c, s) PROVE FlagInv'
    <2>1. Swap(c, s, FALSE, "go") /\ call[c].at = "idle"
      BY <1>5 DEF Resume
    <2> QED
      BY <2>1, FlagSwapped
  <1>6. ASSUME NEW c \in Clients, Step(c) \/ Drop(c) PROVE FlagInv'
    <2>1. CASE Find(c)
      BY <2>1, ElseUndisturbed, FlagKept
    <2>2. CASE AdoptSwap(c)
      <3>1. Swap(c, call[c].sid, FALSE, "cont") /\ call[c].at = "adopt" /\ call[c].sid \in Sids
        BY <2>2 DEF AdoptSwap, TypeInv, SidsKnown, Chosen
      <3> QED
        BY <3>1, FlagSwapped
    <2>3. CASE AdoptCont(c) \/ PauseSignal(c) \/ ResumeSignal(c)
      BY <2>3, FlagSignalled
    <2>4. CASE Start(c)
      BY <2>4, FlagStarted
    <2>5. CASE \/ CheckCpu(c) \/ AdoptTouch(c) \/ CheckCaps(c) \/ StartFails(c)
               \/ Served(c) \/ Remove(c) \/ Rmdir(c) \/ Drop(c)
      BY <2>5, ProceedUndisturbed, FlagKept
    <2> QED
      BY <1>6, <2>1, <2>2, <2>3, <2>4, <2>5 DEF Step
  <1> QED
    BY <1>1, <1>2, <1>3, <1>4, <1>5, <1>6 DEF Next

LEMMA InitFlag == Init => FlagInv
  <1> SUFFICES ASSUME Init PROVE FlagInv
    OBVIOUS
  <1>1. \A s \in Sids : s \notin Live
    BY DEF Init, Live
  <1> QED
    BY <1>1 DEF FlagInv

\* Unless a pause and a resume ran into each other since, the flag of a session
\* tells whether its encoder is stopped, for any number of tabs and any order of
\* their calls, adoptions, removals and exits (session.rs:570-594).
THEOREM FlagTellsStoppedCorrect == Spec => []FlagTellsStopped
  <1>1. Init => TypeInv /\ FlagInv
    BY InitType, InitFlag
  <1>2. TypeInv /\ FlagInv /\ [Next]_vars => (TypeInv /\ FlagInv)'
    BY NextType, NextFlag
  <1>3. TypeInv /\ FlagInv => FlagTellsStopped
    <2> SUFFICES ASSUME TypeInv, FlagInv, NEW s \in Live, Signalling(s) = {}, ~sess[s].raced
        PROVE  Told(s)
      BY DEF FlagTellsStopped, Told
    <2>1. s \in Sids /\ \A c \in Clients : ~Owes(c, s)
      BY DEF Live, Signalling, Owes
    <2> QED
      BY <2>1 DEF FlagInv
  <1> QED
    BY <1>1, <1>2, <1>3, PTL DEF Spec
-----------------------------------------------------------------------------
(* The contract.                                                           *)

\* A session lost to the record was ended, and nobody has its end in hand.
CutInv ==
    \A s \in cut : /\ Gone(s) /\ Sent(s) = 0 /\ s # reaper.cur /\ s \notin reaper.got
                   /\ \A c \in Clients : ~Ending(c, s)

RecordInv == StopInv /\ CutInv

\* The phases, told from the registry, the record and the losses.
LEMMA PhaseKnown ==
    ASSUME TypeInv
    PROVE  \A s \in Sids :
             /\ Phase[s] = "none" <=> sess[s].st = "free"
             /\ Phase[s] = "open" <=> s \in Live
             /\ Phase[s] = "ended" <=> Gone(s) /\ stops[s].kept = 0 /\ s \notin cut
  <1>1. ASSUME NEW s \in Sids
        PROVE  sess[s].st \in {"free", "live", "gone"} /\ stops[s].kept \in Nat
    BY SessType DEF TypeInv, TypeOK, StopRow
  <1> QED
    BY <1>1 DEF Phase, Live, Gone

LEMMA ContractSets ==
    ASSUME TypeInv
    PROVE  Contract!Open = Live /\ \A u \in Users : Contract!OpenOf(u) = Of(u)
  <1>1. Contract!Open = Live
    BY PhaseKnown DEF Contract!Open, Live
  <1>2. ASSUME NEW u \in Users PROVE Contract!OpenOf(u) = Of(u)
    BY <1>1 DEF Contract!OpenOf, Of, Live
  <1> QED
    BY <1>1, <1>2

\* A step that moves no session, on no record.
LEMMA LedgerKept ==
    ASSUME cut' = cut, \A s \in Sids : stops'[s].kept = stops[s].kept,
           \A s \in Sids : sess'[s].st = sess[s].st /\ sess'[s].user = sess[s].user
    PROVE  UNCHANGED Contract!contract
  <1>1. Phase' = Phase
    BY DEF Phase
  <1>2. [s \in Sids |-> sess[s].user]' = [s \in Sids |-> sess[s].user]
    OBVIOUS
  <1>3. [s \in Sids |-> stops[s].kept]' = [s \in Sids |-> stops[s].kept]
    OBVIOUS
  <1> QED
    BY <1>1, <1>2, <1>3 DEF Contract!contract

LEMMA QuietKept ==
    ASSUME TypeInv, TypeInv', CutInv, Quiet, Uninvolved
    PROVE  UNCHANGED Contract!contract /\ CutInv'
  <1>1. ASSUME NEW s \in Sids PROVE sess'[s].st = sess[s].st /\ sess'[s].user = sess[s].user
    <2>1. sess[s].st \in {"free", "live", "gone"} /\ sess'[s].st \in {"free", "live", "gone"}
      BY DEF TypeInv, TypeOK
    <2> QED
      BY <2>1 DEF Quiet, Uninvolved, Gone
  <1>2. UNCHANGED Contract!contract
    BY <1>1, LedgerKept DEF Uninvolved
  <1>3. cut \subseteq Sids
    BY DEF TypeInv, TypeOK
  <1>4. CutInv'
    <2> HIDE DEF Gone, Ending
    <2> QED
      BY <1>3 DEF CutInv, Uninvolved, Sent
  <1> QED
    BY <1>2, <1>4

\* Whoever takes a session out of the map ends it, for it was never reported.
LEMMA TakenEnds ==
    ASSUME TypeInv, RecordInv, NEW s \in Live, sess' = Taken(s), stops' = stops, cut' = cut
    PROVE  Contract!End(s)
  <1>0. sess \in [Sids -> SessionRow] /\ s \in Sids /\ ~Gone(s)
    BY SessType DEF TypeInv, Live, Gone
  <1>1. stops[s].kept = 0 /\ s \notin cut
    <2>1. Sent(s) = 0 /\ s \notin cut
      BY <1>0 DEF RecordInv, StopInv, CutInv
    <2> QED
      BY <1>0, <2>1, SessType DEF Sent, TypeInv, StopRow
  <1>2. \A r \in Sids : /\ sess'[r].st = IF r = s THEN "gone" ELSE sess[r].st
                        /\ sess'[r].user = sess[r].user
    BY <1>0 DEF Taken, SessionRow
  <1>3. Phase[s] = "open"
    BY <1>0, PhaseKnown
  <1>4. Phase' = [Phase EXCEPT ![s] = "ended"]
    <2>1. \A r \in Sids : Phase'[r] = IF r = s THEN "ended" ELSE Phase[r]
      BY <1>0, <1>1, <1>2 DEF Phase
    <2> QED
      BY <2>1 DEF Phase
  <1>5. [r \in Sids |-> sess[r].user]' = [r \in Sids |-> sess[r].user]
    BY <1>2
  <1> QED
    BY <1>3, <1>4, <1>5 DEF Contract!End

\* To send the events is not yet to report anything.
LEMMA EmitSilent ==
    ASSUME TypeInv, NEW S, Emit(S), sess' = sess, cut' = cut
    PROVE  UNCHANGED Contract!contract
  BY EmitRows, LedgerKept DEF TypeInv

\* The write of an event reports the session, its failure loses it.
LEMMA RecordContract ==
    ASSUME TypeInv, RecordInv, NEW s \in Sids, RecordStop(s)
    PROVE  CutInv' /\ (Contract!Report(s) \/ Contract!Lose(s))
  <1>1. /\ stops \in [Sids -> StopRow] /\ cut \subseteq Sids
        /\ sess' = sess /\ call' = call /\ reaper' = reaper
    BY SessType DEF TypeInv, TypeOK, RecordStop
  <1>2. Sent(s) # 0
    BY <1>1 DEF RecordStop, Sent, StopRow
  <1>3. /\ Sent(s) = 1 /\ Gone(s) /\ s \notin cut /\ s # reaper.cur /\ s \notin reaper.got
        /\ \A c \in Clients : ~Ending(c, s)
    BY <1>2 DEF RecordInv, StopInv, CutInv
  <1>4. stops[s].due = 1 /\ stops[s].kept = 0
    BY <1>1, <1>3 DEF RecordStop, Sent, StopRow
  <1>5. \A r \in Sids : r # s => Sent(r)' = Sent(r) /\ stops'[r].kept = stops[r].kept
    BY <1>1 DEF RecordStop, Sent
  <1>6. (\A r \in Sids : Gone(r)' <=> Gone(r)) /\ (\A d \in Clients : \A r : Ending(d, r)' <=> Ending(d, r))
    BY <1>1 DEF Gone, Ending
  <1>7. Phase[s] = "ended"
    BY <1>3, <1>4, PhaseKnown
  <1>8. [r \in Sids |-> sess[r].user]' = [r \in Sids |-> sess[r].user]
    BY <1>1
  <1>9. CASE stops'[s].kept = 1 /\ cut' = cut
    <2>1. Phase' = [Phase EXCEPT ![s] = "closed"]
      <3>1. \A r \in Sids : Phase'[r] = IF r = s THEN "closed" ELSE Phase[r]
        BY <1>1, <1>3, <1>5, <1>9 DEF Phase, Gone
      <3> QED
        BY <3>1 DEF Phase
    <2>2. [r \in Sids |-> stops[r].kept]' = [[r \in Sids |-> stops[r].kept] EXCEPT ![s] = @ + 1]
      <3>1. \A r \in Sids : stops'[r].kept = IF r = s THEN stops[s].kept + 1 ELSE stops[r].kept
        BY <1>4, <1>5, <1>9
      <3> QED
        BY <3>1
    <2>3. CutInv'
      <3> HIDE DEF Gone, Ending, Sent
      <3> QED
        BY <1>1, <1>3, <1>5, <1>6, <1>9 DEF RecordInv, CutInv
    <2> QED
      BY <1>7, <1>8, <2>1, <2>2, <2>3 DEF Contract!Report
  <1>10. CASE stops'[s].due = 0 /\ stops'[s].kept = 0 /\ cut' = cut \cup {s}
    <2>1. Phase' = [Phase EXCEPT ![s] = "closed"]
      BY <1>1, <1>3, <1>4, <1>5, <1>10 DEF Phase, Gone
    <2>2. [r \in Sids |-> stops[r].kept]' = [r \in Sids |-> stops[r].kept]
      BY <1>4, <1>5, <1>10
    <2>3. Sent(s)' = 0
      BY <1>10 DEF Sent
    <2>4. CutInv'
      <3> HIDE DEF Gone, Ending, Sent
      <3> QED
        BY <1>1, <1>3, <1>5, <1>6, <1>10, <2>3 DEF RecordInv, CutInv
    <2> QED
      BY <1>7, <1>8, <2>1, <2>2, <2>4 DEF Contract!Lose
  <1> QED
    <2>1. \/ stops' = [stops EXCEPT ![s] = [due |-> 0, kept |-> 1]] /\ cut' = cut
          \/ stops' = [stops EXCEPT ![s].due = 0] /\ cut' = cut \cup {s}
      BY <1>1, <1>4 DEF RecordStop
    <2> QED
      BY <1>1, <1>4, <1>9, <1>10, <2>1 DEF StopRow

\* The insert finds the room that the check found.
LEMMA StartBegins ==
    ASSUME TypeInv, CapInv, NEW c \in Clients, Start(c)
    PROVE  \E s \in Sids, u \in Users : Contract!Begin(s, u)
  <1>0. /\ call[c].at = "start" /\ Cardinality(Live) < MaxConcurrent
        /\ Cardinality(Of(UserOf(c))) < EachCap /\ UserOf(c) \in Users
        /\ sess \in [Sids -> SessionRow]
    BY SessType DEF Start, CapInv, TypeInv, Clients, UserOf
  <1>1. PICK s \in Sids :
           /\ sess[s].st = "free"
           /\ sess' = [sess EXCEPT ![s] = [st |-> "live", user |-> UserOf(c),
                            title |-> call[c].title, paused |-> FALSE, recent |-> TRUE, raced |-> FALSE]]
    BY DEF Start, Answer, Proceed
  <1>2. stops' = stops /\ cut' = cut
    BY DEF Start
  <1>3. Phase[s] = "none"
    BY <1>1, PhaseKnown
  <1>4. Phase' = [Phase EXCEPT ![s] = "open"]
    <2>1. \A r \in Sids : Phase'[r] = IF r = s THEN "open" ELSE Phase[r]
      BY <1>0, <1>1, <1>2 DEF Phase
    <2> QED
      BY <2>1 DEF Phase
  <1>5. [r \in Sids |-> sess[r].user]' = [[r \in Sids |-> sess[r].user] EXCEPT ![s] = UserOf(c)]
    BY <1>0, <1>1
  <1>6. Contract!Open = Live /\ Contract!OpenOf(UserOf(c)) = Of(UserOf(c))
    BY <1>0, ContractSets
  <1>7. \A S : Contract!Cardinality(S) = Cardinality(S)
    BY DEF Contract!Cardinality, Cardinality
  <1>8. Contract!Begin(s, UserOf(c))
    BY <1>0, <1>2, <1>3, <1>4, <1>5, <1>6, <1>7 DEF Contract!Begin
  <1> QED
    BY <1>0, <1>8
\* The steps of a DELETE: it takes the session out, reports it, or hangs up.
LEMMA DeleteContract ==
    ASSUME TypeInv, TypeInv', RecordInv, NEW c \in Clients, Remove(c) \/ Rmdir(c) \/ Drop(c)
    PROVE  /\ CutInv'
           /\ \/ UNCHANGED Contract!contract
              \/ \E s \in Sids : Contract!End(s) \/ Contract!Lose(s)
  <1> DEFINE s == call[c].sid
             Held(r) == r = reaper.cur \/ r \in reaper.got
  <1>0. sess \in [Sids -> SessionRow] /\ cut \subseteq Sids /\ reaper' = reaper
    BY SessType DEF TypeInv, TypeOK, Remove, Rmdir, Drop
  <1>1. Quiet
    BY ProceedQuiet
  <1>2. CASE Remove(c)
    <2>1. /\ s \in Sids /\ sess[s].st # "free" /\ call[c].at = "remove"
          /\ sess' = Taken(s) /\ stops' = stops /\ cut' = cut
          /\ Proceed(c, IF Removes(s) THEN "rmdir" ELSE "idle", Taken(s), enc)
      BY <1>2 DEF Remove, Proceed, TypeInv, SidsKnown, Chosen
    <2>2. \A r \in Sids : Gone(r)' <=> Gone(r) \/ r = s
      BY <1>0, <2>1 DEF Taken, Gone, SessionRow
    <2>5. \A r \in Sids : Sent(r)' = Sent(r)
      BY <2>1 DEF Sent
    <2>3. CASE Removes(s)
      <3>1. s \in Live /\ ~Gone(s)
        BY <2>3 DEF Removes, Live, Gone
      <3>2. Contract!End(s)
        BY <2>1, <3>1, TakenEnds
      <3>3. \A d \in Clients, r \in Sids : Ending(d, r)' => Ending(d, r) \/ r = s
        <4>1. call'[c].sid = s /\ \A d \in Clients : d # c => call'[d] = call[d]
          BY <2>1, <2>3, CallSteps DEF Places
        <4> QED
          BY <4>1 DEF Ending
      <3>4. CutInv'
        <4> HIDE DEF Gone, Ending, s
        <4> QED
          BY <1>0, <2>1, <2>2, <2>5, <3>1, <3>3 DEF RecordInv, CutInv
      <3> QED
        BY <2>1, <3>2, <3>4
    <2>4. CASE ~Removes(s)
      <3>1. Gone(s)
        BY <1>0, <2>1, <2>4 DEF Removes, Live, Gone, SessionRow
      <3>2. \A d \in Clients, r \in Sids : Ending(d, r)' <=> Ending(d, r)
        <4>1. call'[c].at = "idle" /\ \A d \in Clients : d # c => call'[d] = call[d]
          BY <2>1, <2>4, CallSteps DEF Places
        <4> QED
          BY <2>1, <4>1 DEF Ending
      <3>3. Uninvolved
        <4> HIDE DEF Gone, Ending, s
        <4> QED
          BY <1>0, <2>1, <2>2, <3>1, <3>2 DEF Uninvolved
      <3> QED
        BY <1>1, <3>3, QuietKept DEF RecordInv
    <2> QED
      BY <2>3, <2>4
  <1>3. CASE call[c].at = "rmdir"
    <2>1. s \in Sids /\ Ending(c, s)
      BY <1>3 DEF Ending, TypeInv, SidsKnown, Chosen
    <2>2. Gone(s) /\ Sent(s) = 0 /\ s \notin cut /\ ~Held(s)
      BY <2>1 DEF RecordInv, StopInv, CutInv
    <2>3. sess' = sess /\ (\A r \in Sids : Gone(r)' <=> Gone(r))
      BY <1>3 DEF Remove, Rmdir, Drop, Answer, Proceed, Gone
    <2>4. \A d \in Clients, r \in Sids : Ending(d, r)' => Ending(d, r) /\ r # s
      <3>1. Proceed(c, "idle", sess, enc)
        BY <1>3 DEF Remove, Rmdir, Drop, Answer
      <3>2. call'[c].at = "idle" /\ \A d \in Clients : d # c => call'[d] = call[d]
        BY <3>1, CallSteps DEF Places
      <3>3. \A d \in Clients, r \in Sids : Ending(d, r)' => Ending(d, r) /\ d # c
        BY <3>2 DEF Ending
      <3>4. \A d \in Clients : Ending(d, s) => d = c
        BY <2>1 DEF RecordInv, StopInv
      <3> QED
        BY <3>3, <3>4
    <2>5. CASE Rmdir(c)
      <3>1. Emit({s}) /\ cut' = cut
        BY <2>5 DEF Rmdir
      <3>2. UNCHANGED Contract!contract
        BY <2>3, <3>1, EmitSilent
      <3>3. \A r \in Sids : r # s => Sent(r)' = Sent(r)
        BY <3>1, EmitCounts
      <3>4. CutInv'
        <4> HIDE DEF Gone, Ending, s
        <4> QED
          BY <1>0, <2>2, <2>3, <2>4, <3>1, <3>3 DEF RecordInv, CutInv
      <3> QED
        BY <2>1, <3>2, <3>4
    <2>6. CASE Drop(c)
      <3>1. stops' = stops /\ cut' = cut \cup {s}
        BY <1>3, <2>6 DEF Drop
      <3>2. Contract!Lose(s)
        <4>1. stops[s].kept = 0 /\ Phase[s] = "ended"
          <5>1. stops[s].kept = 0
            BY <2>1, <2>2, SessType DEF Sent, TypeInv, StopRow
          <5> QED
            BY <2>1, <2>2, <5>1, PhaseKnown
        <4>2. Phase' = [Phase EXCEPT ![s] = "closed"]
          BY <2>1, <2>2, <2>3, <3>1, <4>1 DEF Phase, Gone
        <4>3. [r \in Sids |-> sess[r].user]' = [r \in Sids |-> sess[r].user]
          BY <2>3
        <4> QED
          BY <3>1, <4>1, <4>2, <4>3 DEF Contract!Lose
      <3>4. \A r \in Sids : Sent(r)' = Sent(r)
        BY <3>1 DEF Sent
      <3>3. CutInv'
        <4> HIDE DEF Gone, Ending, s
        <4> QED
          BY <1>0, <2>1, <2>2, <2>3, <2>4, <3>1, <3>4 DEF RecordInv, CutInv
      <3> QED
        BY <2>1, <3>2, <3>3
    <2> QED
      BY <1>3, <2>5, <2>6 DEF Remove
  <1>4. CASE Drop(c) /\ call[c].at # "rmdir"
    <2>1. /\ sess' = sess /\ stops' = stops /\ cut' = cut
          /\ Proceed(c, "idle", sess, enc)
      BY <1>4 DEF Drop, Answer, Proceed
    <2>2. \A d \in Clients, r \in Sids : Ending(d, r)' <=> Ending(d, r)
      <3>1. call'[c].at = "idle" /\ \A d \in Clients : d # c => call'[d] = call[d]
        BY <2>1, CallSteps DEF Places
      <3> QED
        BY <1>4, <3>1 DEF Ending
    <2>3. Uninvolved
      BY <1>0, <2>1, <2>2 DEF Uninvolved, Gone
    <2> QED
      BY <1>1, <2>3, QuietKept DEF RecordInv
  <1> QED
    BY <1>2, <1>3, <1>4 DEF Rmdir

\* The steps of the reaper.
LEMMA ReapContract ==
    ASSUME TypeInv, TypeInv', RecordInv, (\E s \in Sids : ReapRemove(s)) \/ ReapRmdir \/ ReapHook
    PROVE  /\ CutInv'
           /\ \/ UNCHANGED Contract!contract
              \/ \E s \in Sids : Contract!End(s)
  <1>0. /\ sess \in [Sids -> SessionRow] /\ cut \subseteq Sids /\ NoSid \notin Sids
        /\ reaper \in [todo : SUBSET Sids, cur : Sids \cup {NoSid}, got : SUBSET Sids]
        /\ cut' = cut /\ call' = call
    <2>1. /\ sess \in [Sids -> SessionRow] /\ cut \subseteq Sids /\ NoSid \notin Sids
          /\ reaper \in [todo : SUBSET Sids, cur : Sids \cup {NoSid}, got : SUBSET Sids]
      BY SessType DEF TypeInv, TypeOK, NoSid, Sids
    <2>2. cut' = cut /\ call' = call
      BY DEF ReapRemove, ReapRmdir, ReapHook
    <2> QED
      BY <2>1, <2>2
  <1>1. \A d \in Clients : \A r : Ending(d, r)' <=> Ending(d, r)
    BY <1>0 DEF Ending
  <1>2. ASSUME NEW s \in Sids, ReapRemove(s)
        PROVE  CutInv' /\ (UNCHANGED Contract!contract \/ Contract!End(s))
    <2>1. /\ stops' = stops /\ sess' = Taken(s) /\ s \in reaper.todo /\ reaper.cur = NoSid
          /\ reaper'.got = reaper.got /\ reaper'.cur = IF Removes(s) THEN s ELSE NoSid
          /\ sess[s].st # "free" /\ \A r \in Sids : Sent(r)' = Sent(r)
      BY <1>0, <1>2 DEF ReapRemove, TypeInv, SidsKnown, Sent
    <2>2. \A r \in Sids : Gone(r)' <=> Gone(r) \/ r = s
      BY <1>0, <2>1 DEF Taken, Gone, SessionRow
    <2>3. CASE Removes(s)
      <3>1. s \in Live /\ ~Gone(s)
        BY <2>3 DEF Removes, Live, Gone
      <3>2. Contract!End(s)
        BY <1>0, <2>1, <3>1, TakenEnds
      <3>3. CutInv'
        <4> HIDE DEF Gone, Ending
        <4> QED
          BY <1>0, <1>1, <2>1, <2>2, <2>3, <3>1 DEF RecordInv, CutInv
      <3> QED
        BY <3>2, <3>3
    <2>4. CASE ~Removes(s)
      <3>1. Gone(s)
        BY <1>0, <2>1, <2>4 DEF Removes, Live, Gone, SessionRow
      <3>2. Quiet
        BY <2>1, RowsQuiet
      <3>3. Uninvolved
        <4> HIDE DEF Gone, Ending
        <4> QED
          BY <1>0, <1>1, <2>1, <2>2, <2>4, <3>1 DEF Uninvolved
      <3> QED
        BY <3>2, <3>3, QuietKept DEF RecordInv
    <2> QED
      BY <2>3, <2>4
  <1>3. CASE ReapRmdir
    <2>1. /\ stops' = stops /\ sess' = sess /\ reaper.cur # NoSid
          /\ reaper'.cur = NoSid /\ reaper'.got = reaper.got \cup {reaper.cur}
          /\ \A r \in Sids : Sent(r)' = Sent(r)
      BY <1>0, <1>3 DEF ReapRmdir, Sent
    <2>2. UNCHANGED Contract!contract
      BY <1>0, <2>1, LedgerKept
    <2>3. \A r \in Sids : Gone(r)' <=> Gone(r)
      BY <2>1 DEF Gone
    <2>4. CutInv'
      <3> HIDE DEF Gone, Ending
      <3> QED
        BY <1>0, <1>1, <2>1, <2>3 DEF RecordInv, CutInv
    <2> QED
      BY <2>2, <2>4
  <1>4. CASE ReapHook
    <2>1. /\ sess' = sess /\ Emit(reaper.got) /\ reaper.got # {}
          /\ reaper'.cur = reaper.cur /\ reaper'.got = {}
      BY <1>0, <1>4 DEF ReapHook
    <2>2. \A r \in reaper.got : r \in Sids /\ Gone(r) /\ Sent(r) = 0 /\ r \notin cut
      BY <1>0 DEF RecordInv, StopInv, CutInv
    <2>3. UNCHANGED Contract!contract
      BY <1>0, <2>1, EmitSilent
    <2>4. \A r \in Sids : r \notin reaper.got => Sent(r)' = Sent(r)
      BY <2>1, EmitCounts
    <2>5. \A r \in Sids : Gone(r)' <=> Gone(r)
      BY <2>1 DEF Gone
    <2>6. CutInv'
      <3> HIDE DEF Gone, Ending
      <3> QED
        BY <1>0, <1>1, <2>1, <2>2, <2>4, <2>5 DEF RecordInv, CutInv
    <2> QED
      BY <1>0, <2>3, <2>6
  <1> QED
    BY <1>2, <1>3, <1>4

LEMMA NextContract ==
    ASSUME TypeInv, TypeInv', CapInv, RecordInv, [Next]_vars
    PROVE  CutInv' /\ [Contract!Step]_(Contract!contract)
  <1>1. CASE ReapList \/ (\E s \in Sids : Age(s) \/ Exit(s) \/ Drain(s)) \/ UNCHANGED vars
    BY <1>1, ElseQuiet, ElseUninvolved, QuietKept DEF Reap, RecordInv
  <1>2. CASE (\E s \in Sids : ReapRemove(s)) \/ ReapRmdir \/ ReapHook
    BY <1>2, ReapContract DEF Contract!Step
  <1>5. CASE \E s \in Sids : RecordStop(s)
    BY <1>5, RecordContract DEF Contract!Step
  <1>3. ASSUME NEW c \in Clients,
               \/ \E t \in Titles : Create(c, t)
               \/ \E s \in Sids : Pause(c, s) \/ Resume(c, s) \/ Fetch(c, s) \/ Delete(c, s)
               \/ Find(c) \/ AdoptSwap(c)
        PROVE  CutInv' /\ UNCHANGED Contract!contract
    BY <1>3, RequestQuiet, RequestUninvolved, QuietKept DEF RecordInv
  <1>4. ASSUME NEW c \in Clients, Step(c) \/ Drop(c)
        PROVE  CutInv' /\ [Contract!Step]_(Contract!contract)
    <2>1. CASE Find(c) \/ AdoptSwap(c)
      BY <1>3, <2>1
    <2>2. CASE \/ CheckCpu(c) \/ AdoptCont(c) \/ AdoptTouch(c) \/ StartFails(c)
               \/ PauseSignal(c) \/ ResumeSignal(c) \/ Served(c)
      BY <2>2, ProceedQuiet, ProceedUninvolved, QuietKept DEF RecordInv
    <2>3. CASE CheckCaps(c)
      <3>1. sess' = sess
        BY <2>3 DEF CheckCaps, Answer, Proceed
      <3> QED
        BY <2>3, <3>1, ProceedUninvolved, QuietKept DEF RecordInv, Quiet
    <2>4. CASE Start(c)
      <3>1. \E s \in Sids, u \in Users : Contract!Begin(s, u)
        BY <2>4, StartBegins
      <3>2. CutInv'
        <4>1. Uninvolved /\ cut \subseteq Sids
          BY <2>4, ProceedUninvolved DEF TypeInv, TypeOK
        <4> HIDE DEF Gone, Ending
        <4> QED
          BY <4>1 DEF RecordInv, CutInv, Uninvolved, Sent
      <3> QED
        BY <3>1, <3>2 DEF Contract!Step
    <2>5. CASE Remove(c) \/ Rmdir(c) \/ Drop(c)
      BY <2>5, DeleteContract DEF Contract!Step
    <2> QED
      BY <1>4, <2>1, <2>2, <2>3, <2>4, <2>5 DEF Step
  <1> QED
    BY <1>1, <1>2, <1>3, <1>4, <1>5 DEF Next, Reap

LEMMA RecordAlways == Spec => [](TypeInv /\ GateInv /\ CapInv /\ RecordInv)
  <1>1. Init => CutInv
    BY DEF Init, CutInv
  <1>2. Init => TypeInv /\ GateInv /\ CapInv /\ RecordInv
    BY <1>1, InitType, InitGate, InitCap, InitStop DEF RecordInv
  <1>3. TypeInv /\ GateInv /\ CapInv /\ RecordInv /\ [Next]_vars
          => (TypeInv /\ GateInv /\ CapInv /\ RecordInv)'
    BY NextType, NextGate, NextCap, NextStop, NextContract DEF RecordInv
  <1> QED
    BY <1>2, <1>3, PTL DEF Spec

\* A session that ended has one stop event, written or on its way with one actor,
\* whoever raced for it, and none after it; it is lost only by a DELETE dropped at
\* the removal of the directory or by a write that fails (stream.rs:1294-1306,
\* session.rs:1362-1379, main.rs:987-993).
THEOREM OneStopPerSessionCorrect == Spec => []OneStopPerSession
  <1>1. TypeInv /\ RecordInv => OneStopPerSession
    <2> SUFFICES ASSUME TypeInv, RecordInv, NEW s \in Sids
        PROVE  LET onTheWay == \/ s = reaper.cur \/ s \in reaper.got
                               \/ \E c \in Clients : call[c].at = "rmdir" /\ call[c].sid = s
                               \/ stops[s].due > 0
               IN  /\ stops[s].kept <= 1
                   /\ stops[s].kept = 1 => sess[s].st = "gone" /\ ~onTheWay /\ s \notin cut
                   /\ sess[s].st = "gone" => (stops[s].kept = 1 \/ onTheWay \/ s \in cut)
      BY DEF OneStopPerSession, TypeInv
    <2>1. stops[s].due \in Nat /\ stops[s].kept \in Nat
      BY SessType DEF TypeInv, StopRow
    <2>2. /\ Sent(s) = 0 \/ Sent(s) = 1
          /\ Sent(s) = 1 =>
                /\ Gone(s) /\ s \notin cut /\ s # reaper.cur /\ s \notin reaper.got
                /\ \A c \in Clients : ~Ending(c, s)
          /\ Gone(s) => \/ Sent(s) = 1 \/ s = reaper.cur \/ s \in reaper.got \/ s \in cut
                        \/ \E c \in Clients : Ending(c, s)
      <3> HIDE DEF Gone, Ending, Sent
      <3> QED
        BY DEF RecordInv, StopInv, CutInv
    <2>3. /\ Sent(s) = 0 => stops[s].due = 0 /\ stops[s].kept = 0
          /\ Sent(s) = 1 => (stops[s].due = 0 /\ stops[s].kept = 1) \/ (stops[s].due = 1 /\ stops[s].kept = 0)
      BY <2>1 DEF Sent
    <2> QED
      BY <2>2, <2>3 DEF Gone, Ending
  <1> QED
    BY <1>1, RecordAlways, PTL

\* Whatever handlers, hang-ups, encoders and the reaper do, and for any number of
\* users and sessions, what can be seen of the registry and the record is a
\* behaviour of SessionContract: sessions are opened with room left, end once,
\* and are reported once by the one who took them out (session.rs:1362-1379).
THEOREM KeepsContractCorrect == Spec => KeepsContract
  <1>2. Init => Contract!Start
    <2> SUFFICES ASSUME Init PROVE Contract!Start
      OBVIOUS
    <2>1. /\ \A s \in Sids : sess[s].st = "free" /\ sess[s].user \in Users
          /\ \A s \in Sids : stops[s].kept = 0
      BY InitType DEF Init, TypeInv, TypeOK
    <2>2. Phase = [s \in Sids |-> "none"]
      BY <2>1 DEF Phase
    <2>3. [s \in Sids |-> sess[s].user] \in [Sids -> Users]
      BY <2>1
    <2> QED
      BY <2>1, <2>2, <2>3 DEF Contract!Start
  <1>3. TypeInv /\ TypeInv' /\ CapInv /\ RecordInv /\ [Next]_vars
          => [Contract!Step]_(Contract!contract)
    BY NextContract
  <1>4. Spec => Contract!Promise
    BY <1>2, <1>3, RecordAlways, PTL DEF Spec, Contract!Promise
  <1> QED
    BY <1>4 DEF KeepsContract
=============================================================================
