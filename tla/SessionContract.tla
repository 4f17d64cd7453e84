-------------------------- MODULE SessionContract ---------------------------
(***************************************************************************)
(* What the transcode sessions promise, with no handlers, gate or encoder: *)
(* a session is opened only while there is room, for everybody and for its *)
(* owner, it belongs to one user and is opened and ended once, and what    *)
(* has ended is put on the record once or is lost to it for good.  Module  *)
(* Transcode implements it.                                                *)
(***************************************************************************)
EXTENDS Naturals, FiniteSets

CONSTANTS
    Owners,
    Sessions,  \* ids, each used once
    Room,      \* sessions open at a time
    RoomEach   \* and of one owner

VARIABLES
    phase,    \* of each id: none, open, ended or closed
    owner,    \* whose session it is
    reports   \* times its end was put on the record

contract == <<phase, owner, reports>>

Open      == {s \in Sessions : phase[s] = "open"}
OpenOf(u) == {s \in Open : owner[s] = u}

Start ==
    /\ phase = [s \in Sessions |-> "none"]
    /\ owner \in [Sessions -> Owners]
    /\ reports = [s \in Sessions |-> 0]

Begin(s, u) ==
    /\ phase[s] = "none"
    /\ Cardinality(Open) < Room /\ Cardinality(OpenOf(u)) < RoomEach
    /\ phase' = [phase EXCEPT ![s] = "open"]
    /\ owner' = [owner EXCEPT ![s] = u]
    /\ UNCHANGED reports

End(s) ==
    /\ phase[s] = "open"
    /\ phase' = [phase EXCEPT ![s] = "ended"]
    /\ UNCHANGED <<owner, reports>>

Report(s) ==
    /\ phase[s] = "ended"
    /\ phase' = [phase EXCEPT ![s] = "closed"]
    /\ reports' = [reports EXCEPT ![s] = @ + 1]
    /\ UNCHANGED owner

\* The client that ended it hangs up, or the record cannot be written.
Lose(s) ==
    /\ phase[s] = "ended"
    /\ phase' = [phase EXCEPT ![s] = "closed"]
    /\ UNCHANGED <<owner, reports>>

Step == \E s \in Sessions :
    End(s) \/ Report(s) \/ Lose(s) \/ \E u \in Owners : Begin(s, u)

Promise == Start /\ [][Step]_contract
=============================================================================
