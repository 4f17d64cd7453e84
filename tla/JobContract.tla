---------------------------- MODULE JobContract -----------------------------
(***************************************************************************)
(* What the job queue promises, with no workers, locks or backoffs: a job  *)
(* is worked on by one attempt at a time, an attempt ends by completing,   *)
(* by burying the job or by putting it back while it has attempts left, a  *)
(* restart puts back what was being worked on, nobody discards a job that  *)
(* is being worked on, and an id stands for one job for ever.  Module      *)
(* JobQueue implements it.                                                 *)
(***************************************************************************)
EXTENDS Integers

CONSTANTS
    MaxAttempts,  \* attempts an error may be retried within
    MaxJobs       \* bound: jobs ever submitted

VARIABLES
    stage,   \* of each id: none, waiting, working, done or dead
    tries,   \* attempts begun since the job was submitted or reopened
    issued   \* the next id

contract == <<stage, tries, issued>>

JobIds == 1..MaxJobs

Start ==
    /\ stage = [j \in JobIds |-> "none"]
    /\ tries = [j \in JobIds |-> 0]
    /\ issued = 1

Submit ==
    /\ issued \in JobIds
    /\ stage' = [stage EXCEPT ![issued] = "waiting"]
    /\ issued' = issued + 1
    /\ UNCHANGED tries

Begin(j) ==
    /\ stage[j] = "waiting"
    /\ stage' = [stage EXCEPT ![j] = "working"]
    /\ tries' = [tries EXCEPT ![j] = @ + 1]
    /\ UNCHANGED issued

End(j, outcome) ==
    /\ stage[j] = "working"
    /\ outcome \in {"done", "dead", "waiting"}
    /\ outcome = "waiting" => tries[j] < MaxAttempts
    /\ stage' = [stage EXCEPT ![j] = outcome]
    /\ UNCHANGED <<tries, issued>>

Recover ==
    /\ stage' = [j \in JobIds |-> IF stage[j] = "working" THEN "waiting" ELSE stage[j]]
    /\ UNCHANGED <<tries, issued>>

Reopen(j) ==
    /\ stage[j] \in {"waiting", "dead"}
    /\ stage' = [stage EXCEPT ![j] = "waiting"]
    /\ tries' = [tries EXCEPT ![j] = 0]
    /\ UNCHANGED issued

Discard(S) ==
    /\ \A j \in S : stage[j] # "working"
    /\ stage' = [j \in JobIds |-> IF j \in S THEN "none" ELSE stage[j]]
    /\ tries' = [j \in JobIds |-> IF j \in S THEN 0 ELSE tries[j]]
    /\ UNCHANGED issued

Step ==
    \/ Submit
    \/ \E j \in JobIds :
          Begin(j) \/ Reopen(j) \/ \E outcome \in {"done", "dead", "waiting"} : End(j, outcome)
    \/ Recover
    \/ \E S \in SUBSET JobIds : Discard(S)

Promise == Start /\ [][Step]_contract
=============================================================================
