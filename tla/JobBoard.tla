------------------------------ MODULE JobBoard ------------------------------
(***************************************************************************)
(* What the workflow queue promises to its clients, without workers, locks *)
(* or time: a posted job is open until it is done or given up, and it is   *)
(* done only after its service has been performed.                         *)
(***************************************************************************)
CONSTANT Jobs

VARIABLES
    outcome,    \* "none" before it is posted, then "open", "done" or "dead"
    performed   \* the job's service has returned successfully

boardVars == <<outcome, performed>>

Init ==
    /\ outcome = [j \in Jobs |-> "none"]
    /\ performed = [j \in Jobs |-> FALSE]

Turn(j, from, to) ==
    /\ outcome[j] = from
    /\ outcome' = [outcome EXCEPT ![j] = to]
    /\ UNCHANGED performed

Post(j) == Turn(j, "none", "open")

\* A worker that lost the job may still be performing it after it ended.
Perform(j) ==
    /\ outcome[j] # "none"
    /\ performed' = [performed EXCEPT ![j] = TRUE]
    /\ UNCHANGED outcome

Complete(j) == performed[j] /\ Turn(j, "open", "done")

GiveUp(j) == Turn(j, "open", "dead")

\* An ended job is opened again only by someone outside the queue.
Reopen(j) == Turn(j, "done", "open") \/ Turn(j, "dead", "open")

FinalNext == \E j \in Jobs : Post(j) \/ Perform(j) \/ Complete(j) \/ GiveUp(j)

Next == FinalNext \/ \E j \in Jobs : Reopen(j)

\* Ended jobs stay as they ended.
FinalSpec == Init /\ [][FinalNext]_boardVars

Spec == Init /\ [][Next]_boardVars
=============================================================================
