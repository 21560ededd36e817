----------------------------- MODULE JobSchedule -----------------------------
(***************************************************************************)
(* What WatchSSH promises about scheduled jobs, with no queue, thread,     *)
(* lock or clock: a job is idle or active, it becomes active at most once  *)
(* for a wall-clock minute and only for ever later minutes, and once the   *)
(* manager has shut nothing becomes active again.  JobManager refines it.  *)
(***************************************************************************)
EXTENDS Integers

CONSTANTS
    Jobs,
    Minutes     \* the minutes of a behaviour

VARIABLES
    active,     \* the jobs with a run in progress
    served,     \* served[j]: the minutes job j has been started for
    open        \* FALSE once the manager accepts no more starts

vars == <<active, served, open>>

TypeOK ==
    /\ active \in SUBSET Jobs
    /\ served \in [Jobs -> SUBSET Minutes]
    /\ open \in BOOLEAN

Init ==
    /\ active = {}
    /\ served = [j \in Jobs |-> {}]
    /\ open = TRUE

Begin(j, m) ==
    /\ open
    /\ j \notin active
    /\ \A k \in served[j] : k < m
    /\ active' = active \cup {j}
    /\ served' = [served EXCEPT ![j] = @ \cup {m}]
    /\ UNCHANGED open

End(j) ==
    /\ j \in active
    /\ active' = active \ {j}
    /\ UNCHANGED <<served, open>>

Shut ==
    /\ open' = FALSE
    /\ UNCHANGED <<active, served>>

Next ==
    \/ \E j \in Jobs : \E m \in Minutes : Begin(j, m)
    \/ \E j \in Jobs : End(j)
    \/ Shut

Spec == Init /\ [][Next]_vars
==============================================================================
