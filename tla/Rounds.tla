------------------------------- MODULE Rounds -------------------------------
(***************************************************************************)
(* What the polling loop promises: rounds, one at a time, in each of which *)
(* every server is reported exactly once before the round is delivered,    *)
(* and none after the monitor has been shut.                               *)
(***************************************************************************)
CONSTANT Servers

VARIABLES
    round,     \* "closed", "open", "shut"
    reported   \* the servers reported in the open round

rvars == <<round, reported>>

Init == round = "closed" /\ reported = {}

Open ==
    /\ round = "closed"
    /\ round' = "open"
    /\ reported' = {}

Report(s) ==
    /\ round = "open"
    /\ s \notin reported
    /\ reported' = reported \cup {s}
    /\ UNCHANGED round

Deliver ==
    /\ round = "open"
    /\ reported = Servers
    /\ round' = "closed"
    /\ reported' = {}

Shut ==
    /\ round = "closed"
    /\ round' = "shut"
    /\ UNCHANGED reported

Next == Open \/ (\E s \in Servers : Report(s)) \/ Deliver \/ Shut

Spec == Init /\ [][Next]_rvars
=============================================================================
