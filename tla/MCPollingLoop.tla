---------------------------- MODULE MCPollingLoop ----------------------------
(* Instances of PollingLoop for TLC: the constants are in the configurations. *)
EXTENDS PollingLoop
=============================================================================
