---------------------------- MODULE MCHistoryStore ----------------------------
(* Instances of HistoryStore for TLC: the constants are in the configurations. *)
EXTENDS HistoryStore
=============================================================================
