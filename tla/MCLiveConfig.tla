----------------------------- MODULE MCLiveConfig -----------------------------
(***************************************************************************)
(* An instance of LiveConfig: two servers in the first file, one of which  *)
(* depends on the other.                                                   *)
(***************************************************************************)
EXTENDS LiveConfig, TLC

MCNeeds == [n \in Names |-> IF n = "db" THEN {"localhost"} ELSE {}]

MCFile == [kind |-> "whole", glob |-> "initial",
           list |-> <<[name |-> "localhost", ver |-> 0, ok |-> TRUE],
                      [name |-> "db", ver |-> 0, ok |-> TRUE]>>]

Symmetry == Permutations(Requests)
=============================================================================
