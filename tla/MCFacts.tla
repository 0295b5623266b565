------------------------------ MODULE MCFacts ------------------------------
(* Facts with the values the TLC configurations use. *)
EXTENDS Facts

AllFaults == FaultKinds
=============================================================================
