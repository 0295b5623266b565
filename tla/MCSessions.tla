----------------------------- MODULE MCSessions -----------------------------
(* Sessions with the values the TLC configuration uses. *)
EXTENDS Sessions

AllFaults == FaultKinds
=============================================================================
