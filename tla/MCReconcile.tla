----------------------------- MODULE MCReconcile -----------------------------
(* Reconcile with the values the TLC configurations use. *)
EXTENDS Reconcile

CONSTANTS n1, n2
TwoNames == {n1, n2}
TwoTasks == {1, 2}
FirstTask == {1}
AllOrders == OrderKinds
NameAndVersion == {"name", "version"}
AllFaults == FaultKinds
NoFaults == {}
LearnsPower == {"power"}
==============================================================================
