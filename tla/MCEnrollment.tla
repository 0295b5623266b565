---------------------------- MODULE MCEnrollment ----------------------------
(* Enrollment with two machines. *)
EXTENDS Enrollment

CONSTANTS m1, m2

Two == {m1, m2}
AnyAnswer == {"offered", "refused", "down"}
=============================================================================
