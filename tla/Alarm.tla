-------------------------------- MODULE Alarm --------------------------------
(***************************************************************************)
(* What power schedules promise (docs/design/0004-power.md): a minute is   *)
(* acted on only if a schedule names it, in order, and once, however often *)
(* the machine comes back within it.  PowerSchedules implements it.        *)
(***************************************************************************)
EXTENDS Naturals

CONSTANT Minutes

VARIABLES
    named,   \* the minutes the schedules name
    rung     \* those acted on

Init == named \subseteq Minutes /\ rung = {}

Ring ==
    \E m \in named :
        /\ \A earlier \in rung : earlier < m
        /\ rung' = rung \cup {m}
        /\ UNCHANGED named

Reschedule ==
    /\ named' \subseteq Minutes
    /\ UNCHANGED rung

Next == Ring \/ Reschedule

Spec == Init /\ [][Next]_<<named, rung>>
=============================================================================
