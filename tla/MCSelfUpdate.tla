---------------------------- MODULE MCSelfUpdate ----------------------------
(* SelfUpdate with the values the TLC configurations use. *)
EXTENDS SelfUpdate

\* Versions 1 and 2 work, 3 starts and cannot poll.
FirstTwo == {1, 2}
AllThree == {1, 2, 3}
BothCommands == {"update", "revert"}
AllDisturbances == DisturbanceKinds
=============================================================================
