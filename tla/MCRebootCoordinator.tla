------------------------- MODULE MCRebootCoordinator -------------------------
(* RebootCoordinator with the values the TLC configurations use. *)
EXTENDS RebootCoordinator

MCProviders == {"software"}
NoProviders == {}
OnlyPower == {SourcePower}
BothCommanders == {SourcePower, SourceSnapin}

AllDisturbances == DisturbanceKinds
OnlyRefusals == {"execute"}
==============================================================================
