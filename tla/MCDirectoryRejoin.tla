-------------------------- MODULE MCDirectoryRejoin --------------------------
(* Instances of DirectoryRejoin for TLC. *)
EXTENDS DirectoryRejoin, TLC

CONSTANTS service, byHand

MCProcs == {service, byHand}

\* Both agents run the same code.
Agents == Permutations(MCProcs)
=============================================================================
