----------------------------- MODULE RejoinLatch -----------------------------
(***************************************************************************)
(* The restart latch of a directory rejoin, as whoever restarts the        *)
(* machine sees it (docs/design/0009-directory-membership.md): an attempt  *)
(* that awaits its restart is claimed by one request at a time, a claim is *)
(* given back only if nothing was restarted for it, and the attempt counts *)
(* as verified only after a boot.  DirectoryRejoin implements it with      *)
(* several agents on one marker file; RebootCoordinator, which looks at    *)
(* one agent, its reasons and its faults, relies on no more than it.       *)
(***************************************************************************)
VARIABLES
    phase,      \* of the attempt the marker names: none, awaiting_reboot, verified
    requested,  \* its restart is claimed
    booted,     \* the machine has started since it began to wait
    restarted   \* the system accepted a restart for it

latch == <<phase, requested, booted, restarted>>

Awaits == phase = "awaiting_reboot"

Init == phase = "none" /\ ~requested /\ ~booted /\ ~restarted

\* The native call succeeded.
Await ==
    /\ ~Awaits
    /\ phase' = "awaiting_reboot"
    /\ requested' = FALSE /\ booted' = FALSE /\ restarted' = FALSE

Claim ==
    /\ Awaits /\ ~requested
    /\ requested' = TRUE
    /\ UNCHANGED <<phase, booted, restarted>>

Release ==
    /\ Awaits /\ requested /\ ~restarted
    /\ requested' = FALSE
    /\ UNCHANGED <<phase, booted, restarted>>

Accept ==
    /\ requested /\ ~restarted
    /\ restarted' = TRUE
    /\ UNCHANGED <<phase, requested, booted>>

Boot ==
    /\ Awaits
    /\ booted' = TRUE
    /\ UNCHANGED <<phase, requested, restarted>>

Verify ==
    /\ Awaits /\ booted
    /\ phase' = "verified"
    /\ UNCHANGED <<requested, booted, restarted>>

\* A verified attempt is archived; one whose outcome turns out to be unknown
\* stops all directory work, and nothing was claimed for it.
Leave ==
    /\ phase = "verified" \/ (Awaits /\ ~requested)
    /\ phase' = "none"
    /\ requested' = FALSE /\ booted' = FALSE /\ restarted' = FALSE

Next == Await \/ Claim \/ Release \/ Accept \/ Boot \/ Verify \/ Leave

Spec == Init /\ [][Next]_latch

\* What the latch is for: a claim that led to a restart is never given back, so
\* no agent that reads the marker later asks for another (rejoin.go:234-237).
ClaimIsSpent == restarted => requested
=============================================================================
