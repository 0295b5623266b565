--------------------------- MODULE DirectoryRejoin ---------------------------
(***************************************************************************)
(* Directory rejoin: the server plans one change of the machine's place in *)
(* the domain, the agent carries it out with one native call, asks for one *)
(* restart and verifies after it (cmd/fog-agent/directory_rejoin.go).  The *)
(* marker file (internal/provider/directoryjoin) is the latch between the  *)
(* service and a `fog-agent run --once` started by hand: every change of   *)
(* it is one step under the file lock, and compares the file with what the *)
(* writer read before.  Anything else of the two processes interleaves.    *)
(*                                                                         *)
(* An identity is the agent's key; the host id bound to it is not kept     *)
(* apart.  Plans are numbered in the order the server makes them.  Names,  *)
(* domain, role and plan validation only ever end a round early, and so    *)
(* does a failed read, write, lock or report: that is Stop.                *)
(***************************************************************************)
EXTENDS Naturals

CONSTANTS
    Procs,      \* agents running on the machine
    MaxAttempt, \* plans the server makes
    MaxBoot,    \* boots of the machine
    MaxKey      \* identities of the machine

Ids == 1..MaxAttempt
Boots == 1..MaxBoot
Keys == 1..MaxKey

ASSUME RejoinConstants ==
    /\ MaxAttempt \in Nat
    /\ MaxBoot \in Nat \ {0}
    /\ MaxKey \in Nat \ {0}

Phases == {"reserved", "may_have_run", "awaiting_reboot", "verified", "failed",
           "unknown"}

Attempts == [id : Ids, key : Keys, phase : Phases, before : Boots, asked : BOOLEAN]

\* No marker file, and one that cannot be read back.
NoMarker == [id |-> 0, phase |-> "none"]
Torn == [id |-> 0, phase |-> "unreadable"]

Plans == [id : Ids, phase : {"ready", "claimed", "verified"}]
NoPlan == [id |-> 0, phase |-> "none"]

VARIABLES
    marker,    \* directory-rejoin-attempt.json
    archived,  \* attempts whose marker was archived
    key,       \* the key on disk
    cfg,       \* whether config.json holds the rejoin's reason to restart
    boot,      \* the current boot
    pc, me, plan, at, reason, \* a process: where it is, the key it loaded, the
               \* server's answer, its copy of the marker, the reason in memory
    current, retry, claimed, confirmed, \* the server: its newest plan, the plans
               \* that authorize a retry, plans started, plans told verified
    runs, touched, restarts \* native calls per attempt, the boot of its last
               \* mutation, restarts accepted for it

disk == <<marker, archived, key, cfg>>
procs == <<pc, me, plan, at, reason>>
server == <<current, retry, claimed, confirmed>>
history == <<runs, touched, restarts>>
vars == <<disk, boot, procs, server, history>>

Lines == {"off", "idle", "answered", "planned", "claim", "latch", "name", "native",
          "lost", "failed", "done", "record", "prove", "restart", "taken", "request",
          "refused", "unsaved", "rotate"}

DiskOK ==
    /\ marker \in Attempts \union {NoMarker, Torn}
    /\ archived \subseteq Ids
    /\ key \in Keys
    /\ cfg \in BOOLEAN
    /\ boot \in Boots

ProcsOK ==
    /\ pc \in [Procs -> Lines]
    /\ me \in [Procs -> Keys]
    /\ plan \in [Procs -> Plans \union {NoPlan}]
    /\ at \in [Procs -> Attempts \union {NoMarker}]
    /\ reason \in [Procs -> BOOLEAN]

ServerOK ==
    /\ current \in 0..MaxAttempt
    /\ retry \subseteq Ids
    /\ claimed \subseteq Ids
    /\ confirmed \subseteq Ids

HistoryOK ==
    /\ runs \in [Ids -> Nat]
    /\ touched \in [Ids -> 0..MaxBoot]
    /\ restarts \in [Ids -> Nat]

TypeOK == DiskOK /\ ProcsOK /\ ServerOK /\ HistoryOK

Init ==
    /\ marker = NoMarker /\ archived = {} /\ key = 1 /\ cfg = FALSE
    /\ boot = 1
    /\ pc = [p \in Procs |-> "off"]
    /\ me = [p \in Procs |-> 1]
    /\ plan = [p \in Procs |-> NoPlan]
    /\ at = [p \in Procs |-> NoMarker]
    /\ reason = [p \in Procs |-> FALSE]
    /\ current = 0 /\ retry = {} /\ claimed = {} /\ confirmed = {}
    /\ runs = [i \in Ids |-> 0]
    /\ touched = [i \in Ids |-> 0]
    /\ restarts = [i \in Ids |-> 0]

-----------------------------------------------------------------------------
(* The marker file.  Each operator is one locked change of it: what has to *)
(* hold of the file, or the file afterwards.                               *)

AttemptPhaseUpdate(from, to) ==
    \/ from = to
    \/ from = "reserved" /\ to \in {"may_have_run", "unknown"}
    \/ from = "may_have_run" /\ to \in {"awaiting_reboot", "failed", "unknown"}
    \/ from = "awaiting_reboot" /\ to \in {"verified", "unknown"}

ByPhaseOnly(m, a) == AttemptPhaseUpdate(m.phase, a.phase)
SaveAllowed(m, a) ==
    /\ m.id = a.id
    /\ m.key = a.key
    /\ AttemptPhaseUpdate(m.phase, a.phase)
    /\ m.asked = a.asked
    /\ m.phase = a.phase => m = a

\* A same-named attempt in another state of the protocol.
As(a, phase) == [a EXCEPT !.phase = phase]

SaveAttempt(a) ==
    /\ marker.id # 0
    /\ SaveAllowed(marker, a)
    /\ marker' = a

ArchiveVerifiedAttempt(a) ==
    /\ marker = a
    /\ a.phase = "verified"
    /\ marker' = NoMarker
    /\ archived' = archived \union {a.id}

TrustsTheServer(a, p, k) ==
    a.phase \in {"reserved", "unknown"} /\ p.phase = "ready" /\ p.id \in retry /\ a.id # p.id
ValidateReservedRetry(a, p, k) ==
    /\ a.phase = "reserved"
    /\ ~a.asked
    /\ a.key = k
    /\ p.phase = "ready"
    /\ p.id \in retry
    /\ a.id # p.id

RemoveAttemptForRetry(a, p, k) ==
    /\ marker = a
    /\ ValidateReservedRetry(a, p, k)
    /\ marker' = NoMarker

LatchesAnySnapshot(a, requested) ==
    /\ marker.id = a.id
    /\ marker.phase = "awaiting_reboot"
    /\ marker' = [a EXCEPT !.asked = requested]
SetAttemptRebootRequested(a, requested) ==
    /\ marker = a
    /\ a.phase = "awaiting_reboot"
    /\ a.asked # requested
    /\ marker' = [a EXCEPT !.asked = requested]

AnyBoot(before, after) == before <= after
NewBoot(before, after) == before # after

-----------------------------------------------------------------------------
(* A process between two steps. *)

Goto(p, l) == pc' = [pc EXCEPT ![p] = l]
Hold(p, a) == at' = [at EXCEPT ![p] = a]

\* processRejoin returned: nothing but the configuration outlives it.
Return(p) ==
    /\ Goto(p, "idle")
    /\ plan' = [plan EXCEPT ![p] = NoPlan]
    /\ Hold(p, NoMarker)

\* An error, or nothing to do, where the code returns without a change.
Stop(p) ==
    /\ pc[p] \in {"answered", "planned", "latch", "lost", "failed", "done", "prove",
                 "restart", "refused", "unsaved"}
    /\ Return(p)
    /\ UNCHANGED <<disk, boot, me, reason, server, history>>

Start(p) ==
    /\ pc[p] = "off"
    /\ Goto(p, "idle")
    /\ me' = [me EXCEPT ![p] = key]
    /\ reason' = [reason EXCEPT ![p] = cfg]
    /\ UNCHANGED <<disk, boot, plan, at, server, history>>

Off(P) ==
    /\ pc' = [p \in Procs |-> IF p \in P THEN "off" ELSE pc[p]]
    /\ plan' = [p \in Procs |-> IF p \in P THEN NoPlan ELSE plan[p]]
    /\ at' = [p \in Procs |-> IF p \in P THEN NoMarker ELSE at[p]]
    /\ reason' = [p \in Procs |-> IF p \in P THEN FALSE ELSE reason[p]]
    /\ UNCHANGED <<disk, me, server, history>>

Crash(p) ==
    /\ pc[p] # "off"
    /\ Off({p})
    /\ UNCHANGED boot

\* The machine restarts, for this rejoin or for any other reason.
Reboot ==
    /\ boot < MaxBoot
    /\ Off(Procs)
    /\ boot' = boot + 1

\* Any other writer of the whole configuration in this process: facts,
\* sessions, the verified branch of processRejoin.
SaveConfig(p) ==
    /\ pc[p] = "idle"
    /\ cfg' = reason[p]
    /\ UNCHANGED <<marker, archived, key, boot, procs, server, history>>

-----------------------------------------------------------------------------
(* The server (external). *)

\* A new plan; `again` says whether it authorizes a retry.
Issue(again) ==
    /\ current < MaxAttempt
    /\ current' = current + 1
    /\ retry' = IF again THEN retry \union {current'} ELSE retry
    /\ UNCHANGED <<disk, boot, procs, claimed, confirmed, history>>

PlanPhase(i) ==
    IF i \in confirmed THEN "verified" ELSE IF i \in claimed THEN "claimed" ELSE "ready"

\* What a poll may be answered with; a blocked plan does as little as none.
Answers ==
    {NoPlan} \union {[id |-> i, phase |-> PlanPhase(i)] : i \in {current} \ {0}}

Poll(p) ==
    /\ pc[p] = "idle"
    /\ Goto(p, "answered")
    /\ \E a \in Answers : plan' = [plan EXCEPT ![p] = a]
    /\ UNCHANGED <<disk, boot, me, at, reason, server, history>>

-----------------------------------------------------------------------------
(* processRejoin, up to the native call. *)

LoadAttempt(p) ==
    /\ pc[p] = "answered"
    /\ marker # Torn
    /\ Goto(p, "planned")
    /\ Hold(p, marker)
    /\ UNCHANGED <<disk, boot, me, plan, reason, server, history>>

\* A verified marker makes room: another identity's at once, this one's for
\* the next plan.
Retirable(a, p, k) ==
    /\ a.phase = "verified"
    /\ \/ a.key # k
       \/ a.id # p.id /\ p.phase = "ready"

Archive(p) ==
    /\ pc[p] = "planned"
    /\ Retirable(at[p], plan[p], me[p])
    /\ ArchiveVerifiedAttempt(at[p])
    /\ Hold(p, NoMarker)
    /\ UNCHANGED <<key, cfg, boot, pc, me, plan, reason, server, history>>

RetryReserved(p) ==
    /\ pc[p] = "planned"
    /\ RemoveAttemptForRetry(at[p], plan[p], me[p])
    /\ Hold(p, NoMarker)
    /\ UNCHANGED <<archived, key, cfg, boot, pc, me, plan, reason, server, history>>

NewAttempt(p) ==
    [id |-> plan[p].id, key |-> me[p], phase |-> "reserved", before |-> boot,
     asked |-> FALSE]

CanReserve(p) ==
    /\ pc[p] = "planned"
    /\ at[p] = NoMarker
    /\ plan[p].phase = "ready"
    /\ marker = NoMarker

ReserveAttempt(p) ==
    /\ CanReserve(p)
    /\ marker' = NewAttempt(p)
    /\ Hold(p, NewAttempt(p))
    /\ Goto(p, "claim")
    /\ UNCHANGED <<archived, key, cfg, boot, me, plan, reason, server, history>>

\* The marker is created in place: a crash or a full disk leaves part of it.
ReserveTorn(p) ==
    /\ CanReserve(p)
    /\ marker' = Torn
    /\ Return(p)
    /\ UNCHANGED <<archived, key, cfg, boot, me, reason, server, history>>

\* The server starts its newest plan, once; the answer may be lost.
StartRejoin(p) ==
    /\ pc[p] = "claim"
    /\ \/ /\ at[p].id = current
          /\ at[p].id \notin claimed
          /\ claimed' = claimed \union {at[p].id}
          /\ Goto(p, "latch") \/ Goto(p, "lost")
       \/ /\ claimed' = claimed
          /\ Goto(p, "lost")
    /\ UNCHANGED <<disk, boot, me, plan, at, reason, current, retry, confirmed, history>>

MayHaveRun(p) ==
    /\ pc[p] = "latch"
    /\ SaveAttempt(As(at[p], "may_have_run"))
    /\ Hold(p, As(at[p], "may_have_run"))
    /\ Goto(p, "name") \/ Goto(p, "native")
    /\ UNCHANGED <<archived, key, cfg, boot, me, plan, reason, server, history>>

\* The pending name is set first when the plan changes it.
SetRejoinName(p) ==
    /\ pc[p] = "name"
    /\ \/ touched' = [touched EXCEPT ![at[p].id] = boot]
       \/ touched' = touched
    /\ Goto(p, "native") \/ Goto(p, "lost")
    /\ UNCHANGED <<disk, boot, me, plan, at, reason, server, runs, restarts>>

\* rebindDirectory, joinDirectory or renameDirectory: an error before or after
\* the call itself (its mutex, a changed observation), its failure code, or success.
Native(p) ==
    /\ pc[p] = "native"
    /\ \/ /\ runs' = [runs EXCEPT ![at[p].id] = @ + 1]
          /\ touched' = [touched EXCEPT ![at[p].id] = boot]
          /\ Goto(p, "lost") \/ Goto(p, "failed") \/ Goto(p, "done")
       \/ /\ UNCHANGED <<runs, touched>>
          /\ Goto(p, "lost")
    /\ UNCHANGED <<disk, boot, me, plan, at, reason, server, restarts>>

-----------------------------------------------------------------------------
(* processRejoin, from the outcome on. *)

SaveUnknown(p) ==
    /\ pc[p] = "lost"
    /\ SaveAttempt(As(at[p], "unknown"))
    /\ Return(p)
    /\ UNCHANGED <<archived, key, cfg, boot, me, reason, server, history>>

SaveFailed(p) ==
    /\ pc[p] = "failed"
    /\ SaveAttempt(As(at[p], "failed"))
    /\ Return(p)
    /\ UNCHANGED <<archived, key, cfg, boot, me, reason, server, history>>

SaveAwaiting(p) ==
    /\ pc[p] = "done"
    /\ SaveAttempt(As(at[p], "awaiting_reboot"))
    /\ Hold(p, As(at[p], "awaiting_reboot"))
    /\ Goto(p, "record")
    /\ UNCHANGED <<archived, key, cfg, boot, me, plan, reason, server, history>>

\* The reason to restart, in memory and then on disk.
Record(p) ==
    /\ pc[p] = "record"
    /\ reason' = [reason EXCEPT ![p] = TRUE]
    /\ \/ cfg' = TRUE /\ Goto(p, "planned") /\ UNCHANGED <<plan, at>>
       \/ cfg' = cfg /\ Return(p)
    /\ UNCHANGED <<marker, archived, key, boot, me, server, history>>

\* After the restart, healthy, and the server took the report.
ReportVerified(p) ==
    /\ pc[p] = "planned"
    /\ at[p].id = plan[p].id
    /\ at[p].phase = "awaiting_reboot"
    /\ at[p].key = me[p]
    /\ NewBoot(at[p].before, boot)
    /\ confirmed' = confirmed \union {at[p].id}
    /\ Goto(p, "prove")
    /\ UNCHANGED <<disk, boot, me, plan, at, reason, current, retry, claimed, history>>

SaveVerified(p) ==
    /\ pc[p] = "prove"
    /\ SaveAttempt(As(at[p], "verified"))
    /\ reason' = [reason EXCEPT ![p] = FALSE]
    /\ cfg' \in {FALSE, cfg}
    /\ Return(p)
    /\ UNCHANGED <<archived, key, boot, me, server, history>>

-----------------------------------------------------------------------------
(* coordinateForPlatform, for the rejoin's reason. *)

Coordinate(p) ==
    /\ pc[p] = "idle"
    /\ reason[p]
    /\ marker.phase = "awaiting_reboot"
    /\ ~marker.asked
    /\ Goto(p, "restart")
    /\ Hold(p, marker)
    /\ UNCHANGED <<disk, boot, me, plan, reason, server, history>>

ClaimRestart(p) ==
    /\ pc[p] = "restart"
    /\ SetAttemptRebootRequested(at[p], TRUE)
    /\ Hold(p, [at[p] EXCEPT !.asked = TRUE])
    /\ reason' = [reason EXCEPT ![p] = FALSE]
    /\ Goto(p, "taken")
    /\ UNCHANGED <<archived, key, cfg, boot, me, plan, server, history>>

SaveTaken(p) ==
    /\ pc[p] = "taken"
    /\ \/ cfg' = FALSE /\ Goto(p, "request")
       \/ cfg' = cfg /\ Goto(p, "unsaved")
    /\ UNCHANGED <<marker, archived, key, boot, me, plan, at, reason, server, history>>

RequestReboot(p) ==
    /\ pc[p] = "request"
    /\ \/ /\ restarts' = [restarts EXCEPT ![at[p].id] = @ + 1]
          /\ Return(p)
       \/ /\ Goto(p, "refused")
          /\ UNCHANGED <<plan, at, restarts>>
    /\ UNCHANGED <<disk, boot, me, reason, server, runs, touched>>

\* refusedDirectoryReboot; the reason comes back only after a refusal.
RefusedDirectoryReboot(p) ==
    /\ pc[p] \in {"refused", "unsaved"}
    /\ SetAttemptRebootRequested(at[p], FALSE)
    /\ reason' = [reason EXCEPT ![p] = pc[p] = "refused"]
    /\ cfg' \in IF pc[p] = "refused" THEN {TRUE, cfg} ELSE {cfg}
    /\ Return(p)
    /\ UNCHANGED <<archived, key, boot, me, server, history>>

-----------------------------------------------------------------------------
(* RotateIdentity: a verified marker is archived, then the key is new and  *)
(* the configuration starts over.  Any other marker stays where it is.     *)

RotateIdentity(p) ==
    /\ pc[p] = "idle"
    /\ key < MaxKey
    /\ Goto(p, "rotate")
    /\ Hold(p, IF marker.phase = "verified" THEN marker ELSE NoMarker)
    /\ UNCHANGED <<disk, boot, me, plan, reason, server, history>>

ArchiveRotated(p) ==
    /\ pc[p] = "rotate"
    /\ ArchiveVerifiedAttempt(at[p])
    /\ Hold(p, NoMarker)
    /\ UNCHANGED <<key, cfg, boot, pc, me, plan, reason, server, history>>

NewKey(p) ==
    /\ pc[p] = "rotate"
    /\ at[p] = NoMarker
    /\ key < MaxKey
    /\ key' = key + 1
    /\ me' = [me EXCEPT ![p] = key']
    /\ cfg' = FALSE
    /\ reason' = [reason EXCEPT ![p] = FALSE]
    /\ Return(p)
    /\ UNCHANGED <<marker, archived, boot, server, history>>

-----------------------------------------------------------------------------

ProcessRejoin(p) ==
    \/ Poll(p) \/ LoadAttempt(p) \/ Archive(p) \/ RetryReserved(p)
    \/ ReserveAttempt(p) \/ ReserveTorn(p) \/ StartRejoin(p) \/ MayHaveRun(p)
    \/ SetRejoinName(p) \/ Native(p) \/ SaveUnknown(p) \/ SaveFailed(p)
    \/ SaveAwaiting(p) \/ Record(p) \/ ReportVerified(p) \/ SaveVerified(p)

Restart(p) ==
    \/ Coordinate(p) \/ ClaimRestart(p) \/ SaveTaken(p) \/ RequestReboot(p)
    \/ RefusedDirectoryReboot(p)

Identity(p) == RotateIdentity(p) \/ ArchiveRotated(p) \/ NewKey(p)

Next ==
    \/ \E p \in Procs :
          \/ Start(p) \/ Stop(p) \/ Crash(p) \/ SaveConfig(p)
          \/ ProcessRejoin(p) \/ Restart(p) \/ Identity(p)
    \/ \E again \in BOOLEAN : Issue(again)
    \/ Reboot

Spec == Init /\ [][Next]_vars

-----------------------------------------------------------------------------
(* Properties. *)

\* A change of the machine's membership is never forgotten: what may have run
\* is named by the active marker, past its reservation, or by an archived one.
\* This is what "an absent latch for an operation whose native outcome is
\* uncertain" (attempt_archive.go:31) would break.
NothingForgotten ==
    \A i \in Ids : touched[i] # 0 \/ runs[i] # 0 =>
        \/ i \in archived
        \/ marker.id = i /\ marker.phase # "reserved"

\* No operation runs twice, and none starts while an earlier one is not
\* verified: "unresolved markers and unknown native results stop automatic
\* directory work" (docs/design/0009-directory-membership.md:435), also when two
\* agents hold plans and copies of the marker read at different times.
NothingReplayed ==
    [][\A i \in Ids : runs'[i] # runs[i] \/ touched'[i] # touched[i] =>
          /\ runs[i] = 0
          /\ \A j \in Ids \ {i} : touched[j] # 0 => j \in archived]_vars

\* What is verified, archived or told to the server has run, and the machine has
\* started again since (NewBoot, and the agent's own report).
VerifiedAfterRestart ==
    \A i \in Ids :
        i \in archived \union confirmed \/ (marker.id = i /\ marker.phase = "verified")
            => touched[i] # 0 /\ touched[i] < boot

\* Two coordinators never both restart the machine for one attempt
\* (SetAttemptRebootRequested, rejoin.go:234-237).
OneRestart == \A i \in Ids : restarts[i] <= 1

\* The latch is what coordinateForPlatform takes it for: whatever two agents do
\* to the marker, the attempt it names is claimed by one at a time, never again
\* once a restart was accepted for it, and verified only after a boot.
Named == marker.phase \in {"awaiting_reboot", "verified"}
Latch == INSTANCE RejoinLatch WITH
    phase     <- IF Named THEN marker.phase ELSE "none",
    requested <- Named /\ marker.asked,
    booted    <- Named /\ touched[marker.id] < boot,
    restarted <- Named /\ restarts[marker.id] # 0
FollowsLatch == Latch!Spec

=============================================================================
