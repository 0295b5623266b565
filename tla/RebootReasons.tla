---------------------------- MODULE RebootReasons ----------------------------
(***************************************************************************)
(* The reboot policy of internal/reboot and the planning half of the       *)
(* coordinator in cmd/fog-agent/main.go, as pure operators.                *)
(*                                                                         *)
(* Reasons are kept as a set: Merge keeps one reason per source, Decide    *)
(* only asks whether some or every reason has an attribute, and the text   *)
(* it builds from them is sorted, so their order is never observed.  The   *)
(* detail text and the Since time of a reason are left out.                *)
(***************************************************************************)
EXTENDS Naturals

CONSTANTS
    MaxTask,      \* the largest FOG task id a server hands out
    Providers,    \* capabilities whose provider may report pending_reboot
    Commanders    \* which of the capabilities that order a restart are in use

SourceTask == "task"
SourceDirectoryRejoin == "directory-rejoin"
SourcePower == "power"
SourceSnapin == "snapin"
Sources == {SourceTask, SourceDirectoryRejoin} \cup Providers \cup Commanders

ModeReboot == "reboot"
ModeShutdown == "shutdown"
Modes == {ModeReboot, ModeShutdown}

ASSUME RebootConstants ==
    /\ MaxTask \in Nat \ {0}
    /\ Commanders \subseteq {SourcePower, SourceSnapin}
    /\ Providers \cap {SourceTask, SourceDirectoryRejoin, SourcePower, SourceSnapin} = {}

TaskIds == 1..MaxTask
NoTask == 0

\* One outstanding request for a restart.  Only a task reason has a task id.
Reason == [source : Sources, force : BOOLEAN, mode : Modes,
           task : TaskIds \cup {NoTask}]

TaskReason(t, force) ==
    [source |-> SourceTask, force |-> force, mode |-> ModeReboot, task |-> t]
RejoinReason(force) ==
    [source |-> SourceDirectoryRejoin, force |-> force, mode |-> ModeReboot,
     task |-> NoTask]
ProviderReason(s, force) ==
    [source |-> s, force |-> force, mode |-> ModeReboot, task |-> NoTask]
PowerReason(s, mode) ==
    [source |-> s, force |-> TRUE, mode |-> mode, task |-> NoTask]

SourcesOf(reasons) == {r.source : r \in reasons}
TasksOf(reasons) == {r.task : r \in {x \in reasons : x.source = SourceTask}}

------------------------------------------------------------------------------
\* Drop withdraws a source's request.
Drop(reasons, s) == {r \in reasons : r.source # s}

\* Merge records r, replacing any earlier reason from the same source.
Merge(reasons, r) == Drop(reasons, r.source) \cup {r}

\* Decide: one reason that may act now is enough, and the machine powers off
\* only when every reason asked for a shutdown.
AllowedWhenEmpty(reasons, loggedIn) == reasons # {} /\ loggedIn = 0
Allowed(reasons, loggedIn) ==
    \E r \in reasons : loggedIn = 0 \/ r.force
ModeFor(reasons) ==
    IF \A r \in reasons : r.mode = ModeShutdown THEN ModeShutdown ELSE ModeReboot
Decide(reasons, loggedIn) ==
    [reboot |-> Allowed(reasons, loggedIn), mode |-> ModeFor(reasons)]

------------------------------------------------------------------------------
\* What netboot.Find can answer: an entry to arm, no network entry in a boot
\* manager that was read, no boot manager at all, or a failed measurement.
\* It is asked only for a task.
NotAsked == "not_asked"
FindResults == {"found", "no_option", "unsupported", "unreadable"}

\* Only positive evidence that no network entry exists holds a task back.
NeverWithholds(find) == FALSE
withholdsTask(find) == find = "no_option"

HasTaskReason(reasons) == \E r \in reasons : r.source = SourceTask

\* planReboot splits the reasons into those to act on and those held back.
Withheld(pending, find) ==
    IF withholdsTask(find) THEN {r \in pending : r.source = SourceTask} ELSE {}
ToActOn(pending, find) ==
    IF withholdsTask(find) THEN Drop(pending, SourceTask) ELSE pending

==============================================================================
