-------------------------- MODULE RebootCoordinator --------------------------
(***************************************************************************)
(* The reboot coordinator of the agent's run loop: how a reason to restart *)
(* is recorded (reconcile, waitOrFire, processRejoin), persisted, acted on *)
(* (coordinateForPlatform) and put back when the restart is refused.       *)
(*                                                                         *)
(* The agent is one goroutine; a step is the code between two points where *)
(* a crash leaves something different behind: a write of config.json, of   *)
(* the directory-rejoin marker, of the BootNext firmware variable, or a    *)
(* request to the OS.  A crash may fall between any two steps.  Also       *)
(* modelled: failures of each of those writes, `fog-agent renew` run by    *)
(* hand beside the service (it rewrites the whole config.json), a restart  *)
(* countdown during which the agent keeps polling, and power cycles nobody *)
(* asked the agent for.                                                    *)
(*                                                                         *)
(* Left out: the text of reports and log lines, grace seconds, FactsChecked*)
(* and the revision.  The revision covers the whole desired state, so the  *)
(* server may move it between any two polls and any poll may reconcile.    *)
(***************************************************************************)
EXTENDS RebootReasons

CONSTANTS
    Disturbances,     \* which kinds of disturbance may happen
    MaxDisturbances,  \* how many of them, in one behaviour
    MaxRequests       \* orders, schedules, reports and rejoins in one behaviour

DisturbanceKinds ==
    {"users", "save", "latch", "arm", "execute", "disarm", "crash", "power", "cli"}

ASSUME DisturbanceConstants ==
    /\ Disturbances \subseteq DisturbanceKinds
    /\ MaxDisturbances \in Nat
    /\ MaxRequests \in Nat

VARIABLES
    cfg,        \* st.Config in the service: pending reasons, RebootedForTask
    disk,       \* the same fields of config.json
    marker,     \* the directory-rejoin marker file, as the coordinator reads it
    bootNext,   \* the BootNext firmware variable is set
    os,         \* "up", or the restart the OS accepted and is counting down
    pc,         \* where the service is in the poll
    plan,       \* the locals of coordinateForPlatform
    server,     \* what FOG has for this host
    cli,        \* the Config a hand-run `renew` loaded and will write back
    disturbed,  \* disturbances so far
    requested   \* requests so far

\* History, read by the properties only.
VARIABLES
    owed,       \* sources with a request neither served nor withdrawn
    forfeited,  \* owed sources an unhandled fault took from the agent
    dirty,      \* a SaveConfig failed, or config.json was overwritten
    left,       \* BootNext was left set by a fault
    restarts,   \* accepted restarts per task
    forgiven,   \* tasks whose record a fault erased after a restart for them
    rejoinAsks  \* accepted restarts for the current rejoin attempt

agentVars == <<cfg, disk, marker, bootNext, os, pc, plan>>
envVars == <<server, cli, disturbed, requested>>
history == <<owed, forfeited, dirty, left, restarts, forgiven, rejoinAsks>>
vars == <<agentVars, envVars, history>>

Config == [pending : SUBSET Reason, rebootedFor : TaskIds \cup {NoTask}]
NoConfig == [pending |-> {}, rebootedFor |-> NoTask]

NoCli == [open |-> FALSE, config |-> NoConfig]

Phases == {"none", "awaiting_reboot", "verified"}
Marker == [phase : Phases, requested : BOOLEAN, booted : BOOLEAN]

NoOrder == [source |-> "none", mode |-> ModeReboot]

NoPlan == [act |-> {}, withheld |-> {}, find |-> NotAsked, arming |-> FALSE,
           mode |-> ModeReboot, claimed |-> FALSE]

Plan == [act : SUBSET Reason, withheld : SUBSET Reason,
         find : FindResults \cup {NotAsked}, arming : BOOLEAN, mode : Modes,
         claimed : BOOLEAN]

Server == [task : TaskIds \cup {NoTask}, force : BOOLEAN, next : 1..(MaxTask + 1),
           order : {NoOrder} \cup [source : Commanders, mode : Modes]]

Idle == "idle"
\* Between taking the reasons out of the config and the OS's answer.
Asking == {"persist", "arm", "execute", "unlatch", "disarm", "restore"}
Steps == {Idle, "reconcile", "fire", "rejoin", "rejoin_drop", "coordinate",
          "claim", "unsaved"} \cup Asking

Disturb(kind) ==
    /\ kind \in Disturbances
    /\ disturbed < MaxDisturbances
    /\ disturbed' = disturbed + 1

Request ==
    /\ requested < MaxRequests
    /\ requested' = requested + 1

------------------------------------------------------------------------------
Init ==
    /\ cfg = NoConfig
    /\ disk = NoConfig
    /\ marker = [phase |-> "none", requested |-> FALSE, booted |-> FALSE]
    /\ bootNext = FALSE
    /\ os = "up"
    /\ pc = Idle
    /\ plan = NoPlan
    /\ server = [task |-> NoTask, force |-> FALSE, next |-> 1, order |-> NoOrder]
    /\ cli = NoCli
    /\ disturbed = 0
    /\ requested = 0
    /\ owed = {}
    /\ forfeited = {}
    /\ dirty = FALSE
    /\ left = FALSE
    /\ restarts = [t \in TaskIds |-> 0]
    /\ forgiven = {}
    /\ rejoinAsks = 0

------------------------------------------------------------------------------
\* The FOG server.  A task id is never reused.

ServerQueuesTask(force) ==
    /\ server.next <= MaxTask
    /\ server' = [server EXCEPT !.task = server.next, !.force = force,
                                !.next = server.next + 1]
    /\ UNCHANGED <<agentVars, cli, disturbed, requested, history>>

ServerCancelsTask ==
    /\ server.task # NoTask
    /\ server' = [server EXCEPT !.task = NoTask, !.force = FALSE]
    /\ UNCHANGED <<agentVars, cli, disturbed, requested, history>>

\* An on-demand power action, or a snapin that will end in one.
ServerOrders(s, mode) ==
    /\ server.order = NoOrder
    /\ Request
    /\ server' = [server EXCEPT !.order = [source |-> s, mode |-> mode]]
    /\ UNCHANGED <<agentVars, cli, disturbed, history>>

------------------------------------------------------------------------------
\* SaveConfig, as every step below uses it.

SaveConfig(c) ==
    /\ disk' = c
    /\ dirty' = FALSE
    /\ UNCHANGED disturbed

SaveConfigFails ==
    /\ Disturb("save")
    /\ disk' = disk
    /\ dirty' = TRUE

Ask(sources) ==
    /\ owed' = owed \cup sources
    /\ forfeited' = forfeited \ sources

------------------------------------------------------------------------------
\* Recording reasons.

\* The reasons the coordinator may use.  A rejoin reason needs a marker that
\* still awaits its restart and whose restart was not requested yet.
Authorized(pending, m) ==
    {r \in pending : r.source = SourceDirectoryRejoin
                       => m.phase = "awaiting_reboot" /\ ~m.requested}

\* A poll whose revision is the applied one.  Recording facts, sessions or
\* the end of a run of refusals may save the config on the way.
Poll ==
    /\ pc = Idle
    /\ pc' = "coordinate"
    /\ \/ UNCHANGED <<disk, dirty, disturbed>>
       \/ SaveConfig(cfg)
    /\ UNCHANGED <<cfg, marker, bootNext, os, plan, server, cli, requested, owed, forfeited,
                   left, restarts, forgiven, rejoinAsks>>

\* reconcile's taskreboot case: a waiting task is a reason unless it is the
\* one already rebooted for; a cancelled or served one withdraws it.
TaskReboot(c) ==
    IF server.task = NoTask \/ server.task = c.rebootedFor
      THEN Drop(c.pending, SourceTask)
      ELSE Merge(c.pending, TaskReason(server.task, server.force))

\* reconcile's power and snapin cases.  The report is what takes the order
\* off the server; a power action counts as asked for before it is reported,
\* a snapin's only after the report landed.
OrderTaken(landed) ==
    server.order # NoOrder /\ (server.order.source = SourcePower \/ landed)
Ordered(pending, landed) ==
    IF OrderTaken(landed)
      THEN Merge(pending, PowerReason(server.order.source, server.order.mode))
      ELSE pending

\* A moved revision: every capability's reasons are merged in memory, and the
\* config is saved at the end.  reported holds at most one reason, of a
\* provider that answered pending_reboot.
Reconcile(reported, landed) ==
    LET told == Ordered(TaskReboot(cfg), landed)
        after == {r \in told : r.source \notin SourcesOf(reported)} \cup reported
        asked == (IF OrderTaken(landed) THEN {server.order.source} ELSE {})
                 \cup SourcesOf(reported)
                 \cup (SourcesOf(after) \cap {SourceTask})
    IN  /\ pc = Idle
        /\ cfg' = [cfg EXCEPT !.pending = after]
        /\ pc' = "reconcile"
        /\ server' = IF landed THEN [server EXCEPT !.order = NoOrder] ELSE server
        /\ owed' = (owed \ {SourceTask}) \cup asked
        /\ forfeited' = forfeited \ (asked \cup {SourceTask})
        /\ IF reported = {} THEN UNCHANGED requested ELSE Request
        /\ UNCHANGED <<disk, marker, bootNext, os, plan, cli, disturbed, dirty, left,
                       restarts, forgiven, rejoinAsks>>

\* The revision stands, but the installed software drifted and its repair
\* wants a restart.
Drift(p) ==
    /\ pc = Idle
    /\ cfg' = [cfg EXCEPT !.pending = Merge(cfg.pending, ProviderReason(p, FALSE))]
    /\ pc' = "reconcile"
    /\ Request
    /\ Ask({p})
    /\ UNCHANGED <<disk, marker, bootNext, os, plan, server, cli, disturbed, dirty, left,
                   restarts, forgiven, rejoinAsks>>

ReconcileSave ==
    /\ pc = "reconcile"
    /\ SaveConfig(cfg) \/ SaveConfigFails
    /\ pc' = "coordinate"
    /\ UNCHANGED <<cfg, marker, bootNext, os, plan, server, cli, requested, owed, forfeited,
                   left, restarts, forgiven, rejoinAsks>>

\* waitOrFire: a power schedule came due before the next poll.
ScheduleFires(mode) ==
    /\ pc = Idle
    /\ cfg' = [cfg EXCEPT !.pending = Merge(cfg.pending, PowerReason(SourcePower, mode))]
    /\ pc' = "fire"
    /\ Request
    /\ Ask({SourcePower})
    /\ UNCHANGED <<disk, marker, bootNext, os, plan, server, cli, disturbed, dirty, left,
                   restarts, forgiven, rejoinAsks>>

\* A firing that cannot be saved ends the run loop, so the service manager
\* starts the agent again: that is a Crash, enabled here like anywhere else.
ScheduleSave ==
    /\ pc = "fire"
    /\ SaveConfig(cfg)
    /\ pc' = "coordinate"
    /\ UNCHANGED <<cfg, marker, bootNext, os, plan, server, cli, requested, owed, forfeited,
                   left, restarts, forgiven, rejoinAsks>>

\* processRejoin, reduced to what the coordinator shares with it: the native
\* call succeeded and the marker says so ...
RejoinAwaitsReboot ==
    /\ pc = Idle
    /\ marker.phase # "awaiting_reboot"
    /\ marker' = [phase |-> "awaiting_reboot", requested |-> FALSE, booted |-> FALSE]
    /\ pc' = "rejoin"
    /\ rejoinAsks' = 0
    /\ Request
    /\ Ask({SourceDirectoryRejoin})
    /\ UNCHANGED <<cfg, disk, bootNext, os, plan, server, cli, disturbed, dirty, left,
                   restarts, forgiven>>

\* ... then the reason is recorded ...
RejoinRecordsReason(force) ==
    LET c == [cfg EXCEPT !.pending = Merge(cfg.pending, RejoinReason(force))]
    IN  /\ pc = "rejoin"
        /\ cfg' = c
        /\ SaveConfig(c) \/ SaveConfigFails
        /\ pc' = Idle
        /\ UNCHANGED <<marker, bootNext, os, plan, server, cli, requested, owed, forfeited, left,
                       restarts, forgiven, rejoinAsks>>

\* ... and after a new boot the result is verified and the reason dropped.
RejoinVerified ==
    /\ pc = Idle
    /\ marker.phase = "awaiting_reboot" /\ marker.booted
    /\ marker' = [marker EXCEPT !.phase = "verified"]
    /\ pc' = "rejoin_drop"
    /\ owed' = owed \ {SourceDirectoryRejoin}
    /\ UNCHANGED <<cfg, disk, bootNext, os, plan, envVars, forfeited, dirty, left,
                   restarts, forgiven, rejoinAsks>>

RejoinDropsReason ==
    LET c == [cfg EXCEPT !.pending = Drop(cfg.pending, SourceDirectoryRejoin)]
    IN  /\ pc = "rejoin_drop"
        /\ cfg' = c
        /\ SaveConfig(c) \/ SaveConfigFails
        /\ pc' = Idle
        /\ UNCHANGED <<marker, bootNext, os, plan, server, cli, requested, owed, forfeited, left,
                       restarts, forgiven, rejoinAsks>>

------------------------------------------------------------------------------
\* coordinateForPlatform.

\* Nothing pending.
NothingPending ==
    /\ pc = "coordinate"
    /\ cfg.pending = {}
    /\ pc' = Idle
    /\ UNCHANGED <<cfg, disk, marker, bootNext, os, plan, envVars, history>>

\* The session count could not be read: no decision, the reasons stay.
UsersUnknown ==
    /\ pc = "coordinate"
    /\ cfg.pending # {}
    /\ Disturb("users")
    /\ pc' = Idle
    /\ UNCHANGED <<cfg, disk, marker, bootNext, os, plan, server, cli, requested, history>>

\* Every usable reason was withheld: only the withheld ones are kept.
AllWithheld(find) ==
    LET pending == Authorized(cfg.pending, marker)
        c == [cfg EXCEPT !.pending = Withheld(pending, find)]
    IN  /\ pc = "coordinate"
        /\ cfg.pending # {}
        /\ ToActOn(pending, find) = {}
        /\ cfg' = c
        /\ SaveConfig(c) \/ SaveConfigFails
        /\ pc' = Idle
        /\ UNCHANGED <<marker, bootNext, os, plan, server, cli, requested, owed, forfeited, left,
                       restarts, forgiven, rejoinAsks>>

\* Somebody is logged in and nothing is forced: wait.
Deferred(find) ==
    LET act == ToActOn(Authorized(cfg.pending, marker), find)
    IN  /\ pc = "coordinate"
        /\ act # {}
        /\ ~Decide(act, 1).reboot
        /\ pc' = Idle
        /\ UNCHANGED <<cfg, disk, marker, bootNext, os, plan, envVars, history>>

\* The decision to restart.  A network boot is looked for only for a task.
Decided(find, loggedIn) ==
    LET pending == Authorized(cfg.pending, marker)
        act == ToActOn(pending, find)
        rejoin == SourceDirectoryRejoin \in SourcesOf(act)
    IN  /\ pc = "coordinate"
        /\ act # {}
        /\ Decide(act, loggedIn).reboot
        /\ plan' = [act |-> act, withheld |-> Withheld(pending, find), find |-> find,
                    arming |-> HasTaskReason(pending) /\ find = "found",
                    mode |-> Decide(act, loggedIn).mode, claimed |-> FALSE]
        /\ pc' = IF rejoin THEN "claim" ELSE "persist"
        /\ UNCHANGED <<cfg, disk, marker, bootNext, os, envVars, history>>

\* The restart latch of the rejoin marker is taken before anything else.
ClaimLatch ==
    /\ pc = "claim"
    /\ marker' = [marker EXCEPT !.requested = TRUE]
    /\ plan' = [plan EXCEPT !.claimed = TRUE]
    /\ pc' = "persist"
    /\ UNCHANGED <<cfg, disk, bootNext, os, envVars, history>>

\* Not taken: coordinate returns the error.  The write may have reached the
\* disk all the same (a failed sync), and then nobody releases the latch.
ClaimLatchFails(wrote) ==
    /\ pc = "claim"
    /\ Disturb("latch")
    /\ marker' = [marker EXCEPT !.requested = wrote]
    /\ plan' = NoPlan
    /\ pc' = Idle
    /\ forfeited' = IF wrote THEN forfeited \cup {SourceDirectoryRejoin} ELSE forfeited
    /\ UNCHANGED <<cfg, disk, bootNext, os, server, cli, requested, owed, dirty, left, restarts,
                   forgiven, rejoinAsks>>

\* What the config says once the restart is about to be asked for.
AskedForgettingTask == [cfg EXCEPT !.pending = plan.withheld]
Asked ==
    [pending |-> plan.withheld,
     rebootedFor |-> IF HasTaskReason(plan.act)
                       THEN CHOOSE t \in TasksOf(plan.act) : TRUE
                       ELSE cfg.rebootedFor]

\* Persist before asking.
Persist ==
    /\ pc = "persist"
    /\ cfg' = Asked
    /\ SaveConfig(Asked)
    /\ pc' = IF plan.arming THEN "arm" ELSE "execute"
    /\ UNCHANGED <<marker, bootNext, os, plan, server, cli, requested, owed, forfeited, left,
                   restarts, forgiven, rejoinAsks>>

\* The save failed: the latch is released, memory keeps the emptied config.
PersistFails ==
    /\ pc = "persist"
    /\ cfg' = Asked
    /\ SaveConfigFails
    /\ pc' = "unsaved"
    /\ forfeited' = forfeited \cup (owed \cap SourcesOf(plan.act))
    /\ UNCHANGED <<marker, bootNext, os, plan, server, cli, requested, owed, left, restarts,
                   forgiven, rejoinAsks>>

\* refusedDirectoryReboot: give the latch back if this request took it.
Released == [marker EXCEPT !.requested = IF plan.claimed THEN FALSE ELSE @]

UnsavedReleases ==
    /\ pc = "unsaved"
    /\ \/ marker' = Released /\ UNCHANGED disturbed
       \/ plan.claimed /\ marker' = marker /\ Disturb("latch")
    /\ plan' = NoPlan
    /\ pc' = Idle
    /\ UNCHANGED <<cfg, disk, bootNext, os, server, cli, requested, history>>

\* netboot.Arm, as late as possible.
Arm ==
    /\ pc = "arm"
    /\ bootNext' = TRUE
    /\ pc' = "execute"
    /\ UNCHANGED <<cfg, disk, marker, os, plan, envVars, history>>

ArmFails ==
    /\ pc = "arm"
    /\ Disturb("arm")
    /\ plan' = [plan EXCEPT !.arming = FALSE]
    /\ pc' = "unlatch"
    /\ UNCHANGED <<cfg, disk, marker, bootNext, os, server, cli, requested, history>>

\* The OS accepts.  A request already counting down is success too: Windows
\* keeps the first one, shutdown(8) replaces it by the second.
Execute ==
    /\ pc = "execute"
    /\ os' \in IF os = "up" THEN {plan.mode} ELSE {os, plan.mode}
    /\ pc' = Idle
    /\ plan' = NoPlan
    /\ owed' = owed \ SourcesOf(plan.act)
    /\ forfeited' = forfeited \ SourcesOf(plan.act)
    /\ restarts' = [t \in TaskIds |-> IF t \in TasksOf(plan.act) /\ restarts[t] < 2
                                        THEN restarts[t] + 1 ELSE restarts[t]]
    /\ rejoinAsks' = IF SourceDirectoryRejoin \in SourcesOf(plan.act) /\ rejoinAsks < 2
                       THEN rejoinAsks + 1 ELSE rejoinAsks
    /\ UNCHANGED <<cfg, disk, marker, bootNext, envVars, dirty, left, forgiven>>

ExecuteRefused ==
    /\ pc = "execute"
    /\ Disturb("execute")
    /\ pc' = "unlatch"
    /\ UNCHANGED <<cfg, disk, marker, bootNext, os, plan, server, cli, requested, history>>

\* A known refusal: latch, BootNext and config go back, in this order.
Unlatch ==
    /\ pc = "unlatch"
    /\ marker' = Released
    /\ pc' = IF plan.arming THEN "disarm" ELSE "restore"
    /\ UNCHANGED <<cfg, disk, bootNext, os, plan, envVars, history>>

\* The latch cannot be given back: coordinate returns at once.
UnlatchFails ==
    /\ pc = "unlatch"
    /\ plan.claimed
    /\ Disturb("latch")
    /\ pc' = Idle
    /\ plan' = NoPlan
    /\ forfeited' = forfeited \cup (owed \cap SourcesOf(plan.act))
    /\ left' = (left \/ bootNext)
    /\ UNCHANGED <<cfg, disk, marker, bootNext, os, server, cli, requested, owed, dirty, restarts,
                   forgiven, rejoinAsks>>

DisarmSkipped ==
    /\ pc = "disarm"
    /\ pc' = "restore"
    /\ UNCHANGED <<cfg, disk, marker, bootNext, os, plan, envVars, history>>
Disarm ==
    /\ pc = "disarm"
    /\ bootNext' = FALSE
    /\ left' = FALSE
    /\ pc' = "restore"
    /\ UNCHANGED <<cfg, disk, marker, os, plan, envVars, owed, forfeited, dirty,
                   restarts, forgiven, rejoinAsks>>

DisarmFails ==
    /\ pc = "disarm"
    /\ Disturb("disarm")
    /\ left' = TRUE
    /\ pc' = "restore"
    /\ UNCHANGED <<cfg, disk, marker, bootNext, os, plan, server, cli, requested, owed, forfeited,
                   dirty, restarts, forgiven, rejoinAsks>>

\* The reasons are pending again, and the task counts as not rebooted for.
RestoredWithoutActing == [pending |-> plan.withheld, rebootedFor |-> NoTask]
Restored == [pending |-> plan.withheld \cup plan.act, rebootedFor |-> NoTask]

Restore ==
    /\ pc = "restore"
    /\ cfg' = Restored
    /\ SaveConfig(Restored) \/ SaveConfigFails
    /\ plan' = NoPlan
    /\ pc' = Idle
    /\ forgiven' = forgiven \cup {t \in TaskIds : restarts[t] > 0}
    /\ UNCHANGED <<marker, bootNext, os, server, cli, requested, owed, forfeited, left, restarts,
                   rejoinAsks>>

------------------------------------------------------------------------------
\* What happens to the agent.

\* The process is gone: only config.json and the marker remain.
Restarted ==
    /\ cfg' = disk
    /\ pc' = Idle
    /\ plan' = NoPlan
    /\ dirty' = FALSE
    /\ forfeited' = forfeited \cup (owed \ SourcesOf(Authorized(disk.pending, marker)))
    /\ forgiven' = IF dirty THEN forgiven \cup {t \in TaskIds : restarts[t] > 0}
                            ELSE forgiven
    /\ UNCHANGED <<disk, owed, restarts, rejoinAsks>>

\* The service dies and the service manager starts it again.
Crash ==
    /\ Disturb("crash")
    /\ Restarted
    /\ left' = (left \/ (bootNext /\ os = "up"))
    /\ UNCHANGED <<marker, bootNext, os, server, cli, requested>>

\* The machine restarts, because the OS accepted it or by itself.  Firmware
\* consumes BootNext.
Boot ==
    /\ \/ os # "up" /\ UNCHANGED disturbed
       \/ os = "up" /\ Disturb("power")
    /\ Restarted
    /\ marker' = [marker EXCEPT !.booted = (@ \/ marker.phase = "awaiting_reboot")]
    /\ bootNext' = FALSE
    /\ os' = "up"
    /\ cli' = NoCli
    /\ left' = FALSE
    /\ UNCHANGED <<server, requested>>

\* `fog-agent renew` by hand: Load, then much later SaveIssued's SaveConfig.
CliLoad ==
    /\ ~cli.open
    /\ Disturb("cli")
    /\ cli' = [open |-> TRUE, config |-> disk]
    /\ UNCHANGED <<agentVars, server, requested, history>>

CliSave ==
    /\ cli.open
    /\ disk' = cli.config
    /\ cli' = NoCli
    /\ dirty' = TRUE
    /\ UNCHANGED <<cfg, marker, bootNext, os, pc, plan, server, disturbed,
                   requested, owed, forfeited, left, restarts, forgiven, rejoinAsks>>

------------------------------------------------------------------------------
NetbootAnswers ==
    IF HasTaskReason(Authorized(cfg.pending, marker)) THEN FindResults ELSE {NotAsked}

Reports == {{}} \cup {{ProviderReason(p, enforce)} : p \in Providers, enforce \in BOOLEAN}

ServerStep ==
    \/ \E force \in BOOLEAN : ServerQueuesTask(force)
    \/ ServerCancelsTask
    \/ \E s \in Commanders, mode \in Modes : ServerOrders(s, mode)

Record ==
    \/ Poll
    \/ \E reported \in Reports, landed \in BOOLEAN : Reconcile(reported, landed)
    \/ \E p \in Providers : Drift(p)
    \/ ReconcileSave
    \/ \E mode \in Modes : SourcePower \in Commanders /\ ScheduleFires(mode)
    \/ ScheduleSave
    \/ RejoinAwaitsReboot
    \/ \E force \in BOOLEAN : RejoinRecordsReason(force)
    \/ RejoinVerified
    \/ RejoinDropsReason

Coordinate ==
    \/ NothingPending
    \/ UsersUnknown
    \/ \E find \in NetbootAnswers :
          \/ AllWithheld(find)
          \/ Deferred(find)
          \/ \E loggedIn \in 0..1 : Decided(find, loggedIn)
    \/ ClaimLatch
    \/ \E wrote \in BOOLEAN : ClaimLatchFails(wrote)
    \/ Persist
    \/ PersistFails
    \/ UnsavedReleases
    \/ Arm
    \/ ArmFails
    \/ Execute
    \/ ExecuteRefused
    \/ Unlatch
    \/ UnlatchFails
    \/ Disarm
    \/ DisarmFails
    \/ Restore

Next ==
    \/ ServerStep
    \/ Record
    \/ Coordinate
    \/ Crash
    \/ Boot
    \/ CliLoad
    \/ CliSave

Spec == Init /\ [][Next]_vars

\* The agent keeps running and its polls get through.
FairSpec == Spec /\ WF_vars(Record \/ Coordinate)

------------------------------------------------------------------------------
\* Every variable has its type; plans and configs hold only real reasons.
TypeOK ==
    /\ cfg \in Config
    /\ disk \in Config
    /\ marker \in Marker
    /\ bootNext \in BOOLEAN
    /\ os \in {"up"} \cup Modes
    /\ pc \in Steps
    /\ plan \in Plan
    /\ server \in Server
    /\ cli \in [open : BOOLEAN, config : Config]
    /\ disturbed \in 0..MaxDisturbances
    /\ requested \in 0..MaxRequests
    /\ owed \subseteq Sources
    /\ forfeited \subseteq Sources
    /\ dirty \in BOOLEAN
    /\ left \in BOOLEAN
    /\ restarts \in [TaskIds -> 0..2]
    /\ forgiven \subseteq TaskIds
    /\ rejoinAsks \in 0..2

\* A request that was neither served nor withdrawn is still where the agent
\* will act on it: pending and usable, or in the hands of the coordinator, or
\* about to be recorded.  Whatever fails on the way (the arming, the request,
\* the disarming, the session count) it is put back; only a fault the code
\* has no answer to may take it away.
OwedIsHeld ==
    \A s \in owed \ forfeited :
        \/ s \in SourcesOf(Authorized(cfg.pending, marker))
        \/ pc \in Asking \cup {"claim"} /\ s \in SourcesOf(plan.act)
        \/ pc = "rejoin" /\ s = SourceDirectoryRejoin

\* Between polls the service's reasons are the ones on disk, unless a save
\* failed and that was reported, or another process wrote the file.
DurableWhenIdle == pc = Idle /\ ~dirty => cfg = disk

\* BootNext is set only for a restart that was asked for: coordinate never
\* leaves it behind on a machine that stays up, short of a fault it reports.
NoStrayBootNext ==
    bootNext => os # "up" \/ pc \in {"execute", "unlatch", "disarm"} \/ left

\* A task is restarted for once, until a refused restart or a lost write
\* erases the record (Config.RebootedForTask).
OncePerTaskUnlessForgotten ==
    \A t \in TaskIds : restarts[t] > 1 => t \in forgiven

\* One restart per rejoin attempt, even when config.json is rolled back: the
\* latch in the marker decides, not the list of reasons.
RejoinRestartsOnce == rejoinAsks <= 1

\* Of the rejoin's marker no more is assumed, and no more done to it, than what
\* DirectoryRejoin shows of several agents on one file
\* (SetAttemptRebootRequested, rejoin.go:234-254).
Latch == INSTANCE RejoinLatch WITH
    phase     <- marker.phase,
    requested <- marker.requested,
    booted    <- marker.booted,
    restarted <- rejoinAsks > 0
FollowsLatch == Latch!Spec

\* A restart for a task is accepted only when the firmware was told to boot
\* from the network, or could not be asked.
TaskRestartReachesFOS ==
    [][\A t \in TaskIds : restarts'[t] > restarts[t] =>
          \/ plan.find = "found" /\ bootNext
          \/ plan.find \in {"unsupported", "unreadable"}]_vars

\* A forced power action is carried out whoever is logged in and whatever
\* else is pending.
ForcedRequestActs ==
    \A s \in Commanders : s \in owed ~> (s \notin owed \/ s \in forfeited)

------------------------------------------------------------------------------
\* A claim of the docs that the code does not keep.

\* "the reboot once per task id rule": no task restarts the machine twice.
OncePerTask == \A t \in TaskIds : restarts[t] <= 1

==============================================================================
