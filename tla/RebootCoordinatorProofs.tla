----------------------- MODULE RebootCoordinatorProofs -----------------------
(***************************************************************************)
(* Proofs, for every value of the constants, that RebootCoordinator keeps  *)
(* its types and its safety properties, and that of a directory rejoin it  *)
(* relies on no more than RejoinLatch promises.                            *)
(***************************************************************************)
EXTENDS RebootCoordinator, TLAPS

------------------------------------------------------------------------------
\* The inductive invariant.

InPlan == Asking \cup {"claim", "unsaved"}
Rejoins(reasons) == SourceDirectoryRejoin \in SourcesOf(reasons)

\* What the coordinator's locals mean at each of its steps: how the plan
\* divides the reasons, and who holds the restart latch.
PlanInv ==
    /\ pc \notin InPlan => plan = NoPlan
    /\ \A r \in plan.withheld : r.source = SourceTask
    /\ pc \in {"claim", "persist"} =>
          Authorized(cfg.pending, marker) \subseteq plan.act \cup plan.withheld
    /\ pc \in InPlan \ {"claim", "persist"} => cfg.pending = plan.withheld
    /\ pc = "claim" =>
          /\ plan.act \subseteq cfg.pending
          /\ Rejoins(plan.act)
          /\ ~marker.requested
    /\ plan.claimed => Rejoins(plan.act)
    /\ Rejoins(plan.act) /\ pc \in {"persist", "arm", "execute", "unlatch"} =>
          plan.claimed /\ marker.requested
    /\ Rejoins(plan.act) /\ pc \in {"disarm", "restore"} => ~marker.requested
    /\ Rejoins(plan.act) => marker.phase = "awaiting_reboot" /\ rejoinAsks = 0

\* The rejoin marker, outside the coordinator.
MarkerInv ==
    /\ pc = "rejoin" => marker.phase = "awaiting_reboot" /\ ~marker.requested
    /\ pc = "rejoin_drop" => marker.phase = "verified"
    /\ rejoinAsks > 0 /\ marker.phase = "awaiting_reboot" => marker.requested
    /\ rejoinAsks <= 1

\* BootNext and the network boot the plan found.
BootInv ==
    /\ plan.arming => plan.find = "found"
    /\ HasTaskReason(plan.act) => plan.find \in FindResults \ {"no_option"}
    /\ HasTaskReason(plan.act) /\ plan.find = "found"
         /\ pc \in {"claim", "persist", "arm", "execute"} => plan.arming
    /\ pc = "arm" => plan.arming
    /\ pc = "execute" /\ plan.arming => bootNext
    /\ bootNext => \/ os # "up"
                   \/ left
                   \/ plan.arming /\ pc \in {"execute", "unlatch", "disarm"}

\* Memory and disk agree, but for what a fault or another process did.
DurableInv == ~dirty /\ pc \notin {"reconcile", "fire"} => cfg = disk

OnePerSource(reasons) ==
    \A r1, r2 \in reasons : r1.source = r2.source => r1 = r2

\* A list of reasons names tasks the server has handed out, one at most.
TasksKnown(reasons, next) ==
    /\ OnePerSource(reasons)
    /\ \A u \in TasksOf(reasons) : u \in TaskIds /\ u < next

KnownInv ==
    /\ server.task \in {NoTask, server.next - 1}
    /\ TasksKnown(cfg.pending, server.next)
    /\ TasksKnown(disk.pending, server.next)
    /\ TasksKnown(cli.config.pending, server.next)
    /\ TasksKnown(plan.act \cup plan.withheld, server.next)
    /\ HasTaskReason(plan.act) => plan.withheld = {}
    /\ pc \in InPlan \ {"claim", "persist"} /\ HasTaskReason(plan.act) =>
          cfg.rebootedFor \in TasksOf(plan.act)

\* A restart for t is behind us, and config c knows it.
Settled(c, t, task) ==
    /\ \A u \in TasksOf(c.pending) : u > t
    /\ task = t => c.rebootedFor = t

Remembers(t) ==
    /\ t < server.next
    /\ Settled(cfg, t, server.task)
    /\ ~dirty => Settled(disk, t, server.task)
    /\ \A u \in TasksOf(plan.act \cup plan.withheld) : u > t
    /\ restarts[t] = 1

OnceInv == \A t \in TaskIds : restarts[t] > 0 /\ t \notin forgiven => Remembers(t)

------------------------------------------------------------------------------
\* Facts about the operators.

\* Every operator that builds a list of reasons yields reasons.
LEMMA ReasonTypes ==
    ASSUME NEW pending \in SUBSET Reason, NEW m, NEW find, NEW src
    PROVE  /\ Drop(pending, src) \in SUBSET Reason
           /\ \A r \in Reason : Merge(pending, r) \in SUBSET Reason
           /\ Authorized(pending, m) \in SUBSET Reason
           /\ Withheld(pending, find) \in SUBSET Reason
           /\ ToActOn(pending, find) \in SUBSET Reason
BY DEF Drop, Merge, Authorized, Withheld, ToActOn

\* The reasons the code records are reasons.
LEMMA RecordedReasons ==
    /\ \A t \in TaskIds, force \in BOOLEAN : TaskReason(t, force) \in Reason
    /\ \A force \in BOOLEAN : RejoinReason(force) \in Reason
    /\ \A p \in Providers, force \in BOOLEAN : ProviderReason(p, force) \in Reason
    /\ \A s \in Commanders, mode \in Modes : PowerReason(s, mode) \in Reason
BY DEF TaskReason, RejoinReason, ProviderReason, PowerReason, Reason, Sources,
       Modes, ModeReboot, ModeShutdown

\* The two configs the coordinator writes are configs.
LEMMA WrittenConfigs ==
    ASSUME cfg \in Config, plan \in Plan
    PROVE  Asked \in Config /\ Restored \in Config
<1>1. TasksOf(plan.act) \subseteq TaskIds \cup {NoTask}
  BY DEF TasksOf, Plan, Reason
<1>2. HasTaskReason(plan.act) => TasksOf(plan.act) # {}
  BY DEF HasTaskReason, TasksOf
<1>3. (IF HasTaskReason(plan.act) THEN CHOOSE t \in TasksOf(plan.act) : TRUE
                                  ELSE cfg.rebootedFor) \in TaskIds \cup {NoTask}
  BY <1>1, <1>2 DEF Config
<1>4. plan.withheld \in SUBSET Reason /\ plan.act \in SUBSET Reason
  BY DEF Plan
<1>5. Asked \in Config
  BY <1>3, <1>4 DEF Asked, Config
<1>6. Restored \in Config
  BY <1>4 DEF Restored, Config
<1> QED
  BY <1>5, <1>6

\* The plan of a coordinator that is not at work.
LEMMA NoPlanType == NoPlan \in Plan
BY DEF NoPlan, Plan, NotAsked, Modes, ModeReboot

\* The two counters stay within their bounds.
LEMMA DisturbType ==
    ASSUME TypeOK, NEW kind, Disturb(kind)
    PROVE  disturbed' \in 0..MaxDisturbances
BY DisturbanceConstants DEF TypeOK, Disturb

LEMMA RequestType ==
    ASSUME TypeOK, Request
    PROVE  requested' \in 0..MaxRequests
BY DisturbanceConstants DEF TypeOK, Request

\* A write of the config leaves a config behind, whether it fails or not.
LEMMA SaveTypes ==
    ASSUME TypeOK, NEW c \in Config, SaveConfig(c) \/ SaveConfigFails
    PROVE  disk' \in Config /\ dirty' \in BOOLEAN /\ disturbed' \in 0..MaxDisturbances
<1>1. disk' \in Config /\ dirty' \in BOOLEAN
  BY DEF TypeOK, SaveConfig, SaveConfigFails
<1>2. disturbed' \in 0..MaxDisturbances
  BY DisturbType DEF TypeOK, SaveConfig, SaveConfigFails
<1> QED
  BY <1>1, <1>2

------------------------------------------------------------------------------
\* Every step keeps the types.
LEMMA TypeStep ==
    ASSUME TypeOK, [Next]_vars
    PROVE  TypeOK'
<1> USE RebootConstants, DisturbanceConstants
<1> USE DEF TypeOK, Idle, Steps, Asking, agentVars, envVars, history
<1>1. CASE \E force \in BOOLEAN : ServerQueuesTask(force)
  <2> PICK force \in BOOLEAN : ServerQueuesTask(force)
    BY <1>1
  <2>1. server.next \in TaskIds /\ server.next + 1 \in 1..(MaxTask + 1)
    BY DEF ServerQueuesTask, Server, TaskIds
  <2>2. server' \in Server
    BY <2>1 DEF ServerQueuesTask, Server
  <2> QED
    BY <2>2 DEF ServerQueuesTask
<1>2. CASE ServerCancelsTask
  BY <1>2 DEF ServerCancelsTask, Server
<1>3. CASE \E s \in Commanders, mode \in Modes : ServerOrders(s, mode)
  BY <1>3 DEF ServerOrders, Request, Server
<1>4. CASE Poll
  BY <1>4 DEF Poll, SaveConfig, SaveConfigFails, Disturb
<1>5. CASE \E reported \in Reports, landed \in BOOLEAN : Reconcile(reported, landed)
  <2> PICK reported \in Reports, landed \in BOOLEAN : Reconcile(reported, landed)
    BY <1>5
  <2>1. reported \in SUBSET Reason
    BY RecordedReasons DEF Reports
  <2>2. TaskReboot(cfg) \in SUBSET Reason
    BY ReasonTypes, RecordedReasons DEF Config, Server, TaskReboot, NoTask
  <2>3. Ordered(TaskReboot(cfg), landed) \in SUBSET Reason
    BY <2>2, ReasonTypes, RecordedReasons DEF Server, Ordered, OrderTaken
  <2>4. SourcesOf(reported) \subseteq Sources
    BY <2>1 DEF SourcesOf, Reason
  <2>5. server.order # NoOrder => server.order.source \in Sources
    BY DEF Server, Sources
  <2>6. cfg' \in Config
    BY <2>1, <2>3 DEF Reconcile, Config
  <2>7. server' \in Server
    BY DEF Reconcile, Server
  <2>8. owed' \subseteq Sources /\ forfeited' \subseteq Sources
    BY <2>4, <2>5 DEF Reconcile, OrderTaken, Sources
  <2> QED
    BY <2>6, <2>7, <2>8 DEF Reconcile, Request
<1>6. CASE \E p \in Providers : Drift(p)
  <2> PICK p \in Providers : Drift(p)
    BY <1>6
  <2>1. cfg' \in Config
    BY ReasonTypes, RecordedReasons DEF Drift, Config
  <2>2. owed' \subseteq Sources /\ forfeited' \subseteq Sources
    BY DEF Drift, Ask, Sources
  <2> QED
    BY <2>1, <2>2, RequestType DEF Drift
<1>7. CASE ReconcileSave
  <2>1. disk' \in Config /\ dirty' \in BOOLEAN /\ disturbed' \in 0..MaxDisturbances
    BY <1>7, SaveTypes DEF ReconcileSave
  <2> QED
    BY <1>7, <2>1 DEF ReconcileSave
<1>8. CASE \E mode \in Modes : SourcePower \in Commanders /\ ScheduleFires(mode)
  <2> PICK mode \in Modes : SourcePower \in Commanders /\ ScheduleFires(mode)
    BY <1>8
  <2>1. cfg' \in Config
    BY ReasonTypes, RecordedReasons DEF ScheduleFires, Config
  <2>2. owed' \subseteq Sources /\ forfeited' \subseteq Sources
    BY DEF ScheduleFires, Ask, Sources
  <2> QED
    BY <2>1, <2>2, RequestType DEF ScheduleFires
<1>9. CASE ScheduleSave
  BY <1>9 DEF ScheduleSave, SaveConfig, SaveConfigFails, Disturb
<1>10. CASE RejoinAwaitsReboot
  BY <1>10 DEF RejoinAwaitsReboot, Request, Ask, Sources, Marker, Phases
<1>11. CASE \E force \in BOOLEAN : RejoinRecordsReason(force)
  <2> PICK force \in BOOLEAN : RejoinRecordsReason(force)
    BY <1>11
  <2>1. cfg' \in Config
    BY ReasonTypes, RecordedReasons DEF RejoinRecordsReason, Config
  <2>2. disk' \in Config /\ dirty' \in BOOLEAN /\ disturbed' \in 0..MaxDisturbances
    BY <2>1, SaveTypes DEF RejoinRecordsReason
  <2> QED
    BY <2>1, <2>2 DEF RejoinRecordsReason
<1>12. CASE RejoinVerified
  BY <1>12 DEF RejoinVerified, Marker, Phases
<1>13. CASE RejoinDropsReason
  <2>1. cfg' \in Config
    BY <1>13, ReasonTypes DEF RejoinDropsReason, Config
  <2>2. disk' \in Config /\ dirty' \in BOOLEAN /\ disturbed' \in 0..MaxDisturbances
    BY <1>13, <2>1, SaveTypes DEF RejoinDropsReason
  <2> QED
    BY <1>13, <2>1, <2>2 DEF RejoinDropsReason
<1>14. CASE NothingPending
  BY <1>14 DEF NothingPending
<1>15. CASE UsersUnknown
  BY <1>15 DEF UsersUnknown, Disturb
<1>16. CASE \E find \in NetbootAnswers : AllWithheld(find)
  <2> PICK find \in NetbootAnswers : AllWithheld(find)
    BY <1>16
  <2>0. Authorized(cfg.pending, marker) \in SUBSET Reason
    BY ReasonTypes DEF Config
  <2>1. cfg' \in Config
    BY <2>0, ReasonTypes DEF AllWithheld, Config
  <2>2. disk' \in Config /\ dirty' \in BOOLEAN /\ disturbed' \in 0..MaxDisturbances
    BY <2>1, SaveTypes DEF AllWithheld
  <2> QED
    BY <2>1, <2>2 DEF AllWithheld
<1>17. CASE \E find \in NetbootAnswers : Deferred(find)
  BY <1>17 DEF Deferred
<1>18. CASE \E find \in NetbootAnswers, loggedIn \in 0..1 : Decided(find, loggedIn)
  <2> PICK find \in NetbootAnswers, loggedIn \in 0..1 : Decided(find, loggedIn)
    BY <1>18
  <2>1. find \in FindResults \cup {NotAsked}
    BY DEF NetbootAnswers
  <2>2. /\ ToActOn(Authorized(cfg.pending, marker), find) \in SUBSET Reason
        /\ Withheld(Authorized(cfg.pending, marker), find) \in SUBSET Reason
    BY ReasonTypes DEF Config
  <2>3. \A act : Decide(act, loggedIn).mode \in Modes
    BY DEF Decide, ModeFor, Modes
  <2>4. HasTaskReason(Authorized(cfg.pending, marker)) \in BOOLEAN
    BY DEF HasTaskReason
  <2>5. plan' \in Plan
    BY <2>1, <2>2, <2>3, <2>4 DEF Decided, Plan
  <2> QED
    BY <2>5 DEF Decided
<1>19. CASE ClaimLatch
  BY <1>19 DEF ClaimLatch, Marker, Plan
<1>20. CASE \E wrote \in BOOLEAN : ClaimLatchFails(wrote)
  BY <1>20, NoPlanType DEF ClaimLatchFails, Marker, Sources, Disturb
<1>21. CASE Persist
  BY <1>21, WrittenConfigs DEF Persist, SaveConfig
<1>22. CASE PersistFails
  BY <1>22, WrittenConfigs DEF PersistFails, SaveConfigFails, Disturb
<1>23. CASE UnsavedReleases
  <2>1. Released \in Marker
    BY DEF Released, Marker
  <2>2. disturbed' \in 0..MaxDisturbances
    BY <1>23, DisturbType DEF UnsavedReleases
  <2> QED
    BY <1>23, <2>1, <2>2, NoPlanType DEF UnsavedReleases
<1>24. CASE Arm
  BY <1>24 DEF Arm
<1>25. CASE ArmFails
  <2>1. plan' \in Plan
    BY <1>25 DEF ArmFails, Plan
  <2> QED
    BY <1>25, <2>1, DisturbType DEF ArmFails
<1>26. CASE Execute
  <2>1. os' \in {"up"} \cup Modes
    BY <1>26 DEF Execute, Plan
  <2>2. restarts' \in [TaskIds -> 0..2]
    BY <1>26 DEF Execute
  <2>3. rejoinAsks' \in 0..2
    BY <1>26 DEF Execute
  <2> QED
    BY <1>26, <2>1, <2>2, <2>3, NoPlanType DEF Execute
<1>27. CASE ExecuteRefused
  BY <1>27 DEF ExecuteRefused, Disturb
<1>28. CASE Unlatch
  BY <1>28 DEF Unlatch, Released, Marker
<1>29. CASE UnlatchFails
  BY <1>29, NoPlanType DEF UnlatchFails, Disturb
<1>30. CASE Disarm
  BY <1>30 DEF Disarm
<1>31. CASE DisarmFails
  BY <1>31 DEF DisarmFails, Disturb
<1>32. CASE Restore
  <2>1. disk' \in Config /\ dirty' \in BOOLEAN /\ disturbed' \in 0..MaxDisturbances
    BY <1>32, WrittenConfigs, SaveTypes DEF Restore
  <2> QED
    BY <1>32, <2>1, WrittenConfigs, NoPlanType DEF Restore
<1>33. CASE Crash
  <2>1. disturbed' \in 0..MaxDisturbances
    BY <1>33, DisturbType DEF Crash
  <2> QED
    BY <1>33, <2>1, NoPlanType DEF Crash, Restarted
<1>34. CASE Boot
  <2>1. disturbed' \in 0..MaxDisturbances
    BY <1>34, DisturbType DEF Boot
  <2>2. marker' \in Marker
    BY <1>34 DEF Boot, Marker
  <2>3. cli' \in [open : BOOLEAN, config : Config]
    BY <1>34 DEF Boot, NoCli, NoConfig, Config
  <2> QED
    BY <1>34, <2>1, <2>2, <2>3, NoPlanType DEF Boot, Restarted
<1>35. CASE CliLoad
  BY <1>35 DEF CliLoad, Disturb
<1>36. CASE CliSave
  BY <1>36 DEF CliSave, NoCli, Config, NoConfig
<1>37. CASE UNCHANGED vars
  BY <1>37 DEF vars
<1> QED
  BY <1>1, <1>2, <1>3, <1>4, <1>5, <1>6, <1>7, <1>8, <1>9, <1>10, <1>11, <1>12, <1>13, <1>14, <1>15, <1>16, <1>17, <1>18, <1>19, <1>20, <1>21, <1>22, <1>23, <1>24, <1>25, <1>26, <1>27, <1>28, <1>29, <1>30, <1>31, <1>32, <1>33, <1>34, <1>35, <1>36, <1>37
  DEF Next, ServerStep, Record, Coordinate

\* The initial state has the types.
LEMMA TypeInit ==
    ASSUME Init
    PROVE  TypeOK
<1>1. NoConfig \in Config
  BY DEF NoConfig, Config
<1>2. cli \in [open : BOOLEAN, config : Config]
  BY <1>1 DEF Init, NoCli
<1>3. server \in Server
  BY RebootConstants DEF Init, Server
<1>4. marker \in Marker
  BY DEF Init, Marker, Phases
<1>5. disturbed \in 0..MaxDisturbances /\ requested \in 0..MaxRequests
  BY DisturbanceConstants DEF Init
<1>6. restarts \in [TaskIds -> 0..2] /\ rejoinAsks \in 0..2
  BY DEF Init
<1> QED
  BY <1>1, <1>2, <1>3, <1>4, <1>5, <1>6, NoPlanType DEF Init, TypeOK, Idle, Steps

\* The agent's memory, its files and its plan always have their types.
THEOREM TypeCorrect == Spec => []TypeOK
<1>1. Init => TypeOK
  BY TypeInit
<1>2. TypeOK /\ [Next]_vars => TypeOK'
  BY TypeStep
<1> QED
  BY <1>1, <1>2, PTL DEF Spec

------------------------------------------------------------------------------
\* The plan and the marker.

\* A coordinator that is not at work has nothing to keep.
LEMMA PlanInvIdle ==
    ASSUME plan' = NoPlan, pc' \notin InPlan
    PROVE  PlanInv'
BY DEF PlanInv, InPlan, Asking, NoPlan, Rejoins, SourcesOf

\* planReboot divides the usable reasons: what it withholds is tasks, and
\* what it does not withhold is acted on.
LEMMA PlanDivides ==
    ASSUME NEW pending, NEW find
    PROVE  /\ \A r \in Withheld(pending, find) : r.source = SourceTask
           /\ ToActOn(pending, find) \cup Withheld(pending, find) = pending
           /\ HasTaskReason(ToActOn(pending, find)) =>
                 /\ Withheld(pending, find) = {}
                 /\ ToActOn(pending, find) = pending
                 /\ ~withholdsTask(find)
BY DEF Withheld, ToActOn, Drop, HasTaskReason

\* Every step keeps the meaning of the plan and of the marker.
LEMMA PlanStep ==
    ASSUME TypeOK, PlanInv, MarkerInv, [Next]_vars
    PROVE  PlanInv' /\ MarkerInv'
<1> USE DEF Idle, agentVars, envVars, history
<1>1. CASE \E force \in BOOLEAN : ServerQueuesTask(force)
  BY <1>1 DEF ServerQueuesTask, PlanInv, MarkerInv, Rejoins
<1>2. CASE ServerCancelsTask
  BY <1>2 DEF ServerCancelsTask, PlanInv, MarkerInv, Rejoins
<1>3. CASE \E s \in Commanders, mode \in Modes : ServerOrders(s, mode)
  BY <1>3 DEF ServerOrders, PlanInv, MarkerInv, Rejoins
<1>4. CASE Poll
  <2>1. plan' = NoPlan /\ pc' \notin InPlan
    BY <1>4 DEF Poll, PlanInv, InPlan, Asking
  <2>2. MarkerInv'
    BY <1>4 DEF Poll, MarkerInv
  <2> QED
    BY <2>1, <2>2, PlanInvIdle
<1>5. CASE \E reported \in Reports, landed \in BOOLEAN : Reconcile(reported, landed)
  <2>1. plan' = NoPlan /\ pc' \notin InPlan
    BY <1>5 DEF Reconcile, PlanInv, InPlan, Asking
  <2>2. MarkerInv'
    BY <1>5 DEF Reconcile, MarkerInv
  <2> QED
    BY <2>1, <2>2, PlanInvIdle
<1>6. CASE \E p \in Providers : Drift(p)
  <2>1. plan' = NoPlan /\ pc' \notin InPlan
    BY <1>6 DEF Drift, PlanInv, InPlan, Asking
  <2>2. MarkerInv'
    BY <1>6 DEF Drift, MarkerInv
  <2> QED
    BY <2>1, <2>2, PlanInvIdle
<1>7. CASE ReconcileSave
  <2>1. plan' = NoPlan /\ pc' \notin InPlan
    BY <1>7 DEF ReconcileSave, PlanInv, InPlan, Asking
  <2>2. MarkerInv'
    BY <1>7 DEF ReconcileSave, MarkerInv
  <2> QED
    BY <2>1, <2>2, PlanInvIdle
<1>8. CASE \E mode \in Modes : SourcePower \in Commanders /\ ScheduleFires(mode)
  <2>1. plan' = NoPlan /\ pc' \notin InPlan
    BY <1>8 DEF ScheduleFires, PlanInv, InPlan, Asking
  <2>2. MarkerInv'
    BY <1>8 DEF ScheduleFires, MarkerInv
  <2> QED
    BY <2>1, <2>2, PlanInvIdle
<1>9. CASE ScheduleSave
  <2>1. plan' = NoPlan /\ pc' \notin InPlan
    BY <1>9 DEF ScheduleSave, PlanInv, InPlan, Asking
  <2>2. MarkerInv'
    BY <1>9 DEF ScheduleSave, MarkerInv
  <2> QED
    BY <2>1, <2>2, PlanInvIdle
<1>10. CASE RejoinAwaitsReboot
  <2>1. plan' = NoPlan /\ pc' \notin InPlan
    BY <1>10 DEF RejoinAwaitsReboot, PlanInv, InPlan, Asking
  <2>2. MarkerInv'
    BY <1>10 DEF RejoinAwaitsReboot, MarkerInv, TypeOK, Marker
  <2> QED
    BY <2>1, <2>2, PlanInvIdle
<1>11. CASE \E force \in BOOLEAN : RejoinRecordsReason(force)
  <2>1. plan' = NoPlan /\ pc' \notin InPlan
    BY <1>11 DEF RejoinRecordsReason, PlanInv, InPlan, Asking
  <2>2. MarkerInv'
    BY <1>11 DEF RejoinRecordsReason, MarkerInv
  <2> QED
    BY <2>1, <2>2, PlanInvIdle
<1>12. CASE RejoinVerified
  <2>1. plan' = NoPlan /\ pc' \notin InPlan
    BY <1>12 DEF RejoinVerified, PlanInv, InPlan, Asking
  <2>2. MarkerInv'
    BY <1>12 DEF RejoinVerified, MarkerInv, TypeOK, Marker
  <2> QED
    BY <2>1, <2>2, PlanInvIdle
<1>13. CASE RejoinDropsReason
  <2>1. plan' = NoPlan /\ pc' \notin InPlan
    BY <1>13 DEF RejoinDropsReason, PlanInv, InPlan, Asking
  <2>2. MarkerInv'
    BY <1>13 DEF RejoinDropsReason, MarkerInv
  <2> QED
    BY <2>1, <2>2, PlanInvIdle
<1>14. CASE NothingPending
  <2>1. plan' = NoPlan /\ pc' \notin InPlan
    BY <1>14 DEF NothingPending, PlanInv, InPlan, Asking
  <2>2. MarkerInv'
    BY <1>14 DEF NothingPending, MarkerInv
  <2> QED
    BY <2>1, <2>2, PlanInvIdle
<1>15. CASE UsersUnknown
  <2>1. plan' = NoPlan /\ pc' \notin InPlan
    BY <1>15 DEF UsersUnknown, PlanInv, InPlan, Asking
  <2>2. MarkerInv'
    BY <1>15 DEF UsersUnknown, MarkerInv
  <2> QED
    BY <2>1, <2>2, PlanInvIdle
<1>16. CASE \E find \in NetbootAnswers : AllWithheld(find)
  <2>1. plan' = NoPlan /\ pc' \notin InPlan
    BY <1>16 DEF AllWithheld, PlanInv, InPlan, Asking
  <2>2. MarkerInv'
    BY <1>16 DEF AllWithheld, MarkerInv
  <2> QED
    BY <2>1, <2>2, PlanInvIdle
<1>17. CASE \E find \in NetbootAnswers : Deferred(find)
  <2>1. plan' = NoPlan /\ pc' \notin InPlan
    BY <1>17 DEF Deferred, PlanInv, InPlan, Asking
  <2>2. MarkerInv'
    BY <1>17 DEF Deferred, MarkerInv
  <2> QED
    BY <2>1, <2>2, PlanInvIdle
<1>18. CASE \E find \in NetbootAnswers, loggedIn \in 0..1 : Decided(find, loggedIn)
  <2> PICK find \in NetbootAnswers, loggedIn \in 0..1 : Decided(find, loggedIn)
    BY <1>18
  <2> DEFINE pending == Authorized(cfg.pending, marker)
             act == ToActOn(pending, find)
  <2>1. /\ plan'.act = act /\ plan'.withheld = Withheld(pending, find)
        /\ plan'.claimed = FALSE
        /\ pc' \in {"claim", "persist"} /\ (pc' = "claim" <=> Rejoins(act))
        /\ UNCHANGED <<cfg, marker, rejoinAsks>>
    BY DEF Decided, Rejoins
  <2>2. Rejoins(act) => marker.phase = "awaiting_reboot" /\ ~marker.requested
    <3>1. act \subseteq pending
      BY PlanDivides
    <3>2. Rejoins(pending) => marker.phase = "awaiting_reboot" /\ ~marker.requested
      BY DEF Rejoins, SourcesOf, Authorized
    <3> QED
      BY <3>1, <3>2 DEF Rejoins, SourcesOf
  <2>3. Rejoins(act) => rejoinAsks = 0
    BY <2>2 DEF MarkerInv, TypeOK
  <2>4. act \subseteq cfg.pending
    BY PlanDivides DEF Authorized
  <2> HIDE DEF act, pending
  <2>5. PlanInv'
    BY <2>1, <2>2, <2>3, <2>4, PlanDivides DEF PlanInv, InPlan, Asking, pending, act
  <2>6. MarkerInv'
    BY <2>1 DEF MarkerInv
  <2> QED
    BY <2>5, <2>6
<1>19. CASE ClaimLatch
  <2>1. /\ pc = "claim" /\ pc' = "persist"
        /\ plan'.act = plan.act /\ plan'.withheld = plan.withheld /\ plan'.claimed
        /\ marker'.requested /\ marker'.phase = marker.phase
        /\ UNCHANGED <<cfg, rejoinAsks>>
    BY <1>19 DEF ClaimLatch, TypeOK, Plan, Marker
  <2>2. Authorized(cfg.pending, marker') \subseteq Authorized(cfg.pending, marker)
    BY <2>1 DEF Authorized
  <2>3. PlanInv'
    BY <2>1, <2>2 DEF PlanInv, InPlan, Asking
  <2>4. MarkerInv'
    BY <2>1 DEF MarkerInv
  <2> QED
    BY <2>3, <2>4
<1>20. CASE \E wrote \in BOOLEAN : ClaimLatchFails(wrote)
  <2> PICK wrote \in BOOLEAN : ClaimLatchFails(wrote)
    BY <1>20
  <2>1. plan' = NoPlan /\ pc' \notin InPlan
    BY DEF ClaimLatchFails, InPlan, Asking
  <2>2. MarkerInv'
    BY DEF ClaimLatchFails, PlanInv, MarkerInv
  <2> QED
    BY <2>1, <2>2, PlanInvIdle
<1>21. CASE Persist
  <2>1. /\ pc = "persist" /\ pc' \in {"arm", "execute"}
        /\ cfg'.pending = plan.withheld
        /\ UNCHANGED <<plan, marker, rejoinAsks>>
    BY <1>21 DEF Persist, Asked
  <2>2. PlanInv'
    BY <2>1 DEF PlanInv, InPlan, Asking, Rejoins
  <2>3. MarkerInv'
    BY <2>1 DEF MarkerInv
  <2> QED
    BY <2>2, <2>3
<1>22. CASE PersistFails
  <2>1. /\ pc = "persist" /\ pc' \in {"unsaved"}
        /\ cfg'.pending = plan.withheld
        /\ UNCHANGED <<plan, marker, rejoinAsks>>
    BY <1>22 DEF PersistFails, Asked
  <2>2. PlanInv'
    BY <2>1 DEF PlanInv, InPlan, Asking, Rejoins
  <2>3. MarkerInv'
    BY <2>1 DEF MarkerInv
  <2> QED
    BY <2>2, <2>3
<1>23. CASE UnsavedReleases
  <2>1. plan' = NoPlan /\ pc' \notin InPlan
    BY <1>23 DEF UnsavedReleases, InPlan, Asking
  <2>2. marker' # marker => rejoinAsks = 0
    BY <1>23 DEF UnsavedReleases, Released, PlanInv, TypeOK, Marker
  <2>3. MarkerInv'
    BY <1>23, <2>2 DEF UnsavedReleases, MarkerInv
  <2> QED
    BY <2>1, <2>3, PlanInvIdle
<1>24. CASE Arm
  <2>1. /\ pc = "arm" /\ pc' \in {"execute"}
        /\ plan'.act = plan.act /\ plan'.withheld = plan.withheld
        /\ plan'.claimed = plan.claimed
        /\ UNCHANGED <<cfg, marker, rejoinAsks>>
    BY <1>24 DEF Arm, TypeOK, Plan
  <2>2. PlanInv'
    BY <2>1 DEF PlanInv, InPlan, Asking, Rejoins
  <2>3. MarkerInv'
    BY <2>1 DEF MarkerInv
  <2> QED
    BY <2>2, <2>3
<1>25. CASE ArmFails
  <2>1. /\ pc = "arm" /\ pc' \in {"unlatch"}
        /\ plan'.act = plan.act /\ plan'.withheld = plan.withheld
        /\ plan'.claimed = plan.claimed
        /\ UNCHANGED <<cfg, marker, rejoinAsks>>
    BY <1>25 DEF ArmFails, TypeOK, Plan
  <2>2. PlanInv'
    BY <2>1 DEF PlanInv, InPlan, Asking, Rejoins
  <2>3. MarkerInv'
    BY <2>1 DEF MarkerInv
  <2> QED
    BY <2>2, <2>3
<1>26. CASE Execute
  <2>1. plan' = NoPlan /\ pc' \notin InPlan
    BY <1>26 DEF Execute, InPlan, Asking
  <2>2. MarkerInv'
    BY <1>26 DEF Execute, MarkerInv, PlanInv, Rejoins, TypeOK
  <2> QED
    BY <2>1, <2>2, PlanInvIdle
<1>27. CASE ExecuteRefused
  <2>1. /\ pc = "execute" /\ pc' \in {"unlatch"}
        /\ plan'.act = plan.act /\ plan'.withheld = plan.withheld
        /\ plan'.claimed = plan.claimed
        /\ UNCHANGED <<cfg, marker, rejoinAsks>>
    BY <1>27 DEF ExecuteRefused, TypeOK, Plan
  <2>2. PlanInv'
    BY <2>1 DEF PlanInv, InPlan, Asking, Rejoins
  <2>3. MarkerInv'
    BY <2>1 DEF MarkerInv
  <2> QED
    BY <2>2, <2>3
<1>28. CASE Unlatch
  <2>1. /\ pc = "unlatch" /\ pc' \in {"disarm", "restore"}
        /\ marker'.phase = marker.phase
        /\ plan.claimed => ~marker'.requested
        /\ ~plan.claimed => marker' = marker
        /\ UNCHANGED <<cfg, plan, rejoinAsks>>
    BY <1>28 DEF Unlatch, Released, TypeOK, Marker
  <2>2. PlanInv'
    BY <2>1 DEF PlanInv, InPlan, Asking, Rejoins
  <2>3. MarkerInv'
    BY <2>1 DEF MarkerInv, PlanInv
  <2> QED
    BY <2>2, <2>3
<1>29. CASE UnlatchFails
  <2>1. plan' = NoPlan /\ pc' \notin InPlan
    BY <1>29 DEF UnlatchFails, InPlan, Asking
  <2>2. MarkerInv'
    BY <1>29 DEF UnlatchFails, MarkerInv
  <2> QED
    BY <2>1, <2>2, PlanInvIdle
<1>30. CASE Disarm
  <2>1. /\ pc = "disarm" /\ pc' \in {"restore"}
        /\ plan'.act = plan.act /\ plan'.withheld = plan.withheld
        /\ plan'.claimed = plan.claimed
        /\ UNCHANGED <<cfg, marker, rejoinAsks>>
    BY <1>30 DEF Disarm, TypeOK, Plan
  <2>2. PlanInv'
    BY <2>1 DEF PlanInv, InPlan, Asking, Rejoins
  <2>3. MarkerInv'
    BY <2>1 DEF MarkerInv
  <2> QED
    BY <2>2, <2>3
<1>31. CASE DisarmFails
  <2>1. /\ pc = "disarm" /\ pc' \in {"restore"}
        /\ plan'.act = plan.act /\ plan'.withheld = plan.withheld
        /\ plan'.claimed = plan.claimed
        /\ UNCHANGED <<cfg, marker, rejoinAsks>>
    BY <1>31 DEF DisarmFails, TypeOK, Plan
  <2>2. PlanInv'
    BY <2>1 DEF PlanInv, InPlan, Asking, Rejoins
  <2>3. MarkerInv'
    BY <2>1 DEF MarkerInv
  <2> QED
    BY <2>2, <2>3
<1>32. CASE Restore
  <2>1. plan' = NoPlan /\ pc' \notin InPlan
    BY <1>32 DEF Restore, InPlan, Asking
  <2>2. MarkerInv'
    BY <1>32 DEF Restore, MarkerInv
  <2> QED
    BY <2>1, <2>2, PlanInvIdle
<1>33. CASE Crash
  <2>1. plan' = NoPlan /\ pc' \notin InPlan
    BY <1>33 DEF Crash, Restarted, InPlan, Asking
  <2>2. MarkerInv'
    BY <1>33 DEF Crash, Restarted, MarkerInv
  <2> QED
    BY <2>1, <2>2, PlanInvIdle
<1>34. CASE Boot
  <2>1. plan' = NoPlan /\ pc' \notin InPlan
    BY <1>34 DEF Boot, Restarted, InPlan, Asking
  <2>2. marker'.phase = marker.phase /\ marker'.requested = marker.requested
    BY <1>34 DEF Boot, TypeOK, Marker
  <2>3. MarkerInv'
    BY <1>34, <2>2 DEF Boot, Restarted, MarkerInv
  <2> QED
    BY <2>1, <2>3, PlanInvIdle
<1>35. CASE CliLoad
  BY <1>35 DEF CliLoad, PlanInv, MarkerInv, Rejoins
<1>36. CASE CliSave
  BY <1>36 DEF CliSave, PlanInv, MarkerInv, Rejoins
<1>37. CASE UNCHANGED vars
  BY <1>37 DEF vars, PlanInv, MarkerInv, Rejoins
<1> QED
  BY <1>1, <1>2, <1>3, <1>4, <1>5, <1>6, <1>7, <1>8, <1>9, <1>10, <1>11, <1>12, <1>13, <1>14, <1>15, <1>16, <1>17, <1>18, <1>19, <1>20, <1>21, <1>22, <1>23, <1>24, <1>25, <1>26, <1>27, <1>28, <1>29, <1>30, <1>31, <1>32, <1>33, <1>34, <1>35, <1>36, <1>37
  DEF Next, ServerStep, Record, Coordinate

------------------------------------------------------------------------------
\* No request is lost.

Latchable(m) == m.phase = "awaiting_reboot" /\ ~m.requested

\* Which sources a list of reasons speaks for.
LEMMA UnionSources ==
    ASSUME NEW A, NEW B
    PROVE  SourcesOf(A \cup B) = SourcesOf(A) \cup SourcesOf(B)
BY DEF SourcesOf

LEMMA DropSources ==
    ASSUME NEW A, NEW src
    PROVE  SourcesOf(Drop(A, src)) = SourcesOf(A) \ {src}
BY DEF SourcesOf, Drop

LEMMA MergeSources ==
    ASSUME NEW A, NEW r
    PROVE  SourcesOf(Merge(A, r)) = SourcesOf(A) \cup {r.source}
BY DEF SourcesOf, Merge, Drop

\* A reason is usable unless it is a rejoin's and the latch cannot be taken.
LEMMA AuthorizedSources ==
    ASSUME NEW A, NEW m, NEW src
    PROVE  src \in SourcesOf(Authorized(A, m)) <=>
             src \in SourcesOf(A) /\ (src = SourceDirectoryRejoin => Latchable(m))
BY DEF SourcesOf, Authorized, Latchable

\* OwedIsHeld, restated over sources.
Held(s) ==
    \/ s \in SourcesOf(cfg.pending) /\ (s = SourceDirectoryRejoin => Latchable(marker))
    \/ pc \in Asking \cup {"claim"} /\ s \in SourcesOf(plan.act)
    \/ pc = "rejoin" /\ s = SourceDirectoryRejoin
AllHeld == \A s \in owed \ forfeited : Held(s)

LEMMA HeldMeansHeld == OwedIsHeld <=> AllHeld
BY AuthorizedSources DEF OwedIsHeld, AllHeld, Held

\* What the coordinator's plan covers.
LEMMA PlanCovers ==
    ASSUME PlanInv, NEW s, s \in SourcesOf(cfg.pending),
           s = SourceDirectoryRejoin => Latchable(marker), pc \in {"claim", "persist"}
    PROVE  s \in SourcesOf(plan.act) \/ (s = SourceTask /\ s \in SourcesOf(plan.withheld))
<1>1. s \in SourcesOf(Authorized(cfg.pending, marker))
  BY AuthorizedSources
<1>2. s \in SourcesOf(plan.act \cup plan.withheld)
  BY <1>1 DEF PlanInv, SourcesOf
<1>3. s \in SourcesOf(plan.act) \/ s \in SourcesOf(plan.withheld)
  BY <1>2, UnionSources
<1>4. s \in SourcesOf(plan.withheld) => s = SourceTask
  BY DEF PlanInv, SourcesOf
<1> QED
  BY <1>3, <1>4

\* No step loses a request.
LEMMA OwedStep ==
    ASSUME TypeOK, PlanInv, MarkerInv, AllHeld, [Next]_vars
    PROVE  AllHeld'
<1> USE DEF Idle, agentVars, envVars, history
<1> SourceTask # SourceDirectoryRejoin
  BY DEF SourceTask, SourceDirectoryRejoin
<1>1. CASE \E force \in BOOLEAN : ServerQueuesTask(force)
  BY <1>1 DEF ServerQueuesTask, AllHeld, Held, Latchable, Asking
<1>2. CASE ServerCancelsTask
  BY <1>2 DEF ServerCancelsTask, AllHeld, Held, Latchable, Asking
<1>3. CASE \E s \in Commanders, mode \in Modes : ServerOrders(s, mode)
  BY <1>3 DEF ServerOrders, AllHeld, Held, Latchable, Asking
<1>4. CASE Poll
  BY <1>4 DEF Poll, AllHeld, Held, Latchable, Asking
<1>5. CASE \E reported \in Reports, landed \in BOOLEAN : Reconcile(reported, landed)
  <2> PICK reported \in Reports, landed \in BOOLEAN : Reconcile(reported, landed)
    BY <1>5
  <2> DEFINE told == Ordered(TaskReboot(cfg), landed)
             after == {r \in told : r.source \notin SourcesOf(reported)} \cup reported
             asked == (IF OrderTaken(landed) THEN {server.order.source} ELSE {})
                      \cup SourcesOf(reported)
                      \cup (SourcesOf(after) \cap {SourceTask})
  <2>1. /\ pc = Idle /\ cfg'.pending = after /\ UNCHANGED marker
        /\ owed' = (owed \ {SourceTask}) \cup asked
        /\ forfeited' = forfeited \ (asked \cup {SourceTask})
    BY DEF Reconcile, TypeOK, Config
  <2>2. SourcesOf(cfg.pending) \ {SourceTask} \subseteq SourcesOf(TaskReboot(cfg))
    BY DropSources, MergeSources DEF TaskReboot, TaskReason
  <2>3. SourcesOf(TaskReboot(cfg)) \subseteq SourcesOf(told)
    BY MergeSources DEF Ordered
  <2>4. OrderTaken(landed) => server.order.source \in SourcesOf(told)
    BY MergeSources DEF Ordered, PowerReason
  <2>5. SourcesOf(after) = SourcesOf(told) \cup SourcesOf(reported)
    BY DEF SourcesOf
  <2>6. OrderTaken(landed) => server.order.source # SourceDirectoryRejoin
    BY RebootConstants
    DEF OrderTaken, TypeOK, Server, SourceDirectoryRejoin, SourcePower, SourceSnapin
  <2>7. SourceDirectoryRejoin \notin SourcesOf(reported)
    BY RebootConstants DEF SourcesOf, Reports, ProviderReason
  <2> HIDE DEF told, after
  <2>8. ASSUME NEW s \in owed' \ forfeited'
        PROVE  Held(s)'
    <3>1. CASE s \in asked
      BY <2>1, <2>4, <2>5, <2>6, <2>7, <3>1 DEF Held
    <3>2. CASE s \notin asked
      <4>1. s \in owed \ forfeited /\ s # SourceTask
        BY <2>1, <3>2
      <4>2. s \in SourcesOf(cfg.pending) /\ (s = SourceDirectoryRejoin => Latchable(marker))
        BY <2>1, <4>1 DEF AllHeld, Held, Asking
      <4> QED
        BY <2>1, <2>2, <2>3, <2>5, <4>1, <4>2 DEF Held, Latchable
    <3> QED
      BY <3>1, <3>2
  <2> QED
    BY <2>8 DEF AllHeld
<1>6. CASE \E p \in Providers : Drift(p)
  <2> PICK p \in Providers : Drift(p)
    BY <1>6
  <2>1. /\ pc = Idle /\ UNCHANGED marker
        /\ SourcesOf(cfg'.pending) = SourcesOf(cfg.pending) \cup {p}
        /\ owed' = owed \cup {p} /\ forfeited' = forfeited \ {p}
    BY MergeSources DEF Drift, Ask, ProviderReason, TypeOK, Config
  <2>2. p # SourceDirectoryRejoin
    BY RebootConstants DEF SourcePower, SourceDirectoryRejoin
  <2> QED
    BY <2>1, <2>2 DEF AllHeld, Held, Latchable, Asking
<1>7. CASE ReconcileSave
  BY <1>7 DEF ReconcileSave, AllHeld, Held, Latchable, Asking
<1>8. CASE \E mode \in Modes : SourcePower \in Commanders /\ ScheduleFires(mode)
  <2> PICK mode \in Modes : SourcePower \in Commanders /\ ScheduleFires(mode)
    BY <1>8
  <2>1. /\ pc = Idle /\ UNCHANGED marker
        /\ SourcesOf(cfg'.pending) = SourcesOf(cfg.pending) \cup {SourcePower}
        /\ owed' = owed \cup {SourcePower} /\ forfeited' = forfeited \ {SourcePower}
    BY MergeSources DEF ScheduleFires, Ask, PowerReason, TypeOK, Config
  <2>2. SourcePower # SourceDirectoryRejoin
    BY RebootConstants DEF SourcePower, SourceDirectoryRejoin
  <2> QED
    BY <2>1, <2>2 DEF AllHeld, Held, Latchable, Asking
<1>9. CASE ScheduleSave
  BY <1>9 DEF ScheduleSave, AllHeld, Held, Latchable, Asking
<1>10. CASE RejoinAwaitsReboot
  BY <1>10 DEF RejoinAwaitsReboot, Ask, AllHeld, Held, Latchable, Asking
<1>11. CASE \E force \in BOOLEAN : RejoinRecordsReason(force)
  <2> PICK force \in BOOLEAN : RejoinRecordsReason(force)
    BY <1>11
  <2>1. /\ pc = "rejoin" /\ UNCHANGED <<marker, owed, forfeited>>
        /\ SourcesOf(cfg'.pending) = SourcesOf(cfg.pending) \cup {SourceDirectoryRejoin}
    BY MergeSources DEF RejoinRecordsReason, RejoinReason, TypeOK, Config
  <2>2. Latchable(marker)
    BY <2>1 DEF MarkerInv, Latchable
  <2> QED
    BY <2>1, <2>2 DEF AllHeld, Held, Latchable, Asking
<1>12. CASE RejoinVerified
  BY <1>12 DEF RejoinVerified, AllHeld, Held, Latchable, Asking
<1>13. CASE RejoinDropsReason
  <2>1. /\ pc = "rejoin_drop" /\ UNCHANGED <<marker, owed, forfeited>>
        /\ SourcesOf(cfg'.pending) = SourcesOf(cfg.pending) \ {SourceDirectoryRejoin}
    BY <1>13, DropSources DEF RejoinDropsReason, TypeOK, Config
  <2>2. ~Latchable(marker)
    BY <2>1 DEF MarkerInv, Latchable
  <2> QED
    BY <2>1, <2>2 DEF AllHeld, Held, Latchable, Asking
<1>14. CASE NothingPending
  BY <1>14 DEF NothingPending, AllHeld, Held, Latchable, Asking
<1>15. CASE UsersUnknown
  BY <1>15 DEF UsersUnknown, AllHeld, Held, Latchable, Asking
<1>16. CASE \E find \in NetbootAnswers : AllWithheld(find)
  <2> PICK find \in NetbootAnswers : AllWithheld(find)
    BY <1>16
  <2>1. /\ pc = "coordinate" /\ UNCHANGED <<marker, owed, forfeited>>
        /\ cfg'.pending = Withheld(Authorized(cfg.pending, marker), find)
        /\ ToActOn(Authorized(cfg.pending, marker), find) = {}
    BY DEF AllWithheld, TypeOK, Config
  <2> DEFINE pending == Authorized(cfg.pending, marker)
  <2>2. ToActOn(pending, find) \cup Withheld(pending, find) = pending
    BY PlanDivides
  <2>3. cfg'.pending = pending
    BY <2>1, <2>2
  <2>4. \A s : s \in SourcesOf(pending) <=>
          s \in SourcesOf(cfg.pending) /\ (s = SourceDirectoryRejoin => Latchable(marker))
    BY AuthorizedSources
  <2> HIDE DEF pending
  <2> QED
    BY <2>1, <2>3, <2>4 DEF AllHeld, Held, Latchable, Asking
<1>17. CASE \E find \in NetbootAnswers : Deferred(find)
  BY <1>17 DEF Deferred, AllHeld, Held, Latchable, Asking
<1>18. CASE \E find \in NetbootAnswers, loggedIn \in 0..1 : Decided(find, loggedIn)
  BY <1>18 DEF Decided, AllHeld, Held, Latchable, Asking
<1>19. CASE ClaimLatch
  <2>1. /\ pc = "claim" /\ pc' = "persist" /\ plan'.act = plan.act
        /\ UNCHANGED <<cfg, owed, forfeited>>
    BY <1>19 DEF ClaimLatch, TypeOK, Plan
  <2>2. SourceDirectoryRejoin \in SourcesOf(plan.act)
    BY <2>1 DEF PlanInv, Rejoins
  <2> QED
    BY <2>1, <2>2 DEF AllHeld, Held, Asking
<1>20. CASE \E wrote \in BOOLEAN : ClaimLatchFails(wrote)
  <2> PICK wrote \in BOOLEAN : ClaimLatchFails(wrote)
    BY <1>20
  <2>1. /\ pc = "claim" /\ pc' = Idle /\ UNCHANGED <<cfg, owed>>
        /\ wrote => SourceDirectoryRejoin \in forfeited'
        /\ forfeited \subseteq forfeited'
        /\ ~wrote => marker'.phase = marker.phase /\ ~marker'.requested
    BY DEF ClaimLatchFails, TypeOK, Marker
  <2>2. SourcesOf(plan.act) \subseteq SourcesOf(cfg.pending) /\ Latchable(marker)
    BY <2>1 DEF PlanInv, SourcesOf, Latchable
  <2> QED
    BY <2>1, <2>2 DEF AllHeld, Held, Latchable, Asking
<1>21. CASE Persist
  <2>1. /\ pc = "persist" /\ pc' \in {"arm", "execute"} /\ cfg'.pending = plan.withheld
        /\ UNCHANGED <<plan, marker, owed>> /\ UNCHANGED forfeited
    BY <1>21 DEF Persist, Asked
  <2>2. ASSUME NEW s \in owed' \ forfeited'
        PROVE  Held(s)'
    <3>1. s \in owed \ forfeited
      BY <2>1, <2>2
    <3>2. s \in SourcesOf(plan.act) \/ (s = SourceTask /\ s \in SourcesOf(plan.withheld))
      BY <2>1, <3>1, PlanCovers DEF AllHeld, Held, Asking
    <3> QED
      BY <2>1, <3>1, <3>2 DEF Held, Asking
  <2> QED
    BY <2>2 DEF AllHeld
<1>22. CASE PersistFails
  <2>1. /\ pc = "persist" /\ pc' \in {"unsaved"} /\ cfg'.pending = plan.withheld
        /\ UNCHANGED <<plan, marker, owed>> /\ forfeited' = forfeited \cup (owed \cap SourcesOf(plan.act))
    BY <1>22 DEF PersistFails, Asked
  <2>2. ASSUME NEW s \in owed' \ forfeited'
        PROVE  Held(s)'
    <3>1. s \in owed \ forfeited
      BY <2>1, <2>2
    <3>2. s \in SourcesOf(plan.act) \/ (s = SourceTask /\ s \in SourcesOf(plan.withheld))
      BY <2>1, <3>1, PlanCovers DEF AllHeld, Held, Asking
    <3> QED
      BY <2>1, <3>1, <3>2 DEF Held, Asking
  <2> QED
    BY <2>2 DEF AllHeld
<1>23. CASE UnsavedReleases
  <2>1. /\ pc = "unsaved" /\ pc' = Idle /\ UNCHANGED <<cfg, owed, forfeited>>
        /\ Latchable(marker) => Latchable(marker')
    BY <1>23 DEF UnsavedReleases, Released, Latchable, TypeOK, Marker
  <2> QED
    BY <2>1 DEF AllHeld, Held, Asking
<1>24. CASE Arm
  <2>1. /\ pc = "arm" /\ pc' \in {"execute"} /\ plan'.act = plan.act
        /\ UNCHANGED <<cfg, marker, owed, forfeited>>
    BY <1>24 DEF Arm, TypeOK, Plan
  <2> QED
    BY <2>1 DEF AllHeld, Held, Latchable, Asking
<1>25. CASE ArmFails
  <2>1. /\ pc = "arm" /\ pc' \in {"unlatch"} /\ plan'.act = plan.act
        /\ UNCHANGED <<cfg, marker, owed, forfeited>>
    BY <1>25 DEF ArmFails, TypeOK, Plan
  <2> QED
    BY <2>1 DEF AllHeld, Held, Latchable, Asking
<1>26. CASE Execute
  BY <1>26 DEF Execute, AllHeld, Held, Latchable, Asking
<1>27. CASE ExecuteRefused
  <2>1. /\ pc = "execute" /\ pc' \in {"unlatch"} /\ plan'.act = plan.act
        /\ UNCHANGED <<cfg, marker, owed, forfeited>>
    BY <1>27 DEF ExecuteRefused, TypeOK, Plan
  <2> QED
    BY <2>1 DEF AllHeld, Held, Latchable, Asking
<1>28. CASE Unlatch
  <2>1. /\ pc = "unlatch" /\ pc' \in {"disarm", "restore"}
        /\ UNCHANGED <<cfg, plan, owed, forfeited>>
        /\ Latchable(marker) => Latchable(marker')
    BY <1>28 DEF Unlatch, Released, Latchable, TypeOK, Marker
  <2> QED
    BY <2>1 DEF AllHeld, Held, Asking
<1>29. CASE UnlatchFails
  BY <1>29 DEF UnlatchFails, AllHeld, Held, Latchable, Asking
<1>30. CASE Disarm
  <2>1. /\ pc = "disarm" /\ pc' \in {"restore"} /\ plan'.act = plan.act
        /\ UNCHANGED <<cfg, marker, owed, forfeited>>
    BY <1>30 DEF Disarm, TypeOK, Plan
  <2> QED
    BY <2>1 DEF AllHeld, Held, Latchable, Asking
<1>31. CASE DisarmFails
  <2>1. /\ pc = "disarm" /\ pc' \in {"restore"} /\ plan'.act = plan.act
        /\ UNCHANGED <<cfg, marker, owed, forfeited>>
    BY <1>31 DEF DisarmFails, TypeOK, Plan
  <2> QED
    BY <2>1 DEF AllHeld, Held, Latchable, Asking
<1>32. CASE Restore
  <2>1. /\ pc = "restore" /\ pc' = Idle
        /\ SourcesOf(cfg'.pending) = SourcesOf(plan.withheld) \cup SourcesOf(plan.act)
        /\ UNCHANGED <<marker, owed, forfeited>>
    BY <1>32, UnionSources DEF Restore, Restored
  <2>2. /\ cfg.pending = plan.withheld
        /\ SourceDirectoryRejoin \in SourcesOf(plan.act) => Latchable(marker)
    BY <2>1 DEF PlanInv, InPlan, Asking, Rejoins, Latchable
  <2> QED
    BY <2>1, <2>2 DEF AllHeld, Held, Latchable, Asking
<1>33. CASE Crash
  <2>1. /\ cfg' = disk /\ UNCHANGED owed
        /\ forfeited' = forfeited \cup (owed \ SourcesOf(Authorized(disk.pending, marker)))
        /\ Latchable(marker) => Latchable(marker')
    BY <1>33 DEF Crash, Restarted, Latchable, TypeOK, Marker
  <2>2. \A s : s \in SourcesOf(Authorized(disk.pending, marker)) =>
          s \in SourcesOf(disk.pending) /\ (s = SourceDirectoryRejoin => Latchable(marker))
    BY AuthorizedSources
  <2> QED
    BY <2>1, <2>2 DEF AllHeld, Held
<1>34. CASE Boot
  <2>1. /\ cfg' = disk /\ UNCHANGED owed
        /\ forfeited' = forfeited \cup (owed \ SourcesOf(Authorized(disk.pending, marker)))
        /\ Latchable(marker) => Latchable(marker')
    BY <1>34 DEF Boot, Restarted, Latchable, TypeOK, Marker
  <2>2. \A s : s \in SourcesOf(Authorized(disk.pending, marker)) =>
          s \in SourcesOf(disk.pending) /\ (s = SourceDirectoryRejoin => Latchable(marker))
    BY AuthorizedSources
  <2> QED
    BY <2>1, <2>2 DEF AllHeld, Held
<1>35. CASE CliLoad
  BY <1>35 DEF CliLoad, AllHeld, Held, Latchable, Asking
<1>36. CASE CliSave
  BY <1>36 DEF CliSave, AllHeld, Held, Latchable, Asking
<1>37. CASE UNCHANGED vars
  BY <1>37 DEF vars, AllHeld, Held, Latchable, Asking
<1> QED
  BY <1>1, <1>2, <1>3, <1>4, <1>5, <1>6, <1>7, <1>8, <1>9, <1>10, <1>11, <1>12, <1>13, <1>14, <1>15, <1>16, <1>17, <1>18, <1>19, <1>20, <1>21, <1>22, <1>23, <1>24, <1>25, <1>26, <1>27, <1>28, <1>29, <1>30, <1>31, <1>32, <1>33, <1>34, <1>35, <1>36, <1>37
  DEF Next, ServerStep, Record, Coordinate

------------------------------------------------------------------------------
\* BootNext.

\* Every step keeps the meaning of BootNext.
LEMMA BootStep ==
    ASSUME TypeOK, PlanInv, BootInv, [Next]_vars
    PROVE  BootInv'
<1> USE DEF Idle, agentVars, envVars, history
<1>1. CASE \E force \in BOOLEAN : ServerQueuesTask(force)
  BY <1>1 DEF ServerQueuesTask, BootInv
<1>2. CASE ServerCancelsTask
  BY <1>2 DEF ServerCancelsTask, BootInv
<1>3. CASE \E s \in Commanders, mode \in Modes : ServerOrders(s, mode)
  BY <1>3 DEF ServerOrders, BootInv
<1>4. CASE Poll
  BY <1>4 DEF Poll, BootInv
<1>5. CASE \E reported \in Reports, landed \in BOOLEAN : Reconcile(reported, landed)
  BY <1>5 DEF Reconcile, BootInv
<1>6. CASE \E p \in Providers : Drift(p)
  BY <1>6 DEF Drift, BootInv
<1>7. CASE ReconcileSave
  BY <1>7 DEF ReconcileSave, BootInv
<1>8. CASE \E mode \in Modes : SourcePower \in Commanders /\ ScheduleFires(mode)
  BY <1>8 DEF ScheduleFires, BootInv
<1>9. CASE ScheduleSave
  BY <1>9 DEF ScheduleSave, BootInv
<1>10. CASE RejoinAwaitsReboot
  BY <1>10 DEF RejoinAwaitsReboot, BootInv
<1>11. CASE \E force \in BOOLEAN : RejoinRecordsReason(force)
  BY <1>11 DEF RejoinRecordsReason, BootInv
<1>12. CASE RejoinVerified
  BY <1>12 DEF RejoinVerified, BootInv
<1>13. CASE RejoinDropsReason
  BY <1>13 DEF RejoinDropsReason, BootInv
<1>14. CASE NothingPending
  BY <1>14 DEF NothingPending, BootInv
<1>15. CASE UsersUnknown
  BY <1>15 DEF UsersUnknown, BootInv
<1>16. CASE \E find \in NetbootAnswers : AllWithheld(find)
  BY <1>16 DEF AllWithheld, BootInv
<1>17. CASE \E find \in NetbootAnswers : Deferred(find)
  BY <1>17 DEF Deferred, BootInv
<1>18. CASE \E find \in NetbootAnswers, loggedIn \in 0..1 : Decided(find, loggedIn)
  <2> PICK find \in NetbootAnswers, loggedIn \in 0..1 : Decided(find, loggedIn)
    BY <1>18
  <2> DEFINE pending == Authorized(cfg.pending, marker)
             act == ToActOn(pending, find)
  <2>1. /\ pc = "coordinate" /\ pc' \in {"claim", "persist"}
        /\ plan'.act = act /\ plan'.find = find
        /\ plan'.arming <=> HasTaskReason(pending) /\ find = "found"
        /\ UNCHANGED <<bootNext, os, left>>
    BY DEF Decided
  <2>2. HasTaskReason(act) =>
          HasTaskReason(pending) /\ find \in FindResults \ {"no_option"}
    BY PlanDivides DEF NetbootAnswers, withholdsTask
  <2> HIDE DEF pending, act
  <2> QED
    BY <2>1, <2>2 DEF BootInv
<1>19. CASE ClaimLatch
  <2>1. /\ pc = "claim" /\ pc' = "persist" /\ plan'.act = plan.act
        /\ plan'.find = plan.find /\ plan'.arming = plan.arming
        /\ UNCHANGED <<bootNext, os, left>>
    BY <1>19 DEF ClaimLatch, TypeOK, Plan
  <2> QED
    BY <2>1 DEF BootInv
<1>20. CASE \E wrote \in BOOLEAN : ClaimLatchFails(wrote)
  BY <1>20 DEF ClaimLatchFails, BootInv, NoPlan, HasTaskReason
<1>21. CASE Persist
  BY <1>21 DEF Persist, BootInv, HasTaskReason
<1>22. CASE PersistFails
  BY <1>22 DEF PersistFails, BootInv, HasTaskReason
<1>23. CASE UnsavedReleases
  BY <1>23 DEF UnsavedReleases, BootInv, NoPlan, HasTaskReason
<1>24. CASE Arm
  BY <1>24 DEF Arm, BootInv
<1>25. CASE ArmFails
  <2>1. /\ pc = "arm" /\ pc' = "unlatch" /\ plan'.act = plan.act
        /\ plan'.find = plan.find /\ ~plan'.arming
        /\ UNCHANGED <<bootNext, os, left>>
    BY <1>25 DEF ArmFails, TypeOK, Plan
  <2> QED
    BY <2>1 DEF BootInv
<1>26. CASE Execute
  <2>1. os' # "up"
    BY <1>26 DEF Execute, TypeOK, Plan, Modes, ModeReboot, ModeShutdown
  <2> QED
    BY <1>26, <2>1 DEF Execute, BootInv, NoPlan, HasTaskReason
<1>27. CASE ExecuteRefused
  BY <1>27 DEF ExecuteRefused, BootInv, HasTaskReason
<1>28. CASE Unlatch
  BY <1>28 DEF Unlatch, BootInv, HasTaskReason
<1>29. CASE UnlatchFails
  BY <1>29 DEF UnlatchFails, BootInv, NoPlan, HasTaskReason
<1>30. CASE Disarm
  BY <1>30 DEF Disarm, BootInv, HasTaskReason
<1>31. CASE DisarmFails
  BY <1>31 DEF DisarmFails, BootInv, HasTaskReason
<1>32. CASE Restore
  BY <1>32 DEF Restore, BootInv, NoPlan, HasTaskReason
<1>33. CASE Crash
  BY <1>33 DEF Crash, Restarted, BootInv, NoPlan, HasTaskReason
<1>34. CASE Boot
  BY <1>34 DEF Boot, Restarted, BootInv, NoPlan, HasTaskReason
<1>35. CASE CliLoad
  BY <1>35 DEF CliLoad, BootInv
<1>36. CASE CliSave
  BY <1>36 DEF CliSave, BootInv
<1>37. CASE UNCHANGED vars
  BY <1>37 DEF vars, BootInv
<1> QED
  BY <1>1, <1>2, <1>3, <1>4, <1>5, <1>6, <1>7, <1>8, <1>9, <1>10, <1>11, <1>12, <1>13, <1>14, <1>15, <1>16, <1>17, <1>18, <1>19, <1>20, <1>21, <1>22, <1>23, <1>24, <1>25, <1>26, <1>27, <1>28, <1>29, <1>30, <1>31, <1>32, <1>33, <1>34, <1>35, <1>36, <1>37
  DEF Next, ServerStep, Record, Coordinate

------------------------------------------------------------------------------
\* Memory and disk.

\* Every step that changes the config in memory ends, sooner or later, in a
\* write of it.
LEMMA DurableStep ==
    ASSUME DurableInv, PlanInv, [Next]_vars
    PROVE  DurableInv'
<1> USE DEF Idle, agentVars, envVars, history, DurableInv, SaveConfig, SaveConfigFails
<1>1. CASE \E force \in BOOLEAN : ServerQueuesTask(force)
  BY <1>1 DEF ServerQueuesTask
<1>2. CASE ServerCancelsTask
  BY <1>2 DEF ServerCancelsTask
<1>3. CASE \E s \in Commanders, mode \in Modes : ServerOrders(s, mode)
  BY <1>3 DEF ServerOrders
<1>4. CASE Poll
  BY <1>4 DEF Poll
<1>5. CASE \E reported \in Reports, landed \in BOOLEAN : Reconcile(reported, landed)
  BY <1>5 DEF Reconcile
<1>6. CASE \E p \in Providers : Drift(p)
  BY <1>6 DEF Drift
<1>7. CASE ReconcileSave
  BY <1>7 DEF ReconcileSave
<1>8. CASE \E mode \in Modes : SourcePower \in Commanders /\ ScheduleFires(mode)
  BY <1>8 DEF ScheduleFires
<1>9. CASE ScheduleSave
  BY <1>9 DEF ScheduleSave
<1>10. CASE RejoinAwaitsReboot
  BY <1>10 DEF RejoinAwaitsReboot
<1>11. CASE \E force \in BOOLEAN : RejoinRecordsReason(force)
  BY <1>11 DEF RejoinRecordsReason
<1>12. CASE RejoinVerified
  BY <1>12 DEF RejoinVerified
<1>13. CASE RejoinDropsReason
  BY <1>13 DEF RejoinDropsReason
<1>14. CASE NothingPending
  BY <1>14 DEF NothingPending
<1>15. CASE UsersUnknown
  BY <1>15 DEF UsersUnknown
<1>16. CASE \E find \in NetbootAnswers : AllWithheld(find)
  BY <1>16 DEF AllWithheld
<1>17. CASE \E find \in NetbootAnswers : Deferred(find)
  BY <1>17 DEF Deferred
<1>18. CASE \E find \in NetbootAnswers, loggedIn \in 0..1 : Decided(find, loggedIn)
  BY <1>18 DEF Decided
<1>19. CASE ClaimLatch
  BY <1>19 DEF ClaimLatch
<1>20. CASE \E wrote \in BOOLEAN : ClaimLatchFails(wrote)
  BY <1>20 DEF ClaimLatchFails
<1>21. CASE Persist
  BY <1>21 DEF Persist
<1>22. CASE PersistFails
  BY <1>22 DEF PersistFails
<1>23. CASE UnsavedReleases
  BY <1>23 DEF UnsavedReleases
<1>24. CASE Arm
  BY <1>24 DEF Arm
<1>25. CASE ArmFails
  BY <1>25 DEF ArmFails
<1>26. CASE Execute
  BY <1>26 DEF Execute
<1>27. CASE ExecuteRefused
  BY <1>27 DEF ExecuteRefused
<1>28. CASE Unlatch
  BY <1>28 DEF Unlatch
<1>29. CASE UnlatchFails
  BY <1>29 DEF UnlatchFails
<1>30. CASE Disarm
  BY <1>30 DEF Disarm
<1>31. CASE DisarmFails
  BY <1>31 DEF DisarmFails
<1>32. CASE Restore
  BY <1>32 DEF Restore
<1>33. CASE Crash
  BY <1>33 DEF Crash, Restarted
<1>34. CASE Boot
  BY <1>34 DEF Boot, Restarted
<1>35. CASE CliLoad
  BY <1>35 DEF CliLoad
<1>36. CASE CliSave
  BY <1>36 DEF CliSave
<1>37. CASE UNCHANGED vars
  BY <1>37 DEF vars
<1> QED
  BY <1>1, <1>2, <1>3, <1>4, <1>5, <1>6, <1>7, <1>8, <1>9, <1>10, <1>11, <1>12, <1>13, <1>14, <1>15, <1>16, <1>17, <1>18, <1>19, <1>20, <1>21, <1>22, <1>23, <1>24, <1>25, <1>26, <1>27, <1>28, <1>29, <1>30, <1>31, <1>32, <1>33, <1>34, <1>35, <1>36, <1>37
  DEF Next, ServerStep, Record, Coordinate

------------------------------------------------------------------------------
\* Once per task.

LEMMA KnownSubset ==
    ASSUME NEW A, NEW B, NEW next, A \subseteq B, TasksKnown(B, next)
    PROVE  TasksKnown(A, next)
BY DEF TasksKnown, OnePerSource, TasksOf

LEMMA KnownMerge ==
    ASSUME NEW A, NEW r, NEW next, TasksKnown(A, next),
           r.source = SourceTask => r.task \in TaskIds /\ r.task < next
    PROVE  TasksKnown(Merge(A, r), next)
<1>1. OnePerSource(Merge(A, r))
  BY DEF TasksKnown, OnePerSource, Merge, Drop
<1>2. ASSUME NEW u \in TasksOf(Merge(A, r))
      PROVE  u \in TaskIds /\ u < next
  <2>1. u \in TasksOf(A) \/ (r.source = SourceTask /\ u = r.task)
    BY <1>2 DEF TasksOf, Merge, Drop
  <2> QED
    BY <2>1 DEF TasksKnown
<1> QED
  BY <1>1, <1>2 DEF TasksKnown

\* A report is merged like any other reason.
LEMMA ReportMerged ==
    ASSUME NEW reported \in Reports, NEW told
    PROVE  LET after == {r \in told : r.source \notin SourcesOf(reported)} \cup reported
           IN  \/ after = told
               \/ \E p \in Providers, force \in BOOLEAN :
                     after = Merge(told, ProviderReason(p, force))
<1> DEFINE after == {r \in told : r.source \notin SourcesOf(reported)} \cup reported
<1>1. CASE reported = {}
  BY <1>1 DEF SourcesOf
<1>2. CASE reported # {}
  <2>1. PICK p \in Providers, force \in BOOLEAN : reported = {ProviderReason(p, force)}
    BY <1>2 DEF Reports
  <2>2. SourcesOf(reported) = {ProviderReason(p, force).source}
    BY <2>1 DEF SourcesOf
  <2>3. after = Merge(told, ProviderReason(p, force))
    BY <2>1, <2>2 DEF Merge, Drop
  <2> QED
    BY <2>3
<1> QED
  BY <1>1, <1>2

\* Every step keeps the lists of reasons well formed.
LEMMA KnownStep ==
    ASSUME TypeOK, PlanInv, KnownInv, [Next]_vars
    PROVE  KnownInv'
<1> USE DEF Idle, agentVars, envVars, history
<1>0. TasksKnown({}, server.next) /\ TasksKnown(NoPlan.act \cup NoPlan.withheld, server.next)
      /\ ~HasTaskReason(NoPlan.act)
  BY DEF TasksKnown, OnePerSource, TasksOf, NoPlan, HasTaskReason
<1>1. CASE \E force \in BOOLEAN : ServerQueuesTask(force)
  <2> PICK force \in BOOLEAN : ServerQueuesTask(force)
    BY <1>1
  <2>1. /\ server.next \in Nat /\ server'.next = server.next + 1
        /\ server'.task = server.next
        /\ UNCHANGED <<cfg, disk, cli, plan, pc>>
    BY RebootConstants DEF ServerQueuesTask, TypeOK, Server
  <2>2. \A A : TasksKnown(A, server.next) => TasksKnown(A, server'.next)
    BY <2>1, RebootConstants DEF TasksKnown, TaskIds
  <2> QED
    BY <2>1, <2>2 DEF KnownInv
<1>2. CASE ServerCancelsTask
  BY <1>2 DEF ServerCancelsTask, KnownInv, TypeOK, Server
<1>3. CASE \E s \in Commanders, mode \in Modes : ServerOrders(s, mode)
  BY <1>3 DEF ServerOrders, KnownInv, TypeOK, Server
<1>4. CASE Poll
  BY <1>4 DEF Poll, KnownInv, InPlan, Asking, SaveConfig, SaveConfigFails
<1>5. CASE \E reported \in Reports, landed \in BOOLEAN : Reconcile(reported, landed)
  <2> PICK reported \in Reports, landed \in BOOLEAN : Reconcile(reported, landed)
    BY <1>5
  <2> DEFINE told == Ordered(TaskReboot(cfg), landed)
             after == {r \in told : r.source \notin SourcesOf(reported)} \cup reported
  <2>1. /\ pc = Idle /\ pc' = "reconcile" /\ cfg'.pending = after
        /\ server'.task = server.task /\ server'.next = server.next
        /\ UNCHANGED <<disk, cli, plan>>
    BY DEF Reconcile, TypeOK, Config, Server
  <2>2. server.task # NoTask => server.task \in TaskIds /\ server.task < server.next
    BY RebootConstants DEF KnownInv, TypeOK, Server, TaskIds, NoTask
  <2>3. TasksKnown(TaskReboot(cfg), server.next)
    <3>1. TasksKnown(Drop(cfg.pending, SourceTask), server.next)
      BY KnownSubset DEF KnownInv, Drop
    <3>2. server.task # NoTask =>
            TasksKnown(Merge(cfg.pending, TaskReason(server.task, server.force)), server.next)
      BY <2>2, KnownMerge DEF KnownInv, TaskReason
    <3> QED
      BY <3>1, <3>2 DEF TaskReboot
  <2>4. TasksKnown(told, server.next)
    <3>1. OrderTaken(landed) => server.order.source # SourceTask
      BY RebootConstants
      DEF OrderTaken, TypeOK, Server, SourceTask, SourcePower, SourceSnapin
    <3> QED
      BY <2>3, <3>1, KnownMerge DEF Ordered, PowerReason
  <2>5. \A p \in Providers, force \in BOOLEAN :
          TasksKnown(Merge(told, ProviderReason(p, force)), server.next)
    BY <2>4, KnownMerge, RebootConstants DEF ProviderReason
  <2> HIDE DEF told
  <2>6. \/ after = told
        \/ \E p \in Providers, force \in BOOLEAN :
              after = Merge(told, ProviderReason(p, force))
    BY ReportMerged
  <2> HIDE DEF after
  <2>7. TasksKnown(after, server.next)
    BY <2>4, <2>5, <2>6
  <2> QED
    BY <2>1, <2>7 DEF KnownInv, InPlan, Asking
<1>6. CASE \E p \in Providers : Drift(p)
  <2> PICK p \in Providers : Drift(p)
    BY <1>6
  <2>1. TasksKnown(Merge(cfg.pending, ProviderReason(p, FALSE)), server.next)
    BY KnownMerge, RebootConstants DEF KnownInv, ProviderReason
  <2>2. cfg'.pending = Merge(cfg.pending, ProviderReason(p, FALSE))
    BY DEF Drift, TypeOK, Config
  <2> QED
    BY <2>1, <2>2 DEF Drift, KnownInv, InPlan, Asking, SaveConfig, SaveConfigFails
<1>7. CASE ReconcileSave
  BY <1>7 DEF ReconcileSave, KnownInv, InPlan, Asking, SaveConfig, SaveConfigFails
<1>8. CASE \E mode \in Modes : SourcePower \in Commanders /\ ScheduleFires(mode)
  <2> PICK mode \in Modes : SourcePower \in Commanders /\ ScheduleFires(mode)
    BY <1>8
  <2>1. TasksKnown(Merge(cfg.pending, PowerReason(SourcePower, mode)), server.next)
    BY KnownMerge, RebootConstants DEF KnownInv, PowerReason, SourcePower, SourceTask
  <2>2. cfg'.pending = Merge(cfg.pending, PowerReason(SourcePower, mode))
    BY DEF ScheduleFires, TypeOK, Config
  <2> QED
    BY <2>1, <2>2 DEF ScheduleFires, KnownInv, InPlan, Asking, SaveConfig, SaveConfigFails
<1>9. CASE ScheduleSave
  BY <1>9 DEF ScheduleSave, KnownInv, InPlan, Asking, SaveConfig, SaveConfigFails
<1>10. CASE RejoinAwaitsReboot
  BY <1>10 DEF RejoinAwaitsReboot, KnownInv, InPlan, Asking, SaveConfig, SaveConfigFails
<1>11. CASE \E force \in BOOLEAN : RejoinRecordsReason(force)
  <2> PICK force \in BOOLEAN : RejoinRecordsReason(force)
    BY <1>11
  <2>1. TasksKnown(Merge(cfg.pending, RejoinReason(force)), server.next)
    BY KnownMerge, RebootConstants DEF KnownInv, RejoinReason, SourceDirectoryRejoin, SourceTask
  <2>2. cfg'.pending = Merge(cfg.pending, RejoinReason(force))
    BY DEF RejoinRecordsReason, TypeOK, Config
  <2> QED
    BY <2>1, <2>2 DEF RejoinRecordsReason, KnownInv, InPlan, Asking, SaveConfig, SaveConfigFails
<1>12. CASE RejoinVerified
  BY <1>12 DEF RejoinVerified, KnownInv, InPlan, Asking, SaveConfig, SaveConfigFails
<1>13. CASE RejoinDropsReason
  <2>1. TasksKnown(Drop(cfg.pending, SourceDirectoryRejoin), server.next)
    BY KnownSubset DEF KnownInv, Drop
  <2>2. cfg'.pending = Drop(cfg.pending, SourceDirectoryRejoin)
    BY <1>13 DEF RejoinDropsReason, TypeOK, Config
  <2> QED
    BY <1>13, <2>1, <2>2 DEF RejoinDropsReason, KnownInv, InPlan, Asking, SaveConfig, SaveConfigFails
<1>14. CASE NothingPending
  BY <1>14 DEF NothingPending, KnownInv, InPlan, Asking, SaveConfig, SaveConfigFails
<1>15. CASE UsersUnknown
  BY <1>15 DEF UsersUnknown, KnownInv, InPlan, Asking, SaveConfig, SaveConfigFails
<1>16. CASE \E find \in NetbootAnswers : AllWithheld(find)
  <2> PICK find \in NetbootAnswers : AllWithheld(find)
    BY <1>16
  <2>1. cfg'.pending \subseteq cfg.pending
    BY DEF AllWithheld, Withheld, Authorized, TypeOK, Config
  <2>2. TasksKnown(cfg'.pending, server.next)
    BY <2>1, KnownSubset DEF KnownInv
  <2> QED
    BY <2>2 DEF AllWithheld, KnownInv, InPlan, Asking, SaveConfig, SaveConfigFails
<1>17. CASE \E find \in NetbootAnswers : Deferred(find)
  BY <1>17 DEF Deferred, KnownInv, InPlan, Asking, SaveConfig, SaveConfigFails
<1>18. CASE \E find \in NetbootAnswers, loggedIn \in 0..1 : Decided(find, loggedIn)
  <2> PICK find \in NetbootAnswers, loggedIn \in 0..1 : Decided(find, loggedIn)
    BY <1>18
  <2> DEFINE pending == Authorized(cfg.pending, marker)
  <2>1. /\ plan'.act = ToActOn(pending, find) /\ plan'.withheld = Withheld(pending, find)
        /\ pc' \in {"claim", "persist"}
        /\ UNCHANGED <<cfg, disk, cli, server>>
    BY DEF Decided
  <2>2. pending \subseteq cfg.pending
    BY DEF Authorized
  <2> HIDE DEF pending
  <2>3. plan'.act \cup plan'.withheld = pending
    BY <2>1, PlanDivides
  <2>4. TasksKnown(plan'.act \cup plan'.withheld, server.next)
    BY <2>2, <2>3, KnownSubset DEF KnownInv
  <2>5. HasTaskReason(plan'.act) => plan'.withheld = {}
    BY <2>1, PlanDivides
  <2> QED
    BY <2>1, <2>4, <2>5 DEF KnownInv
<1>19. CASE ClaimLatch
  <2>1. plan'.act = plan.act /\ plan'.withheld = plan.withheld
    BY <1>19 DEF ClaimLatch, TypeOK, Plan
  <2> QED
    BY <1>19, <2>1 DEF ClaimLatch, KnownInv, InPlan, Asking
<1>20. CASE \E wrote \in BOOLEAN : ClaimLatchFails(wrote)
  BY <1>20, <1>0 DEF ClaimLatchFails, KnownInv, InPlan, Asking
<1>21. CASE Persist
  <2>1. TasksKnown(plan.withheld, server.next)
    BY KnownSubset DEF KnownInv
  <2>2. HasTaskReason(plan.act) => Asked.rebootedFor \in TasksOf(plan.act)
    BY DEF Asked, HasTaskReason, TasksOf
  <2>3. Asked.pending = plan.withheld
    BY DEF Asked
  <2> QED
    BY <1>21, <2>1, <2>2, <2>3 DEF Persist, KnownInv, SaveConfig, SaveConfigFails
<1>22. CASE PersistFails
  <2>1. TasksKnown(plan.withheld, server.next)
    BY KnownSubset DEF KnownInv
  <2>2. HasTaskReason(plan.act) => Asked.rebootedFor \in TasksOf(plan.act)
    BY DEF Asked, HasTaskReason, TasksOf
  <2>3. Asked.pending = plan.withheld
    BY DEF Asked
  <2> QED
    BY <1>22, <2>1, <2>2, <2>3 DEF PersistFails, KnownInv, SaveConfig, SaveConfigFails
<1>23. CASE UnsavedReleases
  BY <1>23, <1>0 DEF UnsavedReleases, KnownInv, InPlan, Asking
<1>24. CASE Arm
  BY <1>24 DEF Arm, KnownInv, InPlan, Asking, SaveConfig, SaveConfigFails
<1>25. CASE ArmFails
  <2>1. plan'.act = plan.act /\ plan'.withheld = plan.withheld
    BY <1>25 DEF ArmFails, TypeOK, Plan
  <2> QED
    BY <1>25, <2>1 DEF ArmFails, KnownInv, InPlan, Asking
<1>26. CASE Execute
  BY <1>26, <1>0 DEF Execute, KnownInv, InPlan, Asking
<1>27. CASE ExecuteRefused
  BY <1>27 DEF ExecuteRefused, KnownInv, InPlan, Asking, SaveConfig, SaveConfigFails
<1>28. CASE Unlatch
  BY <1>28 DEF Unlatch, KnownInv, InPlan, Asking, SaveConfig, SaveConfigFails
<1>29. CASE UnlatchFails
  BY <1>29, <1>0 DEF UnlatchFails, KnownInv, InPlan, Asking
<1>30. CASE Disarm
  BY <1>30 DEF Disarm, KnownInv, InPlan, Asking, SaveConfig, SaveConfigFails
<1>31. CASE DisarmFails
  BY <1>31 DEF DisarmFails, KnownInv, InPlan, Asking, SaveConfig, SaveConfigFails
<1>32. CASE Restore
  <2>1. TasksKnown(Restored.pending, server.next)
    BY KnownSubset DEF KnownInv, Restored
  <2> QED
    BY <1>32, <1>0, <2>1 DEF Restore, KnownInv, InPlan, Asking, SaveConfig, SaveConfigFails
<1>33. CASE Crash
  BY <1>33, <1>0 DEF Crash, Restarted, KnownInv, InPlan, Asking
<1>34. CASE Boot
  BY <1>34, <1>0 DEF Boot, Restarted, KnownInv, InPlan, Asking, NoCli, NoConfig
<1>35. CASE CliLoad
  BY <1>35, <1>0 DEF CliLoad, KnownInv, NoCli, NoConfig
<1>36. CASE CliSave
  BY <1>36, <1>0 DEF CliSave, KnownInv, NoCli, NoConfig
<1>37. CASE UNCHANGED vars
  BY <1>37 DEF vars, KnownInv, InPlan, Asking, SaveConfig, SaveConfigFails
<1> QED
  BY <1>1, <1>2, <1>3, <1>4, <1>5, <1>6, <1>7, <1>8, <1>9, <1>10, <1>11, <1>12, <1>13, <1>14, <1>15, <1>16, <1>17, <1>18, <1>19, <1>20, <1>21, <1>22, <1>23, <1>24, <1>25, <1>26, <1>27, <1>28, <1>29, <1>30, <1>31, <1>32, <1>33, <1>34, <1>35, <1>36, <1>37
  DEF Next, ServerStep, Record, Coordinate

\* A config that lost reasons still knows.
LEMMA SettledFewer ==
    ASSUME NEW c, NEW d, NEW t, NEW task, Settled(c, t, task),
           TasksOf(d.pending) \subseteq TasksOf(c.pending), d.rebootedFor = c.rebootedFor
    PROVE  Settled(d, t, task)
BY DEF Settled

LEMMA TasksFewer ==
    ASSUME NEW A, NEW B, A \subseteq B
    PROVE  TasksOf(A) \subseteq TasksOf(B)
BY DEF TasksOf

LEMMA TasksMerged ==
    ASSUME NEW A, NEW r
    PROVE  /\ r.source # SourceTask => TasksOf(Merge(A, r)) \subseteq TasksOf(A)
           /\ r.source = SourceTask => TasksOf(Merge(A, r)) = {r.task}
BY DEF TasksOf, Merge, Drop

\* Every step keeps the record of the tasks restarted for.
LEMMA OnceStep ==
    ASSUME TypeOK, PlanInv, DurableInv, KnownInv, OnceInv, [Next]_vars
    PROVE  OnceInv'
<1> USE DEF Idle, agentVars, envVars, history
<1> SUFFICES ASSUME NEW t \in TaskIds, restarts'[t] > 0, t \notin forgiven'
             PROVE  Remembers(t)'
  BY DEF OnceInv
<1>0. restarts' = restarts /\ forgiven \subseteq forgiven' => Remembers(t)
  BY DEF OnceInv
<1>p. TasksOf(NoPlan.act \cup NoPlan.withheld) = {}
  BY DEF TasksOf, NoPlan
<1>1. CASE \E force \in BOOLEAN : ServerQueuesTask(force)
  <2> PICK force \in BOOLEAN : ServerQueuesTask(force)
    BY <1>1
  <2>1. /\ server.next \in Nat /\ server'.next = server.next + 1
        /\ server'.task = server.next
        /\ UNCHANGED <<cfg, disk, plan, dirty, restarts, forgiven>>
    BY RebootConstants DEF ServerQueuesTask, TypeOK, Server
  <2>2. t < server.next /\ Remembers(t)
    BY <1>0, <2>1 DEF Remembers
  <2>3. t < server'.next /\ server'.task # t
    BY <2>1, <2>2, RebootConstants DEF TaskIds
  <2> QED
    BY <2>1, <2>2, <2>3 DEF Remembers, Settled
<1>2. CASE ServerCancelsTask
  <2>1. /\ server'.task = NoTask /\ server'.next = server.next
        /\ UNCHANGED <<cfg, disk, plan, dirty, restarts, forgiven>>
    BY <1>2 DEF ServerCancelsTask, TypeOK, Server
  <2>2. t # NoTask
    BY RebootConstants DEF TaskIds, NoTask
  <2> QED
    BY <1>0, <2>1, <2>2 DEF Remembers, Settled
<1>3. CASE \E s \in Commanders, mode \in Modes : ServerOrders(s, mode)
  <2>1. /\ server'.task = server.task /\ server'.next = server.next
        /\ UNCHANGED <<cfg, disk, plan, dirty, restarts, forgiven>>
    BY <1>3 DEF ServerOrders, TypeOK, Server
  <2> QED
    BY <1>0, <2>1 DEF Remembers, Settled
<1>4. CASE Poll
  <2>1. /\ (disk' = disk /\ dirty' = dirty) \/ disk' = cfg
        /\ UNCHANGED <<cfg, plan, server, restarts, forgiven>>
    BY <1>4 DEF Poll, SaveConfig
  <2> QED
    BY <1>0, <2>1 DEF Remembers
<1>5. CASE \E reported \in Reports, landed \in BOOLEAN : Reconcile(reported, landed)
  <2> PICK reported \in Reports, landed \in BOOLEAN : Reconcile(reported, landed)
    BY <1>5
  <2> DEFINE told == Ordered(TaskReboot(cfg), landed)
             after == {r \in told : r.source \notin SourcesOf(reported)} \cup reported
  <2>1. /\ cfg'.pending = after /\ cfg'.rebootedFor = cfg.rebootedFor
        /\ server'.task = server.task /\ server'.next = server.next
        /\ UNCHANGED <<disk, plan, dirty, restarts, forgiven>>
    BY DEF Reconcile, TypeOK, Config, Server
  <2>2. Remembers(t)
    BY <1>0, <2>1
  <2>3. ASSUME NEW u \in TasksOf(TaskReboot(cfg)) PROVE u > t
    <3>1. TasksOf(Drop(cfg.pending, SourceTask)) = {}
      BY DEF TasksOf, Drop
    <3>2. server.task # NoTask /\ server.task # cfg.rebootedFor /\ u = server.task
      BY <2>3, <3>1, TasksMerged DEF TaskReboot, TaskReason
    <3>3. server.task = server.next - 1 /\ t < server.next /\ server.task # t
      BY <2>2, <3>2 DEF KnownInv, Remembers, Settled
    <3> QED
      BY <3>2, <3>3, RebootConstants DEF TypeOK, Server, TaskIds
  <2>4. TasksOf(told) \subseteq TasksOf(TaskReboot(cfg))
    <3>1. OrderTaken(landed) => server.order.source # SourceTask
      BY RebootConstants
      DEF OrderTaken, TypeOK, Server, SourceTask, SourcePower, SourceSnapin
    <3> QED
      BY <3>1, TasksMerged DEF Ordered, PowerReason
  <2> HIDE DEF told
  <2>5. \A p \in Providers, force \in BOOLEAN :
          TasksOf(Merge(told, ProviderReason(p, force))) \subseteq TasksOf(told)
    BY TasksMerged, RebootConstants DEF ProviderReason
  <2>6. \/ after = told
        \/ \E p \in Providers, force \in BOOLEAN :
              after = Merge(told, ProviderReason(p, force))
    BY ReportMerged
  <2> HIDE DEF after
  <2>7. TasksOf(after) \subseteq TasksOf(told)
    BY <2>5, <2>6
  <2>8. Settled(cfg', t, server.task)
    BY <2>1, <2>2, <2>3, <2>4, <2>7 DEF Settled, Remembers
  <2> QED
    BY <2>1, <2>2, <2>8 DEF Remembers
<1>6. CASE \E p \in Providers : Drift(p)
  <2> PICK p \in Providers : Drift(p)
    BY <1>6
  <2>1. /\ cfg'.pending = Merge(cfg.pending, ProviderReason(p, FALSE))
        /\ cfg'.rebootedFor = cfg.rebootedFor
    BY DEF Drift, TypeOK, Config
  <2>2. TasksOf(cfg'.pending) \subseteq TasksOf(cfg.pending)
    BY <2>1, TasksMerged, RebootConstants DEF ProviderReason
  <2>3. Remembers(t)
    BY <1>0 DEF Drift
  <2>4. Settled(cfg', t, server.task)
    BY <2>1, <2>2, <2>3, SettledFewer DEF Remembers
  <2> QED
    BY <2>3, <2>4 DEF Drift, Remembers, SaveConfig, SaveConfigFails
<1>7. CASE ReconcileSave
  BY <1>7, <1>0 DEF ReconcileSave, Remembers, SaveConfig, SaveConfigFails
<1>8. CASE \E mode \in Modes : SourcePower \in Commanders /\ ScheduleFires(mode)
  <2> PICK mode \in Modes : SourcePower \in Commanders /\ ScheduleFires(mode)
    BY <1>8
  <2>1. /\ cfg'.pending = Merge(cfg.pending, PowerReason(SourcePower, mode))
        /\ cfg'.rebootedFor = cfg.rebootedFor
    BY DEF ScheduleFires, TypeOK, Config
  <2>2. TasksOf(cfg'.pending) \subseteq TasksOf(cfg.pending)
    BY <2>1, TasksMerged, RebootConstants DEF PowerReason, SourcePower, SourceTask
  <2>3. Remembers(t)
    BY <1>0 DEF ScheduleFires
  <2>4. Settled(cfg', t, server.task)
    BY <2>1, <2>2, <2>3, SettledFewer DEF Remembers
  <2> QED
    BY <2>3, <2>4 DEF ScheduleFires, Remembers, SaveConfig, SaveConfigFails
<1>9. CASE ScheduleSave
  BY <1>9, <1>0 DEF ScheduleSave, Remembers, SaveConfig, SaveConfigFails
<1>10. CASE RejoinAwaitsReboot
  BY <1>10, <1>0 DEF RejoinAwaitsReboot, Remembers, SaveConfig, SaveConfigFails
<1>11. CASE \E force \in BOOLEAN : RejoinRecordsReason(force)
  <2> PICK force \in BOOLEAN : RejoinRecordsReason(force)
    BY <1>11
  <2>1. /\ cfg'.pending = Merge(cfg.pending, RejoinReason(force))
        /\ cfg'.rebootedFor = cfg.rebootedFor
    BY DEF RejoinRecordsReason, TypeOK, Config
  <2>2. TasksOf(cfg'.pending) \subseteq TasksOf(cfg.pending)
    BY <2>1, TasksMerged, RebootConstants DEF RejoinReason, SourceDirectoryRejoin, SourceTask
  <2>3. Remembers(t)
    BY <1>0 DEF RejoinRecordsReason
  <2>4. Settled(cfg', t, server.task)
    BY <2>1, <2>2, <2>3, SettledFewer DEF Remembers
  <2> QED
    BY <2>3, <2>4 DEF RejoinRecordsReason, Remembers, SaveConfig, SaveConfigFails
<1>12. CASE RejoinVerified
  BY <1>12, <1>0 DEF RejoinVerified, Remembers, SaveConfig, SaveConfigFails
<1>13. CASE RejoinDropsReason
  <2>1. cfg'.pending \subseteq cfg.pending /\ cfg'.rebootedFor = cfg.rebootedFor
    BY <1>13 DEF RejoinDropsReason, Drop, TypeOK, Config
  <2>2. TasksOf(cfg'.pending) \subseteq TasksOf(cfg.pending)
    BY <2>1, TasksFewer
  <2>3. Remembers(t)
    BY <1>13, <1>0 DEF RejoinDropsReason
  <2>4. Settled(cfg', t, server.task)
    BY <2>1, <2>2, <2>3, SettledFewer DEF Remembers
  <2> QED
    BY <1>13, <2>3, <2>4 DEF RejoinDropsReason, Remembers, SaveConfig, SaveConfigFails
<1>14. CASE NothingPending
  BY <1>14, <1>0 DEF NothingPending, Remembers, SaveConfig, SaveConfigFails
<1>15. CASE UsersUnknown
  BY <1>15, <1>0 DEF UsersUnknown, Remembers, SaveConfig, SaveConfigFails
<1>16. CASE \E find \in NetbootAnswers : AllWithheld(find)
  <2> PICK find \in NetbootAnswers : AllWithheld(find)
    BY <1>16
  <2>1. cfg'.pending \subseteq cfg.pending /\ cfg'.rebootedFor = cfg.rebootedFor
    BY DEF AllWithheld, Withheld, Authorized, TypeOK, Config
  <2>2. TasksOf(cfg'.pending) \subseteq TasksOf(cfg.pending)
    BY <2>1, TasksFewer
  <2>3. Remembers(t)
    BY <1>0 DEF AllWithheld
  <2>4. Settled(cfg', t, server.task)
    BY <2>1, <2>2, <2>3, SettledFewer DEF Remembers
  <2> QED
    BY <2>3, <2>4 DEF AllWithheld, Remembers, SaveConfig, SaveConfigFails
<1>17. CASE \E find \in NetbootAnswers : Deferred(find)
  <2>1. UNCHANGED <<cfg, disk, dirty, plan, server, restarts, forgiven>>
    BY <1>17 DEF Deferred
  <2> QED
    BY <1>0, <2>1 DEF Remembers
<1>18. CASE \E find \in NetbootAnswers, loggedIn \in 0..1 : Decided(find, loggedIn)
  <2> PICK find \in NetbootAnswers, loggedIn \in 0..1 : Decided(find, loggedIn)
    BY <1>18
  <2> DEFINE pending == Authorized(cfg.pending, marker)
  <2>1. /\ plan'.act = ToActOn(pending, find) /\ plan'.withheld = Withheld(pending, find)
        /\ UNCHANGED <<cfg, disk, dirty, server, restarts, forgiven>>
    BY DEF Decided
  <2>2. pending \subseteq cfg.pending
    BY DEF Authorized
  <2> HIDE DEF pending
  <2>3. plan'.act \cup plan'.withheld \subseteq cfg.pending
    BY <2>1, <2>2, PlanDivides
  <2>4. TasksOf(plan'.act \cup plan'.withheld) \subseteq TasksOf(cfg.pending)
    BY <2>3, TasksFewer
  <2> QED
    BY <1>0, <2>1, <2>4 DEF Remembers, Settled
<1>19. CASE ClaimLatch
  <2>1. plan'.act = plan.act /\ plan'.withheld = plan.withheld
    BY <1>19 DEF ClaimLatch, TypeOK, Plan
  <2> QED
    BY <1>19, <1>0, <2>1 DEF ClaimLatch, Remembers
<1>20. CASE \E wrote \in BOOLEAN : ClaimLatchFails(wrote)
  <2>1. UNCHANGED <<cfg, disk, dirty, server, restarts, forgiven>> /\ plan' = NoPlan
    BY <1>20 DEF ClaimLatchFails
  <2> QED
    BY <1>0, <1>p, <2>1 DEF Remembers
<1>21. CASE Persist
  <2>1. Remembers(t)
    BY <1>21, <1>0 DEF Persist
  <2>2. TasksOf(plan.withheld) \subseteq TasksOf(plan.act \cup plan.withheld)
    BY TasksFewer
  <2>3. HasTaskReason(plan.act) =>
          Asked.rebootedFor \in TasksOf(plan.act \cup plan.withheld)
    BY DEF Asked, HasTaskReason, TasksOf
  <2>4. server.task = t => ~HasTaskReason(plan.act)
    <3> SUFFICES ASSUME server.task = t, HasTaskReason(plan.act) PROVE FALSE
      OBVIOUS
    <3> DEFINE u == Asked.rebootedFor
    <3>1. u \in TaskIds /\ u < server.next /\ u > t
      BY <2>1, <2>3 DEF KnownInv, TasksKnown, Remembers
    <3>2. t # NoTask /\ t = server.next - 1
      BY RebootConstants DEF KnownInv, TaskIds, NoTask
    <3> HIDE DEF u
    <3> QED
      BY <3>1, <3>2, RebootConstants DEF TaskIds, TypeOK, Server
  <2>5. ~HasTaskReason(plan.act) => Asked.rebootedFor = cfg.rebootedFor
    BY DEF Asked
  <2>6. Asked.pending = plan.withheld
    BY DEF Asked
  <2>7. Settled(Asked, t, server.task)
    BY <2>1, <2>2, <2>4, <2>5, <2>6 DEF Settled, Remembers
  <2> QED
    BY <1>21, <2>1, <2>7 DEF Persist, Remembers, SaveConfig, SaveConfigFails
<1>22. CASE PersistFails
  <2>1. Remembers(t)
    BY <1>22, <1>0 DEF PersistFails
  <2>2. TasksOf(plan.withheld) \subseteq TasksOf(plan.act \cup plan.withheld)
    BY TasksFewer
  <2>3. HasTaskReason(plan.act) =>
          Asked.rebootedFor \in TasksOf(plan.act \cup plan.withheld)
    BY DEF Asked, HasTaskReason, TasksOf
  <2>4. server.task = t => ~HasTaskReason(plan.act)
    <3> SUFFICES ASSUME server.task = t, HasTaskReason(plan.act) PROVE FALSE
      OBVIOUS
    <3> DEFINE u == Asked.rebootedFor
    <3>1. u \in TaskIds /\ u < server.next /\ u > t
      BY <2>1, <2>3 DEF KnownInv, TasksKnown, Remembers
    <3>2. t # NoTask /\ t = server.next - 1
      BY RebootConstants DEF KnownInv, TaskIds, NoTask
    <3> HIDE DEF u
    <3> QED
      BY <3>1, <3>2, RebootConstants DEF TaskIds, TypeOK, Server
  <2>5. ~HasTaskReason(plan.act) => Asked.rebootedFor = cfg.rebootedFor
    BY DEF Asked
  <2>6. Asked.pending = plan.withheld
    BY DEF Asked
  <2>7. Settled(Asked, t, server.task)
    BY <2>1, <2>2, <2>4, <2>5, <2>6 DEF Settled, Remembers
  <2> QED
    BY <1>22, <2>1, <2>7 DEF PersistFails, Remembers, SaveConfig, SaveConfigFails
<1>23. CASE UnsavedReleases
  BY <1>23, <1>0, <1>p DEF UnsavedReleases, Remembers
<1>24. CASE Arm
  BY <1>24, <1>0 DEF Arm, Remembers, SaveConfig, SaveConfigFails
<1>25. CASE ArmFails
  <2>1. plan'.act = plan.act /\ plan'.withheld = plan.withheld
    BY <1>25 DEF ArmFails, TypeOK, Plan
  <2> QED
    BY <1>25, <1>0, <2>1 DEF ArmFails, Remembers
<1>26. CASE Execute
  <2>1. /\ pc = "execute" /\ plan' = NoPlan
        /\ UNCHANGED <<cfg, disk, dirty, server, forgiven>>
        /\ restarts'[t] = IF t \in TasksOf(plan.act) /\ restarts[t] < 2
                            THEN restarts[t] + 1 ELSE restarts[t]
    BY <1>26 DEF Execute
  <2>2. TasksOf(plan.act) \subseteq TasksOf(plan.act \cup plan.withheld)
    BY TasksFewer
  <2>3. CASE t \notin TasksOf(plan.act)
    BY <1>p, <2>1, <2>3 DEF OnceInv, Remembers
  <2>4. CASE t \in TasksOf(plan.act)
    <3>1. t \in TaskIds /\ t < server.next
      BY <2>2, <2>4 DEF KnownInv, TasksKnown
    <3>2. restarts[t] = 0
      <4>1. restarts[t] > 0 => t > t
        BY <2>1, <2>2, <2>4 DEF OnceInv, Remembers
      <4> QED
        BY <4>1, RebootConstants DEF TypeOK, TaskIds
    <3>3. HasTaskReason(plan.act)
      BY <2>4 DEF TasksOf, HasTaskReason
    <3>4. plan.withheld = {} /\ cfg.rebootedFor \in TasksOf(plan.act)
      BY <2>1, <3>3 DEF KnownInv, InPlan, Asking
    <3>5. cfg.rebootedFor = t
      BY <2>4, <3>4 DEF KnownInv, TasksKnown, OnePerSource, TasksOf
    <3>6. cfg.pending = {}
      BY <2>1, <3>4 DEF PlanInv, InPlan, Asking
    <3>7. Settled(cfg, t, server.task)
      BY <3>5, <3>6 DEF Settled, TasksOf
    <3>8. ~dirty => disk = cfg
      BY <2>1 DEF DurableInv
    <3>9. restarts'[t] = 1
      BY <2>1, <2>4, <3>2
    <3> QED
      BY <1>p, <2>1, <3>1, <3>7, <3>8, <3>9 DEF Remembers
  <2> QED
    BY <2>3, <2>4
<1>27. CASE ExecuteRefused
  BY <1>27, <1>0 DEF ExecuteRefused, Remembers, SaveConfig, SaveConfigFails
<1>28. CASE Unlatch
  BY <1>28, <1>0 DEF Unlatch, Remembers, SaveConfig, SaveConfigFails
<1>29. CASE UnlatchFails
  BY <1>29, <1>0, <1>p DEF UnlatchFails, Remembers
<1>30. CASE Disarm
  BY <1>30, <1>0 DEF Disarm, Remembers, SaveConfig, SaveConfigFails
<1>31. CASE DisarmFails
  BY <1>31, <1>0 DEF DisarmFails, Remembers, SaveConfig, SaveConfigFails
<1>32. CASE Restore
  <2>1. restarts[t] > 0 /\ t \in forgiven'
    BY <1>32 DEF Restore
  <2> QED
    BY <2>1
<1>33. CASE Crash
  <2>1. /\ ~dirty \/ t \in forgiven'
        /\ plan' = NoPlan /\ cfg' = disk
        /\ UNCHANGED <<disk, server, restarts>> /\ forgiven \subseteq forgiven'
    BY <1>33 DEF Crash, Restarted
  <2> QED
    BY <1>0, <1>p, <2>1 DEF Remembers
<1>34. CASE Boot
  <2>1. /\ ~dirty \/ t \in forgiven'
        /\ plan' = NoPlan /\ cfg' = disk
        /\ UNCHANGED <<disk, server, restarts>> /\ forgiven \subseteq forgiven'
    BY <1>34 DEF Boot, Restarted
  <2> QED
    BY <1>0, <1>p, <2>1 DEF Remembers
<1>35. CASE CliLoad
  BY <1>35, <1>0 DEF CliLoad, Remembers, SaveConfig, SaveConfigFails
<1>36. CASE CliSave
  BY <1>36, <1>0 DEF CliSave, Remembers, SaveConfig, SaveConfigFails
<1>37. CASE UNCHANGED vars
  BY <1>37, <1>0 DEF vars, Remembers, SaveConfig, SaveConfigFails
<1> QED
  BY <1>1, <1>2, <1>3, <1>4, <1>5, <1>6, <1>7, <1>8, <1>9, <1>10, <1>11, <1>12, <1>13, <1>14, <1>15, <1>16, <1>17, <1>18, <1>19, <1>20, <1>21, <1>22, <1>23, <1>24, <1>25, <1>26, <1>27, <1>28, <1>29, <1>30, <1>31, <1>32, <1>33, <1>34, <1>35, <1>36, <1>37
  DEF Next, ServerStep, Record, Coordinate

\* Only an accepted request counts as a restart.
LEMMA RestartsChange ==
    ASSUME [Next]_vars, restarts' # restarts
    PROVE  Execute
BY DEF Next, ServerStep, Record, Coordinate, vars, agentVars, envVars, history,
       ServerQueuesTask, ServerCancelsTask, ServerOrders, Poll, Reconcile, Drift,
       ReconcileSave, ScheduleFires, ScheduleSave, RejoinAwaitsReboot,
       RejoinRecordsReason, RejoinVerified, RejoinDropsReason, NothingPending,
       UsersUnknown, AllWithheld, Deferred, Decided, ClaimLatch, ClaimLatchFails,
       Persist, PersistFails, UnsavedReleases, Arm, ArmFails, ExecuteRefused,
       Unlatch, UnlatchFails, Disarm, DisarmFails, Restore, Crash, Boot,
       Restarted, CliLoad, CliSave

------------------------------------------------------------------------------
\* The theorems.

IInv ==
    /\ TypeOK
    /\ PlanInv
    /\ MarkerInv
    /\ AllHeld
    /\ BootInv
    /\ DurableInv
    /\ KnownInv
    /\ OnceInv

LEMMA InitInv == Init => IInv
<1> SUFFICES ASSUME Init PROVE IInv
  OBVIOUS
<1> USE DEF Init
<1>1. TypeOK
  BY TypeInit
<1>2. PlanInv
  BY DEF PlanInv, InPlan, Asking, Idle, NoPlan, Rejoins, SourcesOf
<1>3. MarkerInv
  BY DEF MarkerInv, Idle
<1>4. AllHeld
  BY DEF AllHeld
<1>5. BootInv
  BY DEF BootInv, Idle, NoPlan, HasTaskReason
<1>6. DurableInv
  BY DEF DurableInv
<1>7. KnownInv
  BY DEF KnownInv, TasksKnown, OnePerSource, TasksOf, NoTask, NoConfig, NoCli, NoPlan,
         HasTaskReason
<1>8. OnceInv
  BY DEF OnceInv
<1> QED
  BY <1>1, <1>2, <1>3, <1>4, <1>5, <1>6, <1>7, <1>8 DEF IInv

LEMMA StepInv == IInv /\ [Next]_vars => IInv'
BY TypeStep, PlanStep, OwedStep, BootStep, DurableStep, KnownStep, OnceStep DEF IInv

LEMMA Invariance == Spec => []IInv
BY InitInv, StepInv, PTL DEF Spec

\* No request for a restart is lost, whatever fails and wherever the agent
\* dies, but to the faults the code has no answer to.
THEOREM RequestsHeld == Spec => []OwedIsHeld
<1>1. IInv => OwedIsHeld
  BY HeldMeansHeld DEF IInv
<1> QED
  BY <1>1, Invariance, PTL

\* Between polls the service's memory and config.json agree.
THEOREM ConfigDurable == Spec => []DurableWhenIdle
<1>1. IInv => DurableWhenIdle
  BY DEF IInv, DurableInv, DurableWhenIdle, Idle
<1> QED
  BY <1>1, Invariance, PTL

\* BootNext is never left behind on a machine that stays up.
THEOREM BootNextDisarmed == Spec => []NoStrayBootNext
<1>1. IInv => NoStrayBootNext
  BY DEF IInv, BootInv, NoStrayBootNext
<1> QED
  BY <1>1, Invariance, PTL

\* A task restarts the machine once, unless a refusal or a lost write made
\* the agent forget that it did.
THEOREM TasksRestartOnce == Spec => []OncePerTaskUnlessForgotten
<1>1. IInv => OncePerTaskUnlessForgotten
  BY DEF IInv, TypeOK, OnceInv, Remembers, OncePerTaskUnlessForgotten
<1> QED
  BY <1>1, Invariance, PTL

\* A directory rejoin restarts the machine once, even from a rolled-back
\* config.
THEOREM RejoinRestarts == Spec => []RejoinRestartsOnce
<1>1. IInv => RejoinRestartsOnce
  BY DEF IInv, MarkerInv, RejoinRestartsOnce
<1> QED
  BY <1>1, Invariance, PTL

\* No restart for a task is accepted that provably ends on the local disk.
THEOREM TaskRestartsReachFOS == Spec => TaskRestartReachesFOS
<1> DEFINE Reaches ==
      \A t \in TaskIds : restarts'[t] > restarts[t] =>
          \/ plan.find = "found" /\ bootNext
          \/ plan.find \in {"unsupported", "unreadable"}
<1>1. IInv /\ [Next]_vars => [Reaches]_vars
  <2> SUFFICES ASSUME IInv, [Next]_vars, NEW t \in TaskIds, restarts'[t] > restarts[t]
               PROVE  \/ plan.find = "found" /\ bootNext
                      \/ plan.find \in {"unsupported", "unreadable"}
    OBVIOUS
  <2>1. restarts[t] \in 0..2
    BY DEF IInv, TypeOK
  <2>2. restarts' # restarts
    BY <2>1
  <2>3. Execute
    BY <2>2, RestartsChange
  <2>4. pc = "execute" /\ t \in TasksOf(plan.act)
    BY <2>1, <2>3 DEF Execute
  <2>5. HasTaskReason(plan.act)
    BY <2>4 DEF TasksOf, HasTaskReason
  <2> QED
    BY <2>4, <2>5 DEF IInv, BootInv, FindResults
<1> QED
  BY <1>1, Invariance, PTL DEF Spec, TaskRestartReachesFOS

------------------------------------------------------------------------------
\* The restart latch, as the directory rejoin provides it.

\* The steps that leave the marker and the restarts counted for it alone.
LEMMA LatchKept ==
    ASSUME [Next]_vars
    PROVE  \/ UNCHANGED <<marker, rejoinAsks>>
           \/ RejoinAwaitsReboot \/ RejoinVerified \/ ClaimLatch
           \/ \E wrote \in BOOLEAN : ClaimLatchFails(wrote)
           \/ UnsavedReleases \/ Unlatch \/ Execute \/ Boot
BY DEF Next, ServerStep, Record, Coordinate, vars, agentVars, envVars, history,
       ServerQueuesTask, ServerCancelsTask, ServerOrders, Poll, Reconcile, Drift,
       ReconcileSave, ScheduleFires, ScheduleSave,
       RejoinRecordsReason, RejoinDropsReason, NothingPending,
       UsersUnknown, AllWithheld, Deferred, Decided,
       Persist, PersistFails, Arm, ArmFails, ExecuteRefused,
       UnlatchFails, Disarm, DisarmFails, Restore, Crash,
       Restarted, CliLoad, CliSave

\* Every step is a step of the latch, or none of its business: the plan says
\* which attempt a claim is for, and that nothing was restarted for it yet.
LEMMA LatchStep ==
    ASSUME IInv, [Next]_vars
    PROVE  [Latch!Next]_(Latch!latch)
<1> USE DEF Latch!Next, Latch!latch, Latch!Awaits
<1>t. marker \in Marker /\ marker.requested \in BOOLEAN /\ rejoinAsks \in 0..2
  BY DEF IInv, TypeOK, Marker
<1>1. CASE UNCHANGED <<marker, rejoinAsks>>
  BY <1>1
<1>2. CASE RejoinAwaitsReboot
  <2>1. Latch!Await
    BY <1>2 DEF RejoinAwaitsReboot, Latch!Await
  <2> QED
    BY <2>1
<1>3. CASE RejoinVerified
  <2>1. /\ marker'.phase = "verified"
        /\ marker'.requested = marker.requested /\ marker'.booted = marker.booted
    BY <1>3, <1>t DEF RejoinVerified, Marker
  <2>2. Latch!Verify
    BY <1>3, <2>1 DEF RejoinVerified, Latch!Verify
  <2> QED
    BY <2>2
<1>4. ASSUME pc = "claim", rejoinAsks' = rejoinAsks,
             NEW claimed \in BOOLEAN, marker' = [marker EXCEPT !.requested = claimed]
      PROVE  [Latch!Next]_(Latch!latch)
  <2>1. marker.phase = "awaiting_reboot" /\ ~marker.requested
    BY <1>4 DEF IInv, PlanInv
  <2>2. /\ marker'.phase = marker.phase /\ marker'.booted = marker.booted
        /\ marker'.requested = claimed
    BY <1>4, <1>t DEF Marker
  <2>3. CASE claimed
    <3>1. Latch!Claim
      BY <1>4, <2>1, <2>2, <2>3 DEF Latch!Claim
    <3> QED
      BY <3>1
  <2>4. CASE ~claimed
    BY <1>4, <1>t, <2>1, <2>2, <2>4
  <2> QED
    BY <2>3, <2>4
<1>5. CASE ClaimLatch
  BY <1>4, <1>5 DEF ClaimLatch, history
<1>6. CASE \E wrote \in BOOLEAN : ClaimLatchFails(wrote)
  BY <1>4, <1>6 DEF ClaimLatchFails
<1>7. ASSUME marker' = Released, rejoinAsks' = rejoinAsks
      PROVE  [Latch!Next]_(Latch!latch)
  <2>1. /\ marker'.phase = marker.phase /\ marker'.booted = marker.booted
        /\ marker'.requested = IF plan.claimed THEN FALSE ELSE marker.requested
    BY <1>7, <1>t DEF Released, Marker
  <2>2. CASE plan.claimed /\ marker.requested
    <3>1. marker.phase = "awaiting_reboot" /\ rejoinAsks = 0
      BY <2>2 DEF IInv, PlanInv
    <3>2. Latch!Release
      BY <1>7, <2>1, <2>2, <3>1 DEF Latch!Release
    <3> QED
      BY <3>2
  <2>3. CASE ~(plan.claimed /\ marker.requested)
    <3>1. marker'.requested = marker.requested
      BY <1>t, <2>1, <2>3
    <3> QED
      BY <1>7, <2>1, <3>1
  <2> QED
    BY <2>2, <2>3
<1>8. CASE UnsavedReleases
  <2>1. rejoinAsks' = rejoinAsks /\ (marker' = Released \/ marker' = marker)
    BY <1>8 DEF UnsavedReleases, history
  <2> QED
    BY <1>7, <2>1
<1>9. CASE Unlatch
  BY <1>7, <1>9 DEF Unlatch, history
<1>10. CASE Execute
  <2>1. CASE Rejoins(plan.act)
    <3>1. marker.requested /\ rejoinAsks = 0
      BY <1>10, <2>1 DEF IInv, PlanInv, Execute
    <3>2. marker' = marker /\ rejoinAsks' = 1
      BY <1>10, <2>1, <3>1 DEF Execute, Rejoins
    <3>3. ~(rejoinAsks > 0) /\ (rejoinAsks > 0)'
      BY <3>1, <3>2
    <3>4. Latch!Accept
      BY <3>1, <3>2, <3>3, Zenon DEF Latch!Accept
    <3> QED
      BY <3>4
  <2>2. CASE ~Rejoins(plan.act)
    BY <1>10, <2>2 DEF Execute, Rejoins
  <2> QED
    BY <2>1, <2>2
<1>11. CASE Boot
  <2>1. rejoinAsks' = rejoinAsks
    BY <1>11 DEF Boot, Restarted
  <2>2. /\ marker'.phase = marker.phase /\ marker'.requested = marker.requested
        /\ marker'.booted = (marker.booted \/ marker.phase = "awaiting_reboot")
    BY <1>11, <1>t DEF Boot, Marker
  <2>3. CASE marker.phase = "awaiting_reboot"
    <3>1. Latch!Boot
      BY <2>1, <2>2, <2>3 DEF Latch!Boot
    <3> QED
      BY <3>1
  <2>4. CASE marker.phase # "awaiting_reboot"
    <3>1. marker'.booted = marker.booted
      BY <1>t, <2>2, <2>4 DEF Marker
    <3> QED
      BY <2>1, <2>2, <3>1
  <2> QED
    BY <2>3, <2>4
<1> QED
  BY LatchKept, <1>1, <1>2, <1>3, <1>5, <1>6, <1>8, <1>9, <1>10, <1>11

\* Of a rejoin attempt the coordinator relies on no more than the restart
\* latch: it claims an attempt that waits, gives a claim back only when no
\* restart was accepted for it, and never asks twice on one claim.
THEOREM ReliesOnLatch == Spec => FollowsLatch
<1>1. Init => Latch!Init
  BY DEF Init, Latch!Init
<1>2. IInv /\ [Next]_vars => [Latch!Next]_(Latch!latch)
  BY LatchStep
<1> QED
  BY <1>1, <1>2, Invariance, PTL DEF Spec, FollowsLatch, Latch!Spec

------------------------------------------------------------------------------
\* What the agent's forgetting comes from.

\* Without a failed or overwritten save and without a refused restart nothing
\* ever erases the record of a task.
Recalled ==
    /\ forgiven = {}
    /\ ~dirty
    /\ ~cli.open
    /\ pc \notin {"unlatch", "disarm", "restore"}

LEMMA RecalledStep ==
    ASSUME Disturbances \cap {"save", "arm", "execute", "cli"} = {}, Recalled, [Next]_vars
    PROVE  Recalled'
<1> USE DEF Recalled
<1>1. ~SaveConfigFails /\ ~ArmFails /\ ~ExecuteRefused /\ ~CliLoad /\ ~CliSave
  BY DEF SaveConfigFails, ArmFails, ExecuteRefused, CliLoad, CliSave, Disturb
<1>2. CASE ServerStep
  <2>1. UNCHANGED <<cli, pc, dirty, forgiven>>
    BY <1>2, Zenon DEF ServerStep, ServerQueuesTask, ServerCancelsTask, ServerOrders, agentVars,
       history
  <2> QED
    BY <2>1
<1>3. CASE Record
  <2> USE DEF Poll, Reconcile, Drift, ReconcileSave, ScheduleFires, ScheduleSave,
          RejoinAwaitsReboot, RejoinRecordsReason, RejoinVerified, RejoinDropsReason
  <2>1. cli' = cli /\ forgiven' = forgiven
    BY <1>3, Zenon DEF Record, envVars
  <2>2. pc' \in {"coordinate", "reconcile", "fire", "rejoin", "rejoin_drop", Idle}
    BY <1>3, Zenon DEF Record
  <2>3. dirty' = dirty \/ dirty' = FALSE
    BY <1>1, <1>3, Zenon DEF Record, SaveConfig
  <2> QED
    BY <2>1, <2>2, <2>3 DEF Idle
<1>4. CASE Coordinate
  <2> USE DEF NothingPending, UsersUnknown, AllWithheld, Deferred, Decided, ClaimLatch,
          ClaimLatchFails, Persist, PersistFails, UnsavedReleases, Arm, Execute
  <2>1. ~Unlatch /\ ~UnlatchFails /\ ~Disarm /\ ~DisarmFails /\ ~Restore
    BY DEF Unlatch, UnlatchFails, Disarm, DisarmFails, Restore
  <2>2. cli' = cli /\ forgiven' = forgiven
    BY <1>1, <1>4, <2>1, Zenon DEF Coordinate, envVars, history
  <2>3. pc' \in {"claim", "persist", "unsaved", "arm", "execute", Idle}
    BY <1>1, <1>4, <2>1, Zenon DEF Coordinate
  <2>4. dirty' = dirty \/ dirty' = FALSE
    BY <1>1, <1>4, <2>1, Zenon DEF Coordinate, SaveConfig, history
  <2> QED
    BY <2>2, <2>3, <2>4 DEF Idle
<1>5. CASE Crash
  BY <1>5 DEF Crash, Restarted, Idle
<1>6. CASE Boot
  BY <1>6 DEF Boot, Restarted, NoCli, Idle
<1>7. CASE UNCHANGED vars
  BY <1>7 DEF vars, agentVars, envVars, history
<1> QED
  BY <1>1, <1>2, <1>3, <1>4, <1>5, <1>6, <1>7 DEF Next

\* The rule the documents state without exception, "reboot once per task id",
\* holds where no write of config.json fails or is overwritten and no restart
\* is refused, whatever else fails: it is these that the run against it needs.
THEOREM OnceUnlessRefused ==
    ASSUME Disturbances \cap {"save", "arm", "execute", "cli"} = {}
    PROVE  Spec => []OncePerTask
<1>1. Init => Recalled
  BY DEF Init, Recalled, NoCli, Idle
<1>2. Recalled /\ [Next]_vars => Recalled'
  BY RecalledStep
<1>3. IInv /\ Recalled => OncePerTask
  BY DEF IInv, TypeOK, OnceInv, Remembers, Recalled, OncePerTask
<1> QED
  BY <1>1, <1>2, <1>3, Invariance, PTL DEF Spec

==============================================================================
