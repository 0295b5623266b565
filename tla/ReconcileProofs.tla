--------------------------- MODULE ReconcileProofs ---------------------------
(***************************************************************************)
(* Reconcile's safety for any names, tasks, builds, orders and faults:     *)
(* what a revision that stands applied orders is there, a member of the    *)
(* domain and its computer object keep one name, and tasks run in order.   *)
(***************************************************************************)
EXTENDS Reconcile, FiniteSetTheorems, TLAPS

Busy == pc \in {"reconcile", "set_name", "report", "record"}
InPass == Busy \/ pc = "put_back"

\* What is left to a pass is among what this build handles.
Passing ==
    /\ InPass \/ pc = "drift" => loc.rev \in Revisions
    /\ InPass =>
        /\ loc.todo \subseteq Handles(build)
        /\ pc \in {"record", "put_back"} => loc.todo = {}

\* The tasks a pass has left are what the server still has queued, before
\* whatever was queued since.
Queued ==
    /\ \A t \in order.queue : t <= order.last
    /\ Busy /\ "snapin" \in loc.todo =>
          /\ loc.tasks \subseteq order.queue
          /\ \A t \in loc.tasks, u \in order.queue \ loc.tasks : t < u

-----------------------------------------------------------------------------
LEMMA FaultsFinite == IsFiniteSet(Faults)
<1>1. FaultKinds = {"action"} \cup {"report"} \cup {"hold"} \cup {"save"}
                     \cup {"crash"} \cup {"power_cut"} \cup {"drift"} \cup {"retry"}
  BY DEF FaultKinds
<1>2. IsFiniteSet(FaultKinds)
  BY <1>1, FS_Singleton, FS_Union
<1> QED
  BY <1>2, FS_Subset, ReconcileConstants

LEMMA MeetsTyped ==
    ASSUME NEW kinds, Meets(kinds), faulted \in 0..MaxFaults
    PROVE  faulted' \in 0..MaxFaults
<1>1. Cardinality(kinds) \in Nat
  BY FaultsFinite, FS_Subset, FS_CardinalityType DEF Meets
<1> QED
  BY <1>1, ReconcileConstants DEF Meets

\* What the server sends is a revision.
LEMMA DesiredStateTyped ==
    ASSUME NEW o \in HostRecords, NEW b \in Memberships, NEW cool \in BOOLEAN
    PROVE  DesiredState(o, b, cool) \in Revisions
<1>1. DirectoryBlock(o, b, cool) \in {"none", "join", "rename"}
  BY DEF DirectoryBlock
<1>2. (cool /\ RenameDue(o, b)) \in BOOLEAN
  BY DEF RenameDue, Memberships, HostRecords
<1> QED
  BY <1>1, <1>2 DEF DesiredState, Revisions, HostRecords

LEMMA NoPassTyped == NoPass \in Passes
  BY DEF NoPass, Passes, Stamps, Statuses

LEMMA SaveTyped ==
    ASSUME TypeOK, NEW c \in Configs, NEW fails \in BOOLEAN, Save(c, fails)
    PROVE  cfg' \in Configs /\ disk' \in Configs
  BY DEF Save, TypeOK

LEMMA AdvanceTyped ==
    ASSUME TypeOK, NEW capability \in Capabilities, NEW ok \in BOOLEAN, Advance(capability, ok)
    PROVE  loc' \in Passes
  BY DEF Advance, TypeOK, Passes, Statuses

LEMMA SkipTyped ==
    ASSUME TypeOK, NEW capability, Skip(capability)
    PROVE  loc' \in Passes
  BY DEF Skip, TypeOK, Passes

LEMMA TypesInit == Init => TypeOK
<1> SUFFICES ASSUME Init PROVE TypeOK
  OBVIOUS
<1>1. cfg \in Configs /\ disk \in Configs
  BY DEF Init, Configs
<1>2. 1 \in Versions /\ 0 \in 0..MaxOrders /\ 0 \in 0..MaxFaults
  BY ReconcileConstants DEF Versions
<1>3. order \in HostRecords
  BY <1>2, ReconcileConstants DEF Init, Packages, HostRecords
<1>4. host \in Machines
  BY ReconcileConstants DEF Init, Packages, Machines
<1> QED
  BY <1>1, <1>2, <1>3, <1>4, NoPassTyped, ReconcileConstants DEF Init, TypeOK, Memberships

\* The steps that run a capability.
Capability ==
    \/ Hostname \/ Power \/ Software
    \/ NoDirectory \/ Directory \/ SetComputerName \/ ReportDirectory
    \/ Snapin \/ SnapinNotFetched \/ SnapinsDone

LEMMA CapabilitiesTyped ==
    ASSUME TypeOK, Passing, Capability
    PROVE  TypeOK'
<1> USE DEF Turn, ComesNext
<1>1. pc \in {"reconcile", "set_name", "report"} /\ loc.rev \in Revisions
  BY DEF Capability, Hostname, Power, Software, NoDirectory, Directory, SetComputerName,
     ReportDirectory, Snapin, SnapinNotFetched, SnapinsDone, At, Passing, InPass, Busy
<1>2. /\ "hostname" \in Capabilities /\ "power" \in Capabilities /\ "software" \in Capabilities
      /\ "directory" \in Capabilities /\ "snapin" \in Capabilities
  BY DEF Capabilities
<1>3. CASE Hostname
  <2>1. loc' \in Passes
    BY <1>2, <1>3, SkipTyped, AdvanceTyped DEF Hostname
  <2>2. faulted' \in 0..MaxFaults
    BY <1>3, MeetsTyped DEF Hostname, TypeOK
  <2>3. cfg' \in Configs
    BY <1>3 DEF Hostname, TypeOK, Configs
  <2>4. host' \in Machines
    BY <1>1, <1>3 DEF Hostname, TypeOK, Machines, Revisions
  <2> QED
    BY <1>1, <1>3, <2>1, <2>2, <2>3, <2>4 DEF Hostname, TypeOK, server
<1>4. CASE Power
  <2>1. loc' \in Passes
    BY <1>2, <1>4, AdvanceTyped DEF Power
  <2>2. faulted' \in 0..MaxFaults
    BY <1>4, MeetsTyped DEF Power, TypeOK
  <2>3. cfg' \in Configs
    BY <1>4 DEF Power, TypeOK, Configs
  <2>4. order' \in HostRecords
    <3>1. 0 \in 0..MaxOrders /\ order.power \in 0..MaxOrders
      BY ReconcileConstants DEF TypeOK, HostRecords
    <3> QED
      BY <1>4, <3>1 DEF Power, TypeOK, HostRecords
  <2> QED
    BY <1>1, <1>4, <2>1, <2>2, <2>3, <2>4 DEF Power, TypeOK, machine
<1>5. CASE Software
  <2>1. loc' \in Passes
    BY <1>2, <1>5, AdvanceTyped DEF Software
  <2>2. faulted' \in 0..MaxFaults
    BY <1>5, MeetsTyped DEF Software, TypeOK
  <2>3. cfg' \in Configs
    BY <1>5 DEF Software, Checked, TypeOK, Configs
  <2>4. host' \in Machines
    BY <1>1, <1>5 DEF Software, Converge, TypeOK, Machines, Revisions
  <2> QED
    BY <1>1, <1>5, <2>1, <2>2, <2>3, <2>4 DEF Software, TypeOK, server
<1>6. CASE NoDirectory
  <2>1. loc' \in Passes
    BY <1>2, <1>6, SkipTyped, AdvanceTyped DEF NoDirectory
  <2> QED
    BY <1>1, <1>6, <2>1 DEF NoDirectory, TypeOK, server, machine
<1>7. CASE Directory
  <2>1. PICK fails \in BOOLEAN :
          /\ Meets(If(fails, "action"))
          /\ host' = IF fails THEN host
                     ELSE IF Decide(loc.rev) = "join" THEN Joined
                     ELSE IF Decide(loc.rev) = "rename" THEN ObjectRenamed ELSE host
          /\ loc' = [loc EXCEPT !.status = IF fails THEN "failed" ELSE Decide(loc.rev)]
          /\ pc' \in {"set_name", "report"}
    BY <1>7 DEF Directory, Goto
  <2>2. Decide(loc.rev) \in Statuses /\ "failed" \in Statuses
    BY DEF Decide, Statuses
  <2>3. loc' \in Passes
    BY <2>1, <2>2 DEF TypeOK, Passes
  <2>4. Joined \in Machines /\ ObjectRenamed \in Machines
    BY <1>1 DEF Joined, ObjectRenamed, TypeOK, Machines, Revisions
  <2>5. host' \in Machines
    BY <2>1, <2>4 DEF TypeOK
  <2>6. faulted' \in 0..MaxFaults
    BY <2>1, MeetsTyped DEF TypeOK
  <2> QED
    BY <1>7, <2>1, <2>3, <2>5, <2>6 DEF Directory, TypeOK, server
<1>8. CASE SetComputerName
  <2>1. PICK fails \in BOOLEAN :
          /\ Meets(If(fails, "action"))
          /\ host' = IF fails THEN host ELSE MachineRenamed
          /\ loc' = IF fails THEN [loc EXCEPT !.status = "failed"] ELSE loc
          /\ history' = IF fails THEN history \cup {"lagging"} ELSE history \ {"lagging"}
    BY <1>8 DEF SetComputerName
  <2>2. loc' \in Passes
    BY <2>1 DEF TypeOK, Passes, Statuses
  <2>3. MachineRenamed \in Machines
    BY <1>1 DEF MachineRenamed, TypeOK, Machines, Revisions
  <2>4. host' \in Machines /\ history' \subseteq Marks
    BY <2>1, <2>3 DEF TypeOK, Marks
  <2>5. faulted' \in 0..MaxFaults
    BY <2>1, MeetsTyped DEF TypeOK
  <2> QED
    BY <1>8, <2>2, <2>4, <2>5 DEF SetComputerName, Goto, TypeOK, server
<1>9. CASE ReportDirectory
  <2>1. PICK answer \in Answers :
          /\ Meets(Lost(answer))
          /\ cooling' = (cooling \/ answer # "lost")
          /\ cfg' = IF answer = "taken"
                    THEN [cfg EXCEPT !.factsDue = @ \/ loc.status # "failed",
                                     !.pending = @ \/ loc.status = "join"]
                    ELSE cfg
          /\ Advance("directory", answer = "taken")
          /\ Noted(loc.status = "join" /\ answer # "taken", "unasked")
    BY <1>9 DEF ReportDirectory
  <2>2. loc' \in Passes
    BY <1>2, <2>1, AdvanceTyped
  <2>3. cfg' \in Configs /\ cooling' \in BOOLEAN
    BY <2>1 DEF TypeOK, Configs
  <2>4. faulted' \in 0..MaxFaults /\ history' \subseteq Marks
    BY <2>1, MeetsTyped DEF TypeOK, Noted, If, Marks
  <2> QED
    BY <1>9, <2>2, <2>3, <2>4 DEF ReportDirectory, Goto, TypeOK, machine
<1>10. CASE Snapin
  <2>0. PICK task \in loc.tasks : RunSnapin(task)
    BY <1>10 DEF Snapin
  <2>1. loc' \in Passes
    <3>1. [loc EXCEPT !.tasks = @ \ {task}] \in Passes
      BY DEF TypeOK, Passes
    <3> QED
      BY <1>2, <2>0, <3>1, AdvanceTyped DEF RunSnapin
  <2>2. faulted' \in 0..MaxFaults
    BY <2>0, MeetsTyped DEF RunSnapin, TypeOK
  <2>3. cfg' \in Configs
    BY <2>0 DEF RunSnapin, TypeOK, Configs
  <2>4. order' \in HostRecords
    BY <2>0 DEF RunSnapin, Closes, TypeOK, HostRecords
  <2> QED
    BY <1>1, <1>10, <2>1, <2>2, <2>3, <2>4 DEF Snapin, TypeOK, machine
<1>11. CASE SnapinNotFetched
  BY <1>1, <1>2, <1>11, AdvanceTyped, MeetsTyped DEF SnapinNotFetched, TypeOK, server, machine
<1>12. CASE SnapinsDone
  BY <1>1, <1>2, <1>12, AdvanceTyped DEF SnapinsDone, TypeOK, server, machine
<1> QED
  BY <1>3, <1>4, <1>5, <1>6, <1>7, <1>8, <1>9, <1>10, <1>11, <1>12 DEF Capability

\* A poll either begins a pass or has nothing new.
PollBegins(rev, held) ==
    /\ pc' = "reconcile"
    /\ loc' = [rev |-> rev, held |-> held, todo |-> Handles(build), tasks |-> rev.queue,
               ok |-> TRUE, status |-> "none", prev |-> Stamp(cfg)]
PollPasses(rev) ==
    /\ pc' \in {"drift", "coordinate"}
    /\ loc' = [NoPass EXCEPT !.rev = rev]

LEMMA PollMoves ==
    ASSUME Poll
    PROVE  /\ pc = "poll"
           /\ belief' \in {Facts, belief}
           /\ \E held, unsaved \in BOOLEAN :
                 /\ Meets(If(held, "hold") \cup If(unsaved /\ cfg.factsDue, "save"))
                 /\ Save([cfg EXCEPT !.factsDue = FALSE], unsaved)
                 /\ \/ PollBegins(DesiredState(order, belief', cooling), held)
                    \/ PollPasses(DesiredState(order, belief', cooling))
           /\ UNCHANGED <<order, cooling, machine, ordered, history>>
  BY DEF Poll, PollBegins, PollPasses, At, Goto

LEMMA PollTyped == ASSUME TypeOK, Poll PROVE TypeOK'
<1> DEFINE rev == DesiredState(order, belief', cooling)
<1>1. belief' \in Memberships
  BY PollMoves DEF Facts, TypeOK, Machines, Memberships
<1>2. rev \in Revisions
  BY <1>1, DesiredStateTyped DEF TypeOK
<1> HIDE DEF rev
<1>3. PICK held \in BOOLEAN, unsaved \in BOOLEAN :
        /\ Meets(If(held, "hold") \cup If(unsaved /\ cfg.factsDue, "save"))
        /\ Save([cfg EXCEPT !.factsDue = FALSE], unsaved)
        /\ PollBegins(rev, held) \/ PollPasses(rev)
  BY PollMoves DEF rev
<1>4. cfg' \in Configs /\ disk' \in Configs
  <2>1. [cfg EXCEPT !.factsDue = FALSE] \in Configs
    BY DEF TypeOK, Configs
  <2> QED
    BY <1>3, <2>1, SaveTyped
<1>5. loc' \in Passes /\ pc' \in {"reconcile", "drift", "coordinate"}
  <2>1. Stamp(cfg) \in Stamps
    BY DEF Stamp, Stamps, TypeOK, Configs
  <2>2. CASE PollBegins(rev, held)
    BY <1>2, <2>1, <2>2 DEF PollBegins, Passes, Revisions, Handles, Statuses
  <2>3. CASE PollPasses(rev)
    BY <1>2, <2>3, NoPassTyped DEF PollPasses, Passes
  <2> QED
    BY <1>3, <2>2, <2>3
<1>6. faulted' \in 0..MaxFaults
  BY <1>3, MeetsTyped DEF TypeOK
<1> QED
  BY <1>1, <1>4, <1>5, <1>6, PollMoves DEF TypeOK, machine

\* The steps that save, update or go on.
LEMMA LoopTyped ==
    ASSUME TypeOK, Passing,
           \/ PollUnanswered \/ Drift \/ UpdateYields \/ NotUpdated \/ Update
           \/ Record \/ PutBack \/ Coordinate \/ Restart
    PROVE  TypeOK'
<1> USE NoPassTyped DEF Goto
<1>1. CASE PollUnanswered
  BY <1>1, MeetsTyped DEF PollUnanswered, Facts, TypeOK, Machines, Memberships, machine, agent
<1>2. CASE Drift
  <2>1. PICK fails \in BOOLEAN, restart \in BOOLEAN, unsaved \in BOOLEAN :
          /\ Meets(If(fails, "action") \cup If(unsaved, "save"))
          /\ Converge(fails, restart)
          /\ Save(Checked(restart), unsaved)
    BY <1>2 DEF Drift
  <2>2. cfg' \in Configs /\ disk' \in Configs
    <3>1. Checked(restart) \in Configs
      BY DEF Checked, TypeOK, Configs
    <3> QED
      BY <2>1, <3>1, SaveTyped
  <2>3. host' \in Machines
    BY <1>2, <2>1 DEF Converge, Drift, At, Passing, TypeOK, Machines, Revisions
  <2>4. faulted' \in 0..MaxFaults
    BY <2>1, MeetsTyped DEF TypeOK
  <2> QED
    BY <1>2, <2>2, <2>3, <2>4 DEF Drift, TypeOK, server
<1>3. CASE UpdateYields
  BY <1>3 DEF UpdateYields, Noted, If, Marks, TypeOK, server, machine
<1>4. CASE NotUpdated
  <2>1. loc' \in Passes
    BY <1>4 DEF NotUpdated, TypeOK, Passes
  <2>2. faulted' \in 0..MaxFaults
    BY <1>4, MeetsTyped DEF NotUpdated, TypeOK
  <2> QED
    BY <1>4, <2>1, <2>2 DEF NotUpdated, TypeOK, server, machine
<1>5. CASE Update
  <2>1. build' \in Versions
    BY <1>5 DEF Update, UpdatesTo, Worked, At, Passing, InPass, Busy, Revisions
  <2>2. faulted' \in 0..MaxFaults
    BY <1>5, MeetsTyped DEF Update, TypeOK
  <2> QED
    BY <1>5, <2>1, <2>2 DEF Update, TypeOK, server
<1>6. CASE Record
  <2>1. [cfg EXCEPT !.applied = loc.rev, !.with = Handles(build)] \in Configs
    BY DEF TypeOK, Configs, Passes
  <2>2. cfg' \in Configs /\ disk' \in Configs
    BY <1>6, <2>1, SaveTyped DEF Record, TypeOK
  <2>3. faulted' \in 0..MaxFaults
    BY <1>6, MeetsTyped DEF Record, TypeOK
  <2>4. loc' \in Passes /\ pc' \in {"put_back", "coordinate"} /\ history' \subseteq Marks
    BY <1>6 DEF Record, TypeOK, Noted, If, Marks
  <2> QED
    BY <1>6, <2>2, <2>3, <2>4 DEF Record, TypeOK, server, machine
<1>7. CASE PutBack
  <2>1. [cfg EXCEPT !.applied = loc.prev.applied, !.with = loc.prev.with]
            \in Configs
    BY DEF TypeOK, Configs, Passes, Stamps
  <2>2. cfg' \in Configs /\ disk' \in Configs
    BY <1>7, <2>1, SaveTyped DEF PutBack
  <2>3. faulted' \in 0..MaxFaults
    BY <1>7, MeetsTyped DEF PutBack, TypeOK
  <2>4. history' \subseteq Marks
    BY <1>7 DEF PutBack, TypeOK, Noted, If, Marks
  <2> QED
    BY <1>7, <2>2, <2>3, <2>4 DEF PutBack, TypeOK, server, machine
<1>8. CASE Coordinate
  BY <1>8 DEF Coordinate, TypeOK, server, machine
<1>9. CASE Restart
  <2>1. [cfg EXCEPT !.pending = FALSE] \in Configs
    BY DEF TypeOK, Configs
  <2>2. host' \in Machines
    BY <1>9 DEF Restart, Booted, TypeOK, Machines
  <2> QED
    BY <1>9, <2>1, <2>2, SaveTyped DEF Restart, TypeOK, server
<1> QED
  BY <1>1, <1>2, <1>3, <1>4, <1>5, <1>6, <1>7, <1>8, <1>9

LEMMA WorldTyped == ASSUME TypeOK, World PROVE TypeOK'
<1> USE NoPassTyped DEF Goto, server, machine, agent
<1>1. CASE Crash \/ PowerCut
  <2>1. host' \in Machines
    BY <1>1 DEF Crash, PowerCut, Booted, TypeOK, Machines
  <2>2. faulted' \in 0..MaxFaults
    BY <1>1, MeetsTyped DEF Crash, PowerCut, TypeOK
  <2>3. /\ StartAgain
        /\ history' \subseteq Marks
    BY <1>1 DEF Crash, PowerCut, StartAgain, TypeOK, If, Marks
  <2> QED
    BY <2>1, <2>2, <2>3 DEF StartAgain, TypeOK
<1>2. CASE SoftwareDrifts
  <2>1. host' \in Machines
    BY <1>2 DEF SoftwareDrifts, TypeOK, Machines, Packages
  <2> QED
    BY <1>2, <2>1, MeetsTyped DEF SoftwareDrifts, TypeOK
<1>3. CASE FactsInterval
  BY <1>3 DEF FactsInterval, TypeOK, Configs
<1>4. CASE DriftInterval
  BY <1>4 DEF DriftInterval, TypeOK, Configs
<1>5. CASE CooldownOver
  BY <1>5 DEF CooldownOver, Noted, If, Marks, TypeOK
<1>6. ASSUME NEW kind, NEW changed \in HostRecords, Order(kind, changed), history' \subseteq Marks
      PROVE  TypeOK'
  <2>1. ordered' \in 0..MaxOrders
    BY <1>6, ReconcileConstants DEF Order, TypeOK
  <2> QED
    BY <1>6, <2>1 DEF Order, TypeOK
<1>7. CASE OrderName
  <2>1. PICK n \in Names : Order("name", [order EXCEPT !.name = n])
    BY <1>7 DEF OrderName
  <2>2. [order EXCEPT !.name = n] \in HostRecords
    BY DEF TypeOK, HostRecords
  <2>3. history' \subseteq Marks
    BY <1>7 DEF OrderName, Noted, If, Marks, TypeOK
  <2> QED
    BY <1>6, <2>1, <2>2, <2>3
<1>8. CASE OrderVersion
  <2>1. PICK v \in Versions : Order("version", [order EXCEPT !.version = v])
    BY <1>8 DEF OrderVersion
  <2>2. [order EXCEPT !.version = v] \in HostRecords
    BY DEF TypeOK, HostRecords
  <2>3. history' \subseteq Marks
    BY <1>8 DEF OrderVersion, Noted, If, Marks, TypeOK
  <2> QED
    BY <1>6, <2>1, <2>2, <2>3
<1>9. CASE OrderOther
  <2>1. PICK kind, changed :
          /\ Order(kind, changed)
          /\ \/ changed = [order EXCEPT !.member = TRUE]
             \/ changed = [order EXCEPT !.power = ordered']
             \/ \E t \in Tasks : changed = [order EXCEPT !.queue = @ \cup {t}, !.last = t]
             \/ \E p \in Packages : changed = [order EXCEPT !.software = p]
    BY <1>9 DEF OrderOther
  <2>2. Order(kind, changed)
    BY <2>1
  <2>3. ordered' \in 0..MaxOrders
    BY <2>2, ReconcileConstants DEF Order, TypeOK
  <2>4. [order EXCEPT !.member = TRUE] \in HostRecords
    BY DEF TypeOK, HostRecords
  <2>5. [order EXCEPT !.power = ordered'] \in HostRecords
    BY <2>3 DEF TypeOK, HostRecords
  <2>6. \A t \in Tasks : [order EXCEPT !.queue = @ \cup {t}, !.last = t] \in HostRecords
    BY ReconcileConstants DEF TypeOK, HostRecords
  <2>7. \A p \in Packages : [order EXCEPT !.software = p] \in HostRecords
    BY DEF TypeOK, HostRecords
  <2>8. changed \in HostRecords
    BY <2>1, <2>4, <2>5, <2>6, <2>7
  <2>9. history' \subseteq Marks
    BY <1>9 DEF OrderOther, TypeOK
  <2> QED
    BY <1>6, <2>2, <2>8, <2>9
<1> QED
  BY <1>1, <1>2, <1>3, <1>4, <1>5, <1>7, <1>8, <1>9 DEF World

LEMMA TypesStep == TypeOK /\ Passing /\ [Next]_vars => TypeOK'
<1>1. ASSUME TypeOK, UNCHANGED vars PROVE TypeOK'
  BY <1>1 DEF TypeOK, vars, server, machine, agent
<1> QED
  BY <1>1, CapabilitiesTyped, PollTyped, LoopTyped, WorldTyped DEF Next, Agent, Capability

-----------------------------------------------------------------------------
\* What a capability leaves of the pass, of what is recorded and of the build.
LEMMA CapabilityMoves ==
    ASSUME TypeOK, Capability
    PROVE  /\ pc \in {"reconcile", "set_name", "report"}
           /\ pc' \in {"reconcile", "set_name", "report"}
           /\ build' = build /\ disk' = disk /\ Stamp(cfg') = Stamp(cfg)
           /\ order'.name = order.name /\ order'.last = order.last /\ order'.version = order.version
           /\ loc'.rev = loc.rev /\ loc'.held = loc.held /\ loc'.prev = loc.prev
           /\ loc'.todo \subseteq loc.todo /\ (loc'.ok => loc.ok)
           /\ belief' = belief /\ ordered' = ordered
           /\ \A mark \in Marks \ {"lagging", "unasked"} : mark \in history' <=> mark \in history
<1> USE DEF Turn, ComesNext, At, Goto, server, machine
<1>1. ASSUME NEW c, Skip(c)
      PROVE  /\ loc'.rev = loc.rev /\ loc'.held = loc.held /\ loc'.prev = loc.prev
             /\ loc'.todo \subseteq loc.todo /\ (loc'.ok => loc.ok)
  BY <1>1 DEF Skip, TypeOK, Passes
<1>2. ASSUME NEW c, NEW ok, Advance(c, ok)
      PROVE  /\ loc'.rev = loc.rev /\ loc'.held = loc.held /\ loc'.prev = loc.prev
             /\ loc'.todo \subseteq loc.todo /\ (loc'.ok => loc.ok)
  BY <1>2 DEF Advance, TypeOK, Passes
<1>3. CASE Hostname
  <2>1. Stamp(cfg') = Stamp(cfg)
    BY <1>3 DEF Hostname, Stamp, TypeOK, Configs
  <2> QED
    BY <1>1, <1>2, <1>3, <2>1 DEF Hostname
<1>4. CASE Power
  <2>1. Stamp(cfg') = Stamp(cfg)
    BY <1>4 DEF Power, Stamp, TypeOK, Configs
  <2>2. order'.name = order.name /\ order'.last = order.last /\ order'.version = order.version
    BY <1>4 DEF Power, TypeOK, HostRecords
  <2> QED
    BY <1>2, <1>4, <2>1, <2>2 DEF Power
<1>5. CASE Software
  <2>1. Stamp(cfg') = Stamp(cfg)
    BY <1>5 DEF Software, Checked, Stamp, TypeOK, Configs
  <2> QED
    BY <1>2, <1>5, <2>1 DEF Software
<1>6. CASE NoDirectory
  BY <1>1, <1>2, <1>6 DEF NoDirectory
<1>7. CASE Directory
  <2>1. \E status : loc' = [loc EXCEPT !.status = status]
    BY <1>7 DEF Directory
  <2> QED
    BY <1>7, <2>1 DEF Directory, TypeOK, Passes
<1>8. CASE SetComputerName
  <2>1. loc' = loc \/ \E status : loc' = [loc EXCEPT !.status = status]
    BY <1>8 DEF SetComputerName
  <2>2. history' \in {history \cup {"lagging"}, history \ {"lagging"}}
    BY <1>8 DEF SetComputerName
  <2> QED
    BY <1>8, <2>1, <2>2 DEF SetComputerName, TypeOK, Passes
<1>9. CASE ReportDirectory
  <2>1. Stamp(cfg') = Stamp(cfg)
    BY <1>9 DEF ReportDirectory, Stamp, TypeOK, Configs
  <2>2. history' \subseteq history \cup {"unasked"} /\ history \subseteq history'
    BY <1>9 DEF ReportDirectory, Noted, If
  <2> QED
    BY <1>2, <1>9, <2>1, <2>2 DEF ReportDirectory
<1>10. CASE Snapin
  <2>1. PICK task \in loc.tasks : RunSnapin(task)
    BY <1>10 DEF Snapin
  <2>2. \/ \E ok \in BOOLEAN : Advance("snapin", ok)
        \/ loc' = [loc EXCEPT !.tasks = @ \ {task}]
    BY <2>1 DEF RunSnapin
  <2>3. Stamp(cfg') = Stamp(cfg)
    BY <2>1 DEF RunSnapin, Stamp, TypeOK, Configs
  <2>4. order'.name = order.name /\ order'.last = order.last /\ order'.version = order.version
    BY <2>1 DEF RunSnapin, TypeOK, HostRecords
  <2>5. CASE loc' = [loc EXCEPT !.tasks = @ \ {task}]
    BY <1>10, <2>3, <2>4, <2>5 DEF Snapin, TypeOK, Passes
  <2> QED
    BY <1>2, <1>10, <2>2, <2>3, <2>4, <2>5 DEF Snapin
<1>11. CASE SnapinNotFetched \/ SnapinsDone
  BY <1>2, <1>11 DEF SnapinNotFetched, SnapinsDone
<1> QED
  BY <1>3, <1>4, <1>5, <1>6, <1>7, <1>8, <1>9, <1>10, <1>11 DEF Capability

\* A poll that begins a pass hands it what the server orders now.
LEMMA PollHands ==
    ASSUME TypeOK, Poll
    PROVE  /\ pc = "poll" /\ pc' \in {"reconcile", "drift", "coordinate"}
           /\ loc'.rev \in Revisions
           /\ loc'.rev.name = order.name /\ loc'.rev.power = order.power
           /\ loc'.rev.queue = order.queue /\ loc'.rev.version = order.version
           /\ pc' = "reconcile" =>
                 /\ loc'.todo = Handles(build) /\ loc'.tasks = order.queue /\ loc'.ok
                 /\ loc'.prev = Stamp(cfg)
           /\ pc' # "reconcile" => loc'.prev = NoPass.prev
           /\ loc'.held => "hold" \in Faults
           /\ Stamp(cfg') = Stamp(cfg) /\ (disk' = disk \/ Stamp(disk') = Stamp(cfg))
           /\ UNCHANGED <<order, cooling, host, build, ordered, history>>
<1> DEFINE rev == DesiredState(order, belief', cooling)
<1>1. rev \in Revisions
  BY PollMoves, DesiredStateTyped DEF Facts, TypeOK, Machines, Memberships
<1>2. /\ rev.name = order.name /\ rev.power = order.power
      /\ rev.queue = order.queue /\ rev.version = order.version
  BY DEF DesiredState
<1> HIDE DEF rev
<1>3. PICK held \in BOOLEAN, unsaved \in BOOLEAN :
        /\ Meets(If(held, "hold") \cup If(unsaved /\ cfg.factsDue, "save"))
        /\ Save([cfg EXCEPT !.factsDue = FALSE], unsaved)
        /\ PollBegins(rev, held) \/ PollPasses(rev)
  BY PollMoves DEF rev
<1>4. held => "hold" \in Faults
  BY <1>3 DEF Meets, If
<1>5. Stamp([cfg EXCEPT !.factsDue = FALSE]) = Stamp(cfg)
  BY DEF Stamp, TypeOK, Configs
<1>6. Stamp(cfg') = Stamp(cfg) /\ (disk' = disk \/ Stamp(disk') = Stamp(cfg))
  BY <1>3, <1>5 DEF Save
<1>7. CASE PollBegins(rev, held)
  BY <1>1, <1>2, <1>4, <1>6, <1>7, PollMoves DEF PollBegins, machine
<1>8. CASE PollPasses(rev)
  BY <1>1, <1>2, <1>6, <1>8, PollMoves DEF PollPasses, NoPass, machine
<1> QED
  BY <1>3, <1>7, <1>8

-----------------------------------------------------------------------------
LEMMA PassingInit == Init => Passing
  BY DEF Init, Passing, InPass, Busy

LEMMA PassingStep == TypeOK /\ Passing /\ [Next]_vars => Passing'
<1> SUFFICES ASSUME TypeOK, Passing, [Next]_vars PROVE Passing'
  OBVIOUS
<1> USE DEF Goto, At
<1>1. CASE Capability
  BY <1>1, CapabilityMoves DEF Passing, InPass, Busy
<1>2. CASE Poll
  BY <1>2, PollHands DEF Passing, InPass, Busy
<1>3. CASE NotUpdated
  <2>1. PICK fails \in BOOLEAN : loc' = [loc EXCEPT !.ok = @ /\ ~fails]
    BY <1>3 DEF NotUpdated
  <2>2. loc'.rev = loc.rev /\ loc'.todo = loc.todo
    BY <2>1 DEF TypeOK, Passes
  <2>3. pc = "reconcile" /\ pc' = "record" /\ build' = build /\ loc.todo = {}
    BY <1>3 DEF NotUpdated, Worked, machine
  <2> QED
    BY <2>2, <2>3 DEF Passing, InPass, Busy
<1>4. CASE UpdateYields
  BY <1>4 DEF UpdateYields, Worked, Passing, InPass, Busy, machine
<1>5. CASE Record
  <2>1. pc = "record" /\ build' = build /\ ((pc' = "put_back" /\ loc' = loc) \/ pc' = "coordinate")
    BY <1>5 DEF Record, machine
  <2> QED
    BY <2>1 DEF Passing, InPass, Busy
<1>6. CASE PollUnanswered \/ Drift \/ Update \/ PutBack \/ Coordinate \/ Restart \/ Crash \/ PowerCut
  <2>1. pc' \in {"poll", "coordinate"}
    BY <1>6 DEF PollUnanswered, Drift, Update, PutBack, Coordinate, Restart, Crash, PowerCut,
       StartAgain, agent
  <2> QED
    BY <2>1 DEF Passing, InPass, Busy
<1>7. CASE \/ SoftwareDrifts \/ FactsInterval \/ DriftInterval \/ CooldownOver
           \/ OrderName \/ OrderVersion \/ OrderOther \/ UNCHANGED vars
  <2>1. pc' = pc /\ loc' = loc /\ build' = build
    BY <1>7 DEF SoftwareDrifts, FactsInterval, DriftInterval, CooldownOver, OrderName, OrderVersion,
       OrderOther, Order, vars, agent, machine
  <2> QED
    BY <2>1 DEF Passing, InPass, Busy
<1> QED
  BY <1>1, <1>2, <1>3, <1>4, <1>5, <1>6, <1>7 DEF Next, Agent, World, Capability

-----------------------------------------------------------------------------
LEMMA QueuedInit == Init => Queued
  BY DEF Init, Queued, Busy

\* The queue and the tasks left are as they were, or the pass is over.
LEMMA QueuedFrame ==
    ASSUME Queued, UNCHANGED <<order.queue, order.last>>,
           \/ ~Busy'
           \/ /\ Busy /\ loc'.tasks = loc.tasks
              /\ "snapin" \in loc'.todo => "snapin" \in loc.todo
    PROVE  Queued'
  BY DEF Queued

\* A task that was run is off the pass and the queue alike, or the pass is
\* done with its tasks.
LEMMA RunSnapinQueued ==
    ASSUME TypeOK, Queued, NEW task \in loc.tasks, RunSnapin(task), Busy,
           "snapin" \in loc.todo
    PROVE  Queued'
<1>1. PICK answer \in Answers, outcome \in {"success", "retry", "failed"} :
        /\ order' = [order EXCEPT !.queue = IF answer = "lost" THEN @ ELSE Closes(task, outcome)]
        /\ IF SnapinStops(answer, outcome) THEN Advance("snapin", FALSE)
           ELSE IF Aborts(task, outcome) THEN Advance("snapin", TRUE)
           ELSE loc' = [loc EXCEPT !.tasks = @ \ {task}]
  BY DEF RunSnapin
<1>2. /\ order'.last = order.last
      /\ order'.queue = IF answer = "lost" THEN order.queue ELSE Closes(task, outcome)
  BY <1>1 DEF TypeOK, HostRecords
<1>3. order'.queue \subseteq order.queue
  BY <1>2 DEF Closes
<1>4. CASE SnapinStops(answer, outcome) \/ Aborts(task, outcome)
  <2>1. \E ok \in BOOLEAN : Advance("snapin", ok)
    BY <1>1, <1>4
  <2>2. "snapin" \notin loc'.todo
    BY <2>1 DEF Advance, TypeOK, Passes
  <2> QED
    BY <1>2, <1>3, <2>2 DEF Queued
<1>5. CASE ~(SnapinStops(answer, outcome) \/ Aborts(task, outcome))
  <2>1. loc'.tasks = loc.tasks \ {task} /\ loc'.todo = loc.todo
    BY <1>1, <1>5 DEF TypeOK, Passes
  <2>2. order'.queue = order.queue \ {task}
    BY <1>2, <1>5 DEF SnapinStops, Aborts, Closes, Answers
  <2> QED
    BY <1>2, <2>1, <2>2 DEF Queued
<1> QED
  BY <1>4, <1>5

LEMMA QueuedStep == TypeOK /\ Passing /\ Queued /\ [Next]_vars => Queued'
<1> SUFFICES ASSUME TypeOK, Passing, Queued, [Next]_vars PROVE Queued'
  OBVIOUS
<1> USE DEF Goto, At
<1>1. CASE Snapin
  BY <1>1, RunSnapinQueued DEF Snapin, Turn, ComesNext, Busy
<1>2. CASE \/ Hostname \/ Power \/ Software
           \/ NoDirectory \/ Directory \/ SetComputerName \/ ReportDirectory
           \/ SnapinNotFetched \/ SnapinsDone
  <2>1. order'.queue = order.queue /\ order'.last = order.last
    BY <1>2 DEF Hostname, Power, Software, NoDirectory, Directory, SetComputerName,
       ReportDirectory, SnapinNotFetched, SnapinsDone, server, TypeOK, HostRecords
  <2>2. loc'.tasks = loc.tasks /\ loc'.todo \subseteq loc.todo
    <3>1. ASSUME NEW c, Skip(c)
          PROVE  loc'.tasks = loc.tasks /\ loc'.todo \subseteq loc.todo
      BY <3>1 DEF Skip, TypeOK, Passes
    <3>2. ASSUME NEW c, NEW ok, Advance(c, ok)
          PROVE  loc'.tasks = loc.tasks /\ loc'.todo \subseteq loc.todo
      BY <3>2 DEF Advance, TypeOK, Passes
    <3>3. CASE Directory \/ SetComputerName
      <4>1. loc' = loc \/ \E status : loc' = [loc EXCEPT !.status = status]
        BY <3>3 DEF Directory, SetComputerName
      <4> QED
        BY <4>1 DEF TypeOK, Passes
    <3>4. CASE \/ Hostname \/ Power \/ Software \/ NoDirectory \/ ReportDirectory
               \/ SnapinNotFetched \/ SnapinsDone
      BY <3>1, <3>2, <3>4 DEF Hostname, Power, Software, NoDirectory, ReportDirectory,
         SnapinNotFetched, SnapinsDone
    <3> QED
      BY <1>2, <3>3, <3>4
  <2>3. Busy
    BY <1>2, CapabilityMoves DEF Capability, Busy
  <2> QED
    BY <2>1, <2>2, <2>3, QueuedFrame
<1>3. CASE Poll
  BY <1>3, PollHands DEF Queued, Busy
<1>4. CASE UpdateYields \/ NotUpdated
  <2>1. order' = order /\ loc'.tasks = loc.tasks /\ loc'.todo = loc.todo /\ Busy
    BY <1>4 DEF UpdateYields, NotUpdated, Worked, server, TypeOK, Passes, Busy
  <2> QED
    BY <2>1, QueuedFrame
<1>5. CASE \/ PollUnanswered \/ Drift \/ Update
           \/ Record \/ PutBack \/ Coordinate \/ Restart \/ Crash \/ PowerCut
  <2>1. order' = order /\ pc' \in {"poll", "put_back", "coordinate"}
    BY <1>5 DEF PollUnanswered, Drift, Update, Record, PutBack, Coordinate,
       Restart, Crash, PowerCut, StartAgain, server, agent
  <2> QED
    BY <2>1, QueuedFrame DEF Busy
<1>6. CASE \/ SoftwareDrifts \/ FactsInterval \/ DriftInterval \/ CooldownOver
           \/ OrderName \/ OrderVersion \/ UNCHANGED vars
  <2>1. order'.queue = order.queue /\ order'.last = order.last /\ loc' = loc /\ pc' = pc
    BY <1>6 DEF SoftwareDrifts, FactsInterval, DriftInterval, CooldownOver, OrderName, OrderVersion,
       Order, vars, server, agent, TypeOK, HostRecords
  <2> QED
    BY <2>1 DEF Queued, Busy
<1>7. CASE OrderOther
  <2>1. loc' = loc /\ pc' = pc
    BY <1>7 DEF OrderOther, Order, agent
  <2>2. \/ \E t \in Tasks : t > order.last /\ order' = [order EXCEPT !.queue = @ \cup {t}, !.last = t]
        \/ \E b : order' = [order EXCEPT !.member = b]
        \/ \E n : order' = [order EXCEPT !.power = n]
        \/ \E p : order' = [order EXCEPT !.software = p]
    BY <1>7 DEF OrderOther, Order
  <2>3. CASE order'.queue = order.queue /\ order'.last = order.last
    BY <2>1, <2>3 DEF Queued, Busy
  <2>4. ASSUME NEW t \in Tasks, t > order.last,
               order' = [order EXCEPT !.queue = @ \cup {t}, !.last = t]
        PROVE  Queued'
    <3>1. order'.queue = order.queue \cup {t} /\ order'.last = t
      BY <2>4 DEF TypeOK, HostRecords
    <3>2. /\ order.queue \subseteq Nat /\ order.last \in Nat /\ t \in Nat
      BY ReconcileConstants DEF TypeOK, HostRecords
    <3> QED
      BY <2>1, <2>4, <3>1, <3>2 DEF Queued, Busy
  <2> QED
    BY <2>2, <2>3, <2>4 DEF TypeOK, HostRecords
<1> QED
  BY <1>1, <1>2, <1>3, <1>4, <1>5, <1>6, <1>7 DEF Next, Agent, World

-----------------------------------------------------------------------------
\* Between the two calls of a rename the object has the name the machine is
\* about to get.
Begun == pc = "set_name" => host.object = loc.rev.name

\* Neither the machine's names nor the marks of a rename change.
LEMMA OneNameFrame ==
    ASSUME TypeOK, Begun, OneName, "lagging" \in history => "lagging" \in history',
           UNCHANGED <<host.member, host.object, host.next>>,
           pc' # "set_name", pc # "set_name" \/ "lagging" \in history'
    PROVE  Begun' /\ OneName'
  BY DEF OneName, Begun

LEMMA OneNameStep == TypeOK /\ Passing /\ Begun /\ OneName /\ [Next]_vars => Begun' /\ OneName'
<1> SUFFICES ASSUME TypeOK, Passing, Begun, OneName, [Next]_vars PROVE Begun' /\ OneName'
  OBVIOUS
<1> USE DEF At, Goto, Turn, ComesNext
<1>1. CASE Hostname
  <2>1. /\ history' = history /\ host'.member = host.member /\ host'.object = host.object
        /\ pc = "reconcile" /\ pc' = pc
    BY <1>1 DEF Hostname, TypeOK, Machines
  <2>2. host.member => host' = host
    BY <1>1 DEF Hostname, SetsName, TypeOK, Machines
  <2> QED
    BY <2>1, <2>2 DEF OneName, Begun
<1>2. CASE Directory
  <2>1. PICK fails \in BOOLEAN :
          /\ host' = IF fails THEN host
                     ELSE IF Decide(loc.rev) = "join" THEN Joined
                     ELSE IF Decide(loc.rev) = "rename" THEN ObjectRenamed ELSE host
          /\ loc'.rev = loc.rev
          /\ pc' = IF Decide(loc.rev) = "rename" /\ ~fails THEN "set_name" ELSE "report"
    BY <1>2, CapabilityMoves DEF Directory, Capability
  <2>2. pc = "reconcile" /\ history' = history
    BY <1>2 DEF Directory
  <2>3. Joined.object = Joined.next /\ ObjectRenamed.object = loc.rev.name
    BY DEF Joined, ObjectRenamed, TypeOK, Machines
  <2>4. CASE ~fails /\ Decide(loc.rev) = "rename"
    BY <2>1, <2>3, <2>4 DEF OneName, Begun
  <2>5. CASE ~fails /\ Decide(loc.rev) = "join"
    BY <2>1, <2>3, <2>5 DEF OneName, Begun
  <2>6. CASE fails \/ Decide(loc.rev) \notin {"join", "rename"}
    BY <2>1, <2>2, <2>6, OneNameFrame
  <2> QED
    BY <2>4, <2>5, <2>6
<1>3. CASE SetComputerName
  <2>1. /\ pc = "set_name" /\ pc' = "report"
        /\ \/ host' = host /\ "lagging" \in history'
           \/ host' = MachineRenamed
    BY <1>3 DEF SetComputerName
  <2>2. MachineRenamed.object = host.object /\ MachineRenamed.next = loc.rev.name
    BY DEF MachineRenamed, TypeOK, Machines
  <2> QED
    BY <2>1, <2>2 DEF OneName, Begun
<1>4. CASE Software \/ Drift \/ Restart
  <2>1. host'.member = host.member /\ host'.object = host.object /\ host'.next = host.next
    <3>1. ASSUME NEW fails, NEW restart, Converge(fails, restart)
          PROVE  /\ host'.member = host.member /\ host'.object = host.object
                 /\ host'.next = host.next
      BY <3>1 DEF Converge, TypeOK, Machines
    <3>2. CASE Software \/ Drift
      BY <3>1, <3>2 DEF Software, Drift
    <3>3. CASE Restart
      BY <3>3 DEF Restart, Booted, TypeOK, Machines
    <3> QED
      BY <1>4, <3>2, <3>3
  <2>2. history' = history /\ pc # "set_name" /\ pc' # "set_name"
    BY <1>4 DEF Software, Drift, Restart
  <2> QED
    BY <2>1, <2>2, OneNameFrame
<1>5. CASE Crash \/ PowerCut
  <2>1. host'.member = host.member /\ host'.object = host.object /\ host'.next = host.next
    BY <1>5 DEF Crash, PowerCut, Booted, TypeOK, Machines
  <2>2. /\ "lagging" \in history \/ pc = "set_name" => "lagging" \in history'
        /\ pc' # "set_name"
    BY <1>5 DEF Crash, PowerCut, StartAgain, If
  <2> QED
    BY <2>1, <2>2, OneNameFrame
<1>6. CASE \/ Poll \/ PollUnanswered \/ Power \/ NoDirectory \/ ReportDirectory
           \/ Snapin \/ SnapinNotFetched \/ SnapinsDone
           \/ UpdateYields \/ NotUpdated \/ Update \/ Record \/ PutBack \/ Coordinate
  <2>1. host' = host
    BY <1>6 DEF Poll, PollUnanswered, Power, NoDirectory, ReportDirectory, Snapin,
       SnapinNotFetched, SnapinsDone, UpdateYields, NotUpdated, Update, Record, PutBack, Coordinate,
       machine
  <2>2. "lagging" \in history => "lagging" \in history'
    BY <1>6 DEF Poll, PollUnanswered, Power, NoDirectory, ReportDirectory, Snapin,
       SnapinNotFetched, SnapinsDone, UpdateYields, NotUpdated, Update, Record, PutBack, Coordinate,
       Noted, If
  <2>3. pc # "set_name" /\ pc' # "set_name"
    BY <1>6 DEF Poll, PollUnanswered, Power, NoDirectory, ReportDirectory, Snapin,
       SnapinNotFetched, SnapinsDone, UpdateYields, NotUpdated, Update, Record, PutBack, Coordinate,
       Worked, agent
  <2> QED
    BY <2>1, <2>2, <2>3, OneNameFrame
<1>7. CASE \/ SoftwareDrifts \/ FactsInterval \/ DriftInterval \/ CooldownOver
           \/ OrderName \/ OrderVersion \/ OrderOther \/ UNCHANGED vars
  <2>1. /\ host'.member = host.member /\ host'.object = host.object /\ host'.next = host.next
        /\ pc' = pc /\ loc' = loc
    BY <1>7 DEF SoftwareDrifts, FactsInterval, DriftInterval, CooldownOver, OrderName, OrderVersion,
       OrderOther, Order, machine, agent, vars, TypeOK, Machines
  <2>2. "lagging" \in history => "lagging" \in history'
    BY <1>7 DEF SoftwareDrifts, FactsInterval, DriftInterval, CooldownOver, OrderName, OrderVersion,
       OrderOther, Noted, If, vars
  <2> QED
    BY <2>1, <2>2 DEF OneName, Begun
<1> QED
  BY <1>1, <1>2, <1>3, <1>4, <1>5, <1>6, <1>7 DEF Next, Agent, World

-----------------------------------------------------------------------------
(***************************************************************************)
(* What a step does to each thing a standing revision is about.            *)
(***************************************************************************)

\* The marks that only come.
LEMMA MarksStay ==
    ASSUME [Next]_vars, NEW mark \in history, mark \notin {"yielded", "lagging"}
    PROVE  mark \in history'
<1>1. CASE Capability
  <2>1. CASE SetComputerName
    BY <2>1 DEF SetComputerName
  <2> QED
    BY <1>1, <2>1 DEF Capability, Hostname, Power, Software, NoDirectory, Directory, ReportDirectory,
       Snapin, SnapinNotFetched, SnapinsDone, Noted
<1>2. CASE \/ Poll \/ PollUnanswered \/ Drift \/ UpdateYields \/ NotUpdated \/ Update
           \/ Record \/ PutBack \/ Coordinate \/ Restart
  BY <1>2 DEF Poll, PollUnanswered, Drift, UpdateYields, NotUpdated, Update, Record, PutBack,
     Coordinate, Restart, Noted, If
<1>3. CASE World \/ UNCHANGED vars
  BY <1>3 DEF World, Crash, PowerCut, StartAgain, SoftwareDrifts, FactsInterval, DriftInterval,
     CooldownOver, OrderName, OrderVersion, OrderOther, Noted, vars
<1> QED
  BY <1>1, <1>2, <1>3 DEF Next, Agent, Capability

\* The steps of the loop, and of the world but for an admin's, leave the order
\* as it is.
LEMMA OrderStays ==
    ASSUME [Next]_vars
    PROVE  \/ order' = order
           \/ Power \/ Snapin \/ OrderName \/ OrderVersion \/ OrderOther
  BY DEF Next, Agent, World, Hostname, Software, NoDirectory, Directory, SetComputerName,
     ReportDirectory, SnapinNotFetched, SnapinsDone, Poll, PollUnanswered, Drift, UpdateYields,
     NotUpdated, Update, Record, PutBack, Coordinate, Restart, Crash, PowerCut, StartAgain,
     SoftwareDrifts, FactsInterval, DriftInterval, CooldownOver, vars, server

LEMMA NameMoves ==
    ASSUME TypeOK, [Next]_vars, order'.name # order.name
    PROVE  /\ UNCHANGED <<host, pc, loc, cfg, disk>>
           /\ (order'.name = host.name \/ \E rev \in Standing : rev.name = order'.name)
                => "withdrawn" \in history'
<1>1. ~Power /\ ~Snapin
  BY CapabilityMoves DEF Capability
<1>2. ~OrderVersion /\ ~OrderOther
  BY DEF OrderVersion, OrderOther, Order, TypeOK, HostRecords
<1>3. OrderName
  BY <1>1, <1>2, OrderStays
<1>4. PICK n \in Names :
        /\ order' = [order EXCEPT !.name = n]
        /\ Noted(n = host.name \/ \E rev \in Standing : rev.name = n, "withdrawn")
        /\ UNCHANGED <<host, pc, loc, cfg, disk>>
  BY <1>3 DEF OrderName, Order, machine, agent
<1>5. order'.name = n
  BY <1>4 DEF TypeOK, HostRecords
<1> QED
  BY <1>4, <1>5 DEF Noted, If

LEMMA VersionMoves ==
    ASSUME TypeOK, [Next]_vars, order'.version # order.version
    PROVE  /\ UNCHANGED <<build, pc, loc, cfg, disk>>
           /\ "yielded" \in history => "yielded" \in history'
           /\ (\E rev \in Standing : rev.version = order'.version) => "recalled" \in history'
<1>1. ~Power /\ ~Snapin
  BY CapabilityMoves DEF Capability
<1>2. ~OrderName /\ ~OrderOther
  BY DEF OrderName, OrderOther, Order, TypeOK, HostRecords
<1>3. OrderVersion
  BY <1>1, <1>2, OrderStays
<1>4. PICK v \in Versions :
        /\ order' = [order EXCEPT !.version = v]
        /\ Noted(\E rev \in Standing : rev.version = v, "recalled")
        /\ UNCHANGED <<build, pc, loc, cfg, disk>>
  BY <1>3 DEF OrderVersion, Order, machine, agent
<1>5. order'.version = v
  BY <1>4 DEF TypeOK, HostRecords
<1> QED
  BY <1>4, <1>5 DEF Noted, If

LEMMA PowerMoves ==
    ASSUME TypeOK, [Next]_vars
    PROVE  /\ ordered' >= ordered
           /\ order'.power \in {order.power, 0} \/ (order'.power = ordered' /\ ordered' > ordered)
<1>1. ordered' >= ordered
  <2>1. ordered \in Nat
    BY ReconcileConstants DEF TypeOK
  <2>2. ordered' = ordered \/ ordered' = ordered + 1
    BY DEF Next, Agent, World, Hostname, Power, Software, NoDirectory, Directory, SetComputerName,
       ReportDirectory, Snapin, SnapinNotFetched, SnapinsDone, Poll, PollUnanswered, Drift,
       UpdateYields, NotUpdated, Update, Record, PutBack, Coordinate, Restart, Crash, PowerCut,
       StartAgain, SoftwareDrifts, FactsInterval, DriftInterval, CooldownOver, OrderName,
       OrderVersion, OrderOther, Order, vars
  <2> QED
    BY <2>1, <2>2
<1>2. CASE order' = order
  BY <1>1, <1>2
<1>3. CASE Power
  BY <1>1, <1>3 DEF Power, TypeOK, HostRecords
<1>4. CASE Snapin
  BY <1>1, <1>4 DEF Snapin, RunSnapin, TypeOK, HostRecords
<1>5. CASE OrderName \/ OrderVersion
  BY <1>1, <1>5 DEF OrderName, OrderVersion, Order, TypeOK, HostRecords
<1>6. CASE OrderOther
  <2>1. ordered' = ordered + 1
    BY <1>6 DEF OrderOther, Order
  <2>2. ordered \in Nat
    BY ReconcileConstants DEF TypeOK
  <2>3. order'.power \in {order.power, ordered'}
    BY <1>6 DEF OrderOther, Order, TypeOK, HostRecords
  <2> QED
    BY <2>1, <2>2, <2>3
<1> QED
  BY <1>2, <1>3, <1>4, <1>5, <1>6, OrderStays

LEMMA QueueMoves ==
    ASSUME TypeOK, [Next]_vars
    PROVE  \/ order'.queue \subseteq order.queue /\ order'.last = order.last
           \/ /\ order'.last \in Nat /\ order'.last > order.last
              /\ order'.queue = order.queue \cup {order'.last}
              /\ loc' = loc
<1>1. CASE order' = order
  BY <1>1
<1>2. CASE Power \/ OrderName \/ OrderVersion
  BY <1>2 DEF Power, OrderName, OrderVersion, Order, TypeOK, HostRecords
<1>3. CASE Snapin
  BY <1>3 DEF Snapin, RunSnapin, Closes, TypeOK, HostRecords
<1>4. CASE OrderOther
  <2>1. \/ \E t \in Tasks : t > order.last /\ order' = [order EXCEPT !.queue = @ \cup {t}, !.last = t]
        \/ \E b : order' = [order EXCEPT !.member = b]
        \/ \E n : order' = [order EXCEPT !.power = n]
        \/ \E p : order' = [order EXCEPT !.software = p]
    BY <1>4 DEF OrderOther, Order
  <2>2. loc' = loc
    BY <1>4 DEF OrderOther, Order, agent
  <2> QED
    BY <2>1, <2>2, ReconcileConstants DEF TypeOK, HostRecords
<1> QED
  BY <1>1, <1>2, <1>3, <1>4, OrderStays

\* The machine takes a name only from the pass in progress, and boots under it
\* only between two passes.
LEMMA HostStays ==
    ASSUME [Next]_vars
    PROVE  \/ host' = host
           \/ Hostname \/ Software \/ Drift \/ Directory \/ SetComputerName
           \/ Restart \/ PowerCut \/ SoftwareDrifts
  BY DEF Next, Agent, World, Power, NoDirectory, ReportDirectory, Snapin, SnapinNotFetched,
     SnapinsDone, Poll, PollUnanswered, UpdateYields, NotUpdated, Update, Record, PutBack,
     Coordinate, Crash, FactsInterval, DriftInterval, CooldownOver, OrderName, OrderVersion,
     OrderOther, Order, vars, machine

LEMMA HostMoves ==
    ASSUME TypeOK, [Next]_vars
    PROVE  /\ host'.next # host.next => Busy /\ host'.next = loc.rev.name
           /\ host'.name # host.name =>
                 host'.name = host.next /\ host'.next = host.next /\ pc' = "poll"
           /\ host.member => host'.member
<1>1. CASE host' = host
  BY <1>1
<1>2. CASE Hostname
  BY <1>2 DEF Hostname, Turn, ComesNext, At, Busy, TypeOK, Machines
<1>3. CASE Software \/ Drift
  BY <1>3 DEF Software, Drift, Converge, TypeOK, Machines
<1>4. CASE Directory
  BY <1>4 DEF Directory, Joined, ObjectRenamed, TypeOK, Machines
<1>5. CASE SetComputerName
  BY <1>5 DEF SetComputerName, MachineRenamed, At, Busy, TypeOK, Machines
<1>6. CASE Restart \/ PowerCut
  BY <1>6 DEF Restart, PowerCut, StartAgain, Booted, Goto, TypeOK, Machines
<1>7. CASE SoftwareDrifts
  BY <1>7 DEF SoftwareDrifts, TypeOK, Machines
<1> QED
  BY <1>1, <1>2, <1>3, <1>4, <1>5, <1>6, <1>7, HostStays

LEMMA CoolingMoves ==
    ASSUME TypeOK, [Next]_vars, cooling, ~cooling'
    PROVE  (\E rev \in Standing : rev.directory # "none") => "missed" \in history'
<1>1. CooldownOver
  BY DEF Next, Agent, World, Hostname, Power, Software, NoDirectory, Directory, SetComputerName,
     ReportDirectory, Snapin, SnapinNotFetched, SnapinsDone, Poll, PollUnanswered, Drift,
     UpdateYields, NotUpdated, Update, Record, PutBack, Coordinate, Restart, Crash, PowerCut,
     StartAgain, SoftwareDrifts, FactsInterval, DriftInterval, OrderName, OrderVersion, OrderOther,
     Order, vars, server
<1> QED
  BY <1>1 DEF CooldownOver, Noted, If

LEMMA BuildMoves ==
    ASSUME TypeOK, [Next]_vars
    PROVE  \/ build' = build /\ ("yielded" \in history => "yielded" \in history')
           \/ Busy /\ build' = loc.rev.version /\ order' = order
<1>1. CASE Capability
  BY <1>1, CapabilityMoves DEF Marks
<1>2. CASE NotUpdated
  BY <1>2 DEF NotUpdated, Worked, At, Busy, If, server, machine
<1>3. CASE Update
  BY <1>3 DEF Update, Worked, UpdatesTo, At, Busy, server
<1>4. CASE \/ Poll \/ PollUnanswered \/ Drift \/ UpdateYields
           \/ Record \/ PutBack \/ Coordinate \/ Restart
  BY <1>4 DEF Poll, PollUnanswered, Drift, UpdateYields, Record, PutBack,
     Coordinate, Restart, Noted, If, machine
<1>5. CASE World \/ UNCHANGED vars
  BY <1>5 DEF World, Crash, PowerCut, StartAgain, SoftwareDrifts, FactsInterval, DriftInterval,
     CooldownOver, OrderName, OrderVersion, OrderOther, Order, Noted, vars, machine
<1> QED
  BY <1>1, <1>2, <1>3, <1>4, <1>5 DEF Next, Agent, Capability

\* What is recorded, or held to be put back, was recorded before, but for what
\* a pass records at its end.
Stamped == {Stamp(cfg), Stamp(disk), loc.prev}

LEMMA StampedMoves ==
    ASSUME TypeOK, [Next]_vars, ~Record
    PROVE  /\ Stamped' \subseteq Stamped \cup {NoPass.prev}
           /\ pc' # "put_back" => pc # "put_back" \/ "cut" \in history' \/ PutBack
           /\ pc' # "put_back" /\ ~PutBack =>
                 {Stamp(cfg'), Stamp(disk')} \subseteq {Stamp(cfg), Stamp(disk)}
           /\ InPass' => \/ InPass /\ loc'.prev = loc.prev
                         \/ pc # "put_back" /\ loc'.prev = Stamp(cfg)
<1> USE DEF At, Goto
<1>1. CASE Capability
  BY <1>1, CapabilityMoves DEF Stamped, InPass, Busy
<1>2. CASE Poll
  BY <1>2, PollHands DEF Stamped, InPass, Busy
<1>3. CASE Drift
  <2>1. PICK restart \in BOOLEAN, unsaved \in BOOLEAN : Save(Checked(restart), unsaved)
    BY <1>3 DEF Drift
  <2>2. Stamp(Checked(restart)) = Stamp(cfg)
    BY DEF Checked, Stamp, TypeOK, Configs
  <2>3. pc' = "coordinate" /\ pc = "drift" /\ loc' = loc
    BY <1>3 DEF Drift
  <2> QED
    BY <2>1, <2>2, <2>3 DEF Save, Stamped, InPass, Busy
<1>4. CASE UpdateYields \/ NotUpdated
  <2>1. loc'.prev = loc.prev
    BY <1>4 DEF UpdateYields, NotUpdated, TypeOK, Passes
  <2>2. pc = "reconcile" /\ pc' = "record" /\ cfg' = cfg /\ disk' = disk
    BY <1>4 DEF UpdateYields, NotUpdated, Worked
  <2> QED
    BY <2>1, <2>2 DEF Stamped, InPass, Busy
<1>5. CASE Update
  BY <1>5 DEF Update, Worked, Stamped, InPass, Busy
<1>6. CASE PutBack
  <2> DEFINE old == [cfg EXCEPT !.applied = loc.prev.applied, !.with = loc.prev.with]
  <2>1. PICK fails \in BOOLEAN : Save(old, fails)
    BY <1>6 DEF PutBack
  <2>2. pc = "put_back" /\ pc' = "coordinate" /\ loc' = NoPass
    BY <1>6 DEF PutBack
  <2>3. Stamp(old) = loc.prev
    BY DEF Stamp, TypeOK, Configs, Passes, Stamps
  <2> QED
    BY <1>6, <2>1, <2>2, <2>3 DEF Save, Stamped, InPass, Busy
<1>7. CASE Coordinate \/ PollUnanswered
  BY <1>7 DEF Coordinate, PollUnanswered, agent, Stamped, InPass, Busy
<1>8. CASE Restart
  <2>1. Stamp([cfg EXCEPT !.pending = FALSE]) = Stamp(cfg)
    BY DEF Stamp, TypeOK, Configs
  <2> QED
    BY <1>8, <2>1 DEF Restart, Save, Stamped, InPass, Busy
<1>9. CASE Crash \/ PowerCut
  BY <1>9 DEF Crash, PowerCut, StartAgain, If, Stamped, InPass, Busy
<1>10. CASE FactsInterval \/ DriftInterval
  <2>1. Stamp(cfg') = Stamp(cfg) /\ Stamp(disk') = Stamp(disk)
    BY <1>10 DEF FactsInterval, DriftInterval, Stamp, TypeOK, Configs
  <2> QED
    BY <1>10, <2>1 DEF FactsInterval, DriftInterval, Stamped, InPass, Busy
<1>11. CASE \/ SoftwareDrifts \/ CooldownOver \/ OrderName \/ OrderVersion \/ OrderOther
            \/ UNCHANGED vars
  BY <1>11 DEF SoftwareDrifts, CooldownOver, OrderName, OrderVersion, OrderOther, Order, vars, agent,
     Stamped, InPass, Busy
<1> QED
  BY <1>1, <1>2, <1>3, <1>4, <1>5, <1>6, <1>7, <1>8, <1>9, <1>10, <1>11
  DEF Next, Agent, World, Capability

LEMMA RecordStamps ==
    ASSUME TypeOK, Record
    PROVE  /\ pc = "record" /\ pc' \in {"put_back", "coordinate"}
           /\ UNCHANGED <<server, host, build, ordered>>
           /\ history \subseteq history' /\ history' \subseteq history \cup {"cut"}
           /\ pc' = "put_back" => loc' = loc
           /\ pc' # "put_back" => loc' = NoPass
           /\ \/ Stamp(cfg') = Stamp(cfg) /\ Stamp(disk') \in {Stamp(cfg), Stamp(disk)}
              \/ /\ loc.ok /\ Stamp(cfg') = [applied |-> loc.rev, with |-> Handles(build)]
                 /\ Stamp(disk') \in {Stamp(disk), Stamp(cfg')}
                 /\ pc' = "put_back" \/ ~loc.held \/ "cut" \in history'
           /\ pc' = "put_back" => loc.held
<1> DEFINE new == [cfg EXCEPT !.applied = loc.rev, !.with = Handles(build)]
<1>1. PICK fails \in BOOLEAN :
        /\ Save(IF Records THEN new ELSE cfg, fails)
        /\ IF Records /\ loc.held /\ ~fails
           THEN Goto("put_back") /\ UNCHANGED <<loc, history>>
           ELSE Goto("coordinate") /\ loc' = NoPass /\ Noted(Records /\ loc.held, "cut")
  BY DEF Record
<1>2. Stamp(new) = [applied |-> loc.rev, with |-> Handles(build)]
  BY DEF Stamp, TypeOK, Configs
<1>3. pc = "record" /\ UNCHANGED <<server, host, build, ordered>>
  BY DEF Record, At, machine
<1>4. loc.ok \in BOOLEAN /\ loc.held \in BOOLEAN
  BY DEF TypeOK, Passes
<1>5. CASE ~loc.ok
  BY <1>1, <1>3, <1>5 DEF Records, Save, Goto, Noted, If
<1>6. CASE loc.ok
  BY <1>1, <1>2, <1>3, <1>4, <1>6 DEF Records, Save, Goto, Noted, If
<1> QED
  BY <1>4, <1>5, <1>6

\* A pass goes on with the revision it began with.
LEMMA BusyMoves ==
    ASSUME TypeOK, [Next]_vars, Busy'
    PROVE  \/ Poll
           \/ /\ Busy /\ loc'.rev = loc.rev /\ loc'.held = loc.held /\ build' = build
              /\ Stamped' = Stamped /\ (loc'.ok => loc.ok)
<1> USE DEF At, Goto
<1>1. CASE Capability
  BY <1>1, CapabilityMoves DEF Stamped, Busy
<1>2. CASE UpdateYields \/ NotUpdated
  <2>1. /\ loc'.prev = loc.prev /\ loc'.rev = loc.rev /\ loc'.held = loc.held
        /\ loc'.ok => loc.ok
    BY <1>2 DEF UpdateYields, NotUpdated, TypeOK, Passes
  <2>2. pc = "reconcile" /\ cfg' = cfg /\ disk' = disk /\ build' = build
    BY <1>2 DEF UpdateYields, NotUpdated, Worked, machine
  <2> QED
    BY <2>1, <2>2 DEF Stamped, Busy
<1>3. CASE \/ PollUnanswered \/ Drift \/ Update \/ Record \/ PutBack \/ Coordinate \/ Restart
           \/ Crash \/ PowerCut \/ FactsInterval \/ DriftInterval \/ CooldownOver
  <2>1. pc' \in {"poll", "put_back", "coordinate"}
    BY <1>3 DEF PollUnanswered, Drift, Update, Record, PutBack, Coordinate, Restart, Crash, PowerCut,
       StartAgain, FactsInterval, DriftInterval, CooldownOver, agent
  <2> QED
    BY <2>1 DEF Busy
<1>4. CASE SoftwareDrifts \/ OrderName \/ OrderVersion \/ OrderOther \/ UNCHANGED vars
  <2>1. UNCHANGED <<agent, build>>
    BY <1>4 DEF SoftwareDrifts, OrderName, OrderVersion, OrderOther, Order, vars, machine
  <2> QED
    BY <2>1 DEF agent, Stamped, Busy
<1> QED
  BY <1>1, <1>2, <1>3, <1>4 DEF Next, Agent, World, Capability

LEMMA StandingStamped == Standing = {s.applied : s \in Stamped} \ {None}
  BY DEF Standing, Stamped, Stamp

LEMMA StandingMoves ==
    ASSUME TypeOK, [Next]_vars
    PROVE  /\ ~Record => Standing' \subseteq Standing
           /\ Standing' \subseteq Standing \cup {loc.rev}
<1>1. Standing' = {s.applied : s \in Stamped'} \ {None}
  BY DEF Standing, Stamped, Stamp
<1>2. CASE ~Record
  <2>1. NoPass.prev.applied = None
    BY DEF NoPass
  <2> QED
    BY <1>1, <1>2, <2>1, StampedMoves, StandingStamped
<1>3. CASE Record
  <2>1. loc'.prev.applied \in {None, loc.prev.applied}
    BY <1>3, RecordStamps DEF NoPass
  <2>2. {cfg'.applied, disk'.applied} \subseteq {cfg.applied, disk.applied, loc.rev}
    BY <1>3, RecordStamps DEF Stamp
  <2> QED
    BY <1>3, <2>1, <2>2 DEF Standing
<1> QED
  BY <1>2, <1>3

-----------------------------------------------------------------------------
\* An action or a task ordered after a revision was made has a later number.
Made == (Standing \cup {loc.rev}) \ {None}

LEMMA InPassMade == ASSUME TypeOK, Passing, InPass PROVE loc.rev \in Made /\ loc.rev \in Revisions
  BY NoneIsNoRevision DEF Passing, Made

Numbered ==
    /\ order.power <= ordered
    /\ \A rev \in Made : rev.power <= ordered /\ \A t \in rev.queue : t <= order.last

LEMMA MadeTyped == TypeOK => Made \subseteq Revisions
  BY DEF TypeOK, Made, Standing, Configs, Passes, Stamps

LEMMA NumberedInit == Init => Numbered
  BY DEF Init, Numbered, Made, Standing, NoPass

LEMMA NumberedStep ==
    TypeOK /\ Passing /\ Queued /\ Numbered /\ [Next]_vars => Numbered'
<1> SUFFICES ASSUME TypeOK, Passing, Queued, Numbered, [Next]_vars PROVE Numbered'
  OBVIOUS
<1>1. TypeOK'
  BY TypesStep
<1>2. /\ ordered \in Nat /\ ordered' \in Nat /\ order.power \in Nat /\ order'.power \in Nat
      /\ order.last \in Nat /\ order'.last \in Nat /\ order.queue \subseteq Nat
  <2>1. order \in HostRecords /\ order' \in HostRecords
    BY <1>1 DEF TypeOK
  <2>2. ordered \in 0..MaxOrders /\ ordered' \in 0..MaxOrders
    BY <1>1 DEF TypeOK
  <2>3. MaxOrders \in Nat /\ Tasks \subseteq Nat
    BY ReconcileConstants
  <2>4. \A o \in HostRecords : o.power \in 0..MaxOrders /\ o.last \in Nat /\ o.queue \subseteq Tasks
    BY DEF HostRecords
  <2>5. /\ order.power \in 0..MaxOrders /\ order'.power \in 0..MaxOrders
        /\ order.last \in Nat /\ order'.last \in Nat /\ order.queue \subseteq Tasks
    BY <2>1, <2>4
  <2>6. order.queue \subseteq Nat
    BY <2>3, <2>5
  <2>7. ordered \in Nat /\ ordered' \in Nat /\ order.power \in Nat /\ order'.power \in Nat
    BY <2>2, <2>3, <2>5
  <2> QED
    BY <2>5, <2>6, <2>7
<1>3. order'.power <= ordered'
  BY <1>2, PowerMoves DEF Numbered
<1>4. order'.last >= order.last
  BY <1>2, QueueMoves
<1>5. ASSUME NEW rev \in Made
      PROVE  rev.power <= ordered' /\ \A t \in rev.queue : t <= order'.last
  <2>0. rev \in Revisions
    BY MadeTyped
  <2>1. rev.power \in Nat /\ rev.queue \subseteq Nat
    <3>1. rev.power \in 0..MaxOrders /\ rev.queue \subseteq Tasks
      BY <2>0 DEF Revisions
    <3>2. rev.queue \subseteq Nat
      BY <3>1, ReconcileConstants
    <3>3. rev.power \in Nat
      BY <3>1, ReconcileConstants
    <3> QED
      BY <3>2, <3>3
  <2> QED
    BY <1>2, <1>4, <2>1, PowerMoves DEF Numbered
<1>6. CASE Poll
  <2>1. Standing' \subseteq Standing /\ loc'.rev.power = order.power /\ loc'.rev.queue = order.queue
    BY <1>6, StandingMoves, PollHands DEF Poll, Record, At
  <2>2. loc'.rev.power <= ordered' /\ \A t \in loc'.rev.queue : t <= order'.last
    BY <1>2, <1>4, <2>1, PowerMoves DEF Numbered, Queued
  <2> QED
    BY <1>3, <1>5, <2>1, <2>2 DEF Numbered, Made
<1>7. CASE ~Poll
  <2>1. loc'.rev \in {loc.rev, None}
    <3>1. CASE Capability
      BY <3>1, CapabilityMoves
    <3>2. CASE NotUpdated
      BY <3>2 DEF NotUpdated, TypeOK, Passes
    <3>3. CASE Update \/ PutBack \/ Coordinate \/ Restart \/ Crash \/ PowerCut
      <4>1. loc' = NoPass
        BY <3>3 DEF Update, PutBack, Coordinate, Restart, Crash, PowerCut, StartAgain
      <4> QED
        BY <4>1 DEF NoPass
    <3>4. CASE Record
      <4>1. loc' \in {loc, NoPass}
        BY <3>4, RecordStamps
      <4> QED
        BY <4>1 DEF NoPass
    <3>5. CASE \/ PollUnanswered \/ Drift \/ UpdateYields \/ SoftwareDrifts \/ FactsInterval
               \/ DriftInterval \/ CooldownOver \/ OrderName \/ OrderVersion \/ OrderOther
               \/ UNCHANGED vars
      BY <3>5 DEF PollUnanswered, Drift, UpdateYields, SoftwareDrifts, FactsInterval,
         DriftInterval, CooldownOver, OrderName, OrderVersion, OrderOther, Order, vars, agent
    <3> QED
      BY <1>7, <3>1, <3>2, <3>3, <3>4, <3>5 DEF Next, Agent, World, Capability
  <2>2. Made' \subseteq Made
    BY <2>1, StandingMoves DEF Made
  <2> QED
    BY <1>3, <1>5, <2>2 DEF Numbered
<1> QED
  BY <1>6, <1>7

-----------------------------------------------------------------------------
\* Unless the admin went back to a name the host runs under or had applied:
\* a machine that has the name it should have is not about to get another, and
\* a pass that gives it an old name knows better than what was recorded.
Stays ==
    "withdrawn" \notin history =>
        /\ order.name = host.name => host.next = host.name
        /\ Busy /\ (order.name = host.name \/ \E rev \in Standing : rev.name = order.name)
              => loc.rev.name = order.name

\* Unless the admin went back to a version the host had applied, likewise.
Current ==
    "recalled" \notin history /\ Busy /\ (\E rev \in Standing : rev.version = order.version)
        => loc.rev.version = order.version

LEMMA StaysInit == Init => Stays /\ Current
  BY DEF Init, Stays, Current, Busy

LEMMA StaysStep == TypeOK /\ Passing /\ Stays /\ [Next]_vars => Stays'
<1> SUFFICES ASSUME TypeOK, Passing, Stays, [Next]_vars, "withdrawn" \notin history'
             PROVE  /\ order'.name = host'.name => host'.next = host'.name
                    /\ Busy' /\ (order'.name = host'.name
                                   \/ \E rev \in Standing' : rev.name = order'.name)
                          => loc'.rev.name = order'.name
  BY DEF Stays
<1>1. "withdrawn" \notin history
  BY MarksStay
<1>2. CASE order'.name # order.name
  <2>1. /\ UNCHANGED <<host, pc, loc, cfg, disk>>
        /\ ~(order'.name = host.name \/ \E rev \in Standing : rev.name = order'.name)
    BY <1>2, NameMoves
  <2> QED
    BY <2>1 DEF Standing
<1>3. CASE order'.name = order.name
  <2>1. ASSUME order'.name = host'.name PROVE host'.next = host'.name
    BY <1>1, <1>3, <2>1, HostMoves DEF Stays
  <2>2. ASSUME Busy', order'.name = host'.name \/ \E rev \in Standing' : rev.name = order'.name
        PROVE  loc'.rev.name = order'.name
    <3>1. CASE Poll
      BY <1>3, <3>1, PollHands
    <3>2. CASE ~Poll
      <4>1. Busy /\ loc'.rev = loc.rev /\ Stamped' = Stamped
        BY <2>2, <3>2, BusyMoves
      <4>2. Standing' = Standing
        <5>1. Standing' = {s.applied : s \in Stamped'} \ {None}
          BY DEF Standing, Stamped, Stamp
        <5> QED
          BY <4>1, <5>1, StandingStamped
      <4>3. host'.name = host.name
        BY <2>2, HostMoves DEF Busy
      <4> QED
        BY <1>1, <1>3, <2>2, <4>1, <4>2, <4>3 DEF Stays
    <3> QED
      BY <3>1, <3>2
  <2> QED
    BY <2>1, <2>2
<1> QED
  BY <1>2, <1>3

LEMMA CurrentStep == TypeOK /\ Passing /\ Current /\ [Next]_vars => Current'
<1> SUFFICES ASSUME TypeOK, Passing, Current, [Next]_vars, "recalled" \notin history', Busy',
                    \E rev \in Standing' : rev.version = order'.version
             PROVE  loc'.rev.version = order'.version
  BY DEF Current
<1>1. "recalled" \notin history
  BY MarksStay
<1>2. CASE order'.version # order.version
  <2>1. /\ UNCHANGED <<loc, cfg, disk>>
        /\ ~(\E rev \in Standing : rev.version = order'.version)
    BY <1>2, VersionMoves
  <2> QED
    BY <2>1 DEF Standing
<1>3. CASE order'.version = order.version
  <2>1. CASE Poll
    BY <1>3, <2>1, PollHands
  <2>2. CASE ~Poll
    <3>1. Busy /\ loc'.rev = loc.rev /\ Stamped' = Stamped
      BY <2>2, BusyMoves
    <3>2. Standing' = Standing
      <4>1. Standing' = {s.applied : s \in Stamped'} \ {None}
        BY DEF Standing, Stamped, Stamp
      <4> QED
        BY <3>1, <4>1, StandingStamped
    <3> QED
      BY <1>1, <1>3, <3>1, <3>2 DEF Current
  <2> QED
    BY <2>1, <2>2
<1> QED
  BY <1>2, <1>3

-----------------------------------------------------------------------------
(***************************************************************************)
(* A revision is settled when what it orders, as far as a build handles    *)
(* that and the admin still wants it, is there or is on its way.           *)
(***************************************************************************)
SettledName(rev, with) ==
    "hostname" \in with /\ order.name = rev.name /\ "withdrawn" \notin history
        => host.next = rev.name \/ rev.wait
SettledPower(rev, with) == "power" \in with => rev.power = 0 \/ rev.power # order.power
SettledJoin(rev, with) ==
    "directory" \in with /\ rev.directory = "join"
        => host.member \/ cooling \/ "missed" \in history
SettledQueue(rev, with) == "snapin" \in with => rev.queue \cap order.queue = {}
SettledVersion(rev) ==
    order.version = rev.version /\ "recalled" \notin history
        => build = rev.version \/ "yielded" \in history
Settled(rev, with) ==
    /\ SettledName(rev, with)
    /\ SettledPower(rev, with) /\ SettledJoin(rev, with) /\ SettledQueue(rev, with)
    /\ SettledVersion(rev)

LEMMA PowerStays ==
    ASSUME TypeOK, Numbered, [Next]_vars, NEW rev \in Made, NEW with, SettledPower(rev, with)
    PROVE  SettledPower(rev, with)'
<1>1. rev.power \in Nat /\ rev.power <= ordered /\ ordered \in Nat
  BY MadeTyped, ReconcileConstants DEF Numbered, Revisions, TypeOK
<1> QED
  BY <1>1, PowerMoves DEF SettledPower

LEMMA JoinStays ==
    ASSUME TypeOK, [Next]_vars, NEW rev \in Revisions, NEW with, SettledJoin(rev, with),
           rev \in Standing \/ Busy
    PROVE  SettledJoin(rev, with)'
<1>1. CASE cooling /\ ~cooling'
  <2>1. ~Busy
    BY <1>1 DEF Busy, Next, Agent, World, Hostname, Power, Software, NoDirectory, Directory,
       SetComputerName, ReportDirectory, Snapin, SnapinNotFetched, SnapinsDone, Poll, PollUnanswered,
       Drift, UpdateYields, NotUpdated, Update, Record, PutBack, Coordinate, Restart, Crash,
       PowerCut, StartAgain, SoftwareDrifts, FactsInterval, DriftInterval, CooldownOver, OrderName,
       OrderVersion, OrderOther, Order, vars, server, At
  <2> QED
    BY <1>1, <2>1, CoolingMoves DEF SettledJoin
<1>2. CASE ~(cooling /\ ~cooling')
  BY <1>2, HostMoves, MarksStay DEF SettledJoin
<1> QED
  BY <1>1, <1>2

LEMMA QueueStays ==
    ASSUME TypeOK, Numbered, [Next]_vars, NEW rev \in Made, NEW with, SettledQueue(rev, with)
    PROVE  SettledQueue(rev, with)'
<1>1. /\ rev.queue \subseteq Nat /\ order.last \in Nat
      /\ \A t \in rev.queue : t <= order.last
  BY MadeTyped, ReconcileConstants DEF Numbered, Revisions, TypeOK, HostRecords
<1>2. CASE order'.queue \subseteq order.queue
  BY <1>2 DEF SettledQueue
<1>3. CASE order'.last > order.last /\ order'.last \in Nat /\ order'.queue = order.queue \cup {order'.last}
  <2>1. order'.last \notin rev.queue
    BY <1>1, <1>3
  <2> QED
    BY <1>3, <2>1 DEF SettledQueue
<1> QED
  BY <1>2, <1>3, QueueMoves

LEMMA SettledStep ==
    ASSUME TypeOK, Numbered, Stays, Current, [Next]_vars,
           NEW rev \in Standing, NEW with, Settled(rev, with)
    PROVE  Settled(rev, with)'
<1>0. rev \in Made /\ rev \in Revisions
  BY MadeTyped DEF Made, Standing
<1>1. SettledName(rev, with)'
  <2> SUFFICES ASSUME "hostname" \in with, order'.name = rev.name, "withdrawn" \notin history'
               PROVE  host'.next = rev.name \/ rev.wait
    BY DEF SettledName
  <2>1. "withdrawn" \notin history
    BY MarksStay
  <2>2. order'.name = order.name
    BY NameMoves
  <2>3. host.next = rev.name \/ rev.wait
    BY <2>1, <2>2 DEF Settled, SettledName
  <2>4. host'.next # host.next => host'.next = rev.name
    BY <2>1, <2>2, HostMoves DEF Stays
  <2> QED
    BY <2>3, <2>4
<1>2. SettledVersion(rev)'
  <2> SUFFICES ASSUME order'.version = rev.version, "recalled" \notin history'
               PROVE  build' = rev.version \/ "yielded" \in history'
    BY DEF SettledVersion
  <2>1. "recalled" \notin history
    BY MarksStay
  <2>2. order'.version = order.version
    BY VersionMoves
  <2>3. build = rev.version \/ "yielded" \in history
    BY <2>1, <2>2 DEF Settled, SettledVersion
  <2>4. Busy => loc.rev.version = order.version
    BY <2>1, <2>2 DEF Current
  <2> QED
    BY <2>2, <2>3, <2>4, BuildMoves
<1>3. SettledPower(rev, with)' /\ SettledJoin(rev, with)' /\ SettledQueue(rev, with)'
  BY <1>0, PowerStays, JoinStays, QueueStays DEF Settled
<1> QED
  BY <1>1, <1>2, <1>3 DEF Settled

-----------------------------------------------------------------------------
\* What a pass has run of its capabilities, while nothing failed or was held
\* back, is settled too; a machine that runs under the name it should have needs
\* no other, and of the queue what is not left to run was closed.
Ran == Handles(build) \ loc.todo
Working ==
    Busy /\ loc.ok /\ ~loc.held =>
        /\ "hostname" \in Ran =>
              host.next = loc.rev.name \/ loc.rev.wait \/ host.name = loc.rev.name
        /\ SettledPower(loc.rev, Ran) /\ SettledJoin(loc.rev, Ran) /\ SettledQueue(loc.rev, Ran)
        /\ "snapin" \in loc.todo => (loc.rev.queue \ loc.tasks) \cap order.queue = {}
        /\ pc = "record" => build = loc.rev.version \/ "yielded" \in history

LEMMA WorkingInit == Init => Working
  BY DEF Init, Working, Busy

\* Which step runs which capability.
LEMMA RanMoves ==
    ASSUME TypeOK, [Next]_vars, Busy', ~Poll
    PROVE  /\ "hostname" \in Ran' \ Ran => Hostname
           /\ "power" \in Ran' \ Ran => Power
           /\ "directory" \in Ran' \ Ran => NoDirectory \/ ReportDirectory
           /\ "snapin" \in Ran' \ Ran => Snapin \/ SnapinNotFetched \/ SnapinsDone
           /\ loc'.todo \subseteq loc.todo
           /\ loc'.tasks = loc.tasks \/ Snapin
           /\ pc' = "record" => pc = "record" \/ NotUpdated \/ UpdateYields
<1>0. build' = build
  BY BusyMoves
<1>1. ASSUME NEW c, Skip(c) \/ \E ok : Advance(c, ok)
      PROVE  Ran' \subseteq Ran \cup {c} /\ loc'.tasks = loc.tasks
  <2>1. loc'.todo = loc.todo \ {c} /\ loc'.tasks = loc.tasks
    BY <1>1 DEF Skip, Advance, TypeOK, Passes
  <2> QED
    BY <1>0, <2>1 DEF Ran
<1>2. CASE Capability
  <2>1. pc' # "record" /\ loc'.todo \subseteq loc.todo
    BY <1>2, CapabilityMoves
  <2>2. CASE Hostname
    <3>1. Skip("hostname") \/ \E ok : Advance("hostname", ok)
      BY <2>2 DEF Hostname
    <3> QED
      BY <1>1, <2>1, <2>2, <3>1
  <2>3. CASE Power
    <3>1. \E ok : Advance("power", ok)
      BY <2>3 DEF Power
    <3> QED
      BY <1>1, <2>1, <2>3, <3>1
  <2>4. CASE Software
    <3>1. \E ok : Advance("software", ok)
      BY <2>4 DEF Software
    <3> QED
      BY <1>1, <2>1, <2>4, <3>1
  <2>5. CASE NoDirectory \/ ReportDirectory
    <3>1. Skip("directory") \/ \E ok : Advance("directory", ok)
      BY <2>5 DEF NoDirectory, ReportDirectory
    <3> QED
      BY <1>1, <2>1, <2>5, <3>1
  <2>6. CASE Directory \/ SetComputerName
    <3>1. loc' = loc \/ \E status : loc' = [loc EXCEPT !.status = status]
      BY <2>6 DEF Directory, SetComputerName
    <3>2. loc'.todo = loc.todo /\ loc'.tasks = loc.tasks
      BY <3>1 DEF TypeOK, Passes
    <3> QED
      BY <1>0, <2>1, <3>2 DEF Ran
  <2>7. CASE Snapin
    <3>1. Ran' \subseteq Ran \cup {"snapin"}
      <4>1. PICK task \in loc.tasks : RunSnapin(task)
        BY <2>7 DEF Snapin
      <4>2. \/ \E ok \in BOOLEAN : Advance("snapin", ok)
            \/ loc' = [loc EXCEPT !.tasks = @ \ {task}]
        BY <4>1 DEF RunSnapin
      <4>3. ASSUME loc' = [loc EXCEPT !.tasks = @ \ {task}] PROVE Ran' = Ran
        BY <1>0, <4>3 DEF Ran, TypeOK, Passes
      <4> QED
        BY <1>1, <4>2, <4>3
    <3> QED
      BY <2>1, <2>7, <3>1
  <2>8. CASE SnapinNotFetched \/ SnapinsDone
    <3>1. \E ok : Advance("snapin", ok)
      BY <2>8 DEF SnapinNotFetched, SnapinsDone
    <3> QED
      BY <1>1, <2>1, <2>8, <3>1
  <2> QED
    BY <1>2, <2>2, <2>3, <2>4, <2>5, <2>6, <2>7, <2>8 DEF Capability
<1>3. CASE ~Capability
  <2>1. loc'.todo = loc.todo /\ loc'.tasks = loc.tasks
           /\ (pc' = "record" => pc = "record" \/ NotUpdated \/ UpdateYields)
    <3>1. CASE UpdateYields \/ NotUpdated
      BY <3>1 DEF UpdateYields, NotUpdated, TypeOK, Passes
    <3>2. CASE \/ PollUnanswered \/ Drift \/ Update \/ Record \/ PutBack \/ Coordinate \/ Restart
               \/ Crash \/ PowerCut \/ FactsInterval \/ DriftInterval \/ CooldownOver
      <4>1. pc' \in {"poll", "put_back", "coordinate"}
        BY <3>2 DEF PollUnanswered, Drift, Update, Record, PutBack, Coordinate, Restart, Crash,
           PowerCut, StartAgain, FactsInterval, DriftInterval, CooldownOver, agent, At, Goto
      <4> QED
        BY <4>1 DEF Busy
    <3>3. CASE SoftwareDrifts \/ OrderName \/ OrderVersion \/ OrderOther \/ UNCHANGED vars
      BY <3>3 DEF SoftwareDrifts, OrderName, OrderVersion, OrderOther, Order, vars, agent
    <3> QED
      BY <1>3, <3>1, <3>2, <3>3 DEF Next, Agent, World, Capability
  <2> QED
    BY <1>0, <2>1 DEF Ran
<1> QED
  BY <1>2, <1>3

\* What was settled stays so.
LEMMA WorkingKeeps ==
    ASSUME TypeOK, Passing, Numbered, Working, [Next]_vars, Busy', ~Poll, loc'.ok, ~loc'.held
    PROVE  /\ Busy /\ loc.ok /\ ~loc.held /\ loc'.rev = loc.rev /\ build' = build
           /\ "hostname" \in Ran =>
                 host'.next = loc.rev.name \/ loc.rev.wait \/ host'.name = loc.rev.name
           /\ "power" \in Ran => loc.rev.power = 0 \/ loc.rev.power # order'.power
           /\ "directory" \in Ran /\ loc.rev.directory = "join"
                 => host'.member \/ cooling' \/ "missed" \in history'
           /\ "snapin" \in Ran => loc.rev.queue \cap order'.queue = {}
           /\ pc = "record" => build' = loc.rev.version \/ "yielded" \in history'
<1>1. Busy /\ loc.ok /\ ~loc.held /\ loc'.rev = loc.rev /\ build' = build
  BY BusyMoves
<1>2. PICK rev : rev = loc.rev
  OBVIOUS
<1>3. rev \in Made /\ rev \in Revisions
  BY <1>1, <1>2, InPassMade DEF InPass
<1>4. PICK with : with = Ran
  OBVIOUS
<1>5. SettledPower(rev, with) /\ SettledJoin(rev, with) /\ SettledQueue(rev, with)
  BY <1>1, <1>2, <1>4 DEF Working, SettledPower, SettledJoin, SettledQueue
<1>6. SettledPower(rev, with)' /\ SettledJoin(rev, with)' /\ SettledQueue(rev, with)'
  BY <1>1, <1>3, <1>5, PowerStays, JoinStays, QueueStays
<1>7. "hostname" \in Ran =>
         host'.next = loc.rev.name \/ loc.rev.wait \/ host'.name = loc.rev.name
  BY <1>1, HostMoves DEF Working, Busy
<1>8. pc = "record" => build' = loc.rev.version \/ "yielded" \in history'
  BY <1>1, BuildMoves DEF Working
<1> QED
  BY <1>1, <1>2, <1>4, <1>6, <1>7, <1>8 DEF SettledPower, SettledJoin, SettledQueue

\* The name a pass was asked for is there when the hostname did not fail.
LEMMA HostnameSettles ==
    ASSUME TypeOK, Passing, Hostname, loc'.ok, ~loc.held
    PROVE  host'.next = loc.rev.name \/ loc.rev.wait \/ host'.name = loc.rev.name
<1>1. PICK fails \in BOOLEAN :
        /\ host' = [host EXCEPT !.next = IF SetsName(loc.rev) /\ ~fails THEN loc.rev.name ELSE @]
        /\ Advance("hostname", EnsureHostname(loc.rev, fails) # "failed")
  BY DEF Hostname
<1>2. EnsureHostname(loc.rev, fails) # "failed"
  BY <1>1 DEF Advance, TypeOK, Passes
<1>3. /\ host'.next = IF SetsName(loc.rev) /\ ~fails THEN loc.rev.name ELSE host.next
      /\ host'.name = host.name
  BY <1>1 DEF TypeOK, Machines
<1> QED
  BY <1>2, <1>3 DEF EnsureHostname, SetsName

\* A task is off the queue and the pass alike; at the end of the tasks, or when
\* their job aborts, nothing of the revision's queue is left.
LEMMA SnapinSettles ==
    ASSUME TypeOK, Passing, Working, Snapin \/ SnapinNotFetched \/ SnapinsDone, loc'.ok, ~loc.held
    PROVE  /\ "snapin" \in Ran' => loc.rev.queue \cap order'.queue = {}
           /\ "snapin" \in loc'.todo => (loc.rev.queue \ loc'.tasks) \cap order'.queue = {}
<1>1. Busy /\ loc.ok /\ "snapin" \in loc.todo
  BY CapabilityMoves
  DEF Capability, Busy, Snapin, SnapinNotFetched, SnapinsDone, Turn, ComesNext
<1>2. (loc.rev.queue \ loc.tasks) \cap order.queue = {}
  BY <1>1 DEF Working
<1>3. ASSUME NEW ok, Advance("snapin", ok)
      PROVE  ok /\ "snapin" \notin loc'.todo
  BY <1>3 DEF Advance, TypeOK, Passes
<1>4. CASE Snapin
  <2>0. PICK task \in loc.tasks : RunSnapin(task)
    BY <1>4 DEF Snapin
  <2>1. PICK answer \in Answers, outcome \in {"success", "retry", "failed"} :
          /\ order' = [order EXCEPT !.queue = IF answer = "lost" THEN @ ELSE Closes(task, outcome)]
          /\ IF SnapinStops(answer, outcome) THEN Advance("snapin", FALSE)
             ELSE IF Aborts(task, outcome) THEN Advance("snapin", TRUE)
             ELSE loc' = [loc EXCEPT !.tasks = @ \ {task}]
    BY <2>0 DEF RunSnapin
  <2>2. ~SnapinStops(answer, outcome)
    BY <1>3, <2>1
  <2>3. order'.queue = Closes(task, outcome)
    BY <2>1, <2>2 DEF SnapinStops, TypeOK, HostRecords
  <2>4. CASE Aborts(task, outcome)
    <3>1. "snapin" \notin loc'.todo
      BY <1>3, <2>1, <2>2, <2>4
    <3>2. order'.queue = order.queue \ loc.rev.queue
      BY <2>3, <2>4 DEF Closes, Aborts
    <3> QED
      BY <3>1, <3>2
  <2>5. CASE ~Aborts(task, outcome)
    <3>1. loc'.tasks = loc.tasks \ {task} /\ loc'.todo = loc.todo
      BY <2>1, <2>2, <2>5 DEF TypeOK, Passes
    <3>2. order'.queue = order.queue \ {task}
      BY <2>2, <2>3, <2>5 DEF Closes, Aborts, SnapinStops
    <3>3. "snapin" \notin Ran'
      BY <1>1, <3>1 DEF Ran
    <3> QED
      BY <1>2, <3>1, <3>2, <3>3
  <2> QED
    BY <2>4, <2>5
<1>5. CASE SnapinNotFetched
  BY <1>3, <1>5 DEF SnapinNotFetched
<1>6. CASE SnapinsDone
  <2>1. "snapin" \notin loc'.todo /\ loc.tasks = {} /\ order' = order
    BY <1>3, <1>6 DEF SnapinsDone, server
  <2> QED
    BY <1>2, <2>1
<1> QED
  BY <1>4, <1>5, <1>6

LEMMA WorkingStep ==
    TypeOK /\ Passing /\ Queued /\ Numbered /\ Working /\ [Next]_vars => Working'
<1> SUFFICES ASSUME TypeOK, Passing, Queued, Numbered, Working, [Next]_vars,
                    Busy', loc'.ok, ~loc'.held
             PROVE  /\ "hostname" \in Ran' =>
                          \/ host'.next = loc'.rev.name \/ loc'.rev.wait
                          \/ host'.name = loc'.rev.name
                    /\ "power" \in Ran' => loc'.rev.power = 0 \/ loc'.rev.power # order'.power
                    /\ "directory" \in Ran' /\ loc'.rev.directory = "join"
                          => host'.member \/ cooling' \/ "missed" \in history'
                    /\ "snapin" \in Ran' => loc'.rev.queue \cap order'.queue = {}
                    /\ "snapin" \in loc'.todo => (loc'.rev.queue \ loc'.tasks) \cap order'.queue = {}
                    /\ pc' = "record" => build' = loc'.rev.version \/ "yielded" \in history'
  BY DEF Working, SettledPower, SettledJoin, SettledQueue
<1>1. CASE Poll
  <2>1. /\ pc' = "reconcile" /\ loc'.todo = Handles(build) /\ build' = build
        /\ loc'.tasks = loc'.rev.queue
    BY <1>1, PollHands DEF Busy
  <2> QED
    BY <2>1 DEF Ran
<1>2. CASE ~Poll
  <2>1. Busy /\ loc.ok /\ ~loc.held /\ loc'.rev = loc.rev /\ build' = build
    BY <1>2, WorkingKeeps
  <2>2. "hostname" \in Ran' =>
            host'.next = loc'.rev.name \/ loc'.rev.wait \/ host'.name = loc'.rev.name
    BY <1>2, <2>1, RanMoves, WorkingKeeps, HostnameSettles
  <2>3. "power" \in Ran' => loc'.rev.power = 0 \/ loc'.rev.power # order'.power
    <3>1. CASE Power
      <4>1. CASE loc.rev.power = 0
        BY <2>1, <4>1
      <4>2. CASE loc.rev.power # 0
        <5>1. PICK answer \in Answers :
                /\ order' = [order EXCEPT !.power =
                                IF answer # "lost" /\ @ = loc.rev.power THEN 0 ELSE @]
                /\ Advance("power", answer = "taken")
          BY <3>1, <4>2 DEF Power
        <5>2. answer = "taken"
          BY <5>1 DEF Advance, TypeOK, Passes
        <5>3. order'.power # loc.rev.power
          BY <4>2, <5>1, <5>2 DEF TypeOK, HostRecords
        <5> QED
          BY <2>1, <5>3
      <4> QED
        BY <4>1, <4>2
    <3> QED
      BY <1>2, <2>1, <3>1, RanMoves, WorkingKeeps
  <2>4. "directory" \in Ran' /\ loc'.rev.directory = "join"
            => host'.member \/ cooling' \/ "missed" \in history'
    <3>1. NoDirectory => loc.rev.directory # "join"
      BY <2>1 DEF NoDirectory
    <3>2. ReportDirectory => cooling'
      <4> SUFFICES ASSUME ReportDirectory PROVE cooling'
        OBVIOUS
      <4>1. PICK answer \in Answers :
              /\ cooling' = (cooling \/ answer # "lost")
              /\ Advance("directory", answer = "taken")
        BY DEF ReportDirectory
      <4>2. answer = "taken"
        BY <4>1 DEF Advance, TypeOK, Passes
      <4> QED
        BY <4>1, <4>2
    <3> QED
      BY <1>2, <2>1, <3>1, <3>2, RanMoves, WorkingKeeps
  <2>5. "snapin" \in Ran' => loc'.rev.queue \cap order'.queue = {}
    BY <1>2, <2>1, RanMoves, WorkingKeeps, SnapinSettles
  <2>6. "snapin" \in loc'.todo => (loc'.rev.queue \ loc'.tasks) \cap order'.queue = {}
    <3> SUFFICES ASSUME "snapin" \in loc'.todo
                 PROVE  (loc.rev.queue \ loc'.tasks) \cap order'.queue = {}
      BY <2>1
    <3>1. CASE Snapin
      BY <2>1, <3>1, SnapinSettles
    <3>2. CASE ~Snapin
      <4>1. loc'.tasks = loc.tasks /\ "snapin" \in loc.todo
        BY <1>2, <3>2, RanMoves
      <4>2. (loc.rev.queue \ loc.tasks) \cap order.queue = {}
        BY <2>1, <4>1 DEF Working
      <4>3. /\ \A t \in loc.rev.queue : t <= order.last
            /\ order.last \in Nat
        BY <2>1, InPassMade DEF InPass, Numbered, TypeOK, HostRecords
      <4>4. loc.rev.queue \subseteq Nat
        <5>1. loc.rev.queue \subseteq Tasks
          BY <2>1, InPassMade DEF InPass, Revisions
        <5> QED
          BY <5>1, ReconcileConstants
      <4>5. CASE order'.queue \subseteq order.queue
        BY <4>1, <4>2, <4>5
      <4>6. CASE /\ order'.last \in Nat /\ order'.last > order.last
                 /\ order'.queue = order.queue \cup {order'.last}
        <5>1. order'.last \notin loc.rev.queue
          BY <4>3, <4>4, <4>6
        <5> QED
          BY <4>1, <4>2, <4>6, <5>1
      <4> QED
        BY <4>5, <4>6, QueueMoves
    <3> QED
      BY <3>1, <3>2
  <2>7. pc' = "record" => build' = loc'.rev.version \/ "yielded" \in history'
    <3>1. CASE NotUpdated
      <4>1. PICK fails \in BOOLEAN :
              (fails <=> build # loc.rev.version) /\ loc' = [loc EXCEPT !.ok = @ /\ ~fails]
        BY <3>1 DEF NotUpdated
      <4>2. ~fails
        BY <4>1 DEF TypeOK, Passes
      <4> QED
        BY <2>1, <4>1, <4>2
    <3>2. CASE UpdateYields
      BY <2>1, <3>2 DEF UpdateYields, Noted, If
    <3> QED
      BY <1>2, <2>1, <3>1, <3>2, RanMoves, WorkingKeeps
  <2> QED
    BY <2>2, <2>3, <2>4, <2>5, <2>6, <2>7
<1> QED
  BY <1>1, <1>2

-----------------------------------------------------------------------------
\* What is recorded, in memory and on disk, and what a pass may put back is
\* settled, but where a held pass is between its two saves, or was cut there.
Stands(c) == c.applied # None => Settled(c.applied, c.with)
Recorded ==
    "cut" \notin history =>
        /\ pc # "put_back" => Stands(cfg) /\ Stands(disk)
        /\ InPass => Stands(loc.prev)

LEMMA RecordedInit == Init => Recorded
  BY DEF Init, Recorded, Stands, InPass, Busy

LEMMA StandsStep ==
    ASSUME TypeOK, Numbered, Stays, Current, [Next]_vars, NEW c \in Stamped, Stands(c)
    PROVE  Stands(c)'
<1>1. c.applied # None => c.applied \in Standing
  BY StandingStamped
<1> QED
  BY <1>1, SettledStep DEF Stands

LEMMA StandsByStamp ==
    ASSUME NEW c, Stands(c)'
    PROVE  /\ c = Stamp(cfg') => Stands(cfg)'
           /\ c = Stamp(disk') => Stands(disk)'
           /\ c = loc'.prev => Stands(loc.prev)'
  BY DEF Stamp, Stands, Settled, SettledName, SettledPower, SettledJoin, SettledQueue, SettledVersion

LEMMA StampStands ==
    ASSUME NEW c, Stands(c)
    PROVE  Stands(Stamp(c))
  BY DEF Stamp, Stands

\* What a pass records is settled: all its build handles was run.
LEMMA RecordSettles ==
    ASSUME TypeOK, Passing, Stays, Working, pc = "record", loc.ok, ~loc.held
    PROVE  Stands([applied |-> loc.rev, with |-> Handles(build)])
<1>1. Busy /\ loc.todo = {} /\ Ran = Handles(build)
  BY DEF Busy, Passing, InPass, Ran
<1>2. SettledName(loc.rev, Handles(build))
  BY <1>1 DEF Working, Stays, SettledName
<1>3. /\ SettledPower(loc.rev, Handles(build)) /\ SettledJoin(loc.rev, Handles(build))
      /\ SettledQueue(loc.rev, Handles(build))
  BY <1>1 DEF Working
<1>4. SettledVersion(loc.rev)
  BY <1>1 DEF Working, SettledVersion
<1> QED
  BY <1>2, <1>3, <1>4 DEF Settled, Stands

LEMMA RecordStands ==
    ASSUME TypeOK, Passing, Numbered, Stays, Current, Working, Recorded, Record,
           "cut" \notin history'
    PROVE  /\ pc' # "put_back" => Stands(cfg)' /\ Stands(disk)'
           /\ InPass' => Stands(loc.prev)'
<1>1. "cut" \notin history /\ pc = "record"
  BY RecordStamps
<1>2. Stands(cfg) /\ Stands(disk) /\ Stands(loc.prev)
  BY <1>1 DEF Recorded, InPass, Busy
<1>3. ASSUME NEW c, Stands(c) PROVE Stands(c)'
  <2>1. /\ UNCHANGED <<order, cooling, host, build>>
        /\ \A mark \in {"withdrawn", "recalled", "yielded", "missed"} :
              mark \in history' <=> mark \in history
    BY RecordStamps DEF server
  <2> QED
    BY <1>3, <2>1
    DEF Stands, Settled, SettledName, SettledPower, SettledJoin, SettledQueue, SettledVersion
<1>4. ASSUME pc' # "put_back" PROVE Stands(cfg)' /\ Stands(disk)'
  <2>1. PICK c, d : /\ Stands(c) /\ c = Stamp(cfg')
                    /\ Stands(d) /\ d = Stamp(disk')
    <3>1. Stands(Stamp(cfg)) /\ Stands(Stamp(disk))
      BY <1>2, StampStands
    <3>2. CASE Stamp(cfg') = Stamp(cfg) /\ Stamp(disk') \in {Stamp(cfg), Stamp(disk)}
      BY <3>1, <3>2
    <3>3. CASE ~(Stamp(cfg') = Stamp(cfg) /\ Stamp(disk') \in {Stamp(cfg), Stamp(disk)})
      <4>1. /\ loc.ok /\ ~loc.held
            /\ Stamp(cfg') = [applied |-> loc.rev, with |-> Handles(build)]
            /\ Stamp(disk') \in {Stamp(disk), Stamp(cfg')}
        BY <1>4, <3>3, RecordStamps
      <4>2. Stands(Stamp(cfg'))
        BY <1>1, <4>1, RecordSettles
      <4> QED
        BY <3>1, <4>1, <4>2
    <3> QED
      BY <3>2, <3>3
  <2> QED
    BY <1>3, <2>1, StandsByStamp
<1>5. ASSUME InPass' PROVE Stands(loc.prev)'
  <2>1. loc' = loc
    BY <1>5, RecordStamps DEF InPass, Busy
  <2>2. PICK c : c = loc.prev
    OBVIOUS
  <2>3. Stands(c)'
    BY <1>2, <1>3, <2>2
  <2> QED
    BY <2>1, <2>2, <2>3, StandsByStamp
<1> QED
  BY <1>4, <1>5

LEMMA RecordedStep ==
    /\ TypeOK /\ Passing /\ Numbered /\ Stays /\ Current /\ Working /\ Recorded
    /\ [Next]_vars
    => Recorded'
<1> SUFFICES ASSUME TypeOK, Passing, Numbered, Stays, Current, Working, Recorded, [Next]_vars,
                    "cut" \notin history'
             PROVE  /\ pc' # "put_back" => Stands(cfg)' /\ Stands(disk)'
                    /\ InPass' => Stands(loc.prev)'
  BY DEF Recorded
<1>1. CASE Record
  BY <1>1, RecordStands
<1>2. CASE ~Record
  <2>1. "cut" \notin history
    BY MarksStay
  <2>2. pc # "put_back" => Stands(Stamp(cfg)) /\ Stands(Stamp(disk))
    BY <2>1, StampStands DEF Recorded
  <2>3. ASSUME pc' # "put_back" PROVE Stands(cfg)' /\ Stands(disk)'
    <3>1. PICK c \in Stamped, d \in Stamped : /\ Stands(c) /\ c = Stamp(cfg')
                                             /\ Stands(d) /\ d = Stamp(disk')
      <4>1. CASE PutBack
        <5> DEFINE old == [cfg EXCEPT !.applied = loc.prev.applied, !.with = loc.prev.with]
        <5>1. pc = "put_back" /\ Stands(loc.prev)
          BY <2>1, <4>1 DEF PutBack, At, Recorded, InPass
        <5>2. PICK fails \in BOOLEAN : Save(old, fails) /\ Noted(fails, "cut")
          BY <4>1 DEF PutBack
        <5>3. ~fails
          BY <5>2 DEF Noted, If
        <5>4. Stamp(old) = loc.prev
          BY DEF Stamp, TypeOK, Configs, Passes, Stamps
        <5> QED
          BY <5>1, <5>2, <5>3, <5>4 DEF Save, Stamped
      <4>2. CASE ~PutBack
        <5>1. pc # "put_back" /\ {Stamp(cfg'), Stamp(disk')} \subseteq {Stamp(cfg), Stamp(disk)}
          BY <1>2, <2>3, <4>2, StampedMoves
        <5> QED
          BY <2>2, <5>1 DEF Stamped
      <4> QED
        BY <4>1, <4>2
    <3>2. Stands(c)' /\ Stands(d)'
      BY <3>1, StandsStep
    <3> QED
      BY <3>1, <3>2, StandsByStamp
  <2>4. ASSUME InPass' PROVE Stands(loc.prev)'
    <3>1. PICK c \in Stamped : Stands(c) /\ c = loc'.prev
      <4>1. CASE InPass /\ loc'.prev = loc.prev
        BY <2>1, <4>1 DEF Recorded, Stamped
      <4>2. CASE pc # "put_back" /\ loc'.prev = Stamp(cfg)
        BY <2>2, <4>2 DEF Stamped
      <4> QED
        BY <1>2, <2>4, <4>1, <4>2, StampedMoves
    <3>2. Stands(c)'
      BY <3>1, StandsStep
    <3> QED
      BY <3>1, <3>2, StandsByStamp
  <2> QED
    BY <2>3, <2>4
<1> QED
  BY <1>1, <1>2

-----------------------------------------------------------------------------
IInv ==
    /\ TypeOK /\ Passing /\ Queued
    /\ Begun /\ OneName
    /\ Numbered /\ Stays /\ Current /\ Working /\ Recorded

LEMMA IInvInit == Init => IInv
<1>1. Init => Begun /\ OneName
  BY DEF Init, Begun, OneName
<1> QED
  BY <1>1, TypesInit, PassingInit, QueuedInit, NumberedInit, StaysInit, WorkingInit, RecordedInit
  DEF IInv

LEMMA IInvStep == IInv /\ [Next]_vars => IInv'
  BY TypesStep, PassingStep, QueuedStep, OneNameStep, NumberedStep, StaysStep, CurrentStep,
     WorkingStep, RecordedStep DEF IInv

LEMMA Invariance == Spec => []IInv
  BY IInvInit, IInvStep, PTL DEF Spec

(* The order, the machine, both configurations, the pass and the bounds    *)
(* keep their types through every capability, fault and change (main.go    *)
(* 789-1006).                                                              *)
THEOREM TypeCorrect == Spec => []TypeOK
<1>1. IInv => TypeOK
  BY DEF IInv
<1> QED
  BY <1>1, Invariance, PTL

\* What is settled and still asked for is done.
LEMMA StandingDone ==
    ASSUME IInv, NEW c \in {cfg, disk}, Stands(c), c.applied = DesiredState(order, belief, cooling)
    PROVE  Done(c)
<1>1. DesiredState(order, belief, cooling) \in Revisions
  BY DesiredStateTyped DEF IInv, TypeOK
<1>2. Settled(c.applied, c.with)
  BY <1>1, NoneIsNoRevision DEF Stands
<1>3. /\ c.applied.name = order.name /\ c.applied.power = order.power
      /\ c.applied.queue = order.queue /\ c.applied.version = order.version
      /\ c.applied.directory = "join" => ~cooling
  BY DEF DesiredState, DirectoryBlock
<1>4. "hostname" \in c.with =>
         host.next = c.applied.name \/ c.applied.wait \/ Excused({"withdrawn"})
  BY <1>2, <1>3 DEF Settled, SettledName, Excused
<1>5. "directory" \in c.with /\ c.applied.directory = "join" => host.member \/ Excused({"missed"})
  BY <1>2, <1>3 DEF Settled, SettledJoin, Excused
<1>6. "power" \in c.with => order.power = 0
  BY <1>2, <1>3 DEF Settled, SettledPower
<1>7. "snapin" \in c.with => order.queue = {}
  BY <1>2, <1>3 DEF Settled, SettledQueue
<1>8. build = c.applied.version \/ Excused({"yielded", "recalled"})
  BY <1>2, <1>3 DEF Settled, SettledVersion, Excused
<1> QED
  BY <1>4, <1>5, <1>6, <1>7, <1>8 DEF Done

(* While the revision recorded, in memory or on disk, is the one the       *)
(* server would send, what it orders is there (main.go 743-746 and         *)
(* 876-1006), but where a held pass was cut between its two saves.         *)
THEOREM AppliedWasDone == Spec => []AppliedMeansDone
<1>1. IInv => AppliedMeansDone
  <2> SUFFICES ASSUME IInv, pc # "put_back", ~Excused({"cut"}), NEW c \in {cfg, disk},
                      c.applied = DesiredState(order, belief, cooling)
               PROVE  Done(c)
    BY DEF AppliedMeansDone
  <2>1. Stands(c)
    BY DEF IInv, Recorded, Excused
  <2> QED
    BY <2>1, StandingDone
<1> QED
  BY <1>1, Invariance, PTL

(* A member of the domain and its computer object have one name between    *)
(* them after a restart (directoryjoin.go 257-297, join_windows.go 166-197 *)
(* and hostname.go 46-90, in whichever order the pass runs them), but      *)
(* between the two calls of a rename or where the second did not get       *)
(* through.                                                                *)
THEOREM KeepsOneName == Spec => []OneName
<1>1. IInv => OneName
  BY DEF IInv
<1> QED
  BY <1>1, Invariance, PTL

(* A task runs only at the head of the server's queue, however often the   *)
(* queue was interrupted, and nothing behind an aborted job runs (main.go  *)
(* 1030-1071).                                                             *)
THEOREM RunsInOrder == Spec => SnapinsInOrder
<1>1. IInv /\ Snapin => \A t \in loc.tasks : Leads(t, loc.tasks) => Leads(t, order.queue)
  <2> SUFFICES ASSUME IInv, Snapin, NEW t \in loc.tasks, Leads(t, loc.tasks)
               PROVE  Leads(t, order.queue)
    OBVIOUS
  <2>1. loc.tasks \subseteq order.queue /\ \A u \in order.queue \ loc.tasks : t < u
    BY DEF IInv, Queued, Snapin, Turn, ComesNext, At, Busy
  <2>2. order.queue \subseteq Nat
    BY ReconcileConstants DEF IInv, TypeOK, HostRecords
  <2> QED
    BY <2>1, <2>2 DEF Leads
<1>2. IInv => [\A t \in loc.tasks : Snapin /\ Leads(t, loc.tasks) => Leads(t, order.queue)]_vars
  BY <1>1
<1> QED
  BY <1>2, Invariance, PTL DEF SnapinsInOrder

-----------------------------------------------------------------------------
(***************************************************************************)
(* Where the marks come from.  Both exemptions of the safety properties    *)
(* are a fault's doing: without it, what they exempt is promised too.      *)
(***************************************************************************)

\* Nothing is held back, so that nothing is ever put back.
Unheld == ~loc.held /\ pc # "put_back" /\ "cut" \notin history

LEMMA UnheldStep ==
    ASSUME "hold" \notin Faults
    PROVE  TypeOK /\ Unheld /\ [Next]_vars => Unheld'
<1> SUFFICES ASSUME TypeOK, Unheld, [Next]_vars PROVE Unheld'
  OBVIOUS
<1> USE DEF Goto, At
<1>0. ~NoPass.held
  BY DEF NoPass
<1>1. CASE Capability
  BY <1>1, CapabilityMoves DEF Unheld, Marks
<1>2. CASE Poll
  BY <1>2, PollHands DEF Unheld
<1>3. CASE UpdateYields \/ NotUpdated
  <2>1. loc'.held = loc.held
    BY <1>3 DEF UpdateYields, NotUpdated, TypeOK, Passes
  <2> QED
    BY <1>3, <2>1 DEF UpdateYields, NotUpdated, Unheld, Noted, If
<1>4. CASE Record
  <2>1. PICK fails \in BOOLEAN :
          IF Records /\ loc.held /\ ~fails
          THEN Goto("put_back") /\ UNCHANGED <<loc, history>>
          ELSE Goto("coordinate") /\ loc' = NoPass /\ Noted(Records /\ loc.held, "cut")
    BY <1>4 DEF Record
  <2> QED
    BY <1>0, <2>1 DEF Unheld, Noted, If
<1>5. CASE Update \/ Coordinate \/ Restart
  BY <1>0, <1>5 DEF Update, Coordinate, Restart, Unheld
<1>6. CASE Crash \/ PowerCut
  BY <1>0, <1>6 DEF Crash, PowerCut, StartAgain, Unheld, If
<1>7. CASE PutBack
  BY <1>7 DEF PutBack, Unheld
<1>8. CASE \/ PollUnanswered \/ Drift \/ SoftwareDrifts \/ FactsInterval \/ DriftInterval
           \/ CooldownOver \/ OrderName \/ OrderVersion \/ OrderOther \/ UNCHANGED vars
  BY <1>8 DEF PollUnanswered, Drift, SoftwareDrifts, FactsInterval, DriftInterval, CooldownOver,
     OrderName, OrderVersion, OrderOther, Order, vars, agent, Unheld, Noted, If
<1> QED
  BY <1>1, <1>2, <1>3, <1>4, <1>5, <1>6, <1>7, <1>8 DEF Next, Agent, World, Capability

(* Where no pass is held (main.go 777-787), a revision recorded that the   *)
(* server would still send was done, at every moment and whatever crash:   *)
(* AppliedMeansDone with neither of its two premises.                      *)
THEOREM AppliedWhereNothingHeld ==
    ASSUME "hold" \notin Faults
    PROVE  Spec => [](\A c \in {cfg, disk} :
                          c.applied = DesiredState(order, belief, cooling) => Done(c))
<1>1. Init => Unheld
  BY DEF Init, NoPass, Unheld
<1>2. IInv /\ Unheld /\ [Next]_vars => Unheld'
  BY UnheldStep DEF IInv
<1>3. IInv /\ Unheld => \A c \in {cfg, disk} :
          c.applied = DesiredState(order, belief, cooling) => Done(c)
  <2> SUFFICES ASSUME IInv, Unheld, NEW c \in {cfg, disk},
                      c.applied = DesiredState(order, belief, cooling)
               PROVE  Done(c)
    OBVIOUS
  <2>1. Stands(c)
    BY DEF IInv, Recorded, Unheld
  <2> QED
    BY <2>1, StandingDone
<1> QED
  BY <1>1, <1>2, <1>3, Invariance, PTL DEF Spec

\* No rename is left half done.
Abreast == "lagging" \notin history

LEMMA NeverLagsStep ==
    ASSUME "action" \notin Faults, "crash" \notin Faults, "power_cut" \notin Faults
    PROVE  TypeOK /\ Abreast /\ [Next]_vars => Abreast'
<1> SUFFICES ASSUME TypeOK, Abreast, [Next]_vars PROVE Abreast'
  OBVIOUS
<1> USE DEF Abreast
<1>1. CASE SetComputerName
  <2>1. PICK fails \in BOOLEAN :
          /\ Meets(If(fails, "action"))
          /\ history' = IF fails THEN history \cup {"lagging"} ELSE history \ {"lagging"}
    BY <1>1 DEF SetComputerName
  <2>2. ~fails
    BY <2>1 DEF Meets, If
  <2> QED
    BY <2>1, <2>2
<1>2. CASE Crash \/ PowerCut
  BY <1>2 DEF Crash, PowerCut, Meets
<1>3. CASE \/ Poll \/ PollUnanswered \/ Drift \/ Hostname \/ Power \/ Software
           \/ NoDirectory \/ Directory \/ Snapin \/ SnapinNotFetched \/ SnapinsDone
           \/ NotUpdated \/ Update \/ Coordinate \/ Restart
           \/ SoftwareDrifts \/ FactsInterval \/ DriftInterval \/ OrderOther \/ UNCHANGED vars
  BY <1>3 DEF Poll, PollUnanswered, Drift, Hostname, Power, Software, NoDirectory, Directory,
     Snapin, SnapinNotFetched, SnapinsDone, NotUpdated, Update, Coordinate, Restart,
     SoftwareDrifts, FactsInterval, DriftInterval, OrderOther, vars
<1>4. CASE ReportDirectory \/ UpdateYields \/ PutBack \/ CooldownOver \/ OrderName \/ OrderVersion
  <2>1. \E condition, mark : mark # "lagging" /\ Noted(condition, mark)
    <3>1. /\ "yielded" # "lagging" /\ "cut" # "lagging" /\ "missed" # "lagging"
          /\ "withdrawn" # "lagging" /\ "recalled" # "lagging" /\ "unasked" # "lagging"
      OBVIOUS
    <3> QED
      BY <1>4, <3>1, Zenon DEF ReportDirectory, UpdateYields, PutBack, CooldownOver, OrderName,
         OrderVersion
  <2> QED
    BY <2>1 DEF Noted, If
<1>5. CASE Record
  BY <1>5 DEF Record, Noted, If
<1> QED
  BY <1>1, <1>2, <1>3, <1>4, <1>5 DEF Next, Agent, World

(* Where the native calls do what they are asked and the process lives     *)
(* from the first call of a rename to the second (join_windows.go          *)
(* 180-190), a member of the domain and its computer object have one name  *)
(* after a restart at every moment but that one: lost reports, failed      *)
(* saves and whatever an admin orders never part them.                     *)
THEOREM OneNameWhereCallsWork ==
    ASSUME "action" \notin Faults, "crash" \notin Faults, "power_cut" \notin Faults
    PROVE  Spec => [](host.member /\ pc # "set_name" => host.object = host.next)
<1>1. Init => Abreast
  BY DEF Init, Abreast
<1>2. TypeOK /\ Abreast /\ [Next]_vars => Abreast'
  BY NeverLagsStep
<1>3. OneName /\ Abreast => (host.member /\ pc # "set_name" => host.object = host.next)
  BY DEF OneName, Abreast
<1> QED
  BY <1>1, <1>2, <1>3, KeepsOneName, TypeCorrect, PTL DEF Spec
=============================================================================
