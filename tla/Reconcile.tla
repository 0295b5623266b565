------------------------------ MODULE Reconcile ------------------------------
(***************************************************************************)
(* The run loop's converging half: a poll brings the desired state when    *)
(* its revision is not the one applied, reconcile runs the capabilities in *)
(* order and reports each, and the revision is recorded as applied when    *)
(* none of them asked to come back (cmd/fog-agent/main.go, runAgent,       *)
(* reconcileHeld, reconcile, drift).                                       *)
(*                                                                         *)
(* The capabilities are here with what they do to the machine: `hostname`  *)
(* and `directory`, which must give the machine and its computer object    *)
(* one name between them, `power`, `software` (printers report and drift   *)
(* alike), the `snapin` queue, and `update`.  The machine is Windows: a    *)
(* new name waits for a restart, a join wants one.                         *)
(*                                                                         *)
(* An admin changes the order at any time, a report or an answer is lost,  *)
(* a native call fails, the process dies between two steps, the machine    *)
(* loses power.  The revision is the digest of the desired state, so here  *)
(* it is the desired state.  When a restart is asked for is the business   *)
(* of RebootCoordinator: here a pending reason may lead to one.            *)
(***************************************************************************)
EXTENDS Naturals, FiniteSets

CONSTANTS
    Names,       \* names a host record can carry
    FirstName,   \* the one the machine has
    Tasks,       \* snapin tasks, numbered in the order the server queues them
    Aborting,    \* those whose job aborts when they fail
    MaxVersion,  \* builds of the agent are 1..MaxVersion, 1 is installed
    Learned,     \* the capabilities every build but the first handles
    Orders,      \* which kinds of change an admin makes
    MaxOrders,   \* how many of them, in one behaviour
    Faults,      \* which kinds of fault may happen
    MaxFaults,   \* how many of them, in one behaviour
    None         \* no name, no revision

\* The capabilities with their places in the order of a pass.
Place == [hostname |-> 1, power |-> 2, software |-> 3, directory |-> 4, snapin |-> 5]
Capabilities == {"hostname", "power", "software", "directory", "snapin"}
OrderKinds == {"name", "member", "power", "task", "software", "version"}
FaultKinds == {"action", "report", "hold", "save", "crash", "power_cut", "drift", "retry"}
Versions == 1..MaxVersion

ASSUME ReconcileConstants ==
    /\ FirstName \in Names
    /\ None \notin Names
    /\ Tasks \subseteq Nat \ {0}
    /\ Aborting \subseteq Tasks
    /\ MaxVersion \in Nat \ {0}
    /\ Learned \subseteq Capabilities
    /\ Orders \subseteq OrderKinds
    /\ MaxOrders \in Nat
    /\ Faults \subseteq FaultKinds
    /\ MaxFaults \in Nat

VARIABLES
    order,    \* what the admin wants of this host, and what is still queued:
              \* the on-demand action and the tasks have numbers of their own,
              \* last is that of the task queued last
    belief,   \* the server's copy of the directory facts
    cooling,  \* the server holds joins and renames back for a while
    host,     \* the machine
    build,    \* the version of the agent running on it
    cfg,      \* st.Config in memory
    disk,     \* config.json
    pc,       \* where the loop is
    loc,      \* the locals of the pass in progress
    ordered,  \* changes by the admin so far
    faulted   \* faults so far

VARIABLE history  \* what happened that some property makes allowance for

\* withdrawn: the host was given back a name it runs under or had applied.
\* yielded: an update made way for a restart and was not run since.
\* cut: a fault separated the two saves of a held pass.
\* recalled: the host was given back a version it had applied.
\* lagging: the object was renamed and the machine's own half failed, or was cut.
\* unasked: a reason to restart was lost, because the report of the join it
\* belongs to was, or because the process died before the save or the report.
\* missed: the cooldown ended before a revision without the block it held
\* back was recorded, so the block comes in a revision already applied.
Marks == {"withdrawn", "recalled", "yielded", "cut", "lagging", "unasked", "missed"}

server == <<order, belief, cooling>>
machine == <<host, build>>
agent == <<cfg, disk, pc, loc>>
vars == <<server, machine, agent, ordered, faulted, history>>

\* The server's side of a revision.  A directory block is sent to a host
\* believed outside the domain, or inside it under another name, and to
\* neither while an earlier attempt cools down.
RenameDue(o, b) == o.member /\ b.member /\ b.account # o.name
DirectoryBlock(o, b, cool) ==
    IF cool \/ ~o.member THEN "none"
    ELSE IF ~b.member THEN "join"
    ELSE IF RenameDue(o, b) THEN "rename" ELSE "none"
DesiredState(o, b, cool) ==
    [name |-> o.name, wait |-> cool /\ RenameDue(o, b),
     directory |-> DirectoryBlock(o, b, cool),
     power |-> o.power, software |-> o.software, queue |-> o.queue, version |-> o.version]

\* The task a queue starts with.
Leads(t, queue) == t \in queue /\ \A u \in queue : t <= u

Packages == {0, 1}
Revisions ==
    [name : Names, wait : BOOLEAN, directory : {"none", "join", "rename"}, power : 0..MaxOrders,
     software : Packages, queue : SUBSET Tasks, version : Versions]

ASSUME NoneIsNoRevision == None \notin Revisions

HostRecords ==
    [name : Names, member : BOOLEAN, power : 0..MaxOrders, queue : SUBSET Tasks, last : Nat,
     software : Packages, version : Versions]
Memberships == [member : BOOLEAN, account : Names]
Machines ==
    [name : Names, next : Names, member : BOOLEAN, object : Names \cup {None}, fresh : BOOLEAN,
     software : Packages]

\* What build v handles, which is what AppliedWith names.
Handles(v) == Capabilities \ (IF v = 1 THEN Learned ELSE {})

\* What stands applied: a revision and what the build that recorded it handles.
Stamps == [applied : Revisions \cup {None}, with : {Handles(v) : v \in Versions} \cup {{}}]
Configs == [applied : Revisions \cup {None}, with : {Handles(v) : v \in Versions} \cup {{}},
            pending : BOOLEAN, factsDue : BOOLEAN, driftDue : BOOLEAN]
Stamp(c) == [applied |-> c.applied, with |-> c.with]

\* A pass: the state it converges to, the directory and hostname blocks taken
\* out of it or not, what is left to do, whether the revision may be recorded,
\* what there is to report of the directory, and what stood applied before.
Statuses == {"none", "join", "renamed", "rename", "failed"}
Passes == [rev : Revisions \cup {None}, held : BOOLEAN, todo : SUBSET Capabilities,
           tasks : SUBSET Tasks, ok : BOOLEAN, status : Statuses, prev : Stamps]
NoPass == [rev |-> None, held |-> FALSE, todo |-> {}, tasks |-> {}, ok |-> TRUE,
           status |-> "none", prev |-> [applied |-> None, with |-> {}]]

Init ==
    /\ order = [name |-> FirstName, member |-> FALSE, power |-> 0, queue |-> {},
                last |-> 0, software |-> 0, version |-> 1]
    /\ belief = [member |-> FALSE, account |-> FirstName]
    /\ cooling = FALSE
    /\ host = [name |-> FirstName, next |-> FirstName, member |-> FALSE, object |-> None,
               fresh |-> FALSE, software |-> 0]
    /\ build = 1
    /\ cfg = [applied |-> None, with |-> {}, pending |-> FALSE,
              factsDue |-> TRUE, driftDue |-> FALSE]
    /\ disk = cfg
    /\ pc = "poll"
    /\ loc = NoPass
    /\ ordered = 0
    /\ faulted = 0
    /\ history = {}

------------------------------------------------------------------------------
\* The faults a step meets, all of them within the bound.
Meets(kinds) ==
    /\ kinds \subseteq Faults
    /\ faulted + Cardinality(kinds) <= MaxFaults
    /\ faulted' = faulted + Cardinality(kinds)
If(condition, kind) == IF condition THEN {kind} ELSE {}
Noted(condition, mark) == history' = history \cup If(condition, mark)

\* A report is taken by the server, or taken and the answer lost, or lost.
Answers == {"taken", "unanswered", "lost"}
Lost(answer) == If(answer # "taken", "report")

Save(c, fails) ==
    /\ cfg' = c
    /\ disk' = IF fails THEN disk ELSE c

At(step) == pc = step
Goto(step) == pc' = step

Skip(capability) == loc' = [loc EXCEPT !.todo = @ \ {capability}]
\* The pass goes on to the next capability; ok is whether this one lets the
\* revision be recorded, which for most is whether its report was taken and not
\* whether it did what it was asked.
Advance(capability, ok) ==
    loc' = [loc EXCEPT !.todo = @ \ {capability}, !.ok = @ /\ ok, !.status = "none"]

------------------------------------------------------------------------------
\* A build whose set of capabilities is not the one the revision was applied
\* with sends no revision.
SentRevision == IF cfg.with = Handles(build) THEN cfg.applied ELSE None
StateSent(rev) == rev # SentRevision \/ cfg.driftDue
NeedsReconcileByRevision(rev) == rev # cfg.applied
NeedsReconcile(rev) == rev # cfg.applied \/ cfg.with # Handles(build)

\* A rename in the domain runs before the hostname is looked at.
CapabilityOrder(rev, held) ==
    IF rev.directory = "rename" /\ ~held THEN [Place EXCEPT !["directory"] = 0] ELSE Place

ComesNext(capability) ==
    /\ At("reconcile")
    /\ capability \in loc.todo
    /\ LET place == CapabilityOrder(loc.rev, loc.held)
       IN  \A c \in loc.todo : place[capability] <= place[c]
Turn(capability) == ComesNext(capability) /\ UNCHANGED pc

Facts == [member |-> host.member, account |-> host.name]

\* A poll that brings an answer.  The facts it carries count for the state
\* that comes back; the state comes only when the revision moved or the drift
\* check asked for it.  A hold takes the directory and the name out of it.
\* What was gathered is saved; with nothing new, config.json is written for the
\* sessions or not at all.
Poll ==
    /\ At("poll")
    /\ belief' = IF cfg.factsDue THEN Facts ELSE belief
    /\ LET rev == DesiredState(order, belief', cooling)
       IN  \E held, unsaved \in BOOLEAN :
           /\ Meets(If(held, "hold") \cup If(unsaved /\ cfg.factsDue, "save"))
           /\ held => NeedsReconcile(rev)
           /\ Save([cfg EXCEPT !.factsDue = FALSE], unsaved)
           /\ IF NeedsReconcile(rev) /\ StateSent(rev)
              THEN /\ Goto("reconcile")
                   /\ loc' = [rev |-> rev, held |-> held, todo |-> Handles(build),
                              tasks |-> rev.queue, ok |-> TRUE, status |-> "none",
                              prev |-> Stamp(cfg)]
              ELSE /\ Goto(IF cfg.driftDue THEN "drift" ELSE "coordinate")
                   /\ loc' = [NoPass EXCEPT !.rev = rev]
    /\ UNCHANGED <<order, cooling, machine, ordered, history>>

\* The answer is lost on the way: the server has the facts, the agent does
\* not know.
PollUnanswered ==
    /\ At("poll")
    /\ cfg.factsDue
    /\ Meets({"report"})
    /\ belief' = Facts
    /\ UNCHANGED <<order, cooling, machine, agent, ordered, history>>

------------------------------------------------------------------------------
\* hostname.Ensure: what it answers, and whether it sets the name.
EnsureHostname(rev, fails) ==
    IF host.name = rev.name THEN "unchanged"
    ELSE IF host.member
         THEN IF host.next = rev.name THEN "pending_reboot"
              ELSE IF rev.wait THEN "pending" ELSE "failed"
         ELSE IF fails THEN "failed" ELSE "pending_reboot"
SetsName(rev) == host.name # rev.name /\ ~host.member

Hostname ==
    /\ Turn("hostname")
    /\ IF loc.held
       THEN /\ Skip("hostname")
            /\ UNCHANGED <<host, cfg, faulted>>
       ELSE \E fails \in BOOLEAN :
            LET status == EnsureHostname(loc.rev, fails)
            IN  /\ fails => SetsName(loc.rev)
                /\ Meets(If(fails, "action"))
                /\ host' = [host EXCEPT !.next =
                               IF SetsName(loc.rev) /\ ~fails THEN loc.rev.name ELSE @]
                /\ cfg' = [cfg EXCEPT !.pending = @ \/ status = "pending_reboot"]
                /\ Advance("hostname", status # "failed")
    /\ UNCHANGED <<server, build, disk, ordered, history>>

\* An on-demand action is a reason for the coordinator first, then reported,
\* which is what consumes it on the server.
Power ==
    /\ Turn("power")
    /\ IF loc.rev.power # 0
       THEN \E answer \in Answers :
            /\ Meets(Lost(answer))
            /\ cfg' = [cfg EXCEPT !.pending = TRUE]
            /\ order' = [order EXCEPT !.power =
                             IF answer # "lost" /\ @ = loc.rev.power THEN 0 ELSE @]
            /\ Advance("power", answer = "taken")
       ELSE /\ Advance("power", TRUE)
            /\ UNCHANGED <<order, cfg, faulted>>
    /\ UNCHANGED <<belief, cooling, machine, disk, ordered, history>>

\* runSoftware: the outcome does not hold the revision, a report that did not
\* land does.  What failed is tried again by the drift check; what was changed
\* may need a restart.
Converge(fails, restart) ==
    /\ (fails \/ restart) => host.software # loc.rev.software
    /\ host' = [host EXCEPT !.software = IF fails THEN @ ELSE loc.rev.software]
Checked(restart) == [cfg EXCEPT !.driftDue = FALSE, !.pending = @ \/ restart]

Software ==
    /\ Turn("software")
    /\ \E fails, restart \in BOOLEAN, answer \in Answers :
        /\ restart => answer = "taken"
        /\ Meets(If(fails, "action") \cup Lost(answer))
        /\ Converge(fails, restart)
        /\ cfg' = Checked(restart)
        /\ Advance("software", answer = "taken")
    /\ UNCHANGED <<server, build, disk, ordered, history>>

\* The drift check on a revision that has not moved.
Drift ==
    /\ At("drift")
    /\ \E fails, restart, unsaved \in BOOLEAN :
        /\ Meets(If(fails, "action") \cup If(unsaved, "save"))
        /\ Converge(fails, restart)
        /\ Save(Checked(restart), unsaved)
    /\ Goto("coordinate")
    /\ UNCHANGED <<server, build, loc, ordered, history>>

------------------------------------------------------------------------------
\* directoryjoin.Decide, for a host in no domain or in the right one.
Decide(rev) ==
    IF ~host.member THEN "join"
    ELSE IF rev.directory = "join" \/ host.name = rev.name THEN "none"
    ELSE IF host.next = rev.name THEN "renamed" ELSE "rename"

\* The native calls.  A join is made under the name of the next boot.  A rename
\* is two calls: one renames the object, SetComputerNameEx then the machine.
JoinedAsNamed == [host EXCEPT !.member = TRUE, !.object = host.name, !.fresh = TRUE]
Joined == [host EXCEPT !.member = TRUE, !.object = host.next, !.fresh = TRUE]
ObjectRenamed == [host EXCEPT !.object = loc.rev.name]
MachineRenamed == [host EXCEPT !.next = loc.rev.name]

NoDirectory ==
    /\ Turn("directory")
    /\ loc.held \/ loc.rev.directory = "none"
    /\ IF loc.held THEN Skip("directory") ELSE Advance("directory", TRUE)
    /\ UNCHANGED <<server, machine, cfg, disk, ordered, faulted, history>>

\* What is decided, and the first call when there is one to make.
Directory ==
    /\ ComesNext("directory")
    /\ ~loc.held /\ loc.rev.directory # "none"
    /\ \E fails \in BOOLEAN :
        LET action == Decide(loc.rev)
        IN  /\ fails => action \in {"join", "rename"}
            /\ Meets(If(fails, "action"))
            /\ host' = IF fails THEN host
                       ELSE IF action = "join" THEN Joined
                       ELSE IF action = "rename" THEN ObjectRenamed ELSE host
            /\ loc' = [loc EXCEPT !.status = IF fails THEN "failed" ELSE action]
            /\ Goto(IF action = "rename" /\ ~fails THEN "set_name" ELSE "report")
    /\ UNCHANGED <<server, build, cfg, disk, ordered, history>>

SetComputerName ==
    /\ At("set_name")
    /\ \E fails \in BOOLEAN :
        /\ Meets(If(fails, "action"))
        /\ host' = IF fails THEN host ELSE MachineRenamed
        /\ loc' = IF fails THEN [loc EXCEPT !.status = "failed"] ELSE loc
        /\ history' = IF fails THEN history \cup {"lagging"} ELSE history \ {"lagging"}
    /\ Goto("report")
    /\ UNCHANGED <<server, build, cfg, disk, ordered>>

\* reportDirectory: only once the report has landed are the facts due again
\* and the restart a join needs a reason.
ReportDirectory ==
    /\ At("report")
    /\ \E answer \in Answers :
        /\ Meets(Lost(answer))
        /\ cooling' = (cooling \/ answer # "lost")
        /\ cfg' = IF answer = "taken"
                  THEN [cfg EXCEPT !.factsDue = @ \/ loc.status # "failed",
                                   !.pending = @ \/ loc.status = "join"]
                  ELSE cfg
        /\ Advance("directory", answer = "taken")
        /\ Noted(loc.status = "join" /\ answer # "taken", "unasked")
    /\ Goto("reconcile")
    /\ UNCHANGED <<order, belief, machine, disk, ordered>>

------------------------------------------------------------------------------
\* What stays queued: the server closes a task it got the result of, puts it
\* back, or, when the job aborts on its failure, closes the rest of the job.
Closes(task, outcome) ==
    CASE outcome = "retry" -> order.queue
      [] outcome = "failed" /\ task \in Aborting -> order.queue \ loc.rev.queue
      [] OTHER -> order.queue \ {task}

\* A task that was not fetched, whose result did not land, or that has to be
\* run again leaves the rest of the queue for the next poll.
SnapinStopsOnRetry(answer, outcome) == outcome = "retry"
SnapinStops(answer, outcome) == answer # "taken" \/ outcome = "retry"

Aborts(task, outcome) == outcome = "failed" /\ task \in Aborting
RunSnapin(task) ==
    \E answer \in Answers, outcome \in {"success", "retry", "failed"}, restart \in BOOLEAN :
        /\ Meets(Lost(answer) \cup If(outcome = "retry", "retry"))
        /\ restart => answer = "taken" /\ outcome # "retry" /\ ~Aborts(task, outcome)
        /\ order' = [order EXCEPT !.queue = IF answer = "lost" THEN @ ELSE Closes(task, outcome)]
        /\ cfg' = [cfg EXCEPT !.pending = @ \/ restart]
        /\ IF SnapinStops(answer, outcome) THEN Advance("snapin", FALSE)
           ELSE IF Aborts(task, outcome) THEN Advance("snapin", TRUE)
           ELSE loc' = [loc EXCEPT !.tasks = @ \ {task}]

Snapin ==
    /\ Turn("snapin")
    /\ \E task \in loc.tasks : Leads(task, loc.tasks) /\ RunSnapin(task)
    /\ UNCHANGED <<belief, cooling, machine, disk, ordered, history>>
SnapinNotFetched ==
    /\ Turn("snapin")
    /\ loc.tasks # {}
    /\ Meets({"action"})
    /\ Advance("snapin", FALSE)
    /\ UNCHANGED <<server, machine, cfg, disk, ordered, history>>
SnapinsDone ==
    /\ Turn("snapin")
    /\ loc.tasks = {}
    /\ Advance("snapin", TRUE)
    /\ UNCHANGED <<server, machine, cfg, disk, ordered, faulted, history>>

------------------------------------------------------------------------------
\* The update runs after the last capability, whether or not one failed, and
\* makes way for a restart that is pending.  A new binary starts as a new
\* process, with the configuration that was saved.
Worked == At("reconcile") /\ loc.todo = {}

UpdateYields ==
    /\ Worked
    /\ cfg.pending
    /\ Goto("record")
    /\ Noted(build # loc.rev.version, "yielded")
    /\ UNCHANGED <<server, machine, cfg, disk, loc, ordered, faulted>>

NotUpdated ==
    /\ Worked
    /\ ~cfg.pending
    /\ \E fails \in BOOLEAN :
        /\ fails <=> build # loc.rev.version
        /\ Meets(If(fails, "action"))
        /\ loc' = [loc EXCEPT !.ok = @ /\ ~fails]
    /\ history' = history \ If(build = loc.rev.version, "yielded")
    /\ Goto("record")
    /\ UNCHANGED <<server, machine, cfg, disk, ordered>>

UpdatesTo(rev) == rev.version
Update ==
    /\ Worked
    /\ ~cfg.pending
    /\ build # loc.rev.version
    /\ build' = UpdatesTo(loc.rev)
    /\ \E fails \in BOOLEAN :
        /\ Meets(If(fails, "save"))
        /\ disk' = IF fails THEN disk ELSE cfg
    /\ cfg' = disk'
    /\ history' = history \ {"yielded"}
    /\ Goto("poll")
    /\ loc' = NoPass
    /\ UNCHANGED <<server, host, ordered>>

\* The end of reconcile: the reasons are saved, and with them the revision
\* unless something has to come back.
Records == loc.ok
Record ==
    /\ At("record")
    /\ \E fails \in BOOLEAN :
        /\ Meets(If(fails, "save"))
        /\ Save(IF Records THEN [cfg EXCEPT !.applied = loc.rev, !.with = Handles(build)] ELSE cfg,
                fails)
        /\ IF Records /\ loc.held /\ ~fails
           THEN Goto("put_back") /\ UNCHANGED <<loc, history>>
           ELSE Goto("coordinate") /\ loc' = NoPass /\ Noted(Records /\ loc.held, "cut")
    /\ UNCHANGED <<server, machine, ordered>>

\* reconcileHeld: what was held back has to come again.
PutNothingBack ==
    /\ At("put_back")
    /\ Goto("coordinate")
    /\ loc' = NoPass
    /\ UNCHANGED <<server, machine, cfg, disk, ordered, faulted, history>>
PutBack ==
    /\ At("put_back")
    /\ \E fails \in BOOLEAN :
        /\ Meets(If(fails, "save"))
        /\ Save([cfg EXCEPT !.applied = loc.prev.applied, !.with = loc.prev.with], fails)
        /\ Noted(fails, "cut")
    /\ Goto("coordinate")
    /\ loc' = NoPass
    /\ UNCHANGED <<server, machine, ordered>>
\* The coordinator lets the loop go on, or restarts the machine once the
\* emptied reasons are saved (RebootCoordinator has all of it).
Coordinate ==
    /\ At("coordinate")
    /\ Goto("poll")
    /\ loc' = NoPass
    /\ UNCHANGED <<server, machine, cfg, disk, ordered, faulted, history>>

Booted == [host EXCEPT !.name = host.next, !.fresh = FALSE]
Restart ==
    /\ At("coordinate")
    /\ cfg.pending
    /\ Save([cfg EXCEPT !.pending = FALSE], FALSE)
    /\ host' = Booted
    /\ Goto("poll")
    /\ loc' = NoPass
    /\ UNCHANGED <<server, build, ordered, faulted, history>>

Agent ==
    \/ Poll \/ PollUnanswered \/ Drift
    \/ Hostname \/ Power \/ Software
    \/ NoDirectory \/ Directory \/ SetComputerName \/ ReportDirectory
    \/ Snapin \/ SnapinNotFetched \/ SnapinsDone
    \/ UpdateYields \/ NotUpdated \/ Update
    \/ Record \/ PutBack \/ Coordinate

------------------------------------------------------------------------------
\* The process, or the machine, stops between two steps and starts again.
StartAgain ==
    /\ cfg' = disk
    /\ Goto("poll")
    /\ loc' = NoPass
    /\ history' = history
                    \cup If(At("put_back"), "cut")
                    \cup If(At("set_name"), "lagging")
                    \cup If((cfg.pending /\ ~disk.pending)
                              \/ (At("report") /\ loc.status = "join"), "unasked")
    /\ UNCHANGED <<server, build, disk, ordered>>
Crash ==
    /\ Meets({"crash"})
    /\ StartAgain
    /\ UNCHANGED host
PowerCut ==
    /\ Meets({"power_cut"})
    /\ StartAgain
    /\ host' = Booted

\* Somebody removes what was installed.
SoftwareDrifts ==
    /\ host.software # 0
    /\ Meets({"drift"})
    /\ host' = [host EXCEPT !.software = 0]
    /\ UNCHANGED <<server, build, agent, ordered, history>>

\* The revisions recorded, or that a held pass puts back.
Standing == {cfg.applied, disk.applied, loc.prev.applied} \ {None}

\* An hour, or the drift interval, or the cooldown, passes: only a poll looks
\* at what is due, so it is enough that they pass before one.
FactsInterval ==
    /\ At("poll")
    /\ ~cfg.factsDue \/ ~disk.factsDue
    /\ cfg' = [cfg EXCEPT !.factsDue = TRUE]
    /\ disk' = [disk EXCEPT !.factsDue = TRUE]
    /\ UNCHANGED <<server, machine, pc, loc, ordered, faulted, history>>
DriftInterval ==
    /\ At("poll")
    /\ ~cfg.driftDue \/ ~disk.driftDue
    /\ cfg' = [cfg EXCEPT !.driftDue = TRUE]
    /\ disk' = [disk EXCEPT !.driftDue = TRUE]
    /\ UNCHANGED <<server, machine, pc, loc, ordered, faulted, history>>
CooldownOver ==
    /\ At("poll")
    /\ cooling
    /\ cooling' = FALSE
    /\ Noted(\E rev \in Standing : rev.directory # "none", "missed")
    /\ UNCHANGED <<order, belief, machine, agent, ordered, faulted>>

Order(kind, changed) ==
    /\ kind \in Orders
    /\ ordered < MaxOrders
    /\ ordered' = ordered + 1
    /\ changed # order
    /\ order' = changed
    /\ UNCHANGED <<belief, cooling, machine, agent, faulted>>
OrderName ==
    \E n \in Names :
        /\ Order("name", [order EXCEPT !.name = n])
        /\ Noted(n = host.name \/ \E rev \in Standing : rev.name = n, "withdrawn")
OrderVersion ==
    \E v \in Versions :
        /\ Order("version", [order EXCEPT !.version = v])
        /\ Noted(\E rev \in Standing : rev.version = v, "recalled")
OrderOther ==
    /\ \/ Order("member", [order EXCEPT !.member = TRUE])
       \/ order.power = 0 /\ Order("power", [order EXCEPT !.power = ordered'])
       \/ \E t \in Tasks :
             t > order.last /\ Order("task", [order EXCEPT !.queue = @ \cup {t}, !.last = t])
       \/ \E p \in Packages : Order("software", [order EXCEPT !.software = p])
    /\ UNCHANGED history

World ==
    \/ Crash \/ PowerCut \/ SoftwareDrifts
    \/ FactsInterval \/ DriftInterval \/ CooldownOver
    \/ OrderName \/ OrderVersion \/ OrderOther

Next == Agent \/ Restart \/ World

Spec == Init /\ [][Next]_vars

\* The service runs and time passes; the users leave, so that a restart that
\* is offered again and again is made.
LiveSpec ==
    /\ Spec
    /\ WF_vars(Agent)
    /\ SF_vars(Restart)
    /\ SF_vars(FactsInterval) /\ SF_vars(DriftInterval) /\ SF_vars(CooldownOver)

------------------------------------------------------------------------------
\* Every variable has its type.
TypeOK ==
    /\ order \in HostRecords
    /\ belief \in Memberships
    /\ cooling \in BOOLEAN
    /\ host \in Machines
    /\ build \in Versions
    /\ {cfg, disk} \subseteq Configs
    /\ pc \in {"poll", "reconcile", "set_name", "report", "record", "put_back", "drift",
               "coordinate"}
    /\ loc \in Passes
    /\ ordered \in 0..MaxOrders /\ faulted \in 0..MaxFaults
    /\ history \subseteq Marks

\* While the revision that stands applied, in memory or on disk, is the one the
\* server would send, nothing is sent any more: then what it orders is there,
\* whatever failed, was held back or lost on the way.  A name may wait for its
\* restart, or for the hour the server holds a rename back; a join that failed
\* comes again after that hour, in another revision; packages are the business of
\* the drift check, whose outcome the revision does not depend on.
Excused(marks) == marks \cap history # {}
Done(c) ==
    /\ "hostname" \in c.with =>
          host.next = c.applied.name \/ c.applied.wait \/ Excused({"withdrawn"})
    /\ "directory" \in c.with /\ c.applied.directory = "join" => host.member \/ Excused({"missed"})
    /\ "power" \in c.with => order.power = 0
    /\ "snapin" \in c.with => order.queue = {}
    /\ build = c.applied.version \/ Excused({"yielded", "recalled"})
AppliedMeansDone ==
    pc # "put_back" /\ ~Excused({"cut"}) =>
        \A c \in {cfg, disk} : c.applied = DesiredState(order, belief, cooling) => Done(c)

\* A machine in the domain and its computer object have one name between them
\* once it restarts, but between the two calls of a rename, and unless the second
\* of them failed or was cut.
OneName == host.member /\ pc # "set_name" /\ "lagging" \notin history => host.object = host.next

\* A task runs only when the server has closed everything before it: a queue
\* interrupted by a lost result, a failed download or a retry starts again
\* where it stopped, and nothing runs after an aborted job.
SnapinsInOrder ==
    [][\A t \in loc.tasks : Snapin /\ Leads(t, loc.tasks) => Leads(t, order.queue)]_vars

\* The machine becomes what the admin asked for in the end, also when what
\* was asked changes on the way.
Converges ==
    <>[](/\ host.name = order.name \/ Excused({"withdrawn", "cut", "missed"})
         /\ order.member => host.member \/ Excused({"cut", "missed"})
         /\ ~host.fresh \/ Excused({"unasked"})
         /\ "power" \in Handles(build) => order.power = 0 \/ Excused({"cut"})
         /\ order.queue = {} \/ Excused({"cut"})
         /\ host.software = order.software \/ Excused({"cut"})
         /\ build = order.version \/ Excused({"yielded", "cut"}))

------------------------------------------------------------------------------
\* A claim of a document that the code does not keep.

\* 0015-self-update.md:724, "the update happens after the machine is back": a
\* build that was asked for and made way for a restart is installed in the end.
UpdatesAfterRestart == <>[](build = order.version)
==============================================================================
