------------------------------- MODULE Facts -------------------------------
(***************************************************************************)
(* The facts a poll carries: what the machine is made of and what is       *)
(* installed on it, gathered by the collectors and sent when the hash of a *)
(* block moved or the server asks.  From cmd/fog-agent/facts.go and the    *)
(* packages inventory, software, directory, printers, network, secureboot. *)
(*                                                                         *)
(* A collector makes several readings and each can fail.  They are reduced *)
(* to two: "main", the call or source the collector starts from, and       *)
(* "more", the others.  A block is the set of readings that found          *)
(* something, and its hash is the block.  Hosts change, and the server     *)
(* keeps the last block it was sent (external, design 0006).               *)
(***************************************************************************)
EXTENDS Naturals, FiniteSets, FactsRecord

CONSTANTS
    Platform,    \* the collectors' build
    Faults,      \* the kinds of fault that may happen
    MaxFaults,   \* bound: how many do
    MaxChanges,  \* bound: changes of the machine
    MaxOrders    \* bound: things the admin, or the server's database, does

FaultKinds == {"reading", "request", "answer", "save", "crash"}

ASSUME FactsAssumption ==
    /\ Blocks \subseteq {"inventory", "software", "directory", "printers",
                         "network", "secureboot"}
    /\ Platform \in {"linux", "windows"}
    /\ Faults \subseteq FaultKinds
    /\ {MaxFaults, MaxChanges, MaxOrders} \subseteq Nat

Readings == {"main", "more"}
Value == SUBSET Readings

VARIABLES
    machine,   \* what each reading of each block would find
    pc,        \* where runAgent is
    req,       \* sentFacts, of the poll under way
    resp,      \* its answer
    asks,      \* external: the blocks the admin asked for again
    collect,   \* external: the collect_facts setting, or an old server
    faults, changes, orders    \* bounds

server == <<holds, asks, collect>>
vars == <<machine, pc, known, saved, req, resp, server, faults, changes, orders, unsettled>>

Gate == {"on", "off", "unstated"}
Config == [hash : [Blocks -> Value \cup {None}], want : SUBSET Blocks,
           fresh : BOOLEAN, disabled : BOOLEAN]
Request == [sent : [Blocks -> Value \cup {None}], gathered : BOOLEAN]
NoRequest == [sent |-> [b \in Blocks |-> None], gathered |-> FALSE]
Response == [want : SUBSET Blocks, collect : Gate]
NoResponse == [want |-> {}, collect |-> "unstated"]

TypeOK ==
    /\ machine \in [Blocks -> Value]
    /\ pc \in {"waiting", "polling", "answered"}
    /\ known \in Config /\ saved \in Config
    /\ req \in Request /\ resp \in Response
    /\ holds \in [Blocks -> Value \cup {None}]
    /\ asks \subseteq Blocks /\ collect \in Gate
    /\ faults \in 0..MaxFaults /\ changes \in 0..MaxChanges /\ orders \in 0..MaxOrders
    /\ unsettled \subseteq Blocks

Init ==
    /\ machine = [b \in Blocks |-> {"main"}]
    /\ pc = "waiting"
    /\ known = [hash |-> [b \in Blocks |-> None], want |-> {},
              fresh |-> FALSE, disabled |-> FALSE]
    /\ saved = known
    /\ req = NoRequest /\ resp = NoResponse
    /\ holds = [b \in Blocks |-> None] /\ asks = {} /\ collect \in {"on", "unstated"}
    /\ faults = 0 /\ changes = 0 /\ orders = 0
    /\ unsettled = {}

Strike(kind) ==
    /\ kind \in Faults /\ faults < MaxFaults
    /\ faults' = faults + 1

(***************************************************************************)
(* The collectors: what each reports of a machine whose readings found     *)
(* found, some of them having failed.                                      *)
(***************************************************************************)
Nothing == [ok |-> FALSE, value |-> {}]
Report(value) == [ok |-> TRUE, value |-> value]
ReportIf(ok, value) == IF ok THEN Report(value) ELSE Nothing

\* Every field by itself, blank when it cannot be read; nothing at all is no
\* report.
InventoryLinux(found, failed) == ReportIf(found \ failed # {}, found \ failed)

\* The SMBIOS table, and without it the registry and the memory status.
InventoryWindows(found, failed) == ReportIf(found \ failed # {}, found \ failed)

\* dpkg-query, then rpm: those that ran make up the list.
SoftwareLinux(found, failed) == ReportIf(failed # Readings, found \ failed)

\* The registry views: those that opened make up the list.
SoftwareWindows(found, failed) == ReportIf(failed # Readings, found \ failed)

\* realmd, and when it says nothing, or fails, the keytab and sssd.conf.  None
\* of them is the answer that the machine is in no directory.
DirectoryLinux(found, failed) ==
    Report(IF "main" \in found \ failed THEN {"main"} ELSE found \ failed)

\* NetGetJoinInformation decides; the rest of the fields are best effort.
DirectoryWindows(found, failed) == ReportIf("main" \notin failed, found \ failed)

\* lpstat -v decides; the default and each queue's options are best effort.
PrintersLinux(found, failed) == ReportIf("main" \notin failed, found \ failed)

\* EnumPrinters decides; the default and a port's address are best effort.
PrintersWindows(found, failed) == ReportIf("main" \notin failed, found \ failed)

\* net.Interfaces decides; an interface that cannot be read is left out.
NetworkInterfaces(found, failed) == ReportIf("main" \notin failed, found \ failed)

\* Two firmware variables, each blank when it cannot be read.
SecureBoot(found, failed) == Report(found \ failed)

Gather(b, failed) ==
    LET found == machine[b]
        linux == Platform = "linux"
    IN CASE b = "inventory"  -> IF linux THEN InventoryLinux(found, failed)
                                         ELSE InventoryWindows(found, failed)
         [] b = "software"   -> IF linux THEN SoftwareLinux(found, failed)
                                         ELSE SoftwareWindows(found, failed)
         [] b = "directory"  -> IF linux THEN DirectoryLinux(found, failed)
                                         ELSE DirectoryWindows(found, failed)
         [] b = "printers"   -> IF linux THEN PrintersLinux(found, failed)
                                         ELSE PrintersWindows(found, failed)
         [] b = "network"    -> NetworkInterfaces(found, failed)
         [] b = "secureboot" -> SecureBoot(found, failed)

(***************************************************************************)
(* The machine, the clock and the admin.                                   *)
(***************************************************************************)
Change(b) ==
    /\ changes < MaxChanges /\ changes' = changes + 1
    /\ \E value \in Value \ {machine[b]} : machine' = [machine EXCEPT ![b] = value]
    /\ UNCHANGED <<pc, known, saved, req, resp, server, faults, orders, unsettled>>

\* FactsInterval since the collectors ran has passed.
Hour ==
    /\ known.fresh \/ saved.fresh
    /\ known' = [known EXCEPT !.fresh = FALSE] /\ saved' = [saved EXCEPT !.fresh = FALSE]
    /\ UNCHANGED <<machine, pc, req, resp, server, faults, changes, orders, unsettled>>

\* Collection is turned on or off, a block is asked for, or lost by the server.
Order ==
    /\ orders < MaxOrders /\ orders' = orders + 1
    /\ \/ /\ collect' = IF collect = "on" THEN "off" ELSE "on"
          /\ UNCHANGED <<holds, asks>>
       \/ \E b \in Blocks \ asks : asks' = asks \cup {b} /\ UNCHANGED <<holds, collect>>
       \/ \E b \in Blocks : /\ holds[b] # None
                            /\ holds' = [holds EXCEPT ![b] = None]
                            /\ UNCHANGED <<asks, collect>>
    /\ UNCHANGED <<machine, pc, known, saved, req, resp, faults, changes, unsettled>>

(***************************************************************************)
(* The poll.                                                               *)
(***************************************************************************)
\* The network is gathered by every poll, and asking for it makes no other
\* collector run.
factsDue == known.want \ {"network"} # {} \/ ~known.fresh

Collected ==
    IF known.disabled THEN {} ELSE IF factsDue THEN Blocks ELSE Blocks \cap {"network"}

\* The hash gate.  (GateIgnoresAsking, and the like below, are faults put in
\* on purpose.)
AttachIgnoresAsking(b, failed) ==
    LET block == Gather(b, failed) IN
    IF b \in Collected /\ block.ok /\ block.value # known.hash[b] THEN block.value ELSE None
Attach(b, failed) ==
    LET block == Gather(b, failed) IN
    IF b \in Collected /\ block.ok /\ (block.value # known.hash[b] \/ b \in known.want)
    THEN block.value ELSE None

\* attachFacts, in a poll where the readings failed of block x do not work.
Poll(x, failed) ==
    /\ pc = "waiting"
    /\ pc' = "polling"
    /\ IF failed = {} THEN UNCHANGED faults ELSE x \in Collected /\ Strike("reading")
    /\ req' = [sent     |-> [b \in Blocks |-> Attach(b, IF b = x THEN failed ELSE {})],
               gathered |-> ~known.disabled /\ factsDue]
    /\ UNCHANGED <<machine, known, saved, resp, server, changes, orders, unsettled>>

Carried == {b \in Blocks : req.sent[b] # None}

\* What is on the wire: a program list that is empty is left out of it.
OnWire(b) == req.sent[b] # None /\ ~(b = "software" /\ req.sent[b] = {})

\* The server takes the blocks, unless collection is off, and says which it
\* wants: those the admin asked for and those it has nothing for.
Arrive ==
    /\ pc = "polling"
    /\ pc' = "answered"
    /\ holds' = [b \in Blocks |-> IF OnWire(b) /\ collect # "off" THEN req.sent[b] ELSE holds[b]]
    /\ asks' = asks \ {b \in Blocks : OnWire(b) /\ collect # "off"}
    /\ resp' = [want |-> asks' \cup {b \in Blocks : holds'[b] = None}, collect |-> collect]
    /\ unsettled' = unsettled \cup Carried
    /\ UNCHANGED <<machine, known, saved, req, collect, faults, changes, orders>>

LoseRequestRecorded ==
    /\ pc = "polling" /\ Strike("request")
    /\ pc' = "waiting" /\ req' = NoRequest
    /\ known' = [known EXCEPT !.hash = [b \in Blocks |-> IF req.sent[b] # None THEN req.sent[b] ELSE @[b]]]
    /\ UNCHANGED <<machine, saved, resp, server, changes, orders, unsettled>>
LoseRequest ==
    /\ pc = "polling" /\ Strike("request")
    /\ pc' = "waiting" /\ req' = NoRequest
    /\ UNCHANGED <<machine, known, saved, resp, server, changes, orders, unsettled>>

LoseAnswer ==
    /\ pc = "answered" /\ Strike("answer")
    /\ pc' = "waiting" /\ req' = NoRequest /\ resp' = NoResponse
    /\ UNCHANGED <<machine, known, saved, server, changes, orders, unsettled>>

\* recordFacts.
Recorded ==
    [hash     |-> [b \in Blocks |-> IF b \in Carried THEN req.sent[b] ELSE known.hash[b]],
     want     |-> resp.want,
     fresh    |-> known.fresh \/ req.gathered,
     disabled |-> IF resp.collect = "unstated" THEN known.disabled ELSE resp.collect = "off"]

\* Saved when a field moved, the time of the collection among them.
Record ==
    /\ pc = "answered"
    /\ pc' = "waiting" /\ req' = NoRequest /\ resp' = NoResponse
    /\ known' = Recorded
    /\ LET moved == known' # known \/ req.gathered
           dropped == IF resp.collect = "off" THEN Carried ELSE {}
       IN \/ /\ saved' = IF moved THEN known' ELSE saved
             /\ unsettled' = (unsettled \ Carried) \cup dropped
             /\ UNCHANGED faults
          \/ /\ moved /\ Strike("save")
             /\ UNCHANGED <<saved, unsettled>>
    /\ UNCHANGED <<machine, server, changes, orders>>

\* Another part of the loop saves config.json.
SaveConfig ==
    /\ saved # known
    /\ saved' = known
    /\ UNCHANGED <<machine, pc, known, req, resp, server, faults, changes, orders, unsettled>>

\* The process dies and comes back.
Crash ==
    /\ Strike("crash")
    /\ pc' = "waiting" /\ req' = NoRequest /\ resp' = NoResponse
    /\ known' = saved
    /\ UNCHANGED <<machine, saved, server, changes, orders, unsettled>>

Agent == (\E b \in Blocks : \E failed \in Value : Poll(b, failed)) \/ Arrive \/ Record

Next ==
    \/ \E b \in Blocks : Change(b)
    \/ Hour \/ Order
    \/ Agent
    \/ LoseRequest \/ LoseAnswer \/ SaveConfig \/ Crash

Spec == Init /\ [][Next]_vars

\* The loop polls for as long as the process runs, and the clock goes on.
LiveSpec == Spec /\ WF_vars(Agent) /\ WF_vars(Hour)

-----------------------------------------------------------------------------
(* When the machine stops changing, the server ends up with what it is,    *)
(* through lost polls, failed saves, crashes and collection turned off and *)
(* on (facts.go:135-138).  It does not when a change reached the server,   *)
(* its answer was lost, and the machine went back to what is on record.    *)
ServerLearns ==
    \A b \in Blocks :
        LET now == Gather(b, {}) IN
        <>[](\/ known.disabled \/ collect = "off"
             \/ ~now.ok \/ EmptyList(b, now.value)
             \/ holds[b] = now.value
             \/ b \in unsettled /\ known.hash[b] = now.value)

=============================================================================
