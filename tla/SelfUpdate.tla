------------------------------ MODULE SelfUpdate ------------------------------
(***************************************************************************)
(* Self-update: the agent replaces its own binary with the version the     *)
(* server names (internal/provider/update), the new binary is on probation *)
(* until it completes a poll, and a probation that runs out is reverted    *)
(* (cmd/fog-agent/update.go and the top of the loop in runAgent).          *)
(*                                                                         *)
(* Two processes touch the same files: the service, and the `fog-agent     *)
(* update` or `update-revert` somebody runs by hand.  A step is the code   *)
(* up to the next change on disk, so that a crash, or the other process,   *)
(* comes between any two of them.                                          *)
(*                                                                         *)
(* A binary is its version, config.json is the version that wrote it, and  *)
(* versions are ordered as Compare orders them.  Signatures and hashes are *)
(* reduced to a copy being refused or not.  Left out: the staged file, the *)
(* text of results, and which poll runs the provider: the server may move  *)
(* the revision between any two polls, so any successful poll may.         *)
(***************************************************************************)
EXTENDS Naturals, FiniteSets

CONSTANTS
    MaxVersion,      \* versions are 1..MaxVersion, the first one is installed
    CanStart,        \* versions whose service stays up
    CanPoll,         \* versions able to complete a poll
    MinDowngrade,    \* the oldest version a build is willing to become
    MaxSequence,     \* manifest sequences are 1..MaxSequence
    HandCommands,    \* what may be run by hand
    HandStopsService,\* whether the service is kept stopped meanwhile
    Disturbances,    \* which kinds of disturbance may happen
    MaxDisturbances  \* how many of them, in one behaviour

Versions == 1..MaxVersion
None == 0
DisturbanceKinds == {"hand", "outage", "write", "read", "rename", "report", "crash"}

ASSUME UpdateConstants ==
    /\ MaxVersion \in Nat \ {0}
    /\ CanPoll \subseteq CanStart
    /\ CanStart \subseteq Versions
    /\ 1 \in CanPoll
    /\ MinDowngrade \in Versions
    /\ MaxSequence \in Nat
    /\ HandCommands \subseteq {"update", "revert"}
    /\ HandStopsService \in BOOLEAN
    /\ Disturbances \subseteq DisturbanceKinds
    /\ MaxDisturbances \in Nat

VARIABLES
    exe,        \* the binary at the agent's path, None when nothing is there
    prev,       \* path.prev
    bad,        \* path.bad
    config,     \* config.json: the version that wrote it
    configPrev, \* config.json.prev
    probation,  \* update-probation.json
    reverted,   \* update-reverted.json
    floor,      \* update-sequence.json
    pc,         \* where each process is
    loc,        \* the locals of each process
    disturbed   \* disturbances so far

\* History, read by the properties only.
VARIABLES
    proven,     \* versions that completed a poll on this host
    swapped,    \* the binary the probation record speaks of was put in place
    torn,       \* a fault left no binary at the agent's path
    stray,      \* a record met the kept config, or the binary, of another update
    blind,      \* a hand-run update was made from a binary still unproven
    seen,       \* the highest sequence of a manifest that passed the checks
    misread,    \* a floor that could not be read let an older manifest pass, and
                \* none as new as `seen` has passed since
    tried       \* the running binary had a poll fail

files == <<exe, prev, bad, config, configPrev, probation, reverted, floor>>
procs == <<pc, loc>>
history == <<proven, swapped, torn, stray, blind, seen, misread, tried>>
vars == <<files, procs, disturbed, history>>

NoRecord == [from |-> None, to |-> None, sequence |-> 0, due |-> FALSE]
Probation == [from : Versions, to : Versions, sequence : 0..MaxSequence, due : BOOLEAN]

NoNote == [from |-> None, to |-> None]
Reverted == [from : Versions, to : Versions]

\* What a process holds: its own version, the version to become, the sequence
\* of the manifest in hand, whether that is the server's copy or the origin's,
\* whether the probation window, counted from the start, has run out, and the
\* update a revert in progress takes back.
NoLocals == [current |-> None, want |-> None, sequence |-> 0, copy |-> "origin",
             late |-> FALSE, undo |-> NoNote]
Locals == [current : Versions \cup {None}, want : Versions \cup {None},
           sequence : 0..MaxSequence, copy : {"server", "origin"}, late : BOOLEAN,
           undo : Reverted \cup {NoNote}]

Actors == {"service", "hand"}
Down == "down"
RunSteps == {"manifest", "save_sequence", "stage", "keep_config", "record",
             "forget", "aside", "install", "unrecord"}
RevertSteps == {"restore_config", "set_bad", "restore", "unarm", "note"}
Steps == {Down, "loop", "poll", "update", "leave"} \cup RunSteps \cup RevertSteps

Disturb(kind) ==
    /\ kind \in Disturbances
    /\ disturbed < MaxDisturbances
    /\ disturbed' = disturbed + 1

At(a, step) == pc[a] = step
Goto(a, step) == pc' = [pc EXCEPT ![a] = step]

\* Where a process goes when Run, or Revert, gives up: a command ends, the
\* service waits for the next poll, or polls on the binary it has.
Ends(a, step) ==
    /\ Goto(a, step)
    /\ loc' = [loc EXCEPT ![a] = IF step = Down THEN NoLocals
                                 ELSE [NoLocals EXCEPT !.current = loc[a].current]]
RunOver(a) == Ends(a, IF a = "service" THEN "loop" ELSE Down)
RevertOver(a) == Ends(a, IF a = "service" THEN "poll" ELSE Down)

------------------------------------------------------------------------------
Init ==
    /\ exe = 1
    /\ prev = None
    /\ bad = None
    /\ config = 1
    /\ configPrev = None
    /\ probation = NoRecord
    /\ reverted = NoNote
    /\ floor = 0
    /\ pc = [a \in Actors |-> IF a = "service" THEN "loop" ELSE Down]
    /\ loc = [a \in Actors |-> IF a = "service" THEN [NoLocals EXCEPT !.current = 1]
                                                ELSE NoLocals]
    /\ disturbed = 0
    /\ proven = {1}
    /\ swapped = TRUE
    /\ torn = FALSE
    /\ stray = FALSE
    /\ blind = FALSE
    /\ seen = 0
    /\ misread = FALSE
    /\ tried = FALSE

------------------------------------------------------------------------------
\* Outside the agent.

\* The probation deadline is a wall-clock time: it passes whether or not the
\* machine, or the agent, is running.
DeadlinePasses ==
    /\ probation # NoRecord
    /\ probation' = [probation EXCEPT !.due = TRUE]
    /\ UNCHANGED <<exe, prev, bad, config, configPrev, reverted, floor, procs,
                   disturbed, history>>

\* The deadline is counted from the start of Run, before anything is fetched.
FetchIsSlow(a) ==
    /\ pc[a] \in {"manifest", "save_sequence", "stage"}
    /\ loc' = [loc EXCEPT ![a].late = TRUE]
    /\ UNCHANGED <<files, pc, disturbed, history>>

\* The service manager starts whatever is at the agent's path.
Start ==
    /\ At("service", Down)
    /\ HandStopsService => At("hand", Down)
    /\ exe \in CanStart
    /\ Goto("service", "loop")
    /\ loc' = [loc EXCEPT !["service"] = [NoLocals EXCEPT !.current = exe]]
    /\ tried' = FALSE
    /\ UNCHANGED <<files, disturbed, proven, swapped, torn, stray, blind, seen, misread>>

\* The process is gone.
Crash(a) ==
    /\ ~At(a, Down)
    /\ Disturb("crash")
    /\ Ends(a, Down)
    /\ torn' = (torn \/ pc[a] \in {"install", "restore"})
    /\ UNCHANGED <<files, proven, swapped, stray, blind, seen, misread, tried>>

------------------------------------------------------------------------------
\* The service's loop.

\* checkProbation, when there is no record or its deadline has not passed.
ProbationNotDue ==
    /\ At("service", "loop")
    /\ ~probation.due
    /\ Goto("service", "poll")
    /\ UNCHANGED <<files, loc, disturbed, history>>

\* The mutation: the deadline is looked at only at the start.
ProbationDueAtStart ==
    /\ ~tried
    /\ At("service", "loop")
    /\ probation.due
    /\ prev # None
    /\ Goto("service", "restore_config")
    /\ loc' = [loc EXCEPT !["service"].undo = [from |-> probation.from, to |-> probation.to]]
    /\ UNCHANGED <<files, disturbed, history>>

\* The deadline has passed and there is something to go back to.
ProbationDue ==
    /\ At("service", "loop")
    /\ probation.due
    /\ prev # None
    /\ Goto("service", "restore_config")
    /\ loc' = [loc EXCEPT !["service"].undo = [from |-> probation.from, to |-> probation.to]]
    /\ UNCHANGED <<files, disturbed, history>>

\* ... and there is not: the agent says so and polls on.
RevertImpossible ==
    /\ At("service", "loop")
    /\ probation.due
    /\ prev = None
    /\ Goto("service", "poll")
    /\ UNCHANGED <<files, loc, disturbed, history>>

\* A failed poll.  It may still write config.json (how long the server has
\* been refusing the certificate, a schedule that fired).
PollFails ==
    /\ At("service", "poll")
    /\ IF loc["service"].current \in CanPoll THEN Disturb("outage") ELSE UNCHANGED disturbed
    /\ config' \in {config, loc["service"].current}
    /\ Goto("service", "loop")
    /\ tried' = TRUE
    /\ UNCHANGED <<exe, prev, bad, configPrev, probation, reverted, floor, loc,
                   proven, swapped, torn, stray, blind, seen, misread>>

\* The mutation: only a binary on probation reports reverts.
PollReportsOnProbation(cleared, told, desired) ==
    LET v == loc["service"].current IN
    /\ At("service", "poll")
    /\ v \in CanPoll
    /\ IF cleared /\ told THEN UNCHANGED disturbed
                          ELSE Disturb(IF cleared THEN "report" ELSE "write")
    /\ probation' = IF cleared THEN NoRecord ELSE probation
    /\ reverted' = IF told /\ probation # NoRecord THEN NoNote ELSE reverted
    /\ config' \in {config, v}
    /\ loc' = [loc EXCEPT !["service"].want = desired]
    /\ proven' = proven \cup {v}
    /\ Goto("service", "update")
    /\ UNCHANGED <<exe, prev, bad, configPrev, floor, swapped, torn, stray, blind, seen, misread, tried>>

\* A poll that got through.  passedProbation removes the record, whatever
\* binary it speaks of; reportRevert removes the note once the server took it.
\* What fails is left for the next poll.  The answer names the desired version.
PollSucceeds(cleared, told, desired) ==
    LET v == loc["service"].current IN
    /\ At("service", "poll")
    /\ v \in CanPoll
    /\ IF cleared /\ told THEN UNCHANGED disturbed
                          ELSE Disturb(IF cleared THEN "report" ELSE "write")
    /\ probation' = IF cleared THEN NoRecord ELSE probation
    /\ reverted' = IF told THEN NoNote ELSE reverted
    /\ config' \in {config, v}
    /\ loc' = [loc EXCEPT !["service"].want = desired]
    /\ proven' = proven \cup {v}
    /\ Goto("service", "update")
    /\ UNCHANGED <<exe, prev, bad, configPrev, floor, swapped, torn, stray, blind, seen, misread, tried>>

\* No update block in the answer, a revision that stands, an update that yields
\* to a pending reboot, or a version Run does not want.
NoUpdate ==
    /\ At("service", "update")
    /\ RunOver("service")
    /\ UNCHANGED <<files, disturbed, history>>

------------------------------------------------------------------------------
\* Run.

\* The version asked for is another one, and not below this build's floor.
Wanted(current, want) ==
    want # current /\ (want < current => want >= MinDowngrade)

Run(copy) ==
    /\ At("service", "update")
    /\ Wanted(loc["service"].current, loc["service"].want)
    /\ Goto("service", "manifest")
    /\ loc' = [loc EXCEPT !["service"].copy = copy, !["service"].late = FALSE]
    /\ UNCHANGED <<files, disturbed, history>>

\* A command run by hand is the installed binary.
ByHand(command) ==
    /\ command \in HandCommands
    /\ At("hand", Down)
    /\ HandStopsService => At("service", Down)
    /\ exe # None

\* `fog-agent update --to v`.
RunByHand(v) ==
    /\ ByHand("update")
    /\ Wanted(exe, v)
    /\ Goto("hand", "manifest")
    /\ loc' = [loc EXCEPT !["hand"] = [NoLocals EXCEPT !.current = exe, !.want = v]]
    /\ blind' = (blind \/ exe \notin proven)
    /\ Disturb("hand")
    /\ UNCHANGED <<files, proven, swapped, torn, stray, seen, misread, tried>>

\* manifestFor: a copy the server sent that is refused falls back once to the
\* manifest URL.
NextCopy(a) ==
    IF loc[a].copy = "server"
      THEN Goto(a, "manifest") /\ loc' = [loc EXCEPT ![a].copy = "origin"]
      ELSE RunOver(a)

\* Not fetched, not signed, expired, or older than the floor.
CopyRefused(a) ==
    /\ At(a, "manifest")
    /\ NextCopy(a)
    /\ UNCHANGED <<files, disturbed, history>>

\* accept: a floor that cannot be read, or parsed, counts as none (the error of
\* LoadSequence is dropped), and any manifest passes.
CopyVerified(a, s, read) ==
    /\ At(a, "manifest")
    /\ IF read THEN s >= floor /\ UNCHANGED disturbed ELSE Disturb("read")
    /\ loc' = [loc EXCEPT ![a].sequence = s]
    /\ misread' = (misread \/ s < floor)
    /\ Goto(a, "save_sequence")
    /\ UNCHANGED <<files, proven, swapped, torn, stray, blind, seen, tried>>

\* The mutation: the floor raised only for an update.
SaveSequenceIfFound(a, found, read) ==
    /\ At(a, "save_sequence")
    /\ IF read THEN UNCHANGED disturbed ELSE Disturb("read")
    /\ floor' = IF (read /\ loc[a].sequence < floor) \/ ~found THEN floor ELSE loc[a].sequence
    /\ seen' = IF loc[a].sequence > seen THEN loc[a].sequence ELSE seen
    /\ misread' = (misread /\ loc[a].sequence < seen)
    /\ IF found THEN Goto(a, "stage") /\ UNCHANGED loc ELSE NextCopy(a)
    /\ UNCHANGED <<exe, prev, bad, config, configPrev, probation, reverted,
                   proven, swapped, torn, stray, blind, tried>>

\* The floor is raised before the manifest is searched for this host's file.
\* SaveSequence reads it again, and only a floor it could read keeps it from
\* writing a lower one.
SaveSequence(a, found, read) ==
    /\ At(a, "save_sequence")
    /\ IF read THEN UNCHANGED disturbed ELSE Disturb("read")
    /\ floor' = IF read /\ loc[a].sequence < floor THEN floor ELSE loc[a].sequence
    /\ seen' = IF loc[a].sequence > seen THEN loc[a].sequence ELSE seen
    /\ misread' = (misread /\ loc[a].sequence < seen)
    /\ IF found THEN Goto(a, "stage") /\ UNCHANGED loc ELSE NextCopy(a)
    /\ UNCHANGED <<exe, prev, bad, config, configPrev, probation, reverted,
                   proven, swapped, torn, stray, blind, tried>>

SaveSequenceFails(a) ==
    /\ At(a, "save_sequence")
    /\ Disturb("write")
    /\ RunOver(a)
    /\ UNCHANGED <<files, history>>

\* fetchArtifact: the server's copy, or the origin's, or neither.
FetchArtifact(a) ==
    /\ At(a, "stage")
    /\ (Goto(a, "keep_config") /\ UNCHANGED loc) \/ RunOver(a)
    /\ UNCHANGED <<files, disturbed, history>>

\* Arm, first the config and then the record.
KeepConfig(a) ==
    /\ At(a, "keep_config")
    /\ bad' = None
    /\ \/ configPrev' = config /\ Goto(a, "record") /\ UNCHANGED <<loc, disturbed>>
       \/ UNCHANGED configPrev /\ RunOver(a) /\ Disturb("write")
    /\ stray' = (stray \/ (configPrev' # configPrev /\ probation # NoRecord))
    /\ UNCHANGED <<exe, prev, config, probation, reverted, floor, proven,
                   swapped, torn, blind, seen, misread, tried>>

RecordOf(a) == [from |-> loc[a].current, to |-> loc[a].want,
                sequence |-> loc[a].sequence, due |-> loc[a].late]

Record(a) ==
    /\ At(a, "record")
    /\ probation' = RecordOf(a)
    /\ swapped' = FALSE
    /\ Goto(a, "forget")
    /\ UNCHANGED <<exe, prev, bad, config, configPrev, reverted, floor, loc,
                   disturbed, proven, torn, stray, blind, seen, misread, tried>>

\* The mutation: arming is best effort.
RecordIgnored(a, written) ==
    /\ At(a, "record")
    /\ Disturb("write")
    /\ Goto(a, "forget")
    /\ UNCHANGED <<files, loc, history>>

\* Not written, or written and not readable: either way Run gives up, and a
\* record that was written stays.
RecordFails(a, written) ==
    /\ At(a, "record")
    /\ Disturb("write")
    /\ IF written THEN probation' = RecordOf(a) /\ swapped' = FALSE
                  ELSE UNCHANGED <<probation, swapped>>
    /\ RunOver(a)
    /\ UNCHANGED <<exe, prev, bad, config, configPrev, reverted, floor,
                   proven, torn, stray, blind, seen, misread, tried>>

\* swap: path.prev is removed, path becomes path.prev, the staged file path.
Forget(a) ==
    /\ At(a, "forget")
    /\ prev' = None
    /\ Goto(a, "aside")
    /\ UNCHANGED <<exe, bad, config, configPrev, probation, reverted, floor, loc,
                   disturbed, history>>

Aside(a) ==
    /\ At(a, "aside")
    /\ exe # None
    /\ prev' = exe
    /\ exe' = None
    /\ Goto(a, "install")
    /\ UNCHANGED <<bad, config, configPrev, probation, reverted, floor, loc,
                   disturbed, history>>

AsideFails(a) ==
    /\ At(a, "aside")
    /\ IF exe = None THEN UNCHANGED disturbed ELSE Disturb("rename")
    /\ Goto(a, "unrecord")
    /\ UNCHANGED <<files, loc, history>>

\* The caller exits, and the service manager starts the new binary.
Install(a) ==
    /\ At(a, "install")
    /\ exe' = loc[a].want
    /\ swapped' = TRUE
    /\ IF a = "service" THEN Goto(a, "leave") /\ UNCHANGED loc ELSE Ends(a, Down)
    /\ UNCHANGED <<prev, bad, config, configPrev, probation, reverted, floor,
                   disturbed, proven, torn, stray, blind, seen, misread, tried>>

\* The mutation: nothing is put back.
InstallFailsForGood(a, back) ==
    /\ At(a, "install")
    /\ Disturb("rename")
    /\ Goto(a, "unrecord")
    /\ UNCHANGED <<files, loc, history>>

\* The old binary is put back, unless that fails too.
InstallFails(a, back) ==
    /\ At(a, "install")
    /\ Disturb("rename")
    /\ back => prev # None
    /\ IF back THEN exe' = prev /\ prev' = None ELSE UNCHANGED <<exe, prev>>
    /\ torn' = (torn \/ (~back /\ exe = None))
    /\ Goto(a, "unrecord")
    /\ UNCHANGED <<bad, config, configPrev, probation, reverted, floor, loc,
                   proven, swapped, stray, blind, seen, misread, tried>>

\* ClearProbation, for a swap that did not happen.
Unrecord(a) ==
    /\ At(a, "unrecord")
    /\ \/ probation' = NoRecord /\ UNCHANGED disturbed
       \/ probation' = probation /\ Disturb("write")
    /\ RunOver(a)
    /\ UNCHANGED <<exe, prev, bad, config, configPrev, reverted, floor, history>>

\* The service saves its config and exits, saved or not.
Leave ==
    /\ At("service", "leave")
    /\ \/ config' = loc["service"].current /\ UNCHANGED disturbed
       \/ config' = config /\ Disturb("write")
    /\ Ends("service", Down)
    /\ UNCHANGED <<exe, prev, bad, configPrev, probation, reverted, floor, history>>

------------------------------------------------------------------------------
\* Revert.

\* `fog-agent update-revert`.
RevertByHand ==
    /\ ByHand("revert")
    /\ probation # NoRecord
    /\ prev # None
    /\ Goto("hand", "restore_config")
    /\ loc' = [loc EXCEPT !["hand"].undo = [from |-> probation.from, to |-> probation.to]]
    /\ Disturb("hand")
    /\ UNCHANGED <<files, history>>

\* The mutation: only the binary goes back.
RestoreNoConfig(a) ==
    /\ At(a, "restore_config")
    /\ Goto(a, "set_bad")
    /\ UNCHANGED <<files, loc, disturbed, history>>

\* The config goes back first.
RestoreConfig(a) ==
    /\ At(a, "restore_config")
    /\ \/ /\ config' = IF configPrev = None THEN config ELSE configPrev
          /\ Goto(a, "set_bad")
          /\ UNCHANGED <<loc, disturbed>>
       \/ /\ UNCHANGED config
          /\ RevertOver(a)
          /\ Disturb("write")
    /\ UNCHANGED <<exe, prev, bad, configPrev, probation, reverted, floor, history>>

\* The mutation: swap()'s first rename, over the binary to restore.
SetPrev(a) ==
    /\ At(a, "set_bad")
    /\ exe # None
    /\ prev' = exe
    /\ exe' = None
    /\ Goto(a, "restore")
    /\ UNCHANGED <<bad, config, configPrev, probation, reverted, floor, loc,
                   disturbed, history>>

SetBad(a) ==
    /\ At(a, "set_bad")
    /\ exe # None
    /\ bad' = exe
    /\ exe' = None
    /\ Goto(a, "restore")
    /\ UNCHANGED <<prev, config, configPrev, probation, reverted, floor, loc,
                   disturbed, history>>

SetBadFails(a) ==
    /\ At(a, "set_bad")
    /\ IF exe = None THEN UNCHANGED disturbed ELSE Disturb("rename")
    /\ bad' = None
    /\ RevertOver(a)
    /\ UNCHANGED <<exe, prev, config, configPrev, probation, reverted, floor, history>>

Restore(a) ==
    /\ At(a, "restore")
    /\ prev # None
    /\ exe' = prev
    /\ prev' = None
    /\ Goto(a, "unarm")
    /\ stray' = (stray \/ ~swapped)
    /\ UNCHANGED <<bad, config, configPrev, probation, reverted, floor, loc,
                   disturbed, proven, swapped, torn, blind, seen, misread, tried>>

\* The failed binary is put back, unless that fails too.
RestoreFails(a, back) ==
    /\ At(a, "restore")
    /\ IF prev = None THEN UNCHANGED disturbed ELSE Disturb("rename")
    /\ back => bad # None
    /\ IF back THEN exe' = bad /\ bad' = None ELSE UNCHANGED <<exe, bad>>
    /\ torn' = (torn \/ (~back /\ exe = None))
    /\ RevertOver(a)
    /\ UNCHANGED <<prev, config, configPrev, probation, reverted, floor, proven, swapped,
                   stray, blind, seen, misread, tried>>

\* The record and the kept config are removed; failing to is ignored.
Unarm(a) ==
    /\ At(a, "unarm")
    /\ \/ probation' = NoRecord /\ configPrev' = None /\ UNCHANGED disturbed
       \/ /\ probation' \in {probation, NoRecord}
          /\ configPrev' \in {configPrev, None}
          /\ Disturb("write")
    /\ Goto(a, "note")
    /\ UNCHANGED <<exe, prev, bad, config, reverted, floor, loc, history>>

\* What the restored binary will report, best effort.  The process exits.
WriteNote(a) ==
    /\ At(a, "note")
    /\ \/ reverted' = loc[a].undo /\ UNCHANGED disturbed
       \/ reverted' = reverted /\ Disturb("write")
    /\ Ends(a, Down)
    /\ UNCHANGED <<exe, prev, bad, config, configPrev, probation, floor, history>>

------------------------------------------------------------------------------
Environment ==
    \/ \E v \in Versions : RunByHand(v)
    \/ \E a \in Actors : FetchIsSlow(a) \/ Crash(a)

Loop ==
    \/ ProbationNotDue
    \/ ProbationDue
    \/ RevertImpossible
    \/ PollFails
    \/ \E cleared, told \in BOOLEAN, desired \in Versions :
          PollSucceeds(cleared, told, desired)
    \/ NoUpdate

Update(a) ==
    \/ CopyRefused(a)
    \/ \E s \in 1..MaxSequence, read \in BOOLEAN : CopyVerified(a, s, read)
    \/ \E found, read \in BOOLEAN : SaveSequence(a, found, read)
    \/ SaveSequenceFails(a)
    \/ FetchArtifact(a)
    \/ KeepConfig(a)
    \/ Record(a)
    \/ \E written \in BOOLEAN : RecordFails(a, written)
    \/ Forget(a)
    \/ Aside(a)
    \/ AsideFails(a)
    \/ Install(a)
    \/ \E back \in BOOLEAN : InstallFails(a, back)
    \/ Unrecord(a)

Revert(a) ==
    \/ RestoreConfig(a)
    \/ SetBad(a)
    \/ SetBadFails(a)
    \/ Restore(a)
    \/ \E back \in BOOLEAN : RestoreFails(a, back)
    \/ Unarm(a)
    \/ WriteNote(a)

Service ==
    \/ Start
    \/ Loop
    \/ \E copy \in {"server", "origin"} : Run(copy)
    \/ Update("service")
    \/ Leave
    \/ Revert("service")

Next ==
    \/ Environment
    \/ DeadlinePasses
    \/ Service
    \/ RevertByHand
    \/ Update("hand")
    \/ Revert("hand")

Spec == Init /\ [][Next]_vars

\* The service is scheduled, a command run by hand goes on to its end, and time
\* passes.
FairSpec == Spec /\ WF_vars(Service) /\ WF_vars(Update("hand") \/ Revert("hand"))
    /\ WF_vars(DeadlinePasses)

------------------------------------------------------------------------------
\* Every variable has its type.
TypeOK ==
    /\ {exe, prev, bad, configPrev} \subseteq Versions \cup {None}
    /\ config \in Versions
    /\ probation \in Probation \cup {NoRecord}
    /\ reverted \in Reverted \cup {NoNote}
    /\ floor \in 0..MaxSequence
    /\ pc \in [Actors -> Steps]
    /\ loc \in [Actors -> Locals]
    /\ disturbed \in 0..MaxDisturbances
    /\ proven \subseteq Versions
    /\ swapped \in BOOLEAN
    /\ torn \in BOOLEAN
    /\ stray \in BOOLEAN
    /\ blind \in BOOLEAN
    /\ seen \in 0..MaxSequence
    /\ misread \in BOOLEAN
    /\ tried \in BOOLEAN

\* An installed binary that never completed a poll here is on probation, and
\* the binary it replaced, which did, is beside it.  Only somebody who updates
\* by hand a binary that never polled gives that up.
WayBack ==
    exe \in Versions \ proven /\ ~blind =>
        /\ probation # NoRecord
        /\ probation.to = exe
        /\ prev = probation.from
        /\ prev \in proven

\* There is a binary at the agent's path, except between the two renames of a
\* swap or a revert, or when a fault fell exactly there.
BinaryInPlace ==
    exe = None => torn \/ \E a \in Actors : pc[a] \in {"install", "restore"}

\* The installed binary can read config.json: an older version wrote it, or a
\* newer one that may be downgraded to this one.  Not so after a revert by a
\* record whose update was never made, or that outlived its update: those meet
\* the config, or the binary, of another update.
ConfigReadable ==
    exe # None => config <= exe \/ exe >= MinDowngrade \/ stray

\* An update is never armed on a manifest older than one accepted before,
\* whether or not that one led to an update.  Not so from when the file with the
\* floor could not be read and an older manifest passed for it (the agent takes
\* that file as absent, and may write the lower number), until a manifest as new
\* as any before is accepted again.
NoReplay ==
    [][probation' \notin {probation, NoRecord} /\ probation'.due = probation.due
         => probation'.sequence >= seen \/ misread]_vars

\* A revert takes back exactly the update that was made: the binary set aside
\* is the one the record names, and the one put back is the one it replaced.
RevertUndoesUpdate ==
    [][\A a \in Actors : Restore(a) /\ swapped => bad = loc[a].undo.to /\ exe' = loc[a].undo.from]_vars

\* A revert that left a note is reported by a binary that polls, unless there
\* is none to go back to.
RevertReported ==
    (reverted # NoNote) ~> (reverted = NoNote \/ torn \/ blind)

\* A binary that starts and cannot poll does not stay, unless somebody updated
\* it by hand, which makes it the one to go back to.
BadVersionLeaves ==
    \A v \in CanStart \ CanPoll :
        (At("service", "loop") /\ loc["service"].current = v) ~> (exe # v \/ blind)

==============================================================================
