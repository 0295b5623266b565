--------------------------- MODULE SelfUpdateProofs ---------------------------
(***************************************************************************)
(* Self-update, for any number of versions, sequences and disturbances:    *)
(* there is a binary at the agent's path unless a fault fell between two   *)
(* renames and, while a command runs only beside a stopped service, an     *)
(* unproven binary keeps its way back, the configuration can be read, no   *)
(* older manifest is armed, and a revert undoes the update it names.       *)
(*                                                                         *)
(* IInv says what is true of the files at each step of a process: where    *)
(* the running binary is (Placed), what was decided and is on record       *)
(* (Decided), which binary may be trusted (Recorded), and what can read    *)
(* the configuration (Readable).  Once there is no binary and nobody puts  *)
(* one back, nothing happens any more (Dead).                              *)
(***************************************************************************)
EXTENDS SelfUpdate, TLAPS

\* What a process holds when it is somewhere.
Running ==
    /\ pc["hand"] \notin {"loop", "poll", "update", "leave"}
    /\ \A a \in Actors :
        /\ a = "service" /\ pc[a] # Down => loc[a].current \in Versions
        /\ pc[a] \in RunSteps => loc[a].current \in Versions
        /\ pc[a] \in {"update", "leave"} \cup RunSteps => loc[a].want \in Versions
        /\ pc[a] \in RevertSteps => loc[a].undo \in Reverted

Typed == TypeOK /\ Running

\* What a step of one process does to the steps and the locals of both.
Procs == pc \in [Actors -> Steps] /\ loc \in [Actors -> Locals]
OthersStay(a) == \A b \in Actors \ {a} : pc'[b] = pc[b] /\ loc'[b] = loc[b]
Moves(a, step) == Procs' /\ pc'[a] = step /\ OthersStay(a)
KeepsCurrent(a) == pc'[a] # Down => loc'[a].current = loc[a].current

LEMMA Constants ==
    /\ 1 \in Versions /\ None \notin Versions /\ CanStart \subseteq Versions
    /\ 0 \in 0..MaxSequence /\ 0 \in 0..MaxDisturbances
    /\ MaxSequence \in Nat /\ MaxDisturbances \in Nat /\ MinDowngrade \in Versions
    /\ Versions \subseteq Nat
  BY UpdateConstants DEF Versions, None

LEMMA Both == "service" \in Actors /\ "hand" \in Actors
  BY DEF Actors

LEMMA GotoMoves ==
    ASSUME Procs, NEW a \in Actors, NEW step \in Steps, Goto(a, step), loc' = loc
    PROVE  Moves(a, step)
  BY DEF Procs, Goto, Moves, OthersStay

LEMMA HoldMoves ==
    ASSUME Procs, NEW a \in Actors, NEW step \in Steps, Goto(a, step),
           NEW l \in Locals, loc' = [loc EXCEPT ![a] = l]
    PROVE  Moves(a, step) /\ loc'[a] = l
  BY DEF Procs, Goto, Moves, OthersStay

LEMMA EndsMoves ==
    ASSUME Procs, NEW a \in Actors, NEW step \in Steps, Ends(a, step)
    PROVE  Moves(a, step) /\ KeepsCurrent(a)
<1> DEFINE l == IF step = Down THEN NoLocals ELSE [NoLocals EXCEPT !.current = loc[a].current]
<1>1. l \in Locals
  BY Constants DEF Procs, Locals, NoLocals, NoNote
<1>2. Goto(a, step) /\ loc' = [loc EXCEPT ![a] = l]
  BY DEF Ends
<1>3. Moves(a, step) /\ loc'[a] = l
  BY <1>1, <1>2, HoldMoves
<1> QED
  BY <1>1, <1>3 DEF Moves, KeepsCurrent, NoLocals, Locals

LEMMA RunOverMoves ==
    ASSUME Procs, NEW a \in Actors, RunOver(a)
    PROVE  Moves(a, IF a = "service" THEN "loop" ELSE Down) /\ KeepsCurrent(a)
<1>1. (IF a = "service" THEN "loop" ELSE Down) \in Steps
  BY DEF Steps
<1> QED
  BY <1>1, EndsMoves DEF RunOver

LEMMA RevertOverMoves ==
    ASSUME Procs, NEW a \in Actors, RevertOver(a)
    PROVE  Moves(a, IF a = "service" THEN "poll" ELSE Down) /\ KeepsCurrent(a)
<1>1. (IF a = "service" THEN "poll" ELSE Down) \in Steps
  BY DEF Steps
<1> QED
  BY <1>1, EndsMoves DEF RevertOver

\* The steps that change what a process holds.
SameUpdate(a) == loc'[a].current = loc[a].current /\ loc'[a].want = loc[a].want

LEMMA Holding ==
    ASSUME Typed, NEW a \in Actors
    PROVE  /\ FetchIsSlow(a) =>
                 Moves(a, pc[a]) /\ SameUpdate(a) /\ loc'[a].sequence = loc[a].sequence
           /\ \A s \in 1..MaxSequence, read \in BOOLEAN : CopyVerified(a, s, read) =>
                 Moves(a, "save_sequence") /\ SameUpdate(a) /\ loc'[a].sequence = s
<1> USE DEF Typed, TypeOK, SameUpdate
<1>1. ASSUME FetchIsSlow(a)
      PROVE  Moves(a, pc[a]) /\ SameUpdate(a) /\ loc'[a].sequence = loc[a].sequence
  <2> DEFINE l == [loc[a] EXCEPT !.late = TRUE]
  <2>1. /\ l \in Locals /\ l.current = loc[a].current /\ l.want = loc[a].want
        /\ l.sequence = loc[a].sequence
    BY DEF Locals
  <2>2. loc' = [loc EXCEPT ![a] = l] /\ pc' = pc
    BY <1>1 DEF FetchIsSlow
  <2>3. loc'[a] = l
    BY <2>2
  <2> QED
    BY <2>1, <2>2, <2>3 DEF Moves, Procs, OthersStay
<1>2. ASSUME NEW s \in 1..MaxSequence, NEW read \in BOOLEAN,
             CopyVerified(a, s, read)
      PROVE  Moves(a, "save_sequence") /\ SameUpdate(a) /\ loc'[a].sequence = s
  <2> DEFINE l == [loc[a] EXCEPT !.sequence = s]
  <2>1. /\ l \in Locals /\ l.current = loc[a].current /\ l.want = loc[a].want
        /\ l.sequence = s
    BY Constants DEF Locals
  <2>2. loc' = [loc EXCEPT ![a] = l] /\ Goto(a, "save_sequence")
    BY <1>2 DEF CopyVerified
  <2> QED
    BY <2>1, <2>2, HoldMoves DEF Procs, Steps, RunSteps
<1> QED
  BY <1>1, <1>2

\* The next copy of the manifest, or none.
LEMMA NextCopyMoves ==
    ASSUME Typed, NEW a \in Actors, NextCopy(a)
    PROVE  \/ Moves(a, "manifest") /\ SameUpdate(a)
           \/ Moves(a, IF a = "service" THEN "loop" ELSE Down) /\ KeepsCurrent(a)
<1> USE DEF Typed, TypeOK, Procs
<1>1. CASE loc[a].copy = "server"
  <2> DEFINE l == [loc[a] EXCEPT !.copy = "origin"]
  <2>1. /\ l \in Locals /\ l.current = loc[a].current /\ l.want = loc[a].want
        /\ "manifest" \in Steps
    BY DEF Locals, Steps, RunSteps
  <2>2. Goto(a, "manifest") /\ loc' = [loc EXCEPT ![a] = l]
    BY <1>1 DEF NextCopy
  <2> QED
    BY <2>1, <2>2, HoldMoves DEF SameUpdate
<1>2. CASE loc[a].copy # "server"
  BY <1>2, RunOverMoves DEF NextCopy
<1> QED
  BY <1>1, <1>2

LEMMA ServiceHolding ==
    ASSUME Typed
    PROVE  /\ \A copy \in {"server", "origin"} : Run(copy) =>
                 /\ Moves("service", "manifest")
                 /\ loc'["service"].current = loc["service"].current
                 /\ loc'["service"].want = loc["service"].want
           /\ ProbationDue =>
                 /\ Moves("service", "restore_config")
                 /\ loc'["service"].current = loc["service"].current
                 /\ loc'["service"].undo = [from |-> probation.from, to |-> probation.to]
                 /\ loc'["service"].undo \in Reverted
           /\ \A cleared, told \in BOOLEAN, desired \in Versions :
                 PollSucceeds(cleared, told, desired) =>
                    /\ Moves("service", "update")
                    /\ loc'["service"].current = loc["service"].current
                    /\ loc'["service"].want = desired
           /\ Start => Moves("service", "loop") /\ loc'["service"].current = exe
<1> DEFINE s == "service"
<1> USE DEF Typed, TypeOK
<1>0. s \in Actors /\ loc[s] \in Locals /\ Procs
  BY DEF Actors, Procs
<1>1. ASSUME NEW copy \in {"server", "origin"}, Run(copy)
      PROVE  Moves(s, "manifest") /\ loc'[s].current = loc[s].current /\ loc'[s].want = loc[s].want
  <2> DEFINE l == [loc[s] EXCEPT !.copy = copy, !.late = FALSE]
  <2>1. l \in Locals /\ l.current = loc[s].current /\ l.want = loc[s].want
    BY <1>0 DEF Locals
  <2>2. loc' = [loc EXCEPT ![s] = l] /\ Goto(s, "manifest")
    BY <1>0, <1>1 DEF Run, Procs
  <2> QED
    BY <1>0, <2>1, <2>2, HoldMoves DEF Steps, RunSteps
<1>2. ASSUME ProbationDue
      PROVE  /\ Moves(s, "restore_config") /\ loc'[s].current = loc[s].current
             /\ loc'[s].undo = [from |-> probation.from, to |-> probation.to]
             /\ loc'[s].undo \in Reverted
  <2> DEFINE l == [loc[s] EXCEPT !.undo = [from |-> probation.from, to |-> probation.to]]
  <2>1. probation \in Probation
    BY <1>2 DEF ProbationDue, NoRecord
  <2>2. /\ l \in Locals /\ l.current = loc[s].current
        /\ l.undo = [from |-> probation.from, to |-> probation.to] /\ l.undo \in Reverted
    BY <1>0, <2>1 DEF Locals, Probation, Reverted
  <2>3. loc' = [loc EXCEPT ![s] = l] /\ Goto(s, "restore_config")
    BY <1>0, <1>2 DEF ProbationDue, Procs
  <2> QED
    BY <1>0, <2>2, <2>3, HoldMoves DEF Steps, RevertSteps
<1>3. ASSUME NEW cleared \in BOOLEAN, NEW told \in BOOLEAN, NEW desired \in Versions,
             PollSucceeds(cleared, told, desired)
      PROVE  Moves(s, "update") /\ loc'[s].current = loc[s].current /\ loc'[s].want = desired
  <2> DEFINE l == [loc[s] EXCEPT !.want = desired]
  <2>1. l \in Locals /\ l.current = loc[s].current /\ l.want = desired
    BY <1>0 DEF Locals
  <2>2. loc' = [loc EXCEPT ![s] = l] /\ Goto(s, "update")
    BY <1>0, <1>3 DEF PollSucceeds, Procs
  <2> QED
    BY <1>0, <2>1, <2>2, HoldMoves DEF Steps
<1>4. ASSUME Start PROVE Moves(s, "loop") /\ loc'[s].current = exe
  <2> DEFINE l == [NoLocals EXCEPT !.current = exe]
  <2>1. l \in Locals /\ l.current = exe
    BY Constants DEF Locals, NoLocals, NoNote
  <2>2. loc' = [loc EXCEPT ![s] = l] /\ Goto(s, "loop")
    BY <1>4 DEF Start
  <2> QED
    BY <1>0, <2>1, <2>2, HoldMoves DEF Steps
<1> QED
  BY <1>1, <1>2, <1>3, <1>4

LEMMA HandHolding ==
    ASSUME Typed
    PROVE  /\ \A v \in Versions : RunByHand(v) =>
                 Moves("hand", "manifest") /\ loc'["hand"].current = exe /\ loc'["hand"].want = v
           /\ RevertByHand =>
                 /\ Moves("hand", "restore_config")
                 /\ loc'["hand"].undo = [from |-> probation.from, to |-> probation.to]
                 /\ loc'["hand"].undo \in Reverted
<1> DEFINE h == "hand"
<1> USE DEF Typed, TypeOK
<1>0. h \in Actors /\ loc[h] \in Locals /\ Procs
  BY DEF Actors, Procs
<1>1. ASSUME NEW v \in Versions, RunByHand(v)
      PROVE  Moves(h, "manifest") /\ loc'[h].current = exe /\ loc'[h].want = v
  <2> DEFINE l == [NoLocals EXCEPT !.current = exe, !.want = v]
  <2>1. l \in Locals /\ l.current = exe /\ l.want = v
    BY Constants DEF Locals, NoLocals, NoNote
  <2>2. loc' = [loc EXCEPT ![h] = l] /\ Goto(h, "manifest")
    BY <1>1 DEF RunByHand
  <2> QED
    BY <1>0, <2>1, <2>2, HoldMoves DEF Steps, RunSteps
<1>2. ASSUME RevertByHand
      PROVE  /\ Moves(h, "restore_config")
             /\ loc'[h].undo = [from |-> probation.from, to |-> probation.to]
             /\ loc'[h].undo \in Reverted
  <2> DEFINE l == [loc[h] EXCEPT !.undo = [from |-> probation.from, to |-> probation.to]]
  <2>1. probation \in Probation
    BY <1>2 DEF RevertByHand
  <2>2. /\ l \in Locals
        /\ l.undo = [from |-> probation.from, to |-> probation.to] /\ l.undo \in Reverted
    BY <1>0, <2>1 DEF Locals, Probation, Reverted
  <2>3. loc' = [loc EXCEPT ![h] = l] /\ Goto(h, "restore_config")
    BY <1>0, <1>2 DEF RevertByHand, Procs
  <2> QED
    BY <1>0, <2>2, <2>3, HoldMoves DEF Steps, RevertSteps
<1> QED
  BY <1>1, <1>2

-----------------------------------------------------------------------------
\* Types: of the variables, and of what a process holds at each step.
LEMMA TypeOKStep ==
    ASSUME Typed, Next PROVE TypeOK'
<1> USE Constants DEF Typed, TypeOK, Procs, Moves, files, procs, history
<1>1. CASE DeadlinePasses
  <2>1. probation' \in Probation
    BY <1>1 DEF DeadlinePasses, Probation, NoRecord
  <2> QED
    BY <1>1, <2>1 DEF DeadlinePasses
<1>2. CASE Start
  <2>1. Moves("service", "loop") /\ loc'["service"].current = exe
    BY <1>2, ServiceHolding
  <2> QED
    BY <1>2, <2>1 DEF Start
<1>3. CASE ProbationNotDue
  BY <1>3, GotoMoves DEF ProbationNotDue, At, Actors, Steps, RunSteps, RevertSteps
<1>4. CASE ProbationDue
  <2>1. /\ Moves("service", "restore_config") /\ loc'["service"].current = loc["service"].current
        /\ loc'["service"].undo \in Reverted
    BY <1>4, ServiceHolding
  <2> QED
    BY <1>4, <2>1 DEF ProbationDue
<1>5. CASE RevertImpossible
  BY <1>5, GotoMoves DEF RevertImpossible, At, Actors, Steps, RunSteps, RevertSteps
<1>6. CASE PollFails
  <2>1. loc["service"].current \in Versions
    BY <1>6 DEF PollFails, Running, At, Actors, Down
  <2> QED
    BY <1>6, <2>1, GotoMoves DEF PollFails, Disturb, At, Steps, Actors, Down
<1>7. ASSUME NEW cleared \in BOOLEAN, NEW told \in BOOLEAN,
             NEW desired \in Versions, PollSucceeds(cleared, told, desired)
      PROVE  TypeOK'
  <2>1. loc["service"].current \in Versions
    BY <1>7 DEF PollSucceeds, Running, At, Actors, Down
  <2>2. /\ Moves("service", "update") /\ loc'["service"].current = loc["service"].current
        /\ loc'["service"].want \in Versions
    BY <1>7, ServiceHolding
  <2> QED
    BY <1>7, <2>2, <2>1 DEF PollSucceeds, Disturb
<1>8. CASE NoUpdate
  BY <1>8, RunOverMoves DEF NoUpdate, At, Actors, Steps, RunSteps, RevertSteps
<1>9. ASSUME NEW copy \in {"server", "origin"}, Run(copy) PROVE TypeOK'
  <2>1. /\ Moves("service", "manifest") /\ loc'["service"].current = loc["service"].current
        /\ loc'["service"].want = loc["service"].want
    BY <1>9, ServiceHolding
  <2> QED
    BY <1>9, <2>1 DEF Run
<1>10. CASE Leave
  <2>1. loc["service"].current \in Versions
    BY <1>10 DEF Leave, Running, At, Actors, Down
  <2> QED
    BY <1>10, <2>1, EndsMoves DEF Leave, Disturb, At, Steps, Actors, Down
<1>11. ASSUME NEW v \in Versions, RunByHand(v) PROVE TypeOK'
  <2>1. Moves("hand", "manifest") /\ loc'["hand"].current = exe /\ loc'["hand"].want = v
    BY <1>11, HandHolding DEF RunByHand, ByHand
  <2> QED
    BY <1>11, <2>1 DEF RunByHand, ByHand, Disturb
<1>12. CASE RevertByHand
  <2>1. Moves("hand", "restore_config") /\ loc'["hand"].undo \in Reverted
    BY <1>12, HandHolding
  <2> QED
    BY <1>12, <2>1 DEF RevertByHand, ByHand, Disturb
<1>13. ASSUME NEW a \in Actors, FetchIsSlow(a) PROVE TypeOK'
  <2>1. Moves(a, pc[a]) /\ SameUpdate(a)
    BY <1>13, Holding
  <2> QED
    BY <1>13, <2>1 DEF FetchIsSlow
<1>14. ASSUME NEW a \in Actors, Crash(a) PROVE TypeOK'
  BY <1>14, EndsMoves DEF Crash, Disturb, At, Actors, Steps, RunSteps, RevertSteps
<1>15. ASSUME NEW a \in Actors, CopyRefused(a) PROVE TypeOK'
  <2>1. \/ Moves(a, "manifest") /\ SameUpdate(a)
        \/ Moves(a, IF a = "service" THEN "loop" ELSE Down) /\ KeepsCurrent(a)
    BY <1>15, NextCopyMoves DEF CopyRefused
  <2> QED
    BY <1>15, <2>1 DEF CopyRefused
<1>16. ASSUME NEW a \in Actors, NEW s \in 1..MaxSequence, NEW read \in BOOLEAN,
             CopyVerified(a, s, read) PROVE TypeOK'
  <2>1. Moves(a, "save_sequence") /\ SameUpdate(a)
    BY <1>16, Holding, SMTT(60)
  <2> QED
    BY <1>16, <2>1 DEF CopyVerified, Disturb
<1>17. ASSUME NEW a \in Actors, NEW found \in BOOLEAN, NEW read \in BOOLEAN,
             SaveSequence(a, found, read) PROVE TypeOK'
  <2>1. loc[a].sequence \in 0..MaxSequence
    BY DEF Locals
  <2>2. \/ Moves(a, "stage") /\ loc' = loc
        \/ Moves(a, "manifest") /\ SameUpdate(a)
        \/ Moves(a, IF a = "service" THEN "loop" ELSE Down) /\ KeepsCurrent(a)
    BY <1>17, GotoMoves, NextCopyMoves DEF SaveSequence, Procs, Steps, RunSteps
  <2> QED
    BY <1>17, <2>2, <2>1 DEF SaveSequence, Disturb
<1>18. ASSUME NEW a \in Actors, SaveSequenceFails(a) PROVE TypeOK'
  BY <1>18, RunOverMoves DEF SaveSequenceFails, Disturb, At, Actors, Steps, RunSteps,
     RevertSteps
<1>19. ASSUME NEW a \in Actors, FetchArtifact(a) PROVE TypeOK'
  BY <1>19, RunOverMoves, GotoMoves DEF FetchArtifact, At, Actors, Steps, RunSteps,
     RevertSteps
<1>20. ASSUME NEW a \in Actors, KeepConfig(a) PROVE TypeOK'
  BY <1>20, RunOverMoves, GotoMoves DEF KeepConfig, Disturb, At, Actors, Steps, RunSteps,
     RevertSteps
<1>21. ASSUME NEW a \in Actors, Record(a) PROVE TypeOK'
  <2>1. RecordOf(a) \in Probation
    BY <1>21 DEF Record, RecordOf, Probation, Locals, Running, At, RunSteps
  <2>2. Moves(a, "forget") /\ loc' = loc
    BY <1>21, GotoMoves DEF Record, Procs, Steps, RunSteps
  <2> QED
    BY <1>21, <2>2, <2>1 DEF Record
<1>22. ASSUME NEW a \in Actors, NEW written \in BOOLEAN, RecordFails(a, written)
      PROVE  TypeOK'
  <2>1. RecordOf(a) \in Probation
    BY <1>22 DEF RecordFails, RecordOf, Probation, Locals, Running, At, RunSteps
  <2>2. probation' \in Probation \cup {NoRecord}
    BY <1>22, <2>1 DEF RecordFails
  <2>3. Moves(a, IF a = "service" THEN "loop" ELSE Down) /\ KeepsCurrent(a)
    BY <1>22, RunOverMoves DEF RecordFails, Procs
  <2>4. swapped' \in BOOLEAN
    BY <1>22 DEF RecordFails
  <2>5. disturbed' \in 0..MaxDisturbances
    BY <1>22 DEF RecordFails, Disturb
  <2> QED
    BY <1>22, <2>3, <2>2, <2>4, <2>5 DEF RecordFails
<1>23. ASSUME NEW a \in Actors, Forget(a) PROVE TypeOK'
  BY <1>23, GotoMoves DEF Forget, At, Actors, Steps, RunSteps, RevertSteps
<1>24. ASSUME NEW a \in Actors, Aside(a) PROVE TypeOK'
  BY <1>24, GotoMoves DEF Aside, At, Actors, Steps, RunSteps, RevertSteps
<1>25. ASSUME NEW a \in Actors, AsideFails(a) PROVE TypeOK'
  BY <1>25, GotoMoves DEF AsideFails, Disturb, At, Actors, Steps, RunSteps, RevertSteps
<1>26. ASSUME NEW a \in Actors, Install(a) PROVE TypeOK'
  <2>1. loc[a].want \in Versions
    BY <1>26 DEF Install, Running, At, RunSteps
  <2> QED
    BY <1>26, <2>1, EndsMoves, GotoMoves DEF Install, Actors, Steps, Down
<1>27. ASSUME NEW a \in Actors, NEW back \in BOOLEAN, InstallFails(a, back) PROVE TypeOK'
  BY <1>27, GotoMoves DEF InstallFails, Disturb, At, Actors, Steps, RunSteps, RevertSteps
<1>28. ASSUME NEW a \in Actors, Unrecord(a) PROVE TypeOK'
  BY <1>28, RunOverMoves DEF Unrecord, Disturb, At, Actors, Steps, RunSteps, RevertSteps
<1>29. ASSUME NEW a \in Actors, RestoreConfig(a) PROVE TypeOK'
  BY <1>29, RevertOverMoves, GotoMoves DEF RestoreConfig, Disturb, At, Actors, Steps,
     RunSteps, RevertSteps
<1>30. ASSUME NEW a \in Actors, SetBad(a) PROVE TypeOK'
  BY <1>30, GotoMoves DEF SetBad, At, Actors, Steps, RunSteps, RevertSteps
<1>31. ASSUME NEW a \in Actors, SetBadFails(a) PROVE TypeOK'
  BY <1>31, RevertOverMoves DEF SetBadFails, Disturb, At, Actors, Steps, RunSteps,
     RevertSteps
<1>32. ASSUME NEW a \in Actors, Restore(a) PROVE TypeOK'
  BY <1>32, GotoMoves DEF Restore, At, Actors, Steps, RunSteps, RevertSteps
<1>33. ASSUME NEW a \in Actors, NEW back \in BOOLEAN, RestoreFails(a, back) PROVE TypeOK'
  BY <1>33, RevertOverMoves DEF RestoreFails, Disturb, At, Actors, Steps, RunSteps,
     RevertSteps
<1>34. ASSUME NEW a \in Actors, Unarm(a) PROVE TypeOK'
  BY <1>34, GotoMoves DEF Unarm, Disturb, At, Actors, Steps, RunSteps, RevertSteps
<1>35. ASSUME NEW a \in Actors, WriteNote(a) PROVE TypeOK'
  <2>1. loc[a].undo \in Reverted
    BY <1>35 DEF WriteNote, Running, At, RevertSteps
  <2> QED
    BY <1>35, <2>1, EndsMoves DEF WriteNote, Disturb, Steps
<1> HIDE DEF Typed, TypeOK, Procs, Moves, files, procs, history
<1> QED
  BY Both, <1>1, <1>2, <1>3, <1>4, <1>5, <1>6, <1>7, <1>8, <1>9, <1>10, <1>11, <1>12,
     <1>13, <1>14, <1>15, <1>16, <1>17, <1>18, <1>19, <1>20, <1>21, <1>22, <1>23, <1>24,
     <1>25, <1>26, <1>27, <1>28, <1>29, <1>30, <1>31, <1>32, <1>33, <1>34, <1>35
     DEF Next, Environment, Service, Loop, Update, Revert

LEMMA RunningStep ==
    ASSUME Typed, Next PROVE Running'
<1> USE DEF Typed, TypeOK, Procs
<1> USE Constants DEF Running, Moves, OthersStay, KeepsCurrent, SameUpdate, procs
<1> USE DEF At, Actors, Steps, Down, RunSteps, RevertSteps
<1>1. CASE DeadlinePasses
  BY <1>1 DEF DeadlinePasses
<1>2. CASE Start
  <2>1. Moves("service", "loop") /\ loc'["service"].current = exe
    BY <1>2, ServiceHolding
  <2> QED
    BY <1>2, <2>1 DEF Start
<1>3. CASE ProbationNotDue
  BY <1>3, GotoMoves DEF ProbationNotDue
<1>4. CASE ProbationDue
  <2>1. /\ Moves("service", "restore_config") /\ loc'["service"].current = loc["service"].current
        /\ loc'["service"].undo \in Reverted
    BY <1>4, ServiceHolding
  <2> QED
    BY <1>4, <2>1 DEF ProbationDue
<1>5. CASE RevertImpossible
  BY <1>5, GotoMoves DEF RevertImpossible
<1>6. CASE PollFails
  BY <1>6, GotoMoves DEF PollFails, Disturb
<1>7. ASSUME NEW cleared \in BOOLEAN, NEW told \in BOOLEAN,
             NEW desired \in Versions, PollSucceeds(cleared, told, desired)
      PROVE  Running'
  <2>1. /\ Moves("service", "update") /\ loc'["service"].current = loc["service"].current
        /\ loc'["service"].want \in Versions
    BY <1>7, ServiceHolding
  <2> QED
    BY <1>7, <2>1 DEF PollSucceeds, Disturb
<1>8. CASE NoUpdate
  BY <1>8, RunOverMoves DEF NoUpdate
<1>9. ASSUME NEW copy \in {"server", "origin"}, Run(copy) PROVE Running'
  <2>1. /\ Moves("service", "manifest") /\ loc'["service"].current = loc["service"].current
        /\ loc'["service"].want = loc["service"].want
    BY <1>9, ServiceHolding
  <2> QED
    BY <1>9, <2>1 DEF Run
<1>10. CASE Leave
  BY <1>10, EndsMoves DEF Leave, Disturb
<1>11. ASSUME NEW v \in Versions, RunByHand(v) PROVE Running'
  <2>1. Moves("hand", "manifest") /\ loc'["hand"].current = exe /\ loc'["hand"].want = v
    BY <1>11, HandHolding DEF RunByHand, ByHand
  <2> QED
    BY <1>11, <2>1 DEF RunByHand, ByHand, Disturb
<1>12. CASE RevertByHand
  <2>1. Moves("hand", "restore_config") /\ loc'["hand"].undo \in Reverted
    BY <1>12, HandHolding
  <2> QED
    BY <1>12, <2>1 DEF RevertByHand, ByHand, Disturb
<1>13. ASSUME NEW a \in Actors, FetchIsSlow(a) PROVE Running'
  <2>1. Moves(a, pc[a]) /\ SameUpdate(a)
    BY <1>13, Holding
  <2> QED
    BY <1>13, <2>1 DEF FetchIsSlow
<1>14. ASSUME NEW a \in Actors, Crash(a) PROVE Running'
  BY <1>14, EndsMoves DEF Crash, Disturb
<1>15. ASSUME NEW a \in Actors, CopyRefused(a) PROVE Running'
  <2>1. \/ Moves(a, "manifest") /\ SameUpdate(a)
        \/ Moves(a, IF a = "service" THEN "loop" ELSE Down) /\ KeepsCurrent(a)
    BY <1>15, NextCopyMoves DEF CopyRefused
  <2> QED
    BY <1>15, <2>1 DEF CopyRefused
<1>16. ASSUME NEW a \in Actors, NEW s \in 1..MaxSequence, NEW read \in BOOLEAN,
             CopyVerified(a, s, read) PROVE Running'
  <2>1. Moves(a, "save_sequence") /\ SameUpdate(a)
    BY <1>16, Holding
  <2> QED
    BY <1>16, <2>1 DEF CopyVerified, Disturb
<1>17. ASSUME NEW a \in Actors, NEW found \in BOOLEAN, NEW read \in BOOLEAN,
             SaveSequence(a, found, read) PROVE Running'
  <2>1. \/ Moves(a, "stage") /\ loc' = loc
        \/ Moves(a, "manifest") /\ SameUpdate(a)
        \/ Moves(a, IF a = "service" THEN "loop" ELSE Down) /\ KeepsCurrent(a)
    BY <1>17, GotoMoves, NextCopyMoves DEF SaveSequence, Procs, Steps, RunSteps
  <2> QED
    BY <1>17, <2>1 DEF SaveSequence, Disturb
<1>18. ASSUME NEW a \in Actors, SaveSequenceFails(a) PROVE Running'
  BY <1>18, RunOverMoves DEF SaveSequenceFails, Disturb
<1>19. ASSUME NEW a \in Actors, FetchArtifact(a) PROVE Running'
  BY <1>19, RunOverMoves, GotoMoves DEF FetchArtifact
<1>20. ASSUME NEW a \in Actors, KeepConfig(a) PROVE Running'
  BY <1>20, RunOverMoves, GotoMoves DEF KeepConfig, Disturb
<1>21. ASSUME NEW a \in Actors, Record(a) PROVE Running'
  <2>1. Moves(a, "forget") /\ loc' = loc
    BY <1>21, GotoMoves DEF Record, Procs, Steps, RunSteps
  <2> QED
    BY <1>21, <2>1 DEF Record, RecordOf
<1>22. ASSUME NEW a \in Actors, NEW written \in BOOLEAN, RecordFails(a, written)
      PROVE  Running'
  <2>1. Moves(a, IF a = "service" THEN "loop" ELSE Down) /\ KeepsCurrent(a)
    BY <1>22, RunOverMoves DEF RecordFails, Procs
  <2> QED
    BY <1>22, <2>1 DEF RecordFails, RecordOf, Disturb
<1>23. ASSUME NEW a \in Actors, Forget(a) PROVE Running'
  BY <1>23, GotoMoves DEF Forget
<1>24. ASSUME NEW a \in Actors, Aside(a) PROVE Running'
  BY <1>24, GotoMoves DEF Aside
<1>25. ASSUME NEW a \in Actors, AsideFails(a) PROVE Running'
  BY <1>25, GotoMoves DEF AsideFails, Disturb
<1>26. ASSUME NEW a \in Actors, Install(a) PROVE Running'
  BY <1>26, EndsMoves, GotoMoves DEF Install
<1>27. ASSUME NEW a \in Actors, NEW back \in BOOLEAN, InstallFails(a, back) PROVE Running'
  BY <1>27, GotoMoves DEF InstallFails, Disturb
<1>28. ASSUME NEW a \in Actors, Unrecord(a) PROVE Running'
  BY <1>28, RunOverMoves DEF Unrecord, Disturb
<1>29. ASSUME NEW a \in Actors, RestoreConfig(a) PROVE Running'
  BY <1>29, RevertOverMoves, GotoMoves DEF RestoreConfig, Disturb
<1>30. ASSUME NEW a \in Actors, SetBad(a) PROVE Running'
  BY <1>30, GotoMoves DEF SetBad
<1>31. ASSUME NEW a \in Actors, SetBadFails(a) PROVE Running'
  BY <1>31, RevertOverMoves DEF SetBadFails, Disturb
<1>32. ASSUME NEW a \in Actors, Restore(a) PROVE Running'
  BY <1>32, GotoMoves DEF Restore
<1>33. ASSUME NEW a \in Actors, NEW back \in BOOLEAN, RestoreFails(a, back) PROVE Running'
  BY <1>33, RevertOverMoves DEF RestoreFails, Disturb
<1>34. ASSUME NEW a \in Actors, Unarm(a) PROVE Running'
  BY <1>34, GotoMoves DEF Unarm, Disturb
<1>35. ASSUME NEW a \in Actors, WriteNote(a) PROVE Running'
  BY <1>35, EndsMoves DEF WriteNote, Disturb
<1> HIDE DEF Typed, TypeOK, Procs, Running, Moves, OthersStay, KeepsCurrent, SameUpdate
<1> HIDE DEF procs, At, Actors, Steps, Down, RunSteps, RevertSteps
<1> QED
  BY Both, <1>1, <1>2, <1>3, <1>4, <1>5, <1>6, <1>7, <1>8, <1>9, <1>10, <1>11, <1>12,
     <1>13, <1>14, <1>15, <1>16, <1>17, <1>18, <1>19, <1>20, <1>21, <1>22, <1>23, <1>24,
     <1>25, <1>26, <1>27, <1>28, <1>29, <1>30, <1>31, <1>32, <1>33, <1>34, <1>35
     DEF Next, Environment, Service, Loop, Update, Revert

-----------------------------------------------------------------------------
\* A command runs while the service is stopped.
Alone == pc["service"] = Down \/ pc["hand"] = Down

\* The floor is the highest sequence seen and the manifest in hand is no older,
\* unless a floor that could not be read let an older one pass.
Sequenced ==
    /\ floor <= seen
    /\ ~misread =>
          /\ seen <= floor
          /\ \A a \in Actors : pc[a] \in RunSteps \ {"manifest"} => loc[a].sequence >= floor

\* Nothing is at the agent's path and nobody is about to put it there: that is
\* the end of this agent.
Dead == exe = None /\ \A a \in Actors : pc[a] \notin {"install", "restore"}

OnRecord == [from |-> probation.from, to |-> probation.to]
Trusted(v) == v \in proven \/ blind
Fits(c, v) == c <= v \/ v >= MinDowngrade

\* Where the running binary is, at each step.
Placed ==
    \A a \in Actors :
        /\ pc[a] \in {"loop", "poll", "update"} \cup (RunSteps \ {"install"}) => exe = loc[a].current
        /\ a = "service" /\ pc[a] \in {"restore_config", "set_bad"} => exe = loc[a].current
        /\ a = "service" /\ pc[a] = "restore" => bad = loc[a].current
        /\ pc[a] = "restore" => exe = None /\ bad # None
        /\ pc[a] = "install" => exe = None /\ prev = loc[a].current
        /\ pc[a] \in {"aside", "unrecord", "unarm"} => prev = None
        /\ pc[a] = "leave" => exe = loc[a].want

\* What a process in the middle of an update, or of a revert, has decided.
Decided ==
    \A a \in Actors :
        /\ pc[a] \in {"leave"} \cup RunSteps => Wanted(loc[a].current, loc[a].want)
        /\ pc[a] \in {"update"} \cup RunSteps => Trusted(loc[a].current)
        /\ pc[a] \in {"forget", "aside", "install"} =>
              /\ probation # NoRecord /\ ~swapped
              /\ OnRecord = [from |-> loc[a].current, to |-> loc[a].want]
        /\ pc[a] = "unrecord" => ~swapped
        /\ pc[a] \in {"restore_config", "set_bad", "restore"} =>
              /\ probation # NoRecord /\ prev # None
              /\ loc[a].undo = OnRecord

\* The binary at v is the one the record put there, and the one it replaced is
\* beside it.
OnProbation(v) ==
    probation # NoRecord /\ probation.to = v /\ prev = probation.from

Recorded ==
    /\ prev # None => Trusted(prev)
    /\ exe # None => Trusted(exe) \/ OnProbation(exe)
    /\ swapped /\ probation # NoRecord /\ prev # None =>
          /\ prev = probation.from
          /\ exe \in {probation.to, None}
    /\ \A a \in Actors :
          /\ pc[a] = "restore" =>
                /\ Trusted(bad) \/ OnProbation(bad)
                /\ swapped => bad = probation.to
          /\ pc[a] = "unarm" => Trusted(exe)

Readable ==
    /\ exe # None => Fits(config, exe)
    /\ probation # NoRecord =>
          /\ Wanted(probation.from, probation.to)
          /\ exe \in {probation.from, probation.to, None}
          /\ configPrev # None => Fits(configPrev, probation.from)
          /\ swapped /\ prev # None => configPrev # None
    /\ \A a \in Actors :
          /\ pc[a] \in {"record", "forget", "aside", "install"} =>
                configPrev # None /\ Fits(configPrev, loc[a].current)
          /\ pc[a] = "install" => Fits(config, loc[a].current)
          /\ pc[a] \in {"set_bad", "restore"} /\ swapped => Fits(config, probation.from)
          /\ pc[a] = "restore" =>
                Fits(config, bad) /\ bad \in {probation.from, probation.to}

Sound == Placed /\ Decided /\ Recorded /\ (stray \/ Readable)

IInv == Typed /\ Alone /\ Sequenced /\ (Dead \/ Sound)

\* A step leaves a binary at the agent's path, or is one of the faults that do not.
LEMMA InPlaceStep ==
    ASSUME Typed, BinaryInPlace, Next
    PROVE  BinaryInPlace'
<1> USE Constants DEF Actors, Typed, TypeOK, Procs, Moves, OthersStay, KeepsCurrent,
   SameUpdate, At, Steps, Down, RunSteps, RevertSteps, BinaryInPlace, Running, procs, files,
   history
<1>1. CASE DeadlinePasses
  BY <1>1 DEF DeadlinePasses
<1>2. CASE Start
  <2>1. Moves("service", "loop") /\ loc'["service"].current = exe
    BY <1>2, ServiceHolding
  <2> QED
    BY <1>2, <2>1 DEF Start
<1>3. CASE ProbationNotDue
  BY <1>3, GotoMoves DEF ProbationNotDue
<1>4. CASE ProbationDue
  <2>1. /\ Moves("service", "restore_config") /\ loc'["service"].current = loc["service"].current
        /\ loc'["service"].undo \in Reverted
    BY <1>4, ServiceHolding
  <2> QED
    BY <1>4, <2>1 DEF ProbationDue
<1>5. CASE RevertImpossible
  BY <1>5, GotoMoves DEF RevertImpossible
<1>6. CASE PollFails
  BY <1>6, GotoMoves DEF PollFails, Disturb
<1>7. ASSUME NEW cleared \in BOOLEAN, NEW told \in BOOLEAN,
             NEW desired \in Versions, PollSucceeds(cleared, told, desired)
      PROVE  BinaryInPlace'
  <2>1. /\ Moves("service", "update") /\ loc'["service"].current = loc["service"].current
        /\ loc'["service"].want \in Versions
    BY <1>7, ServiceHolding
  <2> QED
    BY <1>7, <2>1 DEF PollSucceeds, Disturb
<1>8. CASE NoUpdate
  BY <1>8, RunOverMoves DEF NoUpdate
<1>9. ASSUME NEW copy \in {"server", "origin"}, Run(copy) PROVE BinaryInPlace'
  <2>1. /\ Moves("service", "manifest") /\ loc'["service"].current = loc["service"].current
        /\ loc'["service"].want = loc["service"].want
    BY <1>9, ServiceHolding
  <2> QED
    BY <1>9, <2>1 DEF Run
<1>10. CASE Leave
  BY <1>10, EndsMoves DEF Leave, Disturb
<1>11. ASSUME NEW v \in Versions, RunByHand(v) PROVE BinaryInPlace'
  <2>1. Moves("hand", "manifest") /\ loc'["hand"].current = exe /\ loc'["hand"].want = v
    BY <1>11, HandHolding DEF RunByHand, ByHand
  <2> QED
    BY <1>11, <2>1 DEF RunByHand, ByHand, Disturb
<1>12. CASE RevertByHand
  <2>1. Moves("hand", "restore_config") /\ loc'["hand"].undo \in Reverted
    BY <1>12, HandHolding
  <2> QED
    BY <1>12, <2>1 DEF RevertByHand, ByHand, Disturb
<1>13. ASSUME NEW a \in Actors, FetchIsSlow(a) PROVE BinaryInPlace'
  <2>1. Moves(a, pc[a]) /\ SameUpdate(a)
    BY <1>13, Holding
  <2> QED
    BY <1>13, <2>1 DEF FetchIsSlow
<1>14. ASSUME NEW a \in Actors, Crash(a) PROVE BinaryInPlace'
  BY <1>14, EndsMoves DEF Crash, Disturb
<1>15. ASSUME NEW a \in Actors, CopyRefused(a) PROVE BinaryInPlace'
  <2>1. \/ Moves(a, "manifest") /\ SameUpdate(a)
        \/ Moves(a, IF a = "service" THEN "loop" ELSE Down) /\ KeepsCurrent(a)
    BY <1>15, NextCopyMoves DEF CopyRefused
  <2> QED
    BY <1>15, <2>1 DEF CopyRefused
<1>16. ASSUME NEW a \in Actors, NEW s \in 1..MaxSequence, NEW read \in BOOLEAN,
             CopyVerified(a, s, read)
      PROVE  BinaryInPlace'
  <2>1. Moves(a, "save_sequence") /\ SameUpdate(a)
    BY <1>16, Holding
  <2> QED
    BY <1>16, <2>1 DEF CopyVerified, Disturb
<1>17. ASSUME NEW a \in Actors, NEW found \in BOOLEAN, NEW read \in BOOLEAN,
             SaveSequence(a, found, read)
      PROVE  BinaryInPlace'
  <2>1. \/ Moves(a, "stage") /\ loc' = loc
        \/ Moves(a, "manifest") /\ SameUpdate(a)
        \/ Moves(a, IF a = "service" THEN "loop" ELSE Down) /\ KeepsCurrent(a)
    BY <1>17, GotoMoves, NextCopyMoves DEF SaveSequence, Procs, Steps, RunSteps
  <2> QED
    BY <1>17, <2>1 DEF SaveSequence, Disturb
<1>18. ASSUME NEW a \in Actors, SaveSequenceFails(a) PROVE BinaryInPlace'
  BY <1>18, RunOverMoves DEF SaveSequenceFails, Disturb
<1>19. ASSUME NEW a \in Actors, FetchArtifact(a) PROVE BinaryInPlace'
  BY <1>19, RunOverMoves, GotoMoves DEF FetchArtifact
<1>20. ASSUME NEW a \in Actors, KeepConfig(a) PROVE BinaryInPlace'
  BY <1>20, RunOverMoves, GotoMoves DEF KeepConfig, Disturb
<1>21. ASSUME NEW a \in Actors, Record(a) PROVE BinaryInPlace'
  <2>1. Moves(a, "forget") /\ loc' = loc
    BY <1>21, GotoMoves DEF Record, Procs, Steps, RunSteps
  <2> QED
    BY <1>21, <2>1 DEF Record, RecordOf
<1>22. ASSUME NEW a \in Actors, NEW written \in BOOLEAN, RecordFails(a, written)
      PROVE  BinaryInPlace'
  <2>1. Moves(a, IF a = "service" THEN "loop" ELSE Down) /\ KeepsCurrent(a)
    BY <1>22, RunOverMoves DEF RecordFails, Procs
  <2> QED
    BY <1>22, <2>1 DEF RecordFails, RecordOf, Disturb
<1>23. ASSUME NEW a \in Actors, Forget(a) PROVE BinaryInPlace'
  BY <1>23, GotoMoves DEF Forget
<1>24. ASSUME NEW a \in Actors, Aside(a) PROVE BinaryInPlace'
  BY <1>24, GotoMoves DEF Aside
<1>25. ASSUME NEW a \in Actors, AsideFails(a) PROVE BinaryInPlace'
  BY <1>25, GotoMoves DEF AsideFails, Disturb
<1>26. ASSUME NEW a \in Actors, Install(a) PROVE BinaryInPlace'
  BY <1>26, EndsMoves, GotoMoves DEF Install
<1>27. ASSUME NEW a \in Actors, NEW back \in BOOLEAN, InstallFails(a, back)
      PROVE  BinaryInPlace'
  BY <1>27, GotoMoves DEF InstallFails, Disturb
<1>28. ASSUME NEW a \in Actors, Unrecord(a) PROVE BinaryInPlace'
  BY <1>28, RunOverMoves DEF Unrecord, Disturb
<1>29. ASSUME NEW a \in Actors, RestoreConfig(a) PROVE BinaryInPlace'
  BY <1>29, RevertOverMoves, GotoMoves DEF RestoreConfig, Disturb
<1>30. ASSUME NEW a \in Actors, SetBad(a) PROVE BinaryInPlace'
  BY <1>30, GotoMoves DEF SetBad
<1>31. ASSUME NEW a \in Actors, SetBadFails(a) PROVE BinaryInPlace'
  BY <1>31, RevertOverMoves DEF SetBadFails, Disturb
<1>32. ASSUME NEW a \in Actors, Restore(a) PROVE BinaryInPlace'
  BY <1>32, GotoMoves DEF Restore
<1>33. ASSUME NEW a \in Actors, NEW back \in BOOLEAN, RestoreFails(a, back)
      PROVE  BinaryInPlace'
  BY <1>33, RevertOverMoves DEF RestoreFails, Disturb
<1>34. ASSUME NEW a \in Actors, Unarm(a) PROVE BinaryInPlace'
  BY <1>34, GotoMoves DEF Unarm, Disturb
<1>35. ASSUME NEW a \in Actors, WriteNote(a) PROVE BinaryInPlace'
  BY <1>35, EndsMoves DEF WriteNote, Disturb
<1> HIDE DEF Actors, Typed, TypeOK, Procs, Moves, OthersStay, KeepsCurrent, SameUpdate,
   At, Steps, Down, RunSteps, RevertSteps, BinaryInPlace, Running, procs, files, history
<1> QED
  BY Both, <1>1, <1>2, <1>3, <1>4, <1>5, <1>6, <1>7, <1>8, <1>9, <1>10, <1>11, <1>12,
     <1>13, <1>14, <1>15, <1>16, <1>17, <1>18, <1>19, <1>20, <1>21, <1>22, <1>23, <1>24,
     <1>25, <1>26, <1>27, <1>28, <1>29, <1>30, <1>31, <1>32, <1>33, <1>34, <1>35
     DEF Next, Environment, Service, Loop, Update, Revert

\* A command is started when the service is down, and the service when no command runs.
LEMMA AloneStep ==
    ASSUME Typed, HandStopsService, Alone, Next
    PROVE  Alone'
<1> USE DEF Actors, Typed, TypeOK, Procs, Moves, OthersStay, KeepsCurrent, SameUpdate,
   At, Steps, Down, RunSteps, RevertSteps, Alone, ByHand, procs
<1>1. CASE DeadlinePasses
  BY <1>1, Both DEF DeadlinePasses
<1>2. CASE Start
  <2>1. Moves("service", "loop") /\ loc'["service"].current = exe
    BY <1>2, ServiceHolding
  <2> QED
    BY <1>2, <2>1 DEF Start
<1>3. CASE ProbationNotDue
  BY <1>3, GotoMoves, Both DEF ProbationNotDue
<1>4. CASE ProbationDue
  <2>1. /\ Moves("service", "restore_config") /\ loc'["service"].current = loc["service"].current
        /\ loc'["service"].undo \in Reverted
    BY <1>4, ServiceHolding
  <2> QED
    BY <1>4, <2>1 DEF ProbationDue
<1>5. CASE RevertImpossible
  BY <1>5, GotoMoves, Both DEF RevertImpossible
<1>6. CASE PollFails
  BY <1>6, GotoMoves, Both DEF PollFails, Disturb
<1>7. ASSUME NEW cleared \in BOOLEAN, NEW told \in BOOLEAN,
             NEW desired \in Versions, PollSucceeds(cleared, told, desired)
      PROVE  Alone'
  <2>1. /\ Moves("service", "update") /\ loc'["service"].current = loc["service"].current
        /\ loc'["service"].want \in Versions
    BY <1>7, ServiceHolding
  <2> QED
    BY <1>7, <2>1 DEF PollSucceeds, Disturb
<1>8. CASE NoUpdate
  BY <1>8, RunOverMoves, Both DEF NoUpdate
<1>9. ASSUME NEW copy \in {"server", "origin"}, Run(copy) PROVE Alone'
  <2>1. /\ Moves("service", "manifest") /\ loc'["service"].current = loc["service"].current
        /\ loc'["service"].want = loc["service"].want
    BY <1>9, ServiceHolding
  <2> QED
    BY <1>9, <2>1 DEF Run
<1>10. CASE Leave
  BY <1>10, EndsMoves, Both DEF Leave, Disturb
<1>11. ASSUME NEW v \in Versions, RunByHand(v) PROVE Alone'
  <2>1. Moves("hand", "manifest") /\ loc'["hand"].current = exe /\ loc'["hand"].want = v
    BY <1>11, HandHolding DEF RunByHand, ByHand
  <2> QED
    BY <1>11, <2>1 DEF RunByHand, ByHand, Disturb
<1>12. CASE RevertByHand
  <2>1. Moves("hand", "restore_config") /\ loc'["hand"].undo \in Reverted
    BY <1>12, HandHolding
  <2> QED
    BY <1>12, <2>1 DEF RevertByHand, ByHand, Disturb
<1>13. ASSUME NEW a \in Actors, FetchIsSlow(a) PROVE Alone'
  <2>1. Moves(a, pc[a]) /\ SameUpdate(a)
    BY <1>13, Holding
  <2> QED
    BY <1>13, <2>1 DEF FetchIsSlow
<1>14. ASSUME NEW a \in Actors, Crash(a) PROVE Alone'
  BY <1>14, EndsMoves, Both DEF Crash, Disturb
<1>15. ASSUME NEW a \in Actors, CopyRefused(a) PROVE Alone'
  <2>1. \/ Moves(a, "manifest") /\ SameUpdate(a)
        \/ Moves(a, IF a = "service" THEN "loop" ELSE Down) /\ KeepsCurrent(a)
    BY <1>15, NextCopyMoves DEF CopyRefused
  <2> QED
    BY <1>15, <2>1 DEF CopyRefused
<1>16. ASSUME NEW a \in Actors, NEW s \in 1..MaxSequence, NEW read \in BOOLEAN,
             CopyVerified(a, s, read) PROVE Alone'
  <2>1. Moves(a, "save_sequence") /\ SameUpdate(a)
    BY <1>16, Holding
  <2> QED
    BY <1>16, <2>1 DEF CopyVerified, Disturb
<1>17. ASSUME NEW a \in Actors, NEW found \in BOOLEAN, NEW read \in BOOLEAN,
             SaveSequence(a, found, read) PROVE Alone'
  <2>1. \/ Moves(a, "stage") /\ loc' = loc
        \/ Moves(a, "manifest") /\ SameUpdate(a)
        \/ Moves(a, IF a = "service" THEN "loop" ELSE Down) /\ KeepsCurrent(a)
    BY <1>17, GotoMoves, NextCopyMoves DEF SaveSequence, Procs, Steps, RunSteps
  <2> QED
    BY <1>17, <2>1 DEF SaveSequence, Disturb
<1>18. ASSUME NEW a \in Actors, SaveSequenceFails(a) PROVE Alone'
  BY <1>18, RunOverMoves, Both DEF SaveSequenceFails, Disturb
<1>19. ASSUME NEW a \in Actors, FetchArtifact(a) PROVE Alone'
  BY <1>19, RunOverMoves, GotoMoves, Both DEF FetchArtifact
<1>20. ASSUME NEW a \in Actors, KeepConfig(a) PROVE Alone'
  BY <1>20, RunOverMoves, GotoMoves, Both DEF KeepConfig, Disturb
<1>21. ASSUME NEW a \in Actors, Record(a) PROVE Alone'
  <2>1. Moves(a, "forget") /\ loc' = loc
    BY <1>21, GotoMoves DEF Record, Procs, Steps, RunSteps
  <2> QED
    BY <1>21, <2>1 DEF Record, RecordOf
<1>22. ASSUME NEW a \in Actors, NEW written \in BOOLEAN, RecordFails(a, written)
      PROVE  Alone'
  <2>1. Moves(a, IF a = "service" THEN "loop" ELSE Down) /\ KeepsCurrent(a)
    BY <1>22, RunOverMoves DEF RecordFails, Procs
  <2> QED
    BY <1>22, <2>1 DEF RecordFails, RecordOf, Disturb
<1>23. ASSUME NEW a \in Actors, Forget(a) PROVE Alone'
  BY <1>23, GotoMoves, Both DEF Forget
<1>24. ASSUME NEW a \in Actors, Aside(a) PROVE Alone'
  BY <1>24, GotoMoves, Both DEF Aside
<1>25. ASSUME NEW a \in Actors, AsideFails(a) PROVE Alone'
  BY <1>25, GotoMoves, Both DEF AsideFails, Disturb
<1>26. ASSUME NEW a \in Actors, Install(a) PROVE Alone'
  BY <1>26, EndsMoves, GotoMoves, Both DEF Install
<1>27. ASSUME NEW a \in Actors, NEW back \in BOOLEAN, InstallFails(a, back) PROVE Alone'
  BY <1>27, GotoMoves, Both DEF InstallFails, Disturb
<1>28. ASSUME NEW a \in Actors, Unrecord(a) PROVE Alone'
  BY <1>28, RunOverMoves, Both DEF Unrecord, Disturb
<1>29. ASSUME NEW a \in Actors, RestoreConfig(a) PROVE Alone'
  BY <1>29, RevertOverMoves, GotoMoves, Both DEF RestoreConfig, Disturb
<1>30. ASSUME NEW a \in Actors, SetBad(a) PROVE Alone'
  BY <1>30, GotoMoves, Both DEF SetBad
<1>31. ASSUME NEW a \in Actors, SetBadFails(a) PROVE Alone'
  BY <1>31, RevertOverMoves, Both DEF SetBadFails, Disturb
<1>32. ASSUME NEW a \in Actors, Restore(a) PROVE Alone'
  BY <1>32, GotoMoves, Both DEF Restore
<1>33. ASSUME NEW a \in Actors, NEW back \in BOOLEAN, RestoreFails(a, back) PROVE Alone'
  BY <1>33, RevertOverMoves, Both DEF RestoreFails, Disturb
<1>34. ASSUME NEW a \in Actors, Unarm(a) PROVE Alone'
  BY <1>34, GotoMoves, Both DEF Unarm, Disturb
<1>35. ASSUME NEW a \in Actors, WriteNote(a) PROVE Alone'
  BY <1>35, EndsMoves, Both DEF WriteNote, Disturb
<1> HIDE DEF Actors, Typed, TypeOK, Procs, Moves, OthersStay, KeepsCurrent, SameUpdate,
   At, Steps, Down, RunSteps, RevertSteps, Alone, ByHand, procs
<1> QED
  BY Both, <1>1, <1>2, <1>3, <1>4, <1>5, <1>6, <1>7, <1>8, <1>9, <1>10, <1>11, <1>12,
     <1>13, <1>14, <1>15, <1>16, <1>17, <1>18, <1>19, <1>20, <1>21, <1>22, <1>23, <1>24,
     <1>25, <1>26, <1>27, <1>28, <1>29, <1>30, <1>31, <1>32, <1>33, <1>34, <1>35
     DEF Next, Environment, Service, Loop, Update, Revert

\* A floor that is read only rises, to the sequence of the manifest in hand.
LEMMA SequencedStep ==
    ASSUME Typed, Alone, Sequenced, Next
    PROVE  Sequenced'
<1> USE Constants DEF Actors, Typed, TypeOK, Procs, Moves, OthersStay, KeepsCurrent,
   SameUpdate, At, Steps, Down, RunSteps, RevertSteps, Alone, Sequenced, Actors, Locals,
   procs, files, history
<1>1. CASE DeadlinePasses
  BY <1>1 DEF DeadlinePasses
<1>2. CASE Start
  <2>1. Moves("service", "loop") /\ loc'["service"].current = exe
    BY <1>2, ServiceHolding
  <2> QED
    BY <1>2, <2>1 DEF Start
<1>3. CASE ProbationNotDue
  BY <1>3, GotoMoves DEF ProbationNotDue
<1>4. CASE ProbationDue
  <2>1. /\ Moves("service", "restore_config") /\ loc'["service"].current = loc["service"].current
        /\ loc'["service"].undo \in Reverted
    BY <1>4, ServiceHolding
  <2> QED
    BY <1>4, <2>1 DEF ProbationDue
<1>5. CASE RevertImpossible
  BY <1>5, GotoMoves DEF RevertImpossible
<1>6. CASE PollFails
  BY <1>6, GotoMoves DEF PollFails, Disturb
<1>7. ASSUME NEW cleared \in BOOLEAN, NEW told \in BOOLEAN,
             NEW desired \in Versions, PollSucceeds(cleared, told, desired)
      PROVE  Sequenced'
  <2>1. /\ Moves("service", "update") /\ loc'["service"].current = loc["service"].current
        /\ loc'["service"].want \in Versions
    BY <1>7, ServiceHolding
  <2> QED
    BY <1>7, <2>1 DEF PollSucceeds, Disturb
<1>8. CASE NoUpdate
  BY <1>8, RunOverMoves DEF NoUpdate
<1>9. ASSUME NEW copy \in {"server", "origin"}, Run(copy) PROVE Sequenced'
  <2>1. /\ Moves("service", "manifest") /\ loc'["service"].current = loc["service"].current
        /\ loc'["service"].want = loc["service"].want
    BY <1>9, ServiceHolding
  <2> QED
    BY <1>9, <2>1 DEF Run
<1>10. CASE Leave
  BY <1>10, EndsMoves DEF Leave, Disturb
<1>11. ASSUME NEW v \in Versions, RunByHand(v) PROVE Sequenced'
  <2>1. Moves("hand", "manifest") /\ loc'["hand"].current = exe /\ loc'["hand"].want = v
    BY <1>11, HandHolding DEF RunByHand, ByHand
  <2> QED
    BY <1>11, <2>1 DEF RunByHand, ByHand, Disturb
<1>12. CASE RevertByHand
  <2>1. Moves("hand", "restore_config") /\ loc'["hand"].undo \in Reverted
    BY <1>12, HandHolding
  <2> QED
    BY <1>12, <2>1 DEF RevertByHand, ByHand, Disturb
<1>13. ASSUME NEW a \in Actors, FetchIsSlow(a) PROVE Sequenced'
  <2>1. Moves(a, pc[a]) /\ loc'[a].sequence = loc[a].sequence
    BY <1>13, Holding
  <2> QED
    BY <1>13, <2>1 DEF FetchIsSlow
<1>14. ASSUME NEW a \in Actors, Crash(a) PROVE Sequenced'
  BY <1>14, EndsMoves DEF Crash, Disturb
<1>15. ASSUME NEW a \in Actors, CopyRefused(a) PROVE Sequenced'
  <2>1. \/ Moves(a, "manifest") /\ SameUpdate(a)
        \/ Moves(a, IF a = "service" THEN "loop" ELSE Down) /\ KeepsCurrent(a)
    BY <1>15, NextCopyMoves DEF CopyRefused
  <2> QED
    BY <1>15, <2>1 DEF CopyRefused
<1>16. ASSUME NEW a \in Actors, NEW s \in 1..MaxSequence, NEW read \in BOOLEAN,
             CopyVerified(a, s, read)
      PROVE  Sequenced'
  <2>1. Moves(a, "save_sequence") /\ loc'[a].sequence = s
    BY <1>16, Holding
  <2>2. floor' = floor /\ seen' = seen /\ (~misread' => ~misread /\ ~(s < floor))
    BY <1>16 DEF CopyVerified
  <2>3. ~misread' => ~misread /\ s >= floor
    BY <2>2, Constants
  <2> QED
    BY <2>1, <2>2, <2>3
<1>17. ASSUME NEW a \in Actors, NEW found \in BOOLEAN, NEW read \in BOOLEAN,
             SaveSequence(a, found, read)
      PROVE  Sequenced'
  <2>1. \/ Moves(a, "stage") /\ loc' = loc
        \/ Moves(a, "manifest") /\ SameUpdate(a)
        \/ Moves(a, IF a = "service" THEN "loop" ELSE Down) /\ KeepsCurrent(a)
    BY <1>17, GotoMoves, NextCopyMoves DEF SaveSequence, Procs, Steps, RunSteps
  <2> QED
    BY <1>17, <2>1 DEF SaveSequence, Disturb
<1>18. ASSUME NEW a \in Actors, SaveSequenceFails(a) PROVE Sequenced'
  BY <1>18, RunOverMoves DEF SaveSequenceFails, Disturb
<1>19. ASSUME NEW a \in Actors, FetchArtifact(a) PROVE Sequenced'
  BY <1>19, RunOverMoves, GotoMoves DEF FetchArtifact
<1>20. ASSUME NEW a \in Actors, KeepConfig(a) PROVE Sequenced'
  BY <1>20, RunOverMoves, GotoMoves DEF KeepConfig, Disturb
<1>21. ASSUME NEW a \in Actors, Record(a) PROVE Sequenced'
  <2>1. Moves(a, "forget") /\ loc' = loc
    BY <1>21, GotoMoves DEF Record, Procs, Steps, RunSteps
  <2> QED
    BY <1>21, <2>1 DEF Record, RecordOf
<1>22. ASSUME NEW a \in Actors, NEW written \in BOOLEAN, RecordFails(a, written)
      PROVE  Sequenced'
  <2>1. Moves(a, IF a = "service" THEN "loop" ELSE Down) /\ KeepsCurrent(a)
    BY <1>22, RunOverMoves DEF RecordFails, Procs
  <2> QED
    BY <1>22, <2>1 DEF RecordFails, RecordOf, Disturb
<1>23. ASSUME NEW a \in Actors, Forget(a) PROVE Sequenced'
  BY <1>23, GotoMoves DEF Forget
<1>24. ASSUME NEW a \in Actors, Aside(a) PROVE Sequenced'
  BY <1>24, GotoMoves DEF Aside
<1>25. ASSUME NEW a \in Actors, AsideFails(a) PROVE Sequenced'
  BY <1>25, GotoMoves DEF AsideFails, Disturb
<1>26. ASSUME NEW a \in Actors, Install(a) PROVE Sequenced'
  BY <1>26, EndsMoves, GotoMoves DEF Install
<1>27. ASSUME NEW a \in Actors, NEW back \in BOOLEAN, InstallFails(a, back) PROVE Sequenced'
  BY <1>27, GotoMoves DEF InstallFails, Disturb
<1>28. ASSUME NEW a \in Actors, Unrecord(a) PROVE Sequenced'
  BY <1>28, RunOverMoves DEF Unrecord, Disturb
<1>29. ASSUME NEW a \in Actors, RestoreConfig(a) PROVE Sequenced'
  BY <1>29, RevertOverMoves, GotoMoves DEF RestoreConfig, Disturb
<1>30. ASSUME NEW a \in Actors, SetBad(a) PROVE Sequenced'
  BY <1>30, GotoMoves DEF SetBad
<1>31. ASSUME NEW a \in Actors, SetBadFails(a) PROVE Sequenced'
  BY <1>31, RevertOverMoves DEF SetBadFails, Disturb
<1>32. ASSUME NEW a \in Actors, Restore(a) PROVE Sequenced'
  BY <1>32, GotoMoves DEF Restore
<1>33. ASSUME NEW a \in Actors, NEW back \in BOOLEAN, RestoreFails(a, back) PROVE Sequenced'
  BY <1>33, RevertOverMoves DEF RestoreFails, Disturb
<1>34. ASSUME NEW a \in Actors, Unarm(a) PROVE Sequenced'
  BY <1>34, GotoMoves DEF Unarm, Disturb
<1>35. ASSUME NEW a \in Actors, WriteNote(a) PROVE Sequenced'
  BY <1>35, EndsMoves DEF WriteNote, Disturb
<1> HIDE DEF Actors, Typed, TypeOK, Procs, Moves, OthersStay, KeepsCurrent, SameUpdate,
   At, Steps, Down, RunSteps, RevertSteps, Alone, Sequenced, Actors, Locals, procs, files,
   history
<1> QED
  BY Both, <1>1, <1>2, <1>3, <1>4, <1>5, <1>6, <1>7, <1>8, <1>9, <1>10, <1>11, <1>12,
     <1>13, <1>14, <1>15, <1>16, <1>17, <1>18, <1>19, <1>20, <1>21, <1>22, <1>23, <1>24,
     <1>25, <1>26, <1>27, <1>28, <1>29, <1>30, <1>31, <1>32, <1>33, <1>34, <1>35
     DEF Next, Environment, Service, Loop, Update, Revert

\* Nothing starts from no binary.
LEMMA DeadStep ==
    ASSUME Typed, Dead, Next
    PROVE  Dead'
<1> USE Constants DEF Actors, Typed, TypeOK, Procs, Moves, OthersStay, KeepsCurrent,
   SameUpdate, At, Steps, Down, RunSteps, RevertSteps, Dead, procs, files, history
<1>1. CASE DeadlinePasses
  BY <1>1 DEF DeadlinePasses
<1>2. CASE Start
  <2>1. Moves("service", "loop") /\ loc'["service"].current = exe
    BY <1>2, ServiceHolding
  <2> QED
    BY <1>2, <2>1 DEF Start
<1>3. CASE ProbationNotDue
  BY <1>3, GotoMoves DEF ProbationNotDue
<1>4. CASE ProbationDue
  <2>1. /\ Moves("service", "restore_config") /\ loc'["service"].current = loc["service"].current
        /\ loc'["service"].undo \in Reverted
    BY <1>4, ServiceHolding
  <2> QED
    BY <1>4, <2>1 DEF ProbationDue
<1>5. CASE RevertImpossible
  BY <1>5, GotoMoves DEF RevertImpossible
<1>6. CASE PollFails
  BY <1>6, GotoMoves DEF PollFails, Disturb
<1>7. ASSUME NEW cleared \in BOOLEAN, NEW told \in BOOLEAN,
             NEW desired \in Versions, PollSucceeds(cleared, told, desired)
      PROVE  Dead'
  <2>1. /\ Moves("service", "update") /\ loc'["service"].current = loc["service"].current
        /\ loc'["service"].want \in Versions
    BY <1>7, ServiceHolding
  <2> QED
    BY <1>7, <2>1 DEF PollSucceeds, Disturb
<1>8. CASE NoUpdate
  BY <1>8, RunOverMoves DEF NoUpdate
<1>9. ASSUME NEW copy \in {"server", "origin"}, Run(copy) PROVE Dead'
  <2>1. /\ Moves("service", "manifest") /\ loc'["service"].current = loc["service"].current
        /\ loc'["service"].want = loc["service"].want
    BY <1>9, ServiceHolding
  <2> QED
    BY <1>9, <2>1 DEF Run
<1>10. CASE Leave
  BY <1>10, EndsMoves DEF Leave, Disturb
<1>11. ASSUME NEW v \in Versions, RunByHand(v) PROVE Dead'
  <2>1. Moves("hand", "manifest") /\ loc'["hand"].current = exe /\ loc'["hand"].want = v
    BY <1>11, HandHolding DEF RunByHand, ByHand
  <2> QED
    BY <1>11, <2>1 DEF RunByHand, ByHand, Disturb
<1>12. CASE RevertByHand
  <2>1. Moves("hand", "restore_config") /\ loc'["hand"].undo \in Reverted
    BY <1>12, HandHolding
  <2> QED
    BY <1>12, <2>1 DEF RevertByHand, ByHand, Disturb
<1>13. ASSUME NEW a \in Actors, FetchIsSlow(a) PROVE Dead'
  <2>1. Moves(a, pc[a]) /\ SameUpdate(a)
    BY <1>13, Holding
  <2> QED
    BY <1>13, <2>1 DEF FetchIsSlow
<1>14. ASSUME NEW a \in Actors, Crash(a) PROVE Dead'
  BY <1>14, EndsMoves DEF Crash, Disturb
<1>15. ASSUME NEW a \in Actors, CopyRefused(a) PROVE Dead'
  <2>1. \/ Moves(a, "manifest") /\ SameUpdate(a)
        \/ Moves(a, IF a = "service" THEN "loop" ELSE Down) /\ KeepsCurrent(a)
    BY <1>15, NextCopyMoves DEF CopyRefused
  <2> QED
    BY <1>15, <2>1 DEF CopyRefused
<1>16. ASSUME NEW a \in Actors, NEW s \in 1..MaxSequence, NEW read \in BOOLEAN,
             CopyVerified(a, s, read) PROVE Dead'
  <2>1. Moves(a, "save_sequence") /\ SameUpdate(a)
    BY <1>16, Holding
  <2> QED
    BY <1>16, <2>1 DEF CopyVerified, Disturb
<1>17. ASSUME NEW a \in Actors, NEW found \in BOOLEAN, NEW read \in BOOLEAN,
             SaveSequence(a, found, read) PROVE Dead'
  <2>1. \/ Moves(a, "stage") /\ loc' = loc
        \/ Moves(a, "manifest") /\ SameUpdate(a)
        \/ Moves(a, IF a = "service" THEN "loop" ELSE Down) /\ KeepsCurrent(a)
    BY <1>17, GotoMoves, NextCopyMoves DEF SaveSequence, Procs, Steps, RunSteps
  <2> QED
    BY <1>17, <2>1 DEF SaveSequence, Disturb
<1>18. ASSUME NEW a \in Actors, SaveSequenceFails(a) PROVE Dead'
  BY <1>18, RunOverMoves DEF SaveSequenceFails, Disturb
<1>19. ASSUME NEW a \in Actors, FetchArtifact(a) PROVE Dead'
  BY <1>19, RunOverMoves, GotoMoves DEF FetchArtifact
<1>20. ASSUME NEW a \in Actors, KeepConfig(a) PROVE Dead'
  BY <1>20, RunOverMoves, GotoMoves DEF KeepConfig, Disturb
<1>21. ASSUME NEW a \in Actors, Record(a) PROVE Dead'
  <2>1. Moves(a, "forget") /\ loc' = loc
    BY <1>21, GotoMoves DEF Record, Procs, Steps, RunSteps
  <2> QED
    BY <1>21, <2>1 DEF Record, RecordOf
<1>22. ASSUME NEW a \in Actors, NEW written \in BOOLEAN, RecordFails(a, written) PROVE Dead'
  <2>1. Moves(a, IF a = "service" THEN "loop" ELSE Down) /\ KeepsCurrent(a)
    BY <1>22, RunOverMoves DEF RecordFails, Procs
  <2> QED
    BY <1>22, <2>1 DEF RecordFails, RecordOf, Disturb
<1>23. ASSUME NEW a \in Actors, Forget(a) PROVE Dead'
  BY <1>23, GotoMoves DEF Forget
<1>24. ASSUME NEW a \in Actors, Aside(a) PROVE Dead'
  BY <1>24, GotoMoves DEF Aside
<1>25. ASSUME NEW a \in Actors, AsideFails(a) PROVE Dead'
  BY <1>25, GotoMoves DEF AsideFails, Disturb
<1>26. ASSUME NEW a \in Actors, Install(a) PROVE Dead'
  BY <1>26, EndsMoves, GotoMoves DEF Install
<1>27. ASSUME NEW a \in Actors, NEW back \in BOOLEAN, InstallFails(a, back) PROVE Dead'
  BY <1>27, GotoMoves DEF InstallFails, Disturb
<1>28. ASSUME NEW a \in Actors, Unrecord(a) PROVE Dead'
  BY <1>28, RunOverMoves DEF Unrecord, Disturb
<1>29. ASSUME NEW a \in Actors, RestoreConfig(a) PROVE Dead'
  BY <1>29, RevertOverMoves, GotoMoves DEF RestoreConfig, Disturb
<1>30. ASSUME NEW a \in Actors, SetBad(a) PROVE Dead'
  BY <1>30, GotoMoves DEF SetBad
<1>31. ASSUME NEW a \in Actors, SetBadFails(a) PROVE Dead'
  BY <1>31, RevertOverMoves DEF SetBadFails, Disturb
<1>32. ASSUME NEW a \in Actors, Restore(a) PROVE Dead'
  BY <1>32, GotoMoves DEF Restore
<1>33. ASSUME NEW a \in Actors, NEW back \in BOOLEAN, RestoreFails(a, back) PROVE Dead'
  BY <1>33, RevertOverMoves DEF RestoreFails, Disturb
<1>34. ASSUME NEW a \in Actors, Unarm(a) PROVE Dead'
  BY <1>34, GotoMoves DEF Unarm, Disturb
<1>35. ASSUME NEW a \in Actors, WriteNote(a) PROVE Dead'
  BY <1>35, EndsMoves DEF WriteNote, Disturb
<1> HIDE DEF Actors, Typed, TypeOK, Procs, Moves, OthersStay, KeepsCurrent, SameUpdate,
   At, Steps, Down, RunSteps, RevertSteps, Dead, procs, files, history
<1> QED
  BY Both, <1>1, <1>2, <1>3, <1>4, <1>5, <1>6, <1>7, <1>8, <1>9, <1>10, <1>11, <1>12,
     <1>13, <1>14, <1>15, <1>16, <1>17, <1>18, <1>19, <1>20, <1>21, <1>22, <1>23, <1>24,
     <1>25, <1>26, <1>27, <1>28, <1>29, <1>30, <1>31, <1>32, <1>33, <1>34, <1>35
     DEF Next, Environment, Service, Loop, Update, Revert

\* The parts of Sound, each from all of it; a fault at a rename ends in Dead.
LEMMA Placing ==
    ASSUME HandStopsService, Typed, Alone, Sound, Next
    PROVE  Dead' \/ Placed'
<1> Procs
  BY DEF Typed, TypeOK, Procs
<1> /\ exe \in Versions \cup {None} /\ prev \in Versions \cup {None}
    /\ bad \in Versions \cup {None}
  BY DEF Typed, TypeOK
<1> Running /\ None \notin Versions
  BY Constants DEF Typed
<1> USE DEF Actors, Moves, OthersStay, KeepsCurrent, SameUpdate, At, Steps, Down,
   RunSteps, RevertSteps, Alone, procs, files, history, ByHand, Placed, Dead, Sound,
   Decided, Running
<1>1. CASE DeadlinePasses
  BY <1>1 DEF DeadlinePasses
<1>2. CASE Start
  <2>1. Moves("service", "loop") /\ loc'["service"].current = exe
    BY <1>2, ServiceHolding
  <2> QED
    BY <1>2, <2>1 DEF Start
<1>3. CASE ProbationNotDue
  BY <1>3, GotoMoves DEF ProbationNotDue
<1>4. CASE ProbationDue
  <2>1. /\ Moves("service", "restore_config") /\ loc'["service"].current = loc["service"].current
        /\ loc'["service"].undo = OnRecord
    BY <1>4, ServiceHolding DEF OnRecord
  <2> QED
    BY <1>4, <2>1 DEF ProbationDue
<1>5. CASE RevertImpossible
  BY <1>5, GotoMoves DEF RevertImpossible
<1>6. CASE PollFails
  BY <1>6, GotoMoves DEF PollFails, Disturb
<1>7. ASSUME NEW cleared \in BOOLEAN, NEW told \in BOOLEAN,
             NEW desired \in Versions, PollSucceeds(cleared, told, desired)
      PROVE  Dead' \/ Placed'
  <2>1. /\ Moves("service", "update") /\ loc'["service"].current = loc["service"].current
        /\ loc'["service"].want \in Versions
    BY <1>7, ServiceHolding
  <2> QED
    BY <1>7, <2>1 DEF PollSucceeds, Disturb
<1>8. CASE NoUpdate
  BY <1>8, RunOverMoves DEF NoUpdate
<1>9. ASSUME NEW copy \in {"server", "origin"}, Run(copy) PROVE Dead' \/ Placed'
  <2>1. /\ Moves("service", "manifest") /\ loc'["service"].current = loc["service"].current
        /\ loc'["service"].want = loc["service"].want
    BY <1>9, ServiceHolding
  <2> QED
    BY <1>9, <2>1 DEF Run
<1>10. CASE Leave
  BY <1>10, EndsMoves DEF Leave, Disturb
<1>11. ASSUME NEW v \in Versions, RunByHand(v) PROVE Dead' \/ Placed'
  <2>1. Moves("hand", "manifest") /\ loc'["hand"].current = exe /\ loc'["hand"].want = v
    BY <1>11, HandHolding DEF RunByHand, ByHand
  <2> QED
    BY <1>11, <2>1 DEF RunByHand, ByHand, Disturb
<1>12. CASE RevertByHand
  <2>1. Moves("hand", "restore_config") /\ loc'["hand"].undo = OnRecord
    BY <1>12, HandHolding DEF OnRecord
  <2> QED
    BY <1>12, <2>1 DEF RevertByHand, ByHand, Disturb
<1>13. ASSUME NEW a \in Actors, FetchIsSlow(a) PROVE Dead' \/ Placed'
  <2>1. Moves(a, pc[a]) /\ SameUpdate(a)
    BY <1>13, Holding
  <2> QED
    BY <1>13, <2>1 DEF FetchIsSlow
<1>14. ASSUME NEW a \in Actors, Crash(a) PROVE Dead' \/ Placed'
  BY <1>14, EndsMoves DEF Crash, Disturb
<1>15. ASSUME NEW a \in Actors, CopyRefused(a) PROVE Dead' \/ Placed'
  <2>1. \/ Moves(a, "manifest") /\ SameUpdate(a)
        \/ Moves(a, IF a = "service" THEN "loop" ELSE Down) /\ KeepsCurrent(a)
    BY <1>15, NextCopyMoves DEF CopyRefused
  <2> QED
    BY <1>15, <2>1 DEF CopyRefused
<1>16. ASSUME NEW a \in Actors, NEW s \in 1..MaxSequence, NEW read \in BOOLEAN,
             CopyVerified(a, s, read)
      PROVE  Dead' \/ Placed'
  <2>1. Moves(a, "save_sequence") /\ SameUpdate(a)
    BY <1>16, Holding
  <2> QED
    BY <1>16, <2>1 DEF CopyVerified, Disturb
<1>17. ASSUME NEW a \in Actors, NEW found \in BOOLEAN, NEW read \in BOOLEAN,
             SaveSequence(a, found, read)
      PROVE  Dead' \/ Placed'
  <2>1. \/ Moves(a, "stage") /\ loc' = loc
        \/ Moves(a, "manifest") /\ SameUpdate(a)
        \/ Moves(a, IF a = "service" THEN "loop" ELSE Down) /\ KeepsCurrent(a)
    BY <1>17, GotoMoves, NextCopyMoves DEF SaveSequence, Steps, RunSteps
  <2> QED
    BY <1>17, <2>1 DEF SaveSequence, Disturb
<1>18. ASSUME NEW a \in Actors, SaveSequenceFails(a) PROVE Dead' \/ Placed'
  BY <1>18, RunOverMoves DEF SaveSequenceFails, Disturb
<1>19. ASSUME NEW a \in Actors, FetchArtifact(a) PROVE Dead' \/ Placed'
  BY <1>19, RunOverMoves, GotoMoves DEF FetchArtifact
<1>20. ASSUME NEW a \in Actors, KeepConfig(a) PROVE Dead' \/ Placed'
  BY <1>20, RunOverMoves, GotoMoves DEF KeepConfig, Disturb
<1>21. ASSUME NEW a \in Actors, Record(a) PROVE Dead' \/ Placed'
  <2>1. Moves(a, "forget") /\ loc' = loc
    BY <1>21, GotoMoves DEF Record, Steps, RunSteps
  <2> QED
    BY <1>21, <2>1 DEF Record, RecordOf
<1>22. ASSUME NEW a \in Actors, NEW written \in BOOLEAN, RecordFails(a, written)
      PROVE  Dead' \/ Placed'
  <2>1. Moves(a, IF a = "service" THEN "loop" ELSE Down) /\ KeepsCurrent(a)
    BY <1>22, RunOverMoves DEF RecordFails
  <2> QED
    BY <1>22, <2>1 DEF RecordFails, RecordOf, Disturb
<1>23. ASSUME NEW a \in Actors, Forget(a) PROVE Dead' \/ Placed'
  BY <1>23, GotoMoves DEF Forget
<1>24. ASSUME NEW a \in Actors, Aside(a) PROVE Dead' \/ Placed'
  BY <1>24, GotoMoves DEF Aside
<1>25. ASSUME NEW a \in Actors, AsideFails(a) PROVE Dead' \/ Placed'
  BY <1>25, GotoMoves DEF AsideFails, Disturb
<1>26. ASSUME NEW a \in Actors, Install(a) PROVE Dead' \/ Placed'
  BY <1>26, EndsMoves, GotoMoves DEF Install
<1>27. ASSUME NEW a \in Actors, NEW back \in BOOLEAN, InstallFails(a, back)
      PROVE  Dead' \/ Placed'
  BY <1>27, GotoMoves DEF InstallFails, Disturb
<1>28. ASSUME NEW a \in Actors, Unrecord(a) PROVE Dead' \/ Placed'
  BY <1>28, RunOverMoves DEF Unrecord, Disturb
<1>29. ASSUME NEW a \in Actors, RestoreConfig(a) PROVE Dead' \/ Placed'
  BY <1>29, RevertOverMoves, GotoMoves DEF RestoreConfig, Disturb
<1>30. ASSUME NEW a \in Actors, SetBad(a) PROVE Dead' \/ Placed'
  BY <1>30, GotoMoves DEF SetBad
<1>31. ASSUME NEW a \in Actors, SetBadFails(a) PROVE Dead' \/ Placed'
  BY <1>31, RevertOverMoves DEF SetBadFails, Disturb
<1>32. ASSUME NEW a \in Actors, Restore(a) PROVE Dead' \/ Placed'
  BY <1>32, GotoMoves DEF Restore
<1>33. ASSUME NEW a \in Actors, NEW back \in BOOLEAN, RestoreFails(a, back)
      PROVE  Dead' \/ Placed'
  BY <1>33, RevertOverMoves DEF RestoreFails, Disturb
<1>34. ASSUME NEW a \in Actors, Unarm(a) PROVE Dead' \/ Placed'
  BY <1>34, GotoMoves DEF Unarm, Disturb
<1>35. ASSUME NEW a \in Actors, WriteNote(a) PROVE Dead' \/ Placed'
  BY <1>35, EndsMoves DEF WriteNote, Disturb
<1> HIDE DEF Actors, Moves, OthersStay, KeepsCurrent, SameUpdate, At, Steps, Down,
   RunSteps, RevertSteps, Alone, procs, files, history, ByHand, Placed, Dead, Sound,
   Decided, Running
<1> QED
  BY Both, <1>1, <1>2, <1>3, <1>4, <1>5, <1>6, <1>7, <1>8, <1>9, <1>10, <1>11, <1>12,
     <1>13, <1>14, <1>15, <1>16, <1>17, <1>18, <1>19, <1>20, <1>21, <1>22, <1>23, <1>24,
     <1>25, <1>26, <1>27, <1>28, <1>29, <1>30, <1>31, <1>32, <1>33, <1>34, <1>35
     DEF Next, Environment, Service, Loop, Update, Revert

LEMMA Deciding ==
    ASSUME HandStopsService, Typed, Alone, Sound, Next
    PROVE  Dead' \/ Decided'
<1> Procs
  BY DEF Typed, TypeOK, Procs
<1> /\ exe \in Versions \cup {None} /\ prev \in Versions \cup {None}
    /\ bad \in Versions \cup {None}
  BY DEF Typed, TypeOK
<1> /\ probation \in Probation \cup {NoRecord} /\ proven \subseteq Versions
  BY DEF Typed, TypeOK
<1> Running /\ None \notin Versions
  BY Constants DEF Typed
<1> USE DEF Actors, Moves, OthersStay, KeepsCurrent, SameUpdate, At, Steps, Down,
   RunSteps, RevertSteps, Alone, procs, files, history, ByHand, Decided, Placed, Recorded,
   Dead, Sound, Running, Trusted, Wanted, OnRecord, OnProbation
<1>1. CASE DeadlinePasses
  <2>1. /\ probation' # NoRecord /\ probation # NoRecord
        /\ probation'.from = probation.from /\ probation'.to = probation.to
    BY <1>1 DEF DeadlinePasses, Probation, NoRecord
  <2> QED
    BY <1>1, <2>1 DEF DeadlinePasses
<1>2. CASE Start
  <2>1. Moves("service", "loop") /\ loc'["service"].current = exe
    BY <1>2, ServiceHolding
  <2> QED
    BY <1>2, <2>1 DEF Start
<1>3. CASE ProbationNotDue
  BY <1>3, GotoMoves DEF ProbationNotDue
<1>4. CASE ProbationDue
  <2>1. /\ Moves("service", "restore_config") /\ loc'["service"].current = loc["service"].current
        /\ loc'["service"].undo = OnRecord
    BY <1>4, ServiceHolding DEF OnRecord
  <2>2. probation # NoRecord
    BY <1>4 DEF ProbationDue, NoRecord
  <2> QED
    BY <1>4, <2>1, <2>2 DEF ProbationDue
<1>5. CASE RevertImpossible
  BY <1>5, GotoMoves DEF RevertImpossible
<1>6. CASE PollFails
  BY <1>6, GotoMoves DEF PollFails, Disturb
<1>7. ASSUME NEW cleared \in BOOLEAN, NEW told \in BOOLEAN,
             NEW desired \in Versions, PollSucceeds(cleared, told, desired)
      PROVE  Dead' \/ Decided'
  <2>1. /\ Moves("service", "update") /\ loc'["service"].current = loc["service"].current
        /\ loc'["service"].want \in Versions
    BY <1>7, ServiceHolding
  <2> QED
    BY <1>7, <2>1 DEF PollSucceeds, Disturb
<1>8. CASE NoUpdate
  BY <1>8, RunOverMoves DEF NoUpdate
<1>9. ASSUME NEW copy \in {"server", "origin"}, Run(copy) PROVE Dead' \/ Decided'
  <2>1. /\ Moves("service", "manifest") /\ loc'["service"].current = loc["service"].current
        /\ loc'["service"].want = loc["service"].want
    BY <1>9, ServiceHolding
  <2> QED
    BY <1>9, <2>1 DEF Run
<1>10. CASE Leave
  BY <1>10, EndsMoves DEF Leave, Disturb
<1>11. ASSUME NEW v \in Versions, RunByHand(v) PROVE Dead' \/ Decided'
  <2>1. Moves("hand", "manifest") /\ loc'["hand"].current = exe /\ loc'["hand"].want = v
    BY <1>11, HandHolding DEF RunByHand, ByHand
  <2>2. exe \in proven' \/ blind'
    BY <1>11 DEF RunByHand
  <2>3. Wanted(exe, v)
    BY <1>11 DEF RunByHand
  <2>4. \A a \in Actors : pc'[a] # Down => a = "hand"
    BY <1>11, <2>1 DEF RunByHand
  <2> HIDE DEF Wanted
  <2> QED
    BY <2>1, <2>2, <2>3, <2>4
<1>12. CASE RevertByHand
  <2>1. Moves("hand", "restore_config") /\ loc'["hand"].undo = OnRecord
    BY <1>12, HandHolding DEF OnRecord
  <2> QED
    BY <1>12, <2>1 DEF RevertByHand, ByHand, Disturb
<1>13. ASSUME NEW a \in Actors, FetchIsSlow(a) PROVE Dead' \/ Decided'
  <2>1. Moves(a, pc[a]) /\ SameUpdate(a)
    BY <1>13, Holding
  <2> QED
    BY <1>13, <2>1 DEF FetchIsSlow
<1>14. ASSUME NEW a \in Actors, Crash(a) PROVE Dead' \/ Decided'
  BY <1>14, EndsMoves DEF Crash, Disturb
<1>15. ASSUME NEW a \in Actors, CopyRefused(a) PROVE Dead' \/ Decided'
  <2>1. \/ Moves(a, "manifest") /\ SameUpdate(a)
        \/ Moves(a, IF a = "service" THEN "loop" ELSE Down) /\ KeepsCurrent(a)
    BY <1>15, NextCopyMoves DEF CopyRefused
  <2> QED
    BY <1>15, <2>1 DEF CopyRefused
<1>16. ASSUME NEW a \in Actors, NEW s \in 1..MaxSequence, NEW read \in BOOLEAN,
             CopyVerified(a, s, read)
      PROVE  Dead' \/ Decided'
  <2>1. Moves(a, "save_sequence") /\ SameUpdate(a)
    BY <1>16, Holding
  <2> QED
    BY <1>16, <2>1 DEF CopyVerified, Disturb
<1>17. ASSUME NEW a \in Actors, NEW found \in BOOLEAN, NEW read \in BOOLEAN,
             SaveSequence(a, found, read)
      PROVE  Dead' \/ Decided'
  <2>1. \/ Moves(a, "stage") /\ loc' = loc
        \/ Moves(a, "manifest") /\ SameUpdate(a)
        \/ Moves(a, IF a = "service" THEN "loop" ELSE Down) /\ KeepsCurrent(a)
    BY <1>17, GotoMoves, NextCopyMoves DEF SaveSequence, Steps, RunSteps
  <2> QED
    BY <1>17, <2>1 DEF SaveSequence, Disturb
<1>18. ASSUME NEW a \in Actors, SaveSequenceFails(a) PROVE Dead' \/ Decided'
  BY <1>18, RunOverMoves DEF SaveSequenceFails, Disturb
<1>19. ASSUME NEW a \in Actors, FetchArtifact(a) PROVE Dead' \/ Decided'
  BY <1>19, RunOverMoves, GotoMoves DEF FetchArtifact
<1>20. ASSUME NEW a \in Actors, KeepConfig(a) PROVE Dead' \/ Decided'
  BY <1>20, RunOverMoves, GotoMoves DEF KeepConfig, Disturb
<1>21. ASSUME NEW a \in Actors, Record(a) PROVE Dead' \/ Decided'
  <2>1. Moves(a, "forget") /\ loc' = loc
    BY <1>21, GotoMoves DEF Record, Steps, RunSteps
  <2>2. /\ probation' # NoRecord
        /\ probation'.from = loc[a].current /\ probation'.to = loc[a].want
    BY <1>21 DEF Record, RecordOf, NoRecord
  <2> QED
    BY <1>21, <2>1, <2>2 DEF Record
<1>22. ASSUME NEW a \in Actors, NEW written \in BOOLEAN, RecordFails(a, written)
      PROVE  Dead' \/ Decided'
  <2>1. Moves(a, IF a = "service" THEN "loop" ELSE Down) /\ KeepsCurrent(a)
    BY <1>22, RunOverMoves DEF RecordFails
  <2> QED
    BY <1>22, <2>1 DEF RecordFails, RecordOf, Disturb
<1>23. ASSUME NEW a \in Actors, Forget(a) PROVE Dead' \/ Decided'
  BY <1>23, GotoMoves DEF Forget
<1>24. ASSUME NEW a \in Actors, Aside(a) PROVE Dead' \/ Decided'
  BY <1>24, GotoMoves DEF Aside
<1>25. ASSUME NEW a \in Actors, AsideFails(a) PROVE Dead' \/ Decided'
  BY <1>25, GotoMoves DEF AsideFails, Disturb
<1>26. ASSUME NEW a \in Actors, Install(a) PROVE Dead' \/ Decided'
  BY <1>26, EndsMoves, GotoMoves DEF Install
<1>27. ASSUME NEW a \in Actors, NEW back \in BOOLEAN, InstallFails(a, back)
      PROVE  Dead' \/ Decided'
  BY <1>27, GotoMoves DEF InstallFails, Disturb
<1>28. ASSUME NEW a \in Actors, Unrecord(a) PROVE Dead' \/ Decided'
  BY <1>28, RunOverMoves DEF Unrecord, Disturb
<1>29. ASSUME NEW a \in Actors, RestoreConfig(a) PROVE Dead' \/ Decided'
  BY <1>29, RevertOverMoves, GotoMoves DEF RestoreConfig, Disturb
<1>30. ASSUME NEW a \in Actors, SetBad(a) PROVE Dead' \/ Decided'
  BY <1>30, GotoMoves DEF SetBad
<1>31. ASSUME NEW a \in Actors, SetBadFails(a) PROVE Dead' \/ Decided'
  BY <1>31, RevertOverMoves DEF SetBadFails, Disturb
<1>32. ASSUME NEW a \in Actors, Restore(a) PROVE Dead' \/ Decided'
  BY <1>32, GotoMoves DEF Restore
<1>33. ASSUME NEW a \in Actors, NEW back \in BOOLEAN, RestoreFails(a, back)
      PROVE  Dead' \/ Decided'
  BY <1>33, RevertOverMoves DEF RestoreFails, Disturb
<1>34. ASSUME NEW a \in Actors, Unarm(a) PROVE Dead' \/ Decided'
  BY <1>34, GotoMoves DEF Unarm, Disturb
<1>35. ASSUME NEW a \in Actors, WriteNote(a) PROVE Dead' \/ Decided'
  BY <1>35, EndsMoves DEF WriteNote, Disturb
<1> HIDE DEF Actors, Moves, OthersStay, KeepsCurrent, SameUpdate, At, Steps, Down,
   RunSteps, RevertSteps, Alone, procs, files, history, ByHand, Decided, Placed, Recorded,
   Dead, Sound, Running, Trusted, Wanted, OnRecord, OnProbation
<1> QED
  BY Both, <1>1, <1>2, <1>3, <1>4, <1>5, <1>6, <1>7, <1>8, <1>9, <1>10, <1>11, <1>12,
     <1>13, <1>14, <1>15, <1>16, <1>17, <1>18, <1>19, <1>20, <1>21, <1>22, <1>23, <1>24,
     <1>25, <1>26, <1>27, <1>28, <1>29, <1>30, <1>31, <1>32, <1>33, <1>34, <1>35
     DEF Next, Environment, Service, Loop, Update, Revert

LEMMA Recording ==
    ASSUME HandStopsService, Typed, Alone, Sound, Next
    PROVE  Dead' \/ Recorded'
<1> Procs
  BY DEF Typed, TypeOK, Procs
<1> /\ exe \in Versions \cup {None} /\ prev \in Versions \cup {None}
    /\ bad \in Versions \cup {None}
  BY DEF Typed, TypeOK
<1> /\ probation \in Probation \cup {NoRecord} /\ proven \subseteq Versions
  BY DEF Typed, TypeOK
<1> Running /\ None \notin Versions
  BY Constants DEF Typed
<1> USE DEF Actors, Moves, OthersStay, KeepsCurrent, SameUpdate, At, Steps, Down,
   RunSteps, RevertSteps, Alone, procs, files, history, ByHand, Decided, Placed, Recorded,
   Dead, Sound, Running, Trusted, OnRecord, OnProbation
<1>1. CASE DeadlinePasses
  <2>1. /\ probation' # NoRecord /\ probation # NoRecord
        /\ probation'.from = probation.from /\ probation'.to = probation.to
    BY <1>1 DEF DeadlinePasses, Probation, NoRecord
  <2> QED
    BY <1>1, <2>1 DEF DeadlinePasses
<1>2. CASE Start
  <2>1. Moves("service", "loop") /\ loc'["service"].current = exe
    BY <1>2, ServiceHolding
  <2> QED
    BY <1>2, <2>1 DEF Start
<1>3. CASE ProbationNotDue
  BY <1>3, GotoMoves DEF ProbationNotDue
<1>4. CASE ProbationDue
  <2>1. /\ Moves("service", "restore_config") /\ loc'["service"].current = loc["service"].current
        /\ loc'["service"].undo = OnRecord
    BY <1>4, ServiceHolding DEF OnRecord
  <2> QED
    BY <1>4, <2>1 DEF ProbationDue
<1>5. CASE RevertImpossible
  BY <1>5, GotoMoves DEF RevertImpossible
<1>6. CASE PollFails
  BY <1>6, GotoMoves DEF PollFails, Disturb
<1>7. ASSUME NEW cleared \in BOOLEAN, NEW told \in BOOLEAN,
             NEW desired \in Versions, PollSucceeds(cleared, told, desired)
      PROVE  Dead' \/ Recorded'
  <2>1. /\ Moves("service", "update") /\ loc'["service"].current = loc["service"].current
        /\ loc'["service"].want \in Versions
    BY <1>7, ServiceHolding
  <2> QED
    BY <1>7, <2>1 DEF PollSucceeds, Disturb
<1>8. CASE NoUpdate
  BY <1>8, RunOverMoves DEF NoUpdate
<1>9. ASSUME NEW copy \in {"server", "origin"}, Run(copy) PROVE Dead' \/ Recorded'
  <2>1. /\ Moves("service", "manifest") /\ loc'["service"].current = loc["service"].current
        /\ loc'["service"].want = loc["service"].want
    BY <1>9, ServiceHolding
  <2> QED
    BY <1>9, <2>1 DEF Run
<1>10. CASE Leave
  BY <1>10, EndsMoves DEF Leave, Disturb
<1>11. ASSUME NEW v \in Versions, RunByHand(v) PROVE Dead' \/ Recorded'
  <2>1. Moves("hand", "manifest") /\ loc'["hand"].current = exe /\ loc'["hand"].want = v
    BY <1>11, HandHolding DEF RunByHand, ByHand
  <2> QED
    BY <1>11, <2>1 DEF RunByHand, ByHand, Disturb
<1>12. CASE RevertByHand
  <2>1. Moves("hand", "restore_config") /\ loc'["hand"].undo = OnRecord
    BY <1>12, HandHolding DEF OnRecord
  <2> QED
    BY <1>12, <2>1 DEF RevertByHand, ByHand, Disturb
<1>13. ASSUME NEW a \in Actors, FetchIsSlow(a) PROVE Dead' \/ Recorded'
  <2>1. Moves(a, pc[a]) /\ SameUpdate(a)
    BY <1>13, Holding
  <2> QED
    BY <1>13, <2>1 DEF FetchIsSlow
<1>14. ASSUME NEW a \in Actors, Crash(a) PROVE Dead' \/ Recorded'
  BY <1>14, EndsMoves DEF Crash, Disturb
<1>15. ASSUME NEW a \in Actors, CopyRefused(a) PROVE Dead' \/ Recorded'
  <2>1. \/ Moves(a, "manifest") /\ SameUpdate(a)
        \/ Moves(a, IF a = "service" THEN "loop" ELSE Down) /\ KeepsCurrent(a)
    BY <1>15, NextCopyMoves DEF CopyRefused
  <2> QED
    BY <1>15, <2>1 DEF CopyRefused
<1>16. ASSUME NEW a \in Actors, NEW s \in 1..MaxSequence, NEW read \in BOOLEAN,
             CopyVerified(a, s, read)
      PROVE  Dead' \/ Recorded'
  <2>1. Moves(a, "save_sequence") /\ SameUpdate(a)
    BY <1>16, Holding
  <2> QED
    BY <1>16, <2>1 DEF CopyVerified, Disturb
<1>17. ASSUME NEW a \in Actors, NEW found \in BOOLEAN, NEW read \in BOOLEAN,
             SaveSequence(a, found, read)
      PROVE  Dead' \/ Recorded'
  <2>1. \/ Moves(a, "stage") /\ loc' = loc
        \/ Moves(a, "manifest") /\ SameUpdate(a)
        \/ Moves(a, IF a = "service" THEN "loop" ELSE Down) /\ KeepsCurrent(a)
    BY <1>17, GotoMoves, NextCopyMoves DEF SaveSequence, Steps, RunSteps
  <2> QED
    BY <1>17, <2>1 DEF SaveSequence, Disturb
<1>18. ASSUME NEW a \in Actors, SaveSequenceFails(a) PROVE Dead' \/ Recorded'
  BY <1>18, RunOverMoves DEF SaveSequenceFails, Disturb
<1>19. ASSUME NEW a \in Actors, FetchArtifact(a) PROVE Dead' \/ Recorded'
  BY <1>19, RunOverMoves, GotoMoves DEF FetchArtifact
<1>20. ASSUME NEW a \in Actors, KeepConfig(a) PROVE Dead' \/ Recorded'
  BY <1>20, RunOverMoves, GotoMoves DEF KeepConfig, Disturb
<1>21. ASSUME NEW a \in Actors, Record(a) PROVE Dead' \/ Recorded'
  <2>1. Moves(a, "forget") /\ loc' = loc
    BY <1>21, GotoMoves DEF Record, Steps, RunSteps
  <2> QED
    BY <1>21, <2>1 DEF Record, RecordOf
<1>22. ASSUME NEW a \in Actors, NEW written \in BOOLEAN, RecordFails(a, written)
      PROVE  Dead' \/ Recorded'
  <2>1. Moves(a, IF a = "service" THEN "loop" ELSE Down) /\ KeepsCurrent(a)
    BY <1>22, RunOverMoves DEF RecordFails
  <2> QED
    BY <1>22, <2>1 DEF RecordFails, RecordOf, Disturb
<1>23. ASSUME NEW a \in Actors, Forget(a) PROVE Dead' \/ Recorded'
  BY <1>23, GotoMoves DEF Forget
<1>24. ASSUME NEW a \in Actors, Aside(a) PROVE Dead' \/ Recorded'
  BY <1>24, GotoMoves DEF Aside
<1>25. ASSUME NEW a \in Actors, AsideFails(a) PROVE Dead' \/ Recorded'
  BY <1>25, GotoMoves DEF AsideFails, Disturb
<1>26. ASSUME NEW a \in Actors, Install(a) PROVE Dead' \/ Recorded'
  BY <1>26, EndsMoves, GotoMoves DEF Install
<1>27. ASSUME NEW a \in Actors, NEW back \in BOOLEAN, InstallFails(a, back)
      PROVE  Dead' \/ Recorded'
  BY <1>27, GotoMoves DEF InstallFails, Disturb
<1>28. ASSUME NEW a \in Actors, Unrecord(a) PROVE Dead' \/ Recorded'
  BY <1>28, RunOverMoves DEF Unrecord, Disturb
<1>29. ASSUME NEW a \in Actors, RestoreConfig(a) PROVE Dead' \/ Recorded'
  BY <1>29, RevertOverMoves, GotoMoves DEF RestoreConfig, Disturb
<1>30. ASSUME NEW a \in Actors, SetBad(a) PROVE Dead' \/ Recorded'
  BY <1>30, GotoMoves DEF SetBad
<1>31. ASSUME NEW a \in Actors, SetBadFails(a) PROVE Dead' \/ Recorded'
  BY <1>31, RevertOverMoves DEF SetBadFails, Disturb
<1>32. ASSUME NEW a \in Actors, Restore(a) PROVE Dead' \/ Recorded'
  BY <1>32, GotoMoves DEF Restore
<1>33. ASSUME NEW a \in Actors, NEW back \in BOOLEAN, RestoreFails(a, back)
      PROVE  Dead' \/ Recorded'
  BY <1>33, RevertOverMoves DEF RestoreFails, Disturb
<1>34. ASSUME NEW a \in Actors, Unarm(a) PROVE Dead' \/ Recorded'
  <2>1. Moves(a, "note") /\ loc' = loc
    BY <1>34, GotoMoves DEF Unarm
  <2>2. probation' \in {probation, NoRecord} /\ UNCHANGED <<exe, prev, bad, proven, swapped, blind>>
    BY <1>34 DEF Unarm
  <2>3. Trusted(exe) \/ exe = None \/ probation' = probation
    BY <1>34 DEF Unarm
  <2> QED
    BY <1>34, <2>1, <2>2, <2>3 DEF Unarm
<1>35. ASSUME NEW a \in Actors, WriteNote(a) PROVE Dead' \/ Recorded'
  BY <1>35, EndsMoves DEF WriteNote, Disturb
<1> HIDE DEF Actors, Moves, OthersStay, KeepsCurrent, SameUpdate, At, Steps, Down,
   RunSteps, RevertSteps, Alone, procs, files, history, ByHand, Decided, Placed, Recorded,
   Dead, Sound, Running, Trusted, OnRecord, OnProbation
<1> QED
  BY Both, <1>1, <1>2, <1>3, <1>4, <1>5, <1>6, <1>7, <1>8, <1>9, <1>10, <1>11, <1>12,
     <1>13, <1>14, <1>15, <1>16, <1>17, <1>18, <1>19, <1>20, <1>21, <1>22, <1>23, <1>24,
     <1>25, <1>26, <1>27, <1>28, <1>29, <1>30, <1>31, <1>32, <1>33, <1>34, <1>35
     DEF Next, Environment, Service, Loop, Update, Revert

LEMMA Reading ==
    ASSUME HandStopsService, Typed, Alone, Sound, Next
    PROVE  Dead' \/ (stray' \/ Readable')
<1> Procs
  BY DEF Typed, TypeOK, Procs
<1> /\ exe \in Versions \cup {None} /\ prev \in Versions \cup {None}
    /\ bad \in Versions \cup {None}
  BY DEF Typed, TypeOK
<1> /\ probation \in Probation \cup {NoRecord} /\ proven \subseteq Versions
  BY DEF Typed, TypeOK
<1> Running /\ None \notin Versions
  BY Constants DEF Typed
<1> /\ config \in Nat /\ MinDowngrade \in Nat /\ Versions \subseteq Nat
    /\ configPrev \in Versions \cup {None} /\ loc \in [Actors -> Locals]
    /\ None \notin Versions
  BY Constants DEF Typed, TypeOK
<1> USE DEF Actors, Moves, OthersStay, KeepsCurrent, SameUpdate, At, Steps, Down,
   RunSteps, RevertSteps, Alone, procs, files, history, ByHand, Decided, Placed, Recorded,
   Readable, Dead, Sound, Running, Wanted, OnRecord, RecordOf, Fits
<1>1. CASE DeadlinePasses
  <2>1. /\ probation' # NoRecord /\ probation # NoRecord
        /\ probation'.from = probation.from /\ probation'.to = probation.to
    BY <1>1 DEF DeadlinePasses, Probation, NoRecord
  <2> QED
    BY <1>1, <2>1 DEF DeadlinePasses
<1>2. CASE Start
  <2>1. Moves("service", "loop") /\ loc'["service"].current = exe
    BY <1>2, ServiceHolding
  <2> QED
    BY <1>2, <2>1 DEF Start
<1>3. CASE ProbationNotDue
  BY <1>3, GotoMoves DEF ProbationNotDue
<1>4. CASE ProbationDue
  <2>1. /\ Moves("service", "restore_config") /\ loc'["service"].current = loc["service"].current
        /\ loc'["service"].undo = OnRecord
    BY <1>4, ServiceHolding DEF OnRecord
  <2> QED
    BY <1>4, <2>1 DEF ProbationDue
<1>5. CASE RevertImpossible
  BY <1>5, GotoMoves DEF RevertImpossible
<1>6. CASE PollFails
  BY <1>6, GotoMoves DEF PollFails, Disturb
<1>7. ASSUME NEW cleared \in BOOLEAN, NEW told \in BOOLEAN,
             NEW desired \in Versions, PollSucceeds(cleared, told, desired)
      PROVE  Dead' \/ (stray' \/ Readable')
  <2>1. /\ Moves("service", "update") /\ loc'["service"].current = loc["service"].current
        /\ loc'["service"].want \in Versions
    BY <1>7, ServiceHolding
  <2> QED
    BY <1>7, <2>1 DEF PollSucceeds, Disturb
<1>8. CASE NoUpdate
  BY <1>8, RunOverMoves DEF NoUpdate
<1>9. ASSUME NEW copy \in {"server", "origin"}, Run(copy)
      PROVE  Dead' \/ (stray' \/ Readable')
  <2>1. /\ Moves("service", "manifest") /\ loc'["service"].current = loc["service"].current
        /\ loc'["service"].want = loc["service"].want
    BY <1>9, ServiceHolding
  <2> QED
    BY <1>9, <2>1 DEF Run
<1>10. CASE Leave
  <2>1. Moves("service", Down)
    BY <1>10, EndsMoves DEF Leave
  <2>2. /\ loc["service"].current \in Nat /\ loc["service"].want \in Nat
        /\ Wanted(loc["service"].current, loc["service"].want) /\ exe = loc["service"].want
    BY <1>10 DEF Leave
  <2>3. Fits(loc["service"].current, exe)
    BY <2>2
  <2> HIDE DEF Fits
  <2> QED
    BY <1>10, <2>1, <2>3 DEF Leave, Disturb
<1>11. ASSUME NEW v \in Versions, RunByHand(v) PROVE Dead' \/ (stray' \/ Readable')
  <2>1. Moves("hand", "manifest") /\ loc'["hand"].current = exe /\ loc'["hand"].want = v
    BY <1>11, HandHolding DEF RunByHand, ByHand
  <2> QED
    BY <1>11, <2>1 DEF RunByHand, ByHand, Disturb
<1>12. CASE RevertByHand
  <2>1. Moves("hand", "restore_config") /\ loc'["hand"].undo = OnRecord
    BY <1>12, HandHolding DEF OnRecord
  <2> QED
    BY <1>12, <2>1 DEF RevertByHand, ByHand, Disturb
<1>13. ASSUME NEW a \in Actors, FetchIsSlow(a) PROVE Dead' \/ (stray' \/ Readable')
  <2>1. Moves(a, pc[a]) /\ SameUpdate(a)
    BY <1>13, Holding
  <2> QED
    BY <1>13, <2>1 DEF FetchIsSlow
<1>14. ASSUME NEW a \in Actors, Crash(a) PROVE Dead' \/ (stray' \/ Readable')
  BY <1>14, EndsMoves DEF Crash, Disturb
<1>15. ASSUME NEW a \in Actors, CopyRefused(a) PROVE Dead' \/ (stray' \/ Readable')
  <2>1. \/ Moves(a, "manifest") /\ SameUpdate(a)
        \/ Moves(a, IF a = "service" THEN "loop" ELSE Down) /\ KeepsCurrent(a)
    BY <1>15, NextCopyMoves DEF CopyRefused
  <2> QED
    BY <1>15, <2>1 DEF CopyRefused
<1>16. ASSUME NEW a \in Actors, NEW s \in 1..MaxSequence, NEW read \in BOOLEAN,
             CopyVerified(a, s, read)
      PROVE  Dead' \/ (stray' \/ Readable')
  <2>1. Moves(a, "save_sequence") /\ SameUpdate(a)
    BY <1>16, Holding
  <2> QED
    BY <1>16, <2>1 DEF CopyVerified, Disturb
<1>17. ASSUME NEW a \in Actors, NEW found \in BOOLEAN, NEW read \in BOOLEAN,
             SaveSequence(a, found, read)
      PROVE  Dead' \/ (stray' \/ Readable')
  <2>1. \/ Moves(a, "stage") /\ loc' = loc
        \/ Moves(a, "manifest") /\ SameUpdate(a)
        \/ Moves(a, IF a = "service" THEN "loop" ELSE Down) /\ KeepsCurrent(a)
    BY <1>17, GotoMoves, NextCopyMoves DEF SaveSequence, Steps, RunSteps
  <2> QED
    BY <1>17, <2>1 DEF SaveSequence, Disturb
<1>18. ASSUME NEW a \in Actors, SaveSequenceFails(a) PROVE Dead' \/ (stray' \/ Readable')
  BY <1>18, RunOverMoves DEF SaveSequenceFails, Disturb
<1>19. ASSUME NEW a \in Actors, FetchArtifact(a) PROVE Dead' \/ (stray' \/ Readable')
  BY <1>19, RunOverMoves, GotoMoves DEF FetchArtifact
<1>20. ASSUME NEW a \in Actors, KeepConfig(a) PROVE Dead' \/ (stray' \/ Readable')
  <2>1. /\ exe = loc[a].current /\ exe # None
    BY <1>20 DEF KeepConfig
  <2>2. /\ OthersStay(a) /\ (loc'[a].current = loc[a].current \/ pc'[a] = Down)
        /\ pc'[a] \in {"record", "loop", Down}
    BY <1>20, RunOverMoves, GotoMoves DEF KeepConfig
  <2>3. /\ UNCHANGED <<exe, prev, config, probation, swapped>>
        /\ configPrev' = config \/ (configPrev' = configPrev /\ pc'[a] # "record")
        /\ stray' = (stray \/ (configPrev' # configPrev /\ probation # NoRecord))
    BY <1>20, <2>2, RunOverMoves DEF KeepConfig
  <2> HIDE DEF Fits, Wanted
  <2>4. \A b \in Actors : pc'[b] # Down => b = a
    BY <1>20, <2>2 DEF KeepConfig
  <2>5. config # None
    BY Constants DEF Typed, TypeOK
  <2>6. CASE stray \/ (configPrev' # configPrev /\ probation # NoRecord)
    BY <2>3, <2>6
  <2>7. CASE ~(stray \/ (configPrev' # configPrev /\ probation # NoRecord))
    BY <2>1, <2>2, <2>3, <2>7, <2>4, <2>5
  <2> QED
    BY <2>6, <2>7
<1>21. ASSUME NEW a \in Actors, Record(a) PROVE Dead' \/ (stray' \/ Readable')
  <2>1. Moves(a, "forget") /\ loc' = loc
    BY <1>21, GotoMoves DEF Record, Steps, RunSteps
  <2> QED
    BY <1>21, <2>1 DEF Record, RecordOf
<1>22. ASSUME NEW a \in Actors, NEW written \in BOOLEAN, RecordFails(a, written)
      PROVE  Dead' \/ (stray' \/ Readable')
  <2>1. Moves(a, IF a = "service" THEN "loop" ELSE Down) /\ KeepsCurrent(a)
    BY <1>22, RunOverMoves DEF RecordFails
  <2> QED
    BY <1>22, <2>1 DEF RecordFails, RecordOf, Disturb
<1>23. ASSUME NEW a \in Actors, Forget(a) PROVE Dead' \/ (stray' \/ Readable')
  BY <1>23, GotoMoves DEF Forget
<1>24. ASSUME NEW a \in Actors, Aside(a) PROVE Dead' \/ (stray' \/ Readable')
  BY <1>24, GotoMoves DEF Aside
<1>25. ASSUME NEW a \in Actors, AsideFails(a) PROVE Dead' \/ (stray' \/ Readable')
  BY <1>25, GotoMoves DEF AsideFails, Disturb
<1>26. ASSUME NEW a \in Actors, Install(a) PROVE Dead' \/ (stray' \/ Readable')
  <2>1. /\ pc'[a] \in {"leave", Down} /\ OthersStay(a)
    BY <1>26, EndsMoves, GotoMoves DEF Install
  <2>2. /\ exe' = loc[a].want /\ swapped' /\ UNCHANGED <<prev, config, configPrev, probation, stray>>
    BY <1>26 DEF Install
  <2>3. /\ loc[a].current \in Nat /\ loc[a].want \in Nat
        /\ Wanted(loc[a].current, loc[a].want)
        /\ probation # NoRecord /\ probation.to = loc[a].want
        /\ stray \/ (Fits(config, loc[a].current) /\ configPrev # None)
    BY <1>26 DEF Install
  <2>4. stray \/ Fits(config, loc[a].want)
    BY <2>3
  <2> HIDE DEF Fits, Wanted
  <2>5. \A b \in Actors : pc'[b] # Down => b = a
    BY <1>26, <2>1 DEF Install
  <2> QED
    BY <2>1, <2>2, <2>3, <2>4, <2>5
<1>27. ASSUME NEW a \in Actors, NEW back \in BOOLEAN, InstallFails(a, back)
      PROVE  Dead' \/ (stray' \/ Readable')
  BY <1>27, GotoMoves DEF InstallFails, Disturb
<1>28. ASSUME NEW a \in Actors, Unrecord(a) PROVE Dead' \/ (stray' \/ Readable')
  BY <1>28, RunOverMoves DEF Unrecord, Disturb
<1>29. ASSUME NEW a \in Actors, RestoreConfig(a) PROVE Dead' \/ (stray' \/ Readable')
  <2>1. /\ pc'[a] \in {"set_bad", "poll", Down} /\ OthersStay(a)
    BY <1>29, RevertOverMoves, GotoMoves DEF RestoreConfig
  <2>2. /\ UNCHANGED <<exe, prev, configPrev, probation, swapped, stray>>
        /\ \/ config' = config /\ (pc'[a] # "set_bad" \/ configPrev = None)
           \/ config' = configPrev /\ configPrev # None
    BY <1>29, <2>1, RevertOverMoves DEF RestoreConfig
  <2>3. probation \in Probation /\ probation # NoRecord /\ prev # None
    BY <1>29 DEF RestoreConfig
  <2>4. probation.from \in Nat /\ probation.to \in Nat
    BY <2>3 DEF Probation
  <2>5. ASSUME ~stray, configPrev # None, exe # None PROVE Fits(configPrev, exe)
    <3>1. Fits(configPrev, probation.from) /\ Wanted(probation.from, probation.to)
      BY <2>3, <2>5
    <3>2. Fits(configPrev, probation.to)
      BY <3>1, <2>4, <2>5
    <3>3. exe \in {probation.from, probation.to}
      BY <2>3, <2>5
    <3> QED
      BY <3>1, <3>2, <3>3
  <2>6. \A b \in Actors : pc'[b] # Down => b = a
    BY <1>29, <2>1 DEF RestoreConfig
  <2>7. ASSUME ~stray, swapped PROVE configPrev # None /\ Fits(configPrev, probation.from)
    BY <2>3, <2>7
  <2> HIDE DEF Fits, Wanted
  <2> QED
    BY <2>1, <2>2, <2>3, <2>5, <2>7, <2>6
<1>30. ASSUME NEW a \in Actors, SetBad(a) PROVE Dead' \/ (stray' \/ Readable')
  BY <1>30, GotoMoves DEF SetBad
<1>31. ASSUME NEW a \in Actors, SetBadFails(a) PROVE Dead' \/ (stray' \/ Readable')
  BY <1>31, RevertOverMoves DEF SetBadFails, Disturb
<1>32. ASSUME NEW a \in Actors, Restore(a) PROVE Dead' \/ (stray' \/ Readable')
  <2>1. pc'[a] = "unarm" /\ OthersStay(a)
    BY <1>32, GotoMoves DEF Restore
  <2>2. CASE swapped /\ ~stray
    <3>1. prev = probation.from /\ Fits(config, prev) /\ probation # NoRecord
      BY <1>32, <2>2 DEF Restore
    <3> HIDE DEF Fits, Wanted
    <3> QED
      BY <1>32, <2>1, <2>2, <3>1 DEF Restore
  <2>3. CASE ~swapped \/ stray
    BY <1>32, <2>3 DEF Restore
  <2> QED
    BY <2>2, <2>3
<1>33. ASSUME NEW a \in Actors, NEW back \in BOOLEAN, RestoreFails(a, back)
      PROVE  Dead' \/ (stray' \/ Readable')
  BY <1>33, RevertOverMoves DEF RestoreFails, Disturb
<1>34. ASSUME NEW a \in Actors, Unarm(a) PROVE Dead' \/ (stray' \/ Readable')
  BY <1>34, GotoMoves DEF Unarm, Disturb
<1>35. ASSUME NEW a \in Actors, WriteNote(a) PROVE Dead' \/ (stray' \/ Readable')
  BY <1>35, EndsMoves DEF WriteNote, Disturb
<1> HIDE DEF Actors, Moves, OthersStay, KeepsCurrent, SameUpdate, At, Steps, Down,
   RunSteps, RevertSteps, Alone, procs, files, history, ByHand, Decided, Placed, Recorded,
   Readable, Dead, Sound, Running, Wanted, OnRecord, RecordOf, Fits
<1> QED
  BY Both, <1>1, <1>2, <1>3, <1>4, <1>5, <1>6, <1>7, <1>8, <1>9, <1>10, <1>11, <1>12,
     <1>13, <1>14, <1>15, <1>16, <1>17, <1>18, <1>19, <1>20, <1>21, <1>22, <1>23, <1>24,
     <1>25, <1>26, <1>27, <1>28, <1>29, <1>30, <1>31, <1>32, <1>33, <1>34, <1>35
     DEF Next, Environment, Service, Loop, Update, Revert

-----------------------------------------------------------------------------
LEMMA TypesInit == Init => Typed
<1> SUFFICES ASSUME Init PROVE Typed
  OBVIOUS
<1>1. pc["service"] = "loop" /\ pc["hand"] = Down /\ loc["service"].current = 1
  BY DEF Init, Actors, NoLocals
<1>2. pc \in [Actors -> Steps]
  BY DEF Init, Steps, Down
<1>3. NoLocals \in Locals /\ [NoLocals EXCEPT !.current = 1] \in Locals
  BY Constants DEF NoLocals, NoNote, Locals
<1>4. loc \in [Actors -> Locals]
  BY <1>3 DEF Init
<1>5. TypeOK
  BY <1>2, <1>4, Constants DEF Init, TypeOK, NoRecord, NoNote
<1>6. Running
  BY <1>1, Constants DEF Running, Actors, Down, RunSteps, RevertSteps
<1> QED
  BY <1>5, <1>6 DEF Typed

LEMMA TypesKept == Typed /\ [Next]_vars => Typed'
<1>1. ASSUME Typed, Next PROVE Typed'
  BY <1>1, TypeOKStep, RunningStep DEF Typed
<1>2. ASSUME Typed, UNCHANGED vars PROVE Typed'
  BY <1>2 DEF Typed, TypeOK, Running, vars, files, procs, history
<1> QED
  BY <1>1, <1>2

\* Every variable has its type.
THEOREM TypeCorrect == Spec => []TypeOK
<1>1. Typed => TypeOK
  BY DEF Typed
<1> QED
  BY <1>1, TypesInit, TypesKept, PTL DEF Spec

\* There is a binary at the agent's path, except between two renames or after a
\* fault between them; whoever runs beside the service.
THEOREM AlwaysInPlace == Spec => []BinaryInPlace
<1>1. Init => BinaryInPlace
  BY DEF Init, BinaryInPlace, None
<1>2. Typed /\ BinaryInPlace /\ [Next]_vars => BinaryInPlace'
  <2>1. ASSUME Typed, BinaryInPlace, UNCHANGED vars PROVE BinaryInPlace'
    BY <2>1 DEF BinaryInPlace, vars, files, procs, history
  <2> QED
    BY <2>1, InPlaceStep
<1> QED
  BY <1>1, <1>2, TypesInit, TypesKept, PTL DEF Spec

-----------------------------------------------------------------------------
LEMMA InvInit == Init => IInv
<1> SUFFICES ASSUME Init PROVE IInv
  OBVIOUS
<1>1. Typed
  BY TypesInit
<1>3. /\ exe = 1 /\ prev = None /\ probation = NoRecord /\ config = 1 /\ proven = {1}
      /\ \A a \in Actors : pc[a] \in {"loop", Down}
      /\ pc["hand"] = Down /\ loc["service"].current = 1
  BY DEF Init, NoLocals, Actors
<1>2. Alone /\ Sequenced
  BY <1>3 DEF Init, Alone, Sequenced, Down, RunSteps
<1>4. Placed
  BY <1>3 DEF Placed, Actors, RunSteps, Down
<1>5. Decided
  BY <1>3 DEF Decided, RunSteps, Down
<1>6. Recorded
  BY <1>3 DEF Recorded, Trusted, Down
<1>7. Readable
  BY <1>3 DEF Readable, Fits, Down
<1> QED
  BY <1>1, <1>2, <1>4, <1>5, <1>6, <1>7 DEF IInv, Sound

LEMMA InvKept == HandStopsService => (IInv /\ [Next]_vars => IInv')
<1> SUFFICES ASSUME HandStopsService, IInv, [Next]_vars PROVE IInv'
  OBVIOUS
<1>1. CASE Next
  <2>1. Typed' /\ Alone' /\ Sequenced'
    BY <1>1, TypesKept, AloneStep, SequencedStep DEF IInv
  <2>2. CASE Dead
    BY <1>1, <2>1, <2>2, DeadStep DEF IInv
  <2>3. CASE Sound
    <3>1. Dead' \/ Placed'
      BY <1>1, <2>3, Placing DEF IInv
    <3>2. Dead' \/ Decided'
      BY <1>1, <2>3, Deciding DEF IInv
    <3>3. Dead' \/ Recorded'
      BY <1>1, <2>3, Recording DEF IInv
    <3>4. Dead' \/ (stray' \/ Readable')
      BY <1>1, <2>3, Reading DEF IInv
    <3> QED
      BY <2>1, <3>1, <3>2, <3>3, <3>4 DEF IInv, Sound
  <2> QED
    BY <2>2, <2>3 DEF IInv
<1>2. CASE UNCHANGED vars
  <2>1. Typed'
    BY <1>2, TypesKept DEF IInv
  <2>2. Alone' /\ Sequenced'
    BY <1>2 DEF IInv, Alone, Sequenced, vars, files, procs, history
  <2>3. Dead => Dead'
    BY <1>2 DEF Dead, vars, files, procs
  <2>4. Placed => Placed'
    BY <1>2 DEF Placed, vars, files, procs
  <2>5. Decided => Decided'
    BY <1>2 DEF Decided, Trusted, OnRecord, vars, files, procs, history
  <2>6. Recorded => Recorded'
    BY <1>2 DEF Recorded, Trusted, OnProbation, vars, files, procs, history
  <2>7. stray \/ Readable => stray' \/ Readable'
    BY <1>2 DEF Readable, Fits, vars, files, procs, history
  <2> QED
    BY <2>1, <2>2, <2>3, <2>4, <2>5, <2>6, <2>7 DEF IInv, Sound
<1> QED
  BY <1>1, <1>2

LEMMA Invariance == HandStopsService => (Spec => []IInv)
<1> SUFFICES ASSUME HandStopsService PROVE Spec => []IInv
  OBVIOUS
<1>1. IInv /\ [Next]_vars => IInv'
  BY InvKept
<1> QED
  BY <1>1, InvInit, PTL DEF Spec

\* An installed binary that never completed a poll is on probation, with the
\* proven binary it replaced beside it, unless a command made it so.
THEOREM UnprovenHasWayBack == HandStopsService => (Spec => []WayBack)
<1> SUFFICES ASSUME HandStopsService PROVE Spec => []WayBack
  OBVIOUS
<1>1. ASSUME IInv PROVE WayBack
  <2> SUFFICES ASSUME exe \in Versions \ proven, ~blind
               PROVE  /\ probation # NoRecord /\ probation.to = exe
                      /\ prev = probation.from /\ prev \in proven
    BY DEF WayBack
  <2>1. exe # None /\ Recorded
    BY <1>1, Constants DEF IInv, Dead, Sound
  <2>2. OnProbation(exe)
    BY <2>1 DEF Recorded, Trusted
  <2>3. prev # None
    BY <1>1, <2>2, Constants DEF IInv, Typed, TypeOK, OnProbation, Probation
  <2> QED
    BY <2>1, <2>2, <2>3 DEF Recorded, Trusted, OnProbation
<1> QED
  BY <1>1, Invariance, PTL

\* The installed binary can read config.json, whatever was updated, reverted or
\* cut short, unless a record met the config or the binary of another update.
THEOREM ConfigStaysReadable == HandStopsService => (Spec => []ConfigReadable)
<1> SUFFICES ASSUME HandStopsService PROVE Spec => []ConfigReadable
  OBVIOUS
<1>1. ASSUME IInv PROVE ConfigReadable
  BY <1>1 DEF IInv, Dead, Sound, Readable, Fits, ConfigReadable
<1> QED
  BY <1>1, Invariance, PTL

\* No update is armed on a manifest older than one accepted before, until a floor
\* that cannot be read lets one pass, and again once one as new has been accepted.
THEOREM NothingReplayed == HandStopsService => (Spec => NoReplay)
<1> SUFFICES ASSUME HandStopsService PROVE Spec => NoReplay
  OBVIOUS
<1> DEFINE Newer == probation' \notin {probation, NoRecord} /\ probation'.due = probation.due
                      => probation'.sequence >= seen \/ misread
<1>1. ASSUME IInv, Next PROVE Newer
  <2> SUFFICES ASSUME probation' \notin {probation, NoRecord}, probation'.due = probation.due,
                      ~misread
               PROVE  probation'.sequence >= seen
    OBVIOUS
  <2>1. PICK a \in Actors : At(a, "record") /\ probation' = RecordOf(a)
    <3>1. ~DeadlinePasses
      <4> SUFFICES ASSUME DeadlinePasses PROVE FALSE
        OBVIOUS
      <4>1. probation \in Probation /\ probation' = [probation EXCEPT !.due = TRUE]
        BY <1>1 DEF IInv, Typed, TypeOK, DeadlinePasses
      <4>2. probation.due
        BY <4>1 DEF Probation
      <4> QED
        BY <4>1, <4>2 DEF Probation
    <3> QED
      BY <1>1, <3>1, Both DEF Next, Environment, Service, Loop, Update, Revert, Start,
         ProbationNotDue, ProbationDue, RevertImpossible, PollFails, PollSucceeds, NoUpdate,
         Run, Leave, RunByHand, RevertByHand, FetchIsSlow, Crash, CopyRefused, CopyVerified,
         SaveSequence, SaveSequenceFails, FetchArtifact, KeepConfig, Record, RecordFails,
         Forget, Aside, AsideFails, Install, InstallFails, Unrecord, RestoreConfig, SetBad,
         SetBadFails, Restore, RestoreFails, Unarm, WriteNote, files, history
  <2>2. seen <= floor /\ loc[a].sequence >= floor
    BY <1>1, <2>1 DEF IInv, Sequenced, At, RunSteps
  <2>3. seen \in Nat /\ floor \in Nat /\ loc[a].sequence \in Nat
    BY <1>1, Constants DEF IInv, Typed, TypeOK, Locals
  <2>4. probation'.sequence = loc[a].sequence
    BY <2>1 DEF RecordOf
  <2> QED
    BY <2>2, <2>3, <2>4
<1>2. IInv /\ [Next]_vars => [Newer]_vars
  BY <1>1
<1> QED
  BY <1>2, Invariance, PTL DEF NoReplay, Spec

\* A revert takes back exactly the update that was made.
THEOREM RevertTakesBack == HandStopsService => (Spec => RevertUndoesUpdate)
<1> SUFFICES ASSUME HandStopsService PROVE Spec => RevertUndoesUpdate
  OBVIOUS
<1> DEFINE Undoes == \A a \in Actors : Restore(a) /\ swapped =>
                        bad = loc[a].undo.to /\ exe' = loc[a].undo.from
<1>1. ASSUME IInv PROVE Undoes
  <2> SUFFICES ASSUME NEW a \in Actors, Restore(a), swapped
               PROVE  bad = loc[a].undo.to /\ exe' = loc[a].undo.from
    OBVIOUS
  <2>1. pc[a] = "restore" /\ prev # None /\ exe' = prev
    BY DEF Restore, At
  <2>2. Placed /\ Decided /\ Recorded
    BY <1>1, <2>1 DEF IInv, Dead, Sound
  <2>3. loc[a].undo = OnRecord /\ probation # NoRecord
    BY <2>1, <2>2 DEF Decided
  <2> QED
    BY <2>1, <2>2, <2>3 DEF Recorded, OnRecord
<1>2. IInv /\ [Next]_vars => [Undoes]_vars
  BY <1>1
<1> QED
  BY <1>2, Invariance, PTL DEF RevertUndoesUpdate, Spec

-----------------------------------------------------------------------------
\* What the faults are needed for.  Where a rename works and nothing stops a
\* process, no binary is ever lost; where nobody updates by hand, none is given
\* up for an unproven one.

Whole == ~torn

LEMMA WholeStep ==
    ASSUME HandStopsService, Disturbances \cap {"crash", "rename"} = {}
    PROVE  IInv /\ BinaryInPlace /\ Whole /\ [Next]_vars => Whole'
<1> SUFFICES ASSUME IInv, BinaryInPlace, Whole, [Next]_vars PROVE Whole'
  OBVIOUS
<1> USE DEF Whole
<1>1. ASSUME NEW a \in Actors, NEW back \in BOOLEAN, InstallFails(a, back) PROVE Whole'
  BY <1>1 DEF InstallFails, Disturb
<1>2. ASSUME NEW a \in Actors, Crash(a) PROVE Whole'
  BY <1>2 DEF Crash, Disturb
<1>3. ASSUME NEW a \in Actors, NEW back \in BOOLEAN, RestoreFails(a, back) PROVE Whole'
  <2>1. pc[a] = "restore" /\ (prev = None \/ Disturb("rename"))
    BY <1>3 DEF RestoreFails, At
  <2>2. Placed /\ Decided /\ Recorded
    BY <1>3, <2>1 DEF IInv, Dead, Sound
  <2>3. prev # None
    BY <2>1, <2>2 DEF Decided
  <2> QED
    BY <2>1, <2>3 DEF Disturb
<1>4. CASE Service \/ Update("hand") \/ Revert("hand")
  <2>1. CASE \E a \in Actors, back \in BOOLEAN : InstallFails(a, back) \/ RestoreFails(a, back)
    BY <1>1, <1>3, <2>1
  <2>2. CASE ~\E a \in Actors, back \in BOOLEAN : InstallFails(a, back) \/ RestoreFails(a, back)
    BY <1>4, <2>2, Both DEF Service, Loop, Update, Revert, Start, ProbationNotDue, ProbationDue,
       RevertImpossible, PollFails, PollSucceeds, NoUpdate, Run, Leave, CopyRefused, CopyVerified,
       SaveSequence, SaveSequenceFails, FetchArtifact, KeepConfig, Record, RecordFails, Forget,
       Aside, AsideFails, Install, Unrecord, RestoreConfig, SetBad, SetBadFails, Restore, Unarm,
       WriteNote, history
  <2> QED
    BY <2>1, <2>2
<1>5. CASE Environment \/ DeadlinePasses \/ RevertByHand \/ UNCHANGED vars
  BY <1>2, <1>5 DEF Environment, RunByHand, FetchIsSlow, DeadlinePasses, RevertByHand, history,
     vars
<1> QED
  BY <1>4, <1>5 DEF Next

\* Where a command waits for a stopped service, renames work and nothing is killed,
\* the agent's path is empty only between the two renames of a swap or a revert
\* (update.go, swap and Revert): every way out of them puts a binary there.
THEOREM NeverWithoutBinary ==
    ASSUME HandStopsService, Disturbances \cap {"crash", "rename"} = {}
    PROVE  Spec => [](exe = None => \E a \in Actors : pc[a] \in {"install", "restore"})
<1>1. Init => Whole
  BY DEF Init, Whole
<1>2. IInv /\ BinaryInPlace /\ Whole /\ [Next]_vars => Whole'
  BY WholeStep
<1>3. BinaryInPlace /\ Whole => (exe = None => \E a \in Actors : pc[a] \in {"install", "restore"})
  BY DEF BinaryInPlace, Whole
<1>4. Spec => []IInv
  BY Invariance
<1> QED
  BY <1>1, <1>2, <1>3, <1>4, AlwaysInPlace, PTL DEF Spec

Seeing == ~blind

\* Where nobody runs `fog-agent update`, the service alone never leaves an
\* unproven binary in place without its probation and the proven one beside it.
THEOREM ServiceKeepsWayBack ==
    ASSUME HandStopsService, "update" \notin HandCommands
    PROVE  Spec => [](exe \in Versions \ proven =>
                         probation # NoRecord /\ probation.to = exe
                            /\ prev = probation.from /\ prev \in proven)
<1>1. Init => Seeing
  BY DEF Init, Seeing
<1>2. Seeing /\ [Next]_vars => Seeing'
  BY Both DEF Seeing, Next, Environment, Service, Loop, Update, Revert, Start,
     ProbationNotDue, ProbationDue, RevertImpossible, PollFails, PollSucceeds, NoUpdate,
     Run, Leave, RunByHand, RevertByHand, ByHand, FetchIsSlow, Crash, CopyRefused, CopyVerified,
     SaveSequence, SaveSequenceFails, FetchArtifact, KeepConfig, Record, RecordFails,
     Forget, Aside, AsideFails, Install, InstallFails, Unrecord, RestoreConfig, SetBad,
     SetBadFails, Restore, RestoreFails, Unarm, WriteNote, DeadlinePasses, history, vars
<1>3. WayBack /\ Seeing => (exe \in Versions \ proven =>
                         probation # NoRecord /\ probation.to = exe
                            /\ prev = probation.from /\ prev \in proven)
  BY DEF WayBack, Seeing
<1>4. Spec => []WayBack
  BY UnprovenHasWayBack
<1> QED
  BY <1>1, <1>2, <1>3, <1>4, PTL DEF Spec

Heeded == ~misread

LEMMA HeededStep ==
    ASSUME "read" \notin Disturbances
    PROVE  IInv /\ Heeded /\ [Next]_vars => Heeded'
<1> SUFFICES ASSUME IInv, Heeded, [Next]_vars PROVE Heeded'
  OBVIOUS
<1> USE DEF Heeded
<1>1. ASSUME NEW a \in Actors, NEW s \in 1..MaxSequence, NEW read \in BOOLEAN,
             CopyVerified(a, s, read)
      PROVE  Heeded'
  <2>1. s >= floor /\ floor \in Nat
    BY <1>1, Constants DEF CopyVerified, Disturb, IInv, Typed, TypeOK
  <2>2. ~(s < floor)
    BY <2>1, Constants
  <2> QED
    BY <1>1, <2>2 DEF CopyVerified
<1>2. ASSUME NEW a \in Actors, Update(a) PROVE Heeded'
  <2>1. CASE \E s \in 1..MaxSequence, read \in BOOLEAN : CopyVerified(a, s, read)
    BY <1>1, <2>1
  <2>2. CASE ~\E s \in 1..MaxSequence, read \in BOOLEAN : CopyVerified(a, s, read)
    BY <1>2, <2>2 DEF Update, CopyRefused, SaveSequence, SaveSequenceFails, FetchArtifact,
       KeepConfig, Record, RecordFails, Forget, Aside, AsideFails, Install, InstallFails,
       Unrecord, history
  <2> QED
    BY <2>1, <2>2
<1>3. CASE ~\E a \in Actors : Update(a)
  BY <1>3, Both DEF Next, Environment, Service, Loop, Revert, Start, ProbationNotDue,
     ProbationDue, RevertImpossible, PollFails, PollSucceeds, NoUpdate, Run, Leave, RunByHand,
     RevertByHand, FetchIsSlow, Crash, RestoreConfig, SetBad, SetBadFails, Restore,
     RestoreFails, Unarm, WriteNote, DeadlinePasses, history, vars
<1> QED
  BY <1>2, <1>3

\* Where the file with the floor can always be read, no update is ever armed on a
\* manifest older than one accepted before (update.go, accept), crashes and writes
\* that fail included.
THEOREM NoReplayWhereFloorRead ==
    ASSUME HandStopsService, "read" \notin Disturbances
    PROVE  Spec => [][probation' \notin {probation, NoRecord} /\ probation'.due = probation.due
                        => probation'.sequence >= seen]_vars
<1> DEFINE Armed == probation' \notin {probation, NoRecord} /\ probation'.due = probation.due
           Newer == Armed => probation'.sequence >= seen
           NewerUnless == Armed => probation'.sequence >= seen \/ misread
<1>1. Init => Heeded
  BY DEF Init, Heeded
<1>2. IInv /\ Heeded /\ [Next]_vars => Heeded'
  BY HeededStep
<1>3. Heeded /\ [NewerUnless]_vars => [Newer]_vars
  BY DEF Heeded
<1>4. Spec => [][NewerUnless]_vars
  BY NothingReplayed DEF NoReplay
<1> HIDE DEF Newer, NewerUnless
<1>5. Spec => [][Newer]_vars
  BY <1>1, <1>2, <1>3, <1>4, Invariance, PTL DEF Spec
<1> QED
  BY <1>5 DEF Newer

==============================================================================
