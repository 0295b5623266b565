------------------------ MODULE DirectoryRejoinProofs ------------------------
(***************************************************************************)
(* Proofs about DirectoryRejoin, for any number of agents, plans, boots    *)
(* and identities.  The invariant is built in five layers, each resting on *)
(* the ones before it:                                                     *)
(*   Typed       types, and what a process's copy of the marker says at    *)
(*               each of its lines;                                        *)
(*   Owned       one process at most carries out an operation, it starts   *)
(*               once, and what ran was claimed from the server;           *)
(*   Remembered  the marker is latched while the native call may run, so   *)
(*               no change of the membership is forgotten;                 *)
(*   Sound       what awaits a restart is over, what is verified has seen  *)
(*               the restart; and Once, on top of it: one coordinator at   *)
(*               most holds the claim of a restart that nobody asked for;  *)
(*   Latching    what is not claimed was not restarted for, so every step  *)
(*               is one of the abstract RejoinLatch.                       *)
(* Steps are first described by what they do to one group of variables     *)
(* (OperationSteps, MarkerSteps, RestartSteps), one action at a time; the  *)
(* layers are then proved from those few descriptions.                     *)
(***************************************************************************)
EXTENDS DirectoryRejoin, TLAPS

\* Lines between a successful start and the end of the operation.
Holders == {"latch", "name", "native", "failed", "done"}
\* Lines between the claim of the restart and its outcome.
Restarting == {"taken", "request", "refused", "unsaved"}

\* What a process at line l, in boot b, knows of its copy a of the marker.
CopyOK(l, a, b) ==
    /\ l \in {"off", "idle", "answered"} => a = NoMarker
    /\ l \notin {"off", "idle", "answered", "planned", "rotate"} => a \in Attempts
    /\ l \in {"claim", "latch"} => a.phase = "reserved" /\ a.before = b
    /\ l \in {"name", "native", "failed", "done"} => a.phase = "may_have_run" /\ a.before = b
    /\ l = "lost" => a.phase \in {"reserved", "may_have_run"}
    /\ l \in {"record", "prove", "restart"} \union Restarting => a.phase = "awaiting_reboot"
    /\ l = "prove" => a.before # b

\* For every process.
Copies == \A p \in Procs : CopyOK(pc[p], at[p], boot)

\* The first layer.
Typed == TypeOK /\ Copies

\* Records stay opaque in the proofs below: these are the facts about them.
LEMMA Fields ==
    /\ NoMarker.id = 0 /\ NoMarker.phase = "none"
    /\ Torn.id = 0 /\ Torn.phase = "unreadable"
    /\ NoMarker # Torn
    /\ NoPlan.id = 0 /\ NoPlan.phase = "none"
    /\ 0 \notin Ids
    /\ \A a \in Attempts : /\ a.id \in Ids /\ a.key \in Keys /\ a.phase \in Phases
                            /\ a.before \in Boots /\ a.asked \in BOOLEAN
    /\ \A p \in Plans : p.id \in Ids /\ p.phase \in {"ready", "claimed", "verified"}
    /\ "none" \notin Phases /\ "unreadable" \notin Phases
  BY DEF NoMarker, Torn, NoPlan, Ids, Attempts, Plans, Phases

\* Another phase changes nothing else of an attempt.
LEMMA AsAttempt ==
  ASSUME NEW a \in Attempts, NEW ph \in Phases
  PROVE  /\ As(a, ph) \in Attempts
         /\ As(a, ph).phase = ph
         /\ As(a, ph).id = a.id /\ As(a, ph).key = a.key
         /\ As(a, ph).before = a.before /\ As(a, ph).asked = a.asked
  BY DEF As, Attempts

\* Claiming or releasing the restart changes nothing else of an attempt.
LEMMA AskedAttempt ==
  ASSUME NEW a \in Attempts, NEW b \in BOOLEAN
  PROVE  /\ [a EXCEPT !.asked = b] \in Attempts
         /\ [a EXCEPT !.asked = b].asked = b
         /\ [a EXCEPT !.asked = b].phase = a.phase
         /\ [a EXCEPT !.asked = b].id = a.id
         /\ [a EXCEPT !.asked = b].key = a.key
         /\ [a EXCEPT !.asked = b].before = a.before
  BY DEF Attempts

\* The server answers with a plan or with none.
LEMMA AnswersTyped == ServerOK => Answers \subseteq Plans \union {NoPlan}
  BY RejoinConstants DEF ServerOK, Answers, PlanPhase, Plans, Ids

\* A reservation is an attempt of this boot that asked for nothing yet.
LEMMA NewAttemptTyped ==
  ASSUME NEW p \in Procs, DiskOK, ProcsOK, plan[p].phase = "ready"
  PROVE  /\ NewAttempt(p) \in Attempts
         /\ NewAttempt(p).phase = "reserved" /\ NewAttempt(p).before = boot
         /\ NewAttempt(p).id = plan[p].id /\ NewAttempt(p).key = me[p]
         /\ NewAttempt(p).asked = FALSE
  BY Fields DEF DiskOK, ProcsOK, NewAttempt, Attempts, Phases

\* The first states are typed.
LEMMA TypedInit == Init => Typed
<1> SUFFICES ASSUME Init PROVE Typed
  OBVIOUS
<1> USE RejoinConstants DEF Init
<1>0. 1 \in Keys /\ 1 \in Boots
  BY DEF Keys, Boots
<1>1. DiskOK
  BY <1>0 DEF DiskOK
<1>2. ProcsOK
  BY DEF ProcsOK, Lines, Keys
<1>3. ServerOK
  BY DEF ServerOK, Ids
<1>4. HistoryOK
  BY DEF HistoryOK, Ids
<1>5. Copies
  BY DEF Copies, CopyOK, Restarting
<1>6. QED BY <1>1, <1>2, <1>3, <1>4, <1>5 DEF Typed, TypeOK

\* Every step keeps the types and what the copies say.
LEMMA TypedStep == Typed /\ [Next]_vars => Typed'
<1> SUFFICES ASSUME Typed, [Next]_vars PROVE Typed'
  OBVIOUS
<1> USE RejoinConstants DEF disk, procs, server, history, Goto, Hold
<1>a. DiskOK /\ ProcsOK /\ ServerOK /\ HistoryOK /\ Copies
  BY DEF Typed, TypeOK
<1>1. ASSUME NEW p \in Procs, Start(p) PROVE Typed'
  <2>1. ProcsOK'
    BY <1>1, <1>a, Fields, AsAttempt, AskedAttempt DEF ProcsOK, Lines, Keys, DiskOK,
       Phases, Copies, CopyOK, Restarting, Start
  <2>2. UNCHANGED <<marker, archived, key, cfg, boot, current, retry, claimed,
                    confirmed, runs, touched, restarts>>
    BY <1>1 DEF Start
  <2>3. ASSUME NEW q \in Procs PROVE CopyOK(pc'[q], at'[q], boot')
    BY <1>1, <1>a, Fields, AsAttempt, AskedAttempt DEF DiskOK, ProcsOK, Copies, CopyOK,
       Restarting, Phases, Start
  <2>4. QED BY <1>a, <2>1, <2>2, <2>3 DEF Typed, TypeOK, Copies, DiskOK, ServerOK,
     HistoryOK
<1>2. ASSUME NEW p \in Procs, Stop(p) PROVE Typed'
  <2>1. ProcsOK'
    BY <1>2, <1>a, Fields, AsAttempt, AskedAttempt DEF ProcsOK, Lines, Keys, DiskOK,
       Phases, Copies, CopyOK, Restarting, Stop, Return
  <2>2. UNCHANGED <<marker, archived, key, cfg, boot, current, retry, claimed,
                    confirmed, runs, touched, restarts>>
    BY <1>2 DEF Stop, Return
  <2>3. ASSUME NEW q \in Procs PROVE CopyOK(pc'[q], at'[q], boot')
    BY <1>2, <1>a, Fields, AsAttempt, AskedAttempt DEF DiskOK, ProcsOK, Copies, CopyOK,
       Restarting, Phases, Stop, Return
  <2>4. QED BY <1>a, <2>1, <2>2, <2>3 DEF Typed, TypeOK, Copies, DiskOK, ServerOK,
     HistoryOK
<1>3. ASSUME NEW p \in Procs, Crash(p) PROVE Typed'
  <2>1. ProcsOK'
    <3>1. pc' \in [Procs -> Lines]
      BY <1>3, <1>a DEF ProcsOK, Lines, Crash, Off
    <3>2. QED BY <1>3, <1>a, <3>1 DEF ProcsOK, Crash, Off
  <2>2. UNCHANGED <<marker, archived, key, cfg, boot, current, retry, claimed,
                    confirmed, runs, touched, restarts>>
    BY <1>3 DEF Crash, Off
  <2>3. ASSUME NEW q \in Procs PROVE CopyOK(pc'[q], at'[q], boot')
    BY <1>3, <1>a, Fields, AsAttempt, AskedAttempt DEF DiskOK, ProcsOK, Copies, CopyOK,
       Restarting, Phases, Crash, Off
  <2>4. QED BY <1>a, <2>1, <2>2, <2>3 DEF Typed, TypeOK, Copies, DiskOK, ServerOK,
     HistoryOK
<1>4. ASSUME NEW p \in Procs, SaveConfig(p) PROVE Typed'
  <2>1. DiskOK'
    BY <1>4, <1>a, Fields, AsAttempt, AskedAttempt DEF DiskOK, Ids, Keys, Boots,
       Phases, ProcsOK, Copies, CopyOK, Restarting, SaveConfig
  <2>2. UNCHANGED <<pc, me, plan, at, reason, current, retry, claimed, confirmed, runs,
                    touched, restarts>>
    BY <1>4 DEF SaveConfig
  <2>3. UNCHANGED <<pc, at, boot>>
    BY <1>4 DEF SaveConfig
  <2>4. QED BY <1>a, <2>1, <2>2, <2>3 DEF Typed, TypeOK, Copies, ProcsOK, ServerOK,
     HistoryOK
<1>5. ASSUME NEW p \in Procs, Poll(p) PROVE Typed'
  <2>1. ProcsOK'
    BY <1>5, <1>a, AnswersTyped, Fields, AsAttempt, AskedAttempt DEF ProcsOK, Lines,
       Keys, DiskOK, Phases, Copies, CopyOK, Restarting, Poll
  <2>2. UNCHANGED <<marker, archived, key, cfg, boot, current, retry, claimed,
                    confirmed, runs, touched, restarts>>
    BY <1>5 DEF Poll
  <2>3. ASSUME NEW q \in Procs PROVE CopyOK(pc'[q], at'[q], boot')
    BY <1>5, <1>a, Fields, AsAttempt, AskedAttempt DEF DiskOK, ProcsOK, Copies, CopyOK,
       Restarting, Phases, Poll
  <2>4. QED BY <1>a, <2>1, <2>2, <2>3 DEF Typed, TypeOK, Copies, DiskOK, ServerOK,
     HistoryOK
<1>6. ASSUME NEW p \in Procs, LoadAttempt(p) PROVE Typed'
  <2>1. ProcsOK'
    BY <1>6, <1>a, Fields, AsAttempt, AskedAttempt DEF ProcsOK, Lines, Keys, DiskOK,
       Phases, Copies, CopyOK, Restarting, LoadAttempt
  <2>2. UNCHANGED <<marker, archived, key, cfg, boot, current, retry, claimed,
                    confirmed, runs, touched, restarts>>
    BY <1>6 DEF LoadAttempt
  <2>3. ASSUME NEW q \in Procs PROVE CopyOK(pc'[q], at'[q], boot')
    BY <1>6, <1>a, Fields, AsAttempt, AskedAttempt DEF DiskOK, ProcsOK, Copies, CopyOK,
       Restarting, Phases, LoadAttempt
  <2>4. QED BY <1>a, <2>1, <2>2, <2>3 DEF Typed, TypeOK, Copies, DiskOK, ServerOK,
     HistoryOK
<1>7. ASSUME NEW p \in Procs, Archive(p) PROVE Typed'
  <2>1. DiskOK'
    BY <1>7, <1>a, Fields, AsAttempt, AskedAttempt DEF DiskOK, Ids, Keys, Boots,
       Phases, ProcsOK, Copies, CopyOK, Restarting, Archive, ArchiveVerifiedAttempt,
       Retirable
  <2>2. ProcsOK'
    BY <1>7, <1>a, Fields, AsAttempt, AskedAttempt DEF ProcsOK, Lines, Keys, DiskOK,
       Phases, Copies, CopyOK, Restarting, Archive, ArchiveVerifiedAttempt, Retirable
  <2>3. UNCHANGED <<current, retry, claimed, confirmed, runs, touched, restarts>>
    BY <1>7 DEF Archive, ArchiveVerifiedAttempt, Retirable
  <2>4. ASSUME NEW q \in Procs PROVE CopyOK(pc'[q], at'[q], boot')
    BY <1>7, <1>a, Fields, AsAttempt, AskedAttempt DEF DiskOK, ProcsOK, Copies, CopyOK,
       Restarting, Phases, Archive, ArchiveVerifiedAttempt, Retirable
  <2>5. QED BY <1>a, <2>1, <2>2, <2>3, <2>4 DEF Typed, TypeOK, Copies, ServerOK,
     HistoryOK
<1>8. ASSUME NEW p \in Procs, RetryReserved(p) PROVE Typed'
  <2>1. DiskOK'
    BY <1>8, <1>a, Fields, AsAttempt, AskedAttempt DEF DiskOK, Ids, Keys, Boots,
       Phases, ProcsOK, Copies, CopyOK, Restarting, RetryReserved,
       RemoveAttemptForRetry, ValidateReservedRetry
  <2>2. ProcsOK'
    BY <1>8, <1>a, Fields, AsAttempt, AskedAttempt DEF ProcsOK, Lines, Keys, DiskOK,
       Phases, Copies, CopyOK, Restarting, RetryReserved, RemoveAttemptForRetry,
       ValidateReservedRetry
  <2>3. UNCHANGED <<current, retry, claimed, confirmed, runs, touched, restarts>>
    BY <1>8 DEF RetryReserved, RemoveAttemptForRetry, ValidateReservedRetry
  <2>4. ASSUME NEW q \in Procs PROVE CopyOK(pc'[q], at'[q], boot')
    BY <1>8, <1>a, Fields, AsAttempt, AskedAttempt DEF DiskOK, ProcsOK, Copies, CopyOK,
       Restarting, Phases, RetryReserved, RemoveAttemptForRetry, ValidateReservedRetry
  <2>5. QED BY <1>a, <2>1, <2>2, <2>3, <2>4 DEF Typed, TypeOK, Copies, ServerOK,
     HistoryOK
<1>9. ASSUME NEW p \in Procs, ReserveAttempt(p) PROVE Typed'
  <2>1. DiskOK'
    BY <1>9, <1>a, Fields, AsAttempt, AskedAttempt, NewAttemptTyped DEF DiskOK, Ids,
       Keys, Boots, Phases, ProcsOK, Copies, CopyOK, Restarting, ReserveAttempt,
       CanReserve
  <2>2. ProcsOK'
    BY <1>9, <1>a, Fields, AsAttempt, AskedAttempt, NewAttemptTyped DEF ProcsOK, Lines,
       Keys, DiskOK, Phases, Copies, CopyOK, Restarting, ReserveAttempt, CanReserve
  <2>3. UNCHANGED <<current, retry, claimed, confirmed, runs, touched, restarts>>
    BY <1>9 DEF ReserveAttempt, CanReserve, NewAttempt
  <2>4. ASSUME NEW q \in Procs PROVE CopyOK(pc'[q], at'[q], boot')
    <3>1. /\ at'[p] \in Attempts /\ at'[p].phase = "reserved" /\ at'[p].before = boot
          /\ pc'[p] = "claim" /\ boot' = boot
      BY <1>9, <1>a, NewAttemptTyped DEF ProcsOK, ReserveAttempt, CanReserve
    <3>2. q # p => pc'[q] = pc[q] /\ at'[q] = at[q]
      BY <1>9, <1>a DEF ProcsOK, ReserveAttempt
    <3>3. CASE q = p
      BY <3>1, <3>3 DEF CopyOK, Restarting
    <3>4. CASE q # p
      BY <1>a, <3>1, <3>2, <3>4 DEF Copies
    <3>5. QED BY <3>3, <3>4
  <2>5. QED BY <1>a, <2>1, <2>2, <2>3, <2>4 DEF Typed, TypeOK, Copies, ServerOK,
     HistoryOK
<1>10. ASSUME NEW p \in Procs, ReserveTorn(p) PROVE Typed'
  <2>1. DiskOK'
    BY <1>10, <1>a, Fields, AsAttempt, AskedAttempt DEF DiskOK, Ids, Keys, Boots,
       Phases, ProcsOK, Copies, CopyOK, Restarting, ReserveTorn, CanReserve, Return
  <2>2. ProcsOK'
    BY <1>10, <1>a, Fields, AsAttempt, AskedAttempt DEF ProcsOK, Lines, Keys, DiskOK,
       Phases, Copies, CopyOK, Restarting, ReserveTorn, CanReserve, Return
  <2>3. UNCHANGED <<current, retry, claimed, confirmed, runs, touched, restarts>>
    BY <1>10 DEF ReserveTorn, CanReserve, Return
  <2>4. ASSUME NEW q \in Procs PROVE CopyOK(pc'[q], at'[q], boot')
    BY <1>10, <1>a, Fields, AsAttempt, AskedAttempt DEF DiskOK, ProcsOK, Copies,
       CopyOK, Restarting, Phases, ReserveTorn, CanReserve, Return
  <2>5. QED BY <1>a, <2>1, <2>2, <2>3, <2>4 DEF Typed, TypeOK, Copies, ServerOK,
     HistoryOK
<1>11. ASSUME NEW p \in Procs, StartRejoin(p) PROVE Typed'
  <2>1. ProcsOK'
    BY <1>11, <1>a, Fields, AsAttempt, AskedAttempt DEF ProcsOK, Lines, Keys, DiskOK,
       Phases, Copies, CopyOK, Restarting, StartRejoin
  <2>2. ServerOK'
    BY <1>11, <1>a, Fields DEF ServerOK, Ids, ProcsOK, Copies, CopyOK, Restarting,
       StartRejoin
  <2>3. UNCHANGED <<marker, archived, key, cfg, boot, runs, touched, restarts>>
    BY <1>11 DEF StartRejoin
  <2>4. ASSUME NEW q \in Procs PROVE CopyOK(pc'[q], at'[q], boot')
    BY <1>11, <1>a, Fields, AsAttempt, AskedAttempt DEF DiskOK, ProcsOK, Copies,
       CopyOK, Restarting, Phases, StartRejoin
  <2>5. QED BY <1>a, <2>1, <2>2, <2>3, <2>4 DEF Typed, TypeOK, Copies, DiskOK, HistoryOK
<1>12. ASSUME NEW p \in Procs, MayHaveRun(p) PROVE Typed'
  <2>1. DiskOK'
    BY <1>12, <1>a, Fields, AsAttempt, AskedAttempt DEF DiskOK, Ids, Keys, Boots,
       Phases, ProcsOK, Copies, CopyOK, Restarting, MayHaveRun, SaveAttempt, SaveAllowed
  <2>2. ProcsOK'
    BY <1>12, <1>a, Fields, AsAttempt, AskedAttempt DEF ProcsOK, Lines, Keys, DiskOK,
       Phases, Copies, CopyOK, Restarting, MayHaveRun, SaveAttempt, SaveAllowed
  <2>3. UNCHANGED <<current, retry, claimed, confirmed, runs, touched, restarts>>
    BY <1>12 DEF MayHaveRun, SaveAttempt, SaveAllowed
  <2>4. ASSUME NEW q \in Procs PROVE CopyOK(pc'[q], at'[q], boot')
    BY <1>12, <1>a, Fields, AsAttempt, AskedAttempt DEF DiskOK, ProcsOK, Copies,
       CopyOK, Restarting, Phases, MayHaveRun, SaveAttempt, SaveAllowed
  <2>5. QED BY <1>a, <2>1, <2>2, <2>3, <2>4 DEF Typed, TypeOK, Copies, ServerOK,
     HistoryOK
<1>13. ASSUME NEW p \in Procs, SetRejoinName(p) PROVE Typed'
  <2>1. ProcsOK'
    BY <1>13, <1>a, Fields, AsAttempt, AskedAttempt DEF ProcsOK, Lines, Keys, DiskOK,
       Phases, Copies, CopyOK, Restarting, SetRejoinName
  <2>2. HistoryOK'
    BY <1>13, <1>a, Fields DEF HistoryOK, Boots, DiskOK, ProcsOK, Copies, CopyOK,
       Restarting, SetRejoinName
  <2>3. UNCHANGED <<marker, archived, key, cfg, boot, current, retry, claimed,
                    confirmed>>
    BY <1>13 DEF SetRejoinName
  <2>4. ASSUME NEW q \in Procs PROVE CopyOK(pc'[q], at'[q], boot')
    BY <1>13, <1>a, Fields, AsAttempt, AskedAttempt DEF DiskOK, ProcsOK, Copies,
       CopyOK, Restarting, Phases, SetRejoinName
  <2>5. QED BY <1>a, <2>1, <2>2, <2>3, <2>4 DEF Typed, TypeOK, Copies, DiskOK, ServerOK
<1>14. ASSUME NEW p \in Procs, Native(p) PROVE Typed'
  <2>1. ProcsOK'
    BY <1>14, <1>a, Fields, AsAttempt, AskedAttempt DEF ProcsOK, Lines, Keys, DiskOK,
       Phases, Copies, CopyOK, Restarting, Native
  <2>2. HistoryOK'
    BY <1>14, <1>a, Fields DEF HistoryOK, Boots, DiskOK, ProcsOK, Copies, CopyOK,
       Restarting, Native
  <2>3. UNCHANGED <<marker, archived, key, cfg, boot, current, retry, claimed,
                    confirmed>>
    BY <1>14 DEF Native
  <2>4. ASSUME NEW q \in Procs PROVE CopyOK(pc'[q], at'[q], boot')
    BY <1>14, <1>a, Fields, AsAttempt, AskedAttempt DEF DiskOK, ProcsOK, Copies,
       CopyOK, Restarting, Phases, Native
  <2>5. QED BY <1>a, <2>1, <2>2, <2>3, <2>4 DEF Typed, TypeOK, Copies, DiskOK, ServerOK
<1>15. ASSUME NEW p \in Procs, SaveUnknown(p) PROVE Typed'
  <2>1. DiskOK'
    BY <1>15, <1>a, Fields, AsAttempt, AskedAttempt DEF DiskOK, Ids, Keys, Boots,
       Phases, ProcsOK, Copies, CopyOK, Restarting, SaveUnknown, SaveAttempt,
       SaveAllowed, Return
  <2>2. ProcsOK'
    BY <1>15, <1>a, Fields, AsAttempt, AskedAttempt DEF ProcsOK, Lines, Keys, DiskOK,
       Phases, Copies, CopyOK, Restarting, SaveUnknown, SaveAttempt, SaveAllowed, Return
  <2>3. UNCHANGED <<current, retry, claimed, confirmed, runs, touched, restarts>>
    BY <1>15 DEF SaveUnknown, SaveAttempt, SaveAllowed, Return
  <2>4. ASSUME NEW q \in Procs PROVE CopyOK(pc'[q], at'[q], boot')
    BY <1>15, <1>a, Fields, AsAttempt, AskedAttempt DEF DiskOK, ProcsOK, Copies,
       CopyOK, Restarting, Phases, SaveUnknown, SaveAttempt, SaveAllowed, Return
  <2>5. QED BY <1>a, <2>1, <2>2, <2>3, <2>4 DEF Typed, TypeOK, Copies, ServerOK,
     HistoryOK
<1>16. ASSUME NEW p \in Procs, SaveFailed(p) PROVE Typed'
  <2>1. DiskOK'
    BY <1>16, <1>a, Fields, AsAttempt, AskedAttempt DEF DiskOK, Ids, Keys, Boots,
       Phases, ProcsOK, Copies, CopyOK, Restarting, SaveFailed, SaveAttempt,
       SaveAllowed, Return
  <2>2. ProcsOK'
    BY <1>16, <1>a, Fields, AsAttempt, AskedAttempt DEF ProcsOK, Lines, Keys, DiskOK,
       Phases, Copies, CopyOK, Restarting, SaveFailed, SaveAttempt, SaveAllowed, Return
  <2>3. UNCHANGED <<current, retry, claimed, confirmed, runs, touched, restarts>>
    BY <1>16 DEF SaveFailed, SaveAttempt, SaveAllowed, Return
  <2>4. ASSUME NEW q \in Procs PROVE CopyOK(pc'[q], at'[q], boot')
    BY <1>16, <1>a, Fields, AsAttempt, AskedAttempt DEF DiskOK, ProcsOK, Copies,
       CopyOK, Restarting, Phases, SaveFailed, SaveAttempt, SaveAllowed, Return
  <2>5. QED BY <1>a, <2>1, <2>2, <2>3, <2>4 DEF Typed, TypeOK, Copies, ServerOK,
     HistoryOK
<1>17. ASSUME NEW p \in Procs, SaveAwaiting(p) PROVE Typed'
  <2>1. DiskOK'
    BY <1>17, <1>a, Fields, AsAttempt, AskedAttempt DEF DiskOK, Ids, Keys, Boots,
       Phases, ProcsOK, Copies, CopyOK, Restarting, SaveAwaiting, SaveAttempt,
       SaveAllowed
  <2>2. ProcsOK'
    BY <1>17, <1>a, Fields, AsAttempt, AskedAttempt DEF ProcsOK, Lines, Keys, DiskOK,
       Phases, Copies, CopyOK, Restarting, SaveAwaiting, SaveAttempt, SaveAllowed
  <2>3. UNCHANGED <<current, retry, claimed, confirmed, runs, touched, restarts>>
    BY <1>17 DEF SaveAwaiting, SaveAttempt, SaveAllowed
  <2>4. ASSUME NEW q \in Procs PROVE CopyOK(pc'[q], at'[q], boot')
    BY <1>17, <1>a, Fields, AsAttempt, AskedAttempt DEF DiskOK, ProcsOK, Copies,
       CopyOK, Restarting, Phases, SaveAwaiting, SaveAttempt, SaveAllowed
  <2>5. QED BY <1>a, <2>1, <2>2, <2>3, <2>4 DEF Typed, TypeOK, Copies, ServerOK,
     HistoryOK
<1>18. ASSUME NEW p \in Procs, Record(p) PROVE Typed'
  <2>1. DiskOK'
    BY <1>18, <1>a, Fields, AsAttempt, AskedAttempt DEF DiskOK, Ids, Keys, Boots,
       Phases, ProcsOK, Copies, CopyOK, Restarting, Record, Return
  <2>2. ProcsOK'
    BY <1>18, <1>a, Fields, AsAttempt, AskedAttempt DEF ProcsOK, Lines, Keys, DiskOK,
       Phases, Copies, CopyOK, Restarting, Record, Return
  <2>3. UNCHANGED <<current, retry, claimed, confirmed, runs, touched, restarts>>
    BY <1>18 DEF Record, Return
  <2>4. ASSUME NEW q \in Procs PROVE CopyOK(pc'[q], at'[q], boot')
    BY <1>18, <1>a, Fields, AsAttempt, AskedAttempt DEF DiskOK, ProcsOK, Copies,
       CopyOK, Restarting, Phases, Record, Return
  <2>5. QED BY <1>a, <2>1, <2>2, <2>3, <2>4 DEF Typed, TypeOK, Copies, ServerOK,
     HistoryOK
<1>19. ASSUME NEW p \in Procs, ReportVerified(p) PROVE Typed'
  <2>1. ProcsOK'
    BY <1>19, <1>a, Fields, AsAttempt, AskedAttempt DEF ProcsOK, Lines, Keys, DiskOK,
       Phases, Copies, CopyOK, Restarting, ReportVerified, NewBoot
  <2>2. ServerOK'
    BY <1>19, <1>a, Fields DEF ServerOK, Ids, ProcsOK, Copies, CopyOK, Restarting,
       ReportVerified, NewBoot
  <2>3. UNCHANGED <<marker, archived, key, cfg, boot, runs, touched, restarts>>
    BY <1>19 DEF ReportVerified, NewBoot
  <2>4. ASSUME NEW q \in Procs PROVE CopyOK(pc'[q], at'[q], boot')
    BY <1>19, <1>a, Fields, AsAttempt, AskedAttempt DEF DiskOK, ProcsOK, Copies,
       CopyOK, Restarting, Phases, ReportVerified, NewBoot
  <2>5. QED BY <1>a, <2>1, <2>2, <2>3, <2>4 DEF Typed, TypeOK, Copies, DiskOK, HistoryOK
<1>20. ASSUME NEW p \in Procs, SaveVerified(p) PROVE Typed'
  <2>1. DiskOK'
    BY <1>20, <1>a, Fields, AsAttempt, AskedAttempt DEF DiskOK, Ids, Keys, Boots,
       Phases, ProcsOK, Copies, CopyOK, Restarting, SaveVerified, SaveAttempt,
       SaveAllowed, Return
  <2>2. ProcsOK'
    BY <1>20, <1>a, Fields, AsAttempt, AskedAttempt DEF ProcsOK, Lines, Keys, DiskOK,
       Phases, Copies, CopyOK, Restarting, SaveVerified, SaveAttempt, SaveAllowed,
       Return
  <2>3. UNCHANGED <<current, retry, claimed, confirmed, runs, touched, restarts>>
    BY <1>20 DEF SaveVerified, SaveAttempt, SaveAllowed, Return
  <2>4. ASSUME NEW q \in Procs PROVE CopyOK(pc'[q], at'[q], boot')
    BY <1>20, <1>a, Fields, AsAttempt, AskedAttempt DEF DiskOK, ProcsOK, Copies,
       CopyOK, Restarting, Phases, SaveVerified, SaveAttempt, SaveAllowed, Return
  <2>5. QED BY <1>a, <2>1, <2>2, <2>3, <2>4 DEF Typed, TypeOK, Copies, ServerOK,
     HistoryOK
<1>21. ASSUME NEW p \in Procs, Coordinate(p) PROVE Typed'
  <2>1. ProcsOK'
    BY <1>21, <1>a, Fields, AsAttempt, AskedAttempt DEF ProcsOK, Lines, Keys, DiskOK,
       Phases, Copies, CopyOK, Restarting, Coordinate
  <2>2. UNCHANGED <<marker, archived, key, cfg, boot, current, retry, claimed,
                    confirmed, runs, touched, restarts>>
    BY <1>21 DEF Coordinate
  <2>3. ASSUME NEW q \in Procs PROVE CopyOK(pc'[q], at'[q], boot')
    BY <1>21, <1>a, Fields, AsAttempt, AskedAttempt DEF DiskOK, ProcsOK, Copies,
       CopyOK, Restarting, Phases, Coordinate
  <2>4. QED BY <1>a, <2>1, <2>2, <2>3 DEF Typed, TypeOK, Copies, DiskOK, ServerOK,
     HistoryOK
<1>22. ASSUME NEW p \in Procs, ClaimRestart(p) PROVE Typed'
  <2>1. DiskOK'
    BY <1>22, <1>a, Fields, AsAttempt, AskedAttempt DEF DiskOK, Ids, Keys, Boots,
       Phases, ProcsOK, Copies, CopyOK, Restarting, ClaimRestart,
       SetAttemptRebootRequested
  <2>2. ProcsOK'
    BY <1>22, <1>a, Fields, AsAttempt, AskedAttempt DEF ProcsOK, Lines, Keys, DiskOK,
       Phases, Copies, CopyOK, Restarting, ClaimRestart, SetAttemptRebootRequested
  <2>3. UNCHANGED <<current, retry, claimed, confirmed, runs, touched, restarts>>
    BY <1>22 DEF ClaimRestart, SetAttemptRebootRequested
  <2>4. ASSUME NEW q \in Procs PROVE CopyOK(pc'[q], at'[q], boot')
    <3>1. at[p] \in Attempts /\ at[p].phase = "awaiting_reboot"
      BY <1>22, <1>a DEF Copies, CopyOK, ClaimRestart
    <3>2. at'[p] \in Attempts /\ at'[p].phase = "awaiting_reboot"
      BY <1>22, <1>a, <3>1, AskedAttempt DEF ProcsOK, ClaimRestart
    <3>3. pc'[p] = "taken" /\ boot' = boot
      BY <1>22, <1>a DEF ProcsOK, ClaimRestart
    <3>4. q # p => pc'[q] = pc[q] /\ at'[q] = at[q]
      BY <1>22, <1>a DEF ProcsOK, ClaimRestart
    <3>5. CASE q = p
      BY <3>2, <3>3, <3>5 DEF CopyOK, Restarting
    <3>6. CASE q # p
      BY <1>a, <3>3, <3>4, <3>6 DEF Copies
    <3>7. QED BY <3>5, <3>6
  <2>5. QED BY <1>a, <2>1, <2>2, <2>3, <2>4 DEF Typed, TypeOK, Copies, ServerOK,
     HistoryOK
<1>23. ASSUME NEW p \in Procs, SaveTaken(p) PROVE Typed'
  <2>1. DiskOK'
    BY <1>23, <1>a, Fields, AsAttempt, AskedAttempt DEF DiskOK, Ids, Keys, Boots,
       Phases, ProcsOK, Copies, CopyOK, Restarting, SaveTaken
  <2>2. ProcsOK'
    BY <1>23, <1>a, Fields, AsAttempt, AskedAttempt DEF ProcsOK, Lines, Keys, DiskOK,
       Phases, Copies, CopyOK, Restarting, SaveTaken
  <2>3. UNCHANGED <<current, retry, claimed, confirmed, runs, touched, restarts>>
    BY <1>23 DEF SaveTaken
  <2>4. ASSUME NEW q \in Procs PROVE CopyOK(pc'[q], at'[q], boot')
    BY <1>23, <1>a, Fields, AsAttempt, AskedAttempt DEF DiskOK, ProcsOK, Copies,
       CopyOK, Restarting, Phases, SaveTaken
  <2>5. QED BY <1>a, <2>1, <2>2, <2>3, <2>4 DEF Typed, TypeOK, Copies, ServerOK,
     HistoryOK
<1>24. ASSUME NEW p \in Procs, RequestReboot(p) PROVE Typed'
  <2>1. ProcsOK'
    BY <1>24, <1>a, Fields, AsAttempt, AskedAttempt DEF ProcsOK, Lines, Keys, DiskOK,
       Phases, Copies, CopyOK, Restarting, RequestReboot, Return
  <2>2. HistoryOK'
    BY <1>24, <1>a, Fields DEF HistoryOK, Boots, DiskOK, ProcsOK, Copies, CopyOK,
       Restarting, RequestReboot, Return
  <2>3. UNCHANGED <<marker, archived, key, cfg, boot, current, retry, claimed,
                    confirmed>>
    BY <1>24 DEF RequestReboot, Return
  <2>4. ASSUME NEW q \in Procs PROVE CopyOK(pc'[q], at'[q], boot')
    BY <1>24, <1>a, Fields, AsAttempt, AskedAttempt DEF DiskOK, ProcsOK, Copies,
       CopyOK, Restarting, Phases, RequestReboot, Return
  <2>5. QED BY <1>a, <2>1, <2>2, <2>3, <2>4 DEF Typed, TypeOK, Copies, DiskOK, ServerOK
<1>25. ASSUME NEW p \in Procs, RefusedDirectoryReboot(p) PROVE Typed'
  <2>1. DiskOK'
    BY <1>25, <1>a, Fields, AsAttempt, AskedAttempt DEF DiskOK, Ids, Keys, Boots,
       Phases, ProcsOK, Copies, CopyOK, Restarting, RefusedDirectoryReboot,
       SetAttemptRebootRequested, Return
  <2>2. ProcsOK'
    BY <1>25, <1>a, Fields, AsAttempt, AskedAttempt DEF ProcsOK, Lines, Keys, DiskOK,
       Phases, Copies, CopyOK, Restarting, RefusedDirectoryReboot,
       SetAttemptRebootRequested, Return
  <2>3. UNCHANGED <<current, retry, claimed, confirmed, runs, touched, restarts>>
    BY <1>25 DEF RefusedDirectoryReboot, SetAttemptRebootRequested, Return
  <2>4. ASSUME NEW q \in Procs PROVE CopyOK(pc'[q], at'[q], boot')
    BY <1>25, <1>a, Fields, AsAttempt, AskedAttempt DEF DiskOK, ProcsOK, Copies,
       CopyOK, Restarting, Phases, RefusedDirectoryReboot, SetAttemptRebootRequested,
       Return
  <2>5. QED BY <1>a, <2>1, <2>2, <2>3, <2>4 DEF Typed, TypeOK, Copies, ServerOK,
     HistoryOK
<1>26. ASSUME NEW p \in Procs, RotateIdentity(p) PROVE Typed'
  <2>1. ProcsOK'
    BY <1>26, <1>a, Fields, AsAttempt, AskedAttempt DEF ProcsOK, Lines, Keys, DiskOK,
       Phases, Copies, CopyOK, Restarting, RotateIdentity
  <2>2. UNCHANGED <<marker, archived, key, cfg, boot, current, retry, claimed,
                    confirmed, runs, touched, restarts>>
    BY <1>26 DEF RotateIdentity
  <2>3. ASSUME NEW q \in Procs PROVE CopyOK(pc'[q], at'[q], boot')
    BY <1>26, <1>a, Fields, AsAttempt, AskedAttempt DEF DiskOK, ProcsOK, Copies,
       CopyOK, Restarting, Phases, RotateIdentity
  <2>4. QED BY <1>a, <2>1, <2>2, <2>3 DEF Typed, TypeOK, Copies, DiskOK, ServerOK,
     HistoryOK
<1>27. ASSUME NEW p \in Procs, ArchiveRotated(p) PROVE Typed'
  <2>1. DiskOK'
    BY <1>27, <1>a, Fields, AsAttempt, AskedAttempt DEF DiskOK, Ids, Keys, Boots,
       Phases, ProcsOK, Copies, CopyOK, Restarting, ArchiveRotated,
       ArchiveVerifiedAttempt
  <2>2. ProcsOK'
    BY <1>27, <1>a, Fields, AsAttempt, AskedAttempt DEF ProcsOK, Lines, Keys, DiskOK,
       Phases, Copies, CopyOK, Restarting, ArchiveRotated, ArchiveVerifiedAttempt
  <2>3. UNCHANGED <<current, retry, claimed, confirmed, runs, touched, restarts>>
    BY <1>27 DEF ArchiveRotated, ArchiveVerifiedAttempt
  <2>4. ASSUME NEW q \in Procs PROVE CopyOK(pc'[q], at'[q], boot')
    BY <1>27, <1>a, Fields, AsAttempt, AskedAttempt DEF DiskOK, ProcsOK, Copies,
       CopyOK, Restarting, Phases, ArchiveRotated, ArchiveVerifiedAttempt
  <2>5. QED BY <1>a, <2>1, <2>2, <2>3, <2>4 DEF Typed, TypeOK, Copies, ServerOK,
     HistoryOK
<1>28. ASSUME NEW p \in Procs, NewKey(p) PROVE Typed'
  <2>1. DiskOK'
    <3>1. key' \in Keys
      BY <1>28, <1>a DEF DiskOK, Keys, NewKey
    <3>2. QED BY <1>28, <1>a, <3>1 DEF DiskOK, NewKey
  <2>2. ProcsOK'
    BY <1>28, <1>a, Fields, AsAttempt, AskedAttempt DEF ProcsOK, Lines, Keys, DiskOK,
       Phases, Copies, CopyOK, Restarting, NewKey, Return
  <2>3. UNCHANGED <<current, retry, claimed, confirmed, runs, touched, restarts>>
    BY <1>28 DEF NewKey, Return
  <2>4. ASSUME NEW q \in Procs PROVE CopyOK(pc'[q], at'[q], boot')
    BY <1>28, <1>a, Fields, AsAttempt, AskedAttempt DEF DiskOK, ProcsOK, Copies,
       CopyOK, Restarting, Phases, NewKey, Return
  <2>5. QED BY <1>a, <2>1, <2>2, <2>3, <2>4 DEF Typed, TypeOK, Copies, ServerOK,
     HistoryOK
<1>29. ASSUME NEW again \in BOOLEAN, Issue(again) PROVE Typed'
  <2>1. ServerOK'
    BY <1>29, <1>a, Fields DEF ServerOK, Ids, ProcsOK, Copies, CopyOK, Restarting, Issue
  <2>2. UNCHANGED <<marker, archived, key, cfg, boot, pc, me, plan, at, reason, runs,
                    touched, restarts>>
    BY <1>29 DEF Issue
  <2>3. UNCHANGED <<pc, at, boot>>
    BY <1>29 DEF Issue
  <2>4. QED BY <1>a, <2>1, <2>2, <2>3 DEF Typed, TypeOK, Copies, DiskOK, ProcsOK,
     HistoryOK
<1>30. CASE Reboot
  <2>1. DiskOK'
    BY <1>30, <1>a, Fields, AsAttempt, AskedAttempt DEF DiskOK, Ids, Keys, Boots,
       Phases, ProcsOK, Copies, CopyOK, Restarting, Reboot, Off
  <2>2. ProcsOK'
    BY <1>30, <1>a, Fields, AsAttempt, AskedAttempt DEF ProcsOK, Lines, Keys, DiskOK,
       Phases, Copies, CopyOK, Restarting, Reboot, Off
  <2>3. UNCHANGED <<current, retry, claimed, confirmed, runs, touched, restarts>>
    BY <1>30 DEF Reboot, Off
  <2>4. ASSUME NEW q \in Procs PROVE CopyOK(pc'[q], at'[q], boot')
    BY <1>30, <1>a, Fields, AsAttempt, AskedAttempt DEF DiskOK, ProcsOK, Copies,
       CopyOK, Restarting, Phases, Reboot, Off
  <2>5. QED BY <1>a, <2>1, <2>2, <2>3, <2>4 DEF Typed, TypeOK, Copies, ServerOK,
     HistoryOK
<1>z. CASE UNCHANGED vars
  BY <1>z, <1>a DEF vars, Typed, TypeOK, DiskOK, ProcsOK, ServerOK, HistoryOK, Copies
<1>q. QED BY <1>1, <1>2, <1>3, <1>4, <1>5, <1>6, <1>7, <1>8, <1>9, <1>10, <1>11, <1>12,
   <1>13, <1>14, <1>15, <1>16, <1>17, <1>18, <1>19, <1>20, <1>21, <1>22, <1>23, <1>24,
   <1>25, <1>26, <1>27, <1>28, <1>29, <1>30, <1>z DEF Next, ProcessRejoin, Restart,
   Identity

-----------------------------------------------------------------------------
(* What a step can do to who is carrying out an operation. *)

\* Lines at which the operation has not been called yet.
Mutating == {"latch", "name", "native"}

\* q tells the server that its attempt is verified, in a later boot.
Reports(q) ==
    /\ at[q] \in Attempts /\ at[q].phase = "awaiting_reboot"
    /\ at[q].before # boot /\ confirmed' = confirmed \union {at[q].id}

\* Nothing is started and nothing runs; a copy can only come from the marker.
Quiet ==
    /\ UNCHANGED <<runs, touched>>
    /\ claimed \subseteq claimed'
    /\ boot <= boot'
    /\ \A q \in Procs : pc'[q] \in Holders =>
          /\ pc[q] \in Holders /\ at'[q].id = at[q].id /\ boot' = boot
          /\ pc'[q] \in Mutating <=> pc[q] \in Mutating
    /\ \A q \in Procs : pc'[q] \in {"name", "native"} =>
          \/ pc[q] \in {"name", "native"}
          \/ marker'.id = at'[q].id /\ marker'.phase = "may_have_run"
    /\ \A q \in Procs : at'[q] \in {at[q], NoMarker, marker, marker'}
    /\ \/ confirmed' = confirmed
       \/ \E q \in Procs : Reports(q)

\* p starts the plan of its reservation.
Claims(p) ==
    /\ pc[p] = "claim" /\ pc' = [pc EXCEPT ![p] = "latch"] /\ at' = at
    /\ at[p].id \notin claimed /\ claimed' = claimed \union {at[p].id}
    /\ UNCHANGED <<runs, touched, boot, marker, archived, confirmed, restarts>>

\* p sets the name or makes the native call.
Mutates(p) ==
    /\ pc[p] \in {"name", "native"}
    /\ at' = at
    /\ UNCHANGED <<claimed, boot, marker, archived, confirmed, restarts>>
    /\ \E l \in {"native", "lost", "failed", "done"} :
          /\ pc' = [pc EXCEPT ![p] = l]
          /\ l \in {"failed", "done"} => runs'[at[p].id] # 0 /\ touched'[at[p].id] = boot
          /\ l = "native" => runs' = runs
    /\ touched'[at[p].id] \in {touched[at[p].id], boot}
    /\ runs'[at[p].id] # runs[at[p].id] => touched'[at[p].id] = boot
    /\ \A i \in Ids \ {at[p].id} : runs'[i] = runs[i] /\ touched'[i] = touched[i]

\* These are the only steps.
LEMMA OperationSteps ==
  Typed /\ [Next]_vars =>
    Quiet \/ \E p \in Procs : Claims(p) \/ Mutates(p)
<1> SUFFICES ASSUME Typed,
[Next]_vars PROVE Quiet \/ \E p \in Procs : Claims(p) \/ Mutates(p)
  OBVIOUS
<1> DEFINE G == Quiet \/ \E p \in Procs : Claims(p) \/ Mutates(p)
<1> USE DEF disk, procs, server, history, Goto, Hold
<1>a. DiskOK /\ ProcsOK /\ ServerOK /\ HistoryOK /\ Copies
  BY DEF Typed, TypeOK
<1>b. boot \in Nat /\ boot <= boot
  BY <1>a DEF DiskOK, Boots
<1>1. ASSUME NEW p \in Procs, Start(p) PROVE G
  <2>1. Quiet
    BY <1>1, <1>a, <1>b DEF ProcsOK, Holders, Mutating, Quiet, Start
  <2>2. QED BY <2>1
<1>2. ASSUME NEW p \in Procs, Stop(p) PROVE G
  <2>1. Quiet
    BY <1>2, <1>a, <1>b DEF ProcsOK, Holders, Mutating, Quiet, Stop, Return
  <2>2. QED BY <2>1
<1>3. ASSUME NEW p \in Procs, Crash(p) PROVE G
  <2>1. Quiet
    BY <1>3, <1>a, <1>b DEF ProcsOK, Holders, Mutating, Quiet, Crash, Off
  <2>2. QED BY <2>1
<1>4. ASSUME NEW p \in Procs, SaveConfig(p) PROVE G
  <2>1. Quiet
    BY <1>4, <1>a, <1>b DEF ProcsOK, Holders, Mutating, Quiet, SaveConfig
  <2>2. QED BY <2>1
<1>5. ASSUME NEW p \in Procs, Poll(p) PROVE G
  <2>1. Quiet
    BY <1>5, <1>a, <1>b DEF ProcsOK, Holders, Mutating, Quiet, Poll
  <2>2. QED BY <2>1
<1>6. ASSUME NEW p \in Procs, LoadAttempt(p) PROVE G
  <2>1. Quiet
    BY <1>6, <1>a, <1>b DEF ProcsOK, Holders, Mutating, Quiet, LoadAttempt
  <2>2. QED BY <2>1
<1>7. ASSUME NEW p \in Procs, Archive(p) PROVE G
  <2>1. Quiet
    BY <1>7, <1>a, <1>b DEF ProcsOK, Holders, Mutating, Quiet, Archive,
       ArchiveVerifiedAttempt, Retirable
  <2>2. QED BY <2>1
<1>8. ASSUME NEW p \in Procs, RetryReserved(p) PROVE G
  <2>1. Quiet
    BY <1>8, <1>a, <1>b DEF ProcsOK, Holders, Mutating, Quiet, RetryReserved,
       RemoveAttemptForRetry, ValidateReservedRetry
  <2>2. QED BY <2>1
<1>9. ASSUME NEW p \in Procs, ReserveAttempt(p) PROVE G
  <2>1. Quiet
    BY <1>9, <1>a, <1>b DEF ProcsOK, Holders, Mutating, Quiet, ReserveAttempt,
       CanReserve, NewAttempt
  <2>2. QED BY <2>1
<1>10. ASSUME NEW p \in Procs, ReserveTorn(p) PROVE G
  <2>1. Quiet
    BY <1>10, <1>a, <1>b DEF ProcsOK, Holders, Mutating, Quiet, ReserveTorn,
       CanReserve, Return
  <2>2. QED BY <2>1
<1>11. ASSUME NEW p \in Procs, StartRejoin(p) PROVE G
  <2>1. CASE pc'[p] = "latch"
    <3>1. Claims(p)
      BY <1>11, <1>a, <2>1 DEF ProcsOK, StartRejoin, Claims
    <3>2. QED BY <3>1
  <2>2. CASE pc'[p] # "latch"
    <3>1. Quiet
      BY <1>11, <1>a, <1>b, <2>2 DEF ProcsOK, Holders, Mutating, Quiet, StartRejoin
    <3>2. QED BY <3>1
  <2>3. QED BY <2>1, <2>2
<1>12. ASSUME NEW p \in Procs, MayHaveRun(p) PROVE G
  <2>1. at'[p].id = at[p].id /\ marker' = at'[p] /\ marker'.phase = "may_have_run"
    BY <1>12, <1>a, AsAttempt DEF ProcsOK, Copies, CopyOK, Phases, SaveAttempt,
       MayHaveRun
  <2>2. Quiet
    BY <1>12, <1>a, <1>b, <2>1 DEF ProcsOK, Holders, Mutating, Quiet, MayHaveRun
  <2>3. QED BY <2>2
<1>13. ASSUME NEW p \in Procs, SetRejoinName(p) PROVE G
  <2>1. at[p].id \in Ids /\ at[p] \in Attempts
    BY <1>13, <1>a, Fields DEF ProcsOK, Copies, CopyOK, SetRejoinName
  <2>2. Mutates(p)
    BY <1>13, <1>a, <2>1, RejoinConstants DEF HistoryOK, DiskOK, Boots, ProcsOK,
       SetRejoinName, Mutates
  <2>3. QED BY <2>2
<1>14. ASSUME NEW p \in Procs, Native(p) PROVE G
  <2>1. at[p].id \in Ids /\ at[p] \in Attempts
    BY <1>14, <1>a, Fields DEF ProcsOK, Copies, CopyOK, Native
  <2>2. Mutates(p)
    BY <1>14, <1>a, <2>1, RejoinConstants DEF HistoryOK, DiskOK, Boots, ProcsOK,
       Native, Mutates
  <2>3. QED BY <2>2
<1>15. ASSUME NEW p \in Procs, SaveUnknown(p) PROVE G
  <2>1. Quiet
    BY <1>15, <1>a, <1>b DEF ProcsOK, Holders, Mutating, Quiet, SaveUnknown,
       SaveAttempt, As, Return
  <2>2. QED BY <2>1
<1>16. ASSUME NEW p \in Procs, SaveFailed(p) PROVE G
  <2>1. Quiet
    BY <1>16, <1>a, <1>b DEF ProcsOK, Holders, Mutating, Quiet, SaveFailed,
       SaveAttempt, As, Return
  <2>2. QED BY <2>1
<1>17. ASSUME NEW p \in Procs, SaveAwaiting(p) PROVE G
  <2>1. at'[p].id = at[p].id /\ marker' = at'[p] /\ marker'.phase = "awaiting_reboot"
    BY <1>17, <1>a, AsAttempt DEF ProcsOK, Copies, CopyOK, Phases, SaveAttempt,
       SaveAwaiting
  <2>2. Quiet
    BY <1>17, <1>a, <1>b, <2>1 DEF ProcsOK, Holders, Mutating, Quiet, SaveAwaiting
  <2>3. QED BY <2>2
<1>18. ASSUME NEW p \in Procs, Record(p) PROVE G
  <2>1. Quiet
    BY <1>18, <1>a, <1>b DEF ProcsOK, Holders, Mutating, Quiet, Record, Return
  <2>2. QED BY <2>1
<1>19. ASSUME NEW p \in Procs, ReportVerified(p) PROVE G
  <2>1. Reports(p)
    BY <1>19, <1>a, Fields DEF ProcsOK, Reports, NewBoot, ReportVerified
  <2>2. Quiet
    BY <1>19, <1>a, <1>b, <2>1 DEF ProcsOK, Holders, Mutating, Quiet, ReportVerified
  <2>3. QED BY <2>2
<1>20. ASSUME NEW p \in Procs, SaveVerified(p) PROVE G
  <2>1. Quiet
    BY <1>20, <1>a, <1>b DEF ProcsOK, Holders, Mutating, Quiet, SaveVerified,
       SaveAttempt, As, Return
  <2>2. QED BY <2>1
<1>21. ASSUME NEW p \in Procs, Coordinate(p) PROVE G
  <2>1. Quiet
    BY <1>21, <1>a, <1>b DEF ProcsOK, Holders, Mutating, Quiet, Coordinate
  <2>2. QED BY <2>1
<1>22. ASSUME NEW p \in Procs, ClaimRestart(p) PROVE G
  <2>1. Quiet
    BY <1>22, <1>a, <1>b DEF ProcsOK, Holders, Mutating, Quiet, ClaimRestart,
       SetAttemptRebootRequested
  <2>2. QED BY <2>1
<1>23. ASSUME NEW p \in Procs, SaveTaken(p) PROVE G
  <2>1. Quiet
    BY <1>23, <1>a, <1>b DEF ProcsOK, Holders, Mutating, Quiet, SaveTaken
  <2>2. QED BY <2>1
<1>24. ASSUME NEW p \in Procs, RequestReboot(p) PROVE G
  <2>1. Quiet
    BY <1>24, <1>a, <1>b DEF ProcsOK, Holders, Mutating, Quiet, RequestReboot, Return
  <2>2. QED BY <2>1
<1>25. ASSUME NEW p \in Procs, RefusedDirectoryReboot(p) PROVE G
  <2>1. Quiet
    BY <1>25, <1>a, <1>b DEF ProcsOK, Holders, Mutating, Quiet, RefusedDirectoryReboot,
       SetAttemptRebootRequested, Return
  <2>2. QED BY <2>1
<1>26. ASSUME NEW p \in Procs, RotateIdentity(p) PROVE G
  <2>1. Quiet
    BY <1>26, <1>a, <1>b DEF ProcsOK, Holders, Mutating, Quiet, RotateIdentity
  <2>2. QED BY <2>1
<1>27. ASSUME NEW p \in Procs, ArchiveRotated(p) PROVE G
  <2>1. Quiet
    BY <1>27, <1>a, <1>b DEF ProcsOK, Holders, Mutating, Quiet, ArchiveRotated,
       ArchiveVerifiedAttempt
  <2>2. QED BY <2>1
<1>28. ASSUME NEW p \in Procs, NewKey(p) PROVE G
  <2>1. Quiet
    BY <1>28, <1>a, <1>b DEF ProcsOK, Holders, Mutating, Quiet, NewKey, Return
  <2>2. QED BY <2>1
<1>29. ASSUME NEW again \in BOOLEAN, Issue(again) PROVE G
  <2>1. Quiet
    BY <1>29, <1>a, <1>b DEF ProcsOK, Holders, Mutating, Quiet, Issue
  <2>2. QED BY <2>1
<1>30. CASE Reboot
  <2>1. boot <= boot'
    BY <1>30, <1>a DEF DiskOK, Boots, Reboot
  <2>2. Quiet
    BY <1>30, <1>a, <2>1 DEF ProcsOK, Holders, Quiet, Reboot, Off
  <2>3. QED BY <2>2
<1>z. CASE UNCHANGED vars
  <2>1. Quiet
    BY <1>z, <1>a, <1>b DEF vars, Quiet
  <2>2. QED BY <2>1
<1>q. QED BY <1>1, <1>2, <1>3, <1>4, <1>5, <1>6, <1>7, <1>8, <1>9, <1>10, <1>11, <1>12,
   <1>13, <1>14, <1>15, <1>16, <1>17, <1>18, <1>19, <1>20, <1>21, <1>22, <1>23, <1>24,
   <1>25, <1>26, <1>27, <1>28, <1>29, <1>30, <1>z DEF Next, ProcessRejoin, Restart,
   Identity

-----------------------------------------------------------------------------
(* Every operation has one owner. *)

\* A started plan has one process at most carrying it out.
Exclusive ==
    /\ \A p \in Procs : pc[p] \in Holders => at[p].id \in claimed
    /\ \A p, q \in Procs :
          pc[p] \in Holders /\ pc[q] \in Holders /\ at[p].id = at[q].id => p = q

\* What ran was started, and a process that has not called has nothing run.
Ran ==
    /\ \A i \in Ids : runs[i] # 0 \/ touched[i] # 0 => i \in claimed
    /\ \A i \in Ids : touched[i] <= boot
    /\ \A p \in Procs : pc[p] \in Mutating => runs[at[p].id] = 0
    /\ \A p \in Procs : pc[p] \in {"failed", "done"} =>
          runs[at[p].id] # 0 /\ touched[at[p].id] = boot

\* The second layer.
Owned == Exclusive /\ Ran

\* Who carries out an operation holds its attempt.
LEMMA HolderTyped ==
  Typed => \A p \in Procs : pc[p] \in Holders => at[p] \in Attempts /\ at[p].id \in Ids
  BY Fields DEF Typed, TypeOK, ProcsOK, Copies, CopyOK, Holders

\* Nobody owns an operation at first.
LEMMA OwnedInit == Init => Owned
  BY RejoinConstants DEF Init, Owned, Exclusive, Ran, Holders, Mutating

\* A second owner would have to start a plan that is started already.
LEMMA OwnedStep == Typed /\ Owned /\ [Next]_vars => Owned'
<1> SUFFICES ASSUME Typed, Owned, [Next]_vars PROVE Owned'
  OBVIOUS
<1>1. /\ DiskOK /\ ProcsOK /\ HistoryOK /\ Exclusive /\ Ran
      /\ \A p \in Procs : pc[p] \in Holders => at[p].id \in Ids
  BY HolderTyped DEF Typed, TypeOK, Owned
<1>b. boot' \in Nat
  BY TypedStep DEF Typed, TypeOK, DiskOK, Boots
<1>2. CASE Quiet
  <2>1. Exclusive'
    BY <1>1, <1>2 DEF Exclusive, Quiet
  <2>2. ASSUME NEW i \in Ids PROVE touched'[i] <= boot'
    <3>1. touched'[i] = touched[i] /\ touched[i] <= boot /\ boot <= boot'
      BY <1>1, <1>2 DEF Ran, Quiet
    <3>2. touched[i] \in Nat /\ boot \in Nat /\ boot' \in Nat
      BY <1>1, <1>b, RejoinConstants DEF HistoryOK, DiskOK, Boots
    <3>3. QED BY <3>1, <3>2
  <2>3. ASSUME NEW i \in Ids, runs'[i] # 0 \/ touched'[i] # 0 PROVE i \in claimed'
    BY <1>1, <1>2, <2>3 DEF Ran, Quiet
  <2>4. ASSUME NEW p \in Procs, pc'[p] \in Mutating PROVE runs'[at'[p].id] = 0
    <3>1. pc'[p] \in Holders
      BY <2>4 DEF Mutating, Holders
    <3>2. QED BY <1>1, <1>2, <2>4, <3>1 DEF Ran, Quiet
  <2>5. ASSUME NEW p \in Procs, pc'[p] \in {"failed", "done"}
        PROVE  runs'[at'[p].id] # 0 /\ touched'[at'[p].id] = boot'
    <3>1. pc'[p] \in Holders /\ pc'[p] \notin Mutating
      BY <2>5 DEF Mutating, Holders
    <3>2. pc[p] \in Holders /\ pc[p] \notin Mutating /\ at'[p].id = at[p].id /\ boot' = boot
      BY <1>2, <3>1 DEF Quiet
    <3>3. pc[p] \in {"failed", "done"}
      BY <3>2 DEF Mutating, Holders
    <3>4. QED BY <1>1, <1>2, <3>2, <3>3 DEF Ran, Quiet
  <2>6. Ran'
    BY <2>2, <2>3, <2>4, <2>5 DEF Ran
  <2>7. QED BY <2>1, <2>6 DEF Owned
<1>3. ASSUME NEW p \in Procs, Claims(p) PROVE Owned'
  <2>1. ASSUME NEW q \in Procs, pc'[q] \in Holders, q # p
        PROVE  pc[q] \in Holders /\ pc'[q] = pc[q] /\ at'[q].id = at[q].id /\ at[q].id # at[p].id
    BY <1>1, <1>3, <2>1 DEF ProcsOK, Claims, Exclusive
  <2>2. pc'[p] = "latch" /\ at'[p] = at[p]
    BY <1>1, <1>3 DEF ProcsOK, Claims
  <2>3. Exclusive'
    BY <1>1, <1>3, <2>1, <2>2 DEF Exclusive, Claims
  <2>4. at[p].id \in Ids
    BY <1>3, Fields DEF Typed, Copies, CopyOK, Claims
  <2>5. runs[at[p].id] = 0
    BY <1>1, <1>3, <2>4 DEF Ran, Claims
  <2>6. ASSUME NEW q \in Procs, pc'[q] \in Mutating PROVE runs'[at'[q].id] = 0
    <3>1. CASE q = p
      BY <1>3, <2>5, <3>1 DEF Claims
    <3>2. CASE q # p
      <4>1. pc'[q] \in Holders
        BY <2>6 DEF Mutating, Holders
      <4>2. QED BY <1>1, <1>3, <2>1, <2>6, <3>2, <4>1 DEF Ran, Claims
    <3>3. QED BY <3>1, <3>2
  <2>7. ASSUME NEW q \in Procs, pc'[q] \in {"failed", "done"}
        PROVE  runs'[at'[q].id] # 0 /\ touched'[at'[q].id] = boot'
    <3>1. q # p /\ pc'[q] \in Holders
      BY <2>2, <2>7 DEF Holders
    <3>2. QED BY <1>1, <1>3, <2>1, <2>7, <3>1 DEF Ran, Claims
  <2>8. /\ \A i \in Ids : runs'[i] # 0 \/ touched'[i] # 0 => i \in claimed'
        /\ \A i \in Ids : touched'[i] <= boot'
    BY <1>1, <1>3 DEF Ran, Claims
  <2>9. QED BY <2>3, <2>6, <2>7, <2>8 DEF Owned, Ran
<1>4. ASSUME NEW p \in Procs, Mutates(p) PROVE Owned'
  <2>1. PICK l \in {"native", "lost", "failed", "done"} :
          /\ pc' = [pc EXCEPT ![p] = l]
          /\ l \in {"failed", "done"} => runs'[at[p].id] # 0 /\ touched'[at[p].id] = boot
          /\ l = "native" => runs' = runs
    BY <1>4 DEF Mutates
  <2>2. /\ at' = at /\ claimed' = claimed /\ boot' = boot
        /\ pc[p] \in Holders /\ pc[p] \in Mutating
        /\ at[p].id \in Ids /\ at[p].id \in claimed
    BY <1>1, <1>4 DEF Mutates, Holders, Mutating, Exclusive
  <2>3. ASSUME NEW q \in Procs, q # p, pc'[q] \in Holders
        PROVE  /\ pc[q] \in Holders /\ pc'[q] = pc[q] /\ at[q].id # at[p].id
               /\ at[q].id \in Ids
               /\ runs'[at[q].id] = runs[at[q].id] /\ touched'[at[q].id] = touched[at[q].id]
    <3>1. pc[q] \in Holders /\ pc'[q] = pc[q]
      BY <1>1, <2>1, <2>3 DEF ProcsOK
    <3>2. at[q].id # at[p].id /\ at[q].id \in Ids
      BY <1>1, <2>2, <2>3, <3>1 DEF Exclusive
    <3>3. QED BY <1>4, <3>1, <3>2 DEF Mutates
  <2>4. pc'[p] = l
    BY <1>1, <2>1 DEF ProcsOK
  <2>5. Exclusive'
    <3>1. ASSUME NEW q \in Procs, pc'[q] \in Holders PROVE pc[q] \in Holders
      BY <2>2, <2>3, <3>1
    <3>2. QED BY <1>1, <2>2, <3>1 DEF Exclusive
  <2>6. ASSUME NEW i \in Ids PROVE touched'[i] <= boot'
    <3>1. touched'[i] \in {touched[i], boot}
      BY <1>4 DEF Mutates
    <3>2. touched[i] <= boot /\ boot <= boot
      BY <1>1 DEF Ran, DiskOK, Boots
    <3>3. QED BY <2>2, <3>1, <3>2
  <2>7. ASSUME NEW i \in Ids, runs'[i] # 0 \/ touched'[i] # 0 PROVE i \in claimed'
    <3>1. CASE i = at[p].id
      BY <2>2, <3>1
    <3>2. CASE i # at[p].id
      BY <1>1, <1>4, <2>2, <2>7, <3>2 DEF Ran, Mutates
    <3>3. QED BY <3>1, <3>2
  <2>8. ASSUME NEW q \in Procs, pc'[q] \in Mutating PROVE runs'[at'[q].id] = 0
    <3>1. CASE q = p
      <4>1. l = "native"
        BY <2>1, <2>4, <2>8, <3>1 DEF Mutating
      <4>2. QED BY <1>1, <2>1, <2>2, <3>1, <4>1 DEF Ran
    <3>2. CASE q # p
      <4>1. pc'[q] \in Holders
        BY <2>8 DEF Mutating, Holders
      <4>2. QED BY <1>1, <2>2, <2>3, <2>8, <3>2, <4>1 DEF Ran
    <3>3. QED BY <3>1, <3>2
  <2>9. ASSUME NEW q \in Procs, pc'[q] \in {"failed", "done"}
        PROVE  runs'[at'[q].id] # 0 /\ touched'[at'[q].id] = boot'
    <3>1. CASE q = p
      BY <2>1, <2>2, <2>4, <2>9, <3>1
    <3>2. CASE q # p
      <4>1. pc'[q] \in Holders
        BY <2>9 DEF Holders
      <4>2. QED BY <1>1, <2>2, <2>3, <2>9, <3>2, <4>1 DEF Ran
    <3>3. QED BY <3>1, <3>2
  <2>10. QED BY <2>5, <2>6, <2>7, <2>8, <2>9 DEF Owned, Ran
<1>5. QED BY <1>2, <1>3, <1>4, OperationSteps

-----------------------------------------------------------------------------
(* What a step can do to the marker. *)

\* The locked changes of the marker file, by what they do to it.
MarkerKept == UNCHANGED <<marker, archived>>
MarkerMade ==
    /\ marker = NoMarker /\ archived' = archived
    /\ marker'.phase \in {"reserved", "unreadable"}
    /\ marker' \in Attempts => marker'.asked = FALSE
MarkerRemoved ==
    /\ marker.phase = "reserved" /\ marker' = NoMarker /\ archived' = archived
MarkerRetired ==
    /\ marker \in Attempts /\ marker.phase = "verified"
    /\ marker' = NoMarker /\ archived' = archived \union {marker.id}
MarkerSaved(p, from, to) ==
    /\ marker \in Attempts /\ marker' \in Attempts /\ archived' = archived
    /\ at[p] \in Attempts
    /\ pc[p] = from /\ marker' = As(at[p], to)
    /\ marker.id = at[p].id
    /\ marker'.id = at[p].id /\ marker'.phase = to /\ marker'.before = at[p].before
    /\ marker'.asked = marker.asked
    /\ AttemptPhaseUpdate(marker.phase, to)
    /\ marker.phase = to => marker' = marker
MarkerAsked(p, asked) ==
    /\ marker \in Attempts /\ marker' \in Attempts /\ archived' = archived
    /\ marker = at[p] /\ marker.phase = "awaiting_reboot" /\ marker.asked # asked
    /\ marker'.id = marker.id /\ marker'.phase = marker.phase
    /\ marker'.before = marker.before /\ marker'.asked = asked

\* One of them, and where it leaves its process.
MarkerStep ==
    \/ MarkerKept \/ MarkerMade \/ MarkerRemoved \/ MarkerRetired
    \/ \E p \in Procs :
          \/ MarkerSaved(p, "latch", "may_have_run") /\ at'[p].id = at[p].id
          \/ MarkerSaved(p, "lost", "unknown") /\ pc'[p] = "idle"
          \/ MarkerSaved(p, "failed", "failed") /\ pc'[p] = "idle"
          \/ MarkerSaved(p, "done", "awaiting_reboot") /\ pc'[p] = "record"
          \/ MarkerSaved(p, "prove", "verified") /\ pc'[p] = "idle"
          \/ MarkerAsked(p, TRUE) \/ MarkerAsked(p, FALSE)

\* What SaveAttempt checked and wrote.
LEMMA SaveTyped ==
  ASSUME DiskOK, NEW a \in Attempts, NEW ph \in Phases, SaveAttempt(As(a, ph))
  PROVE  /\ marker \in Attempts /\ marker' \in Attempts
         /\ marker' = As(a, ph) /\ marker.id = a.id
         /\ marker'.id = a.id /\ marker'.phase = ph /\ marker'.before = a.before
         /\ marker'.asked = marker.asked
         /\ AttemptPhaseUpdate(marker.phase, ph)
         /\ marker.phase = ph => marker' = marker
<1>1. marker \in Attempts
  BY Fields DEF DiskOK, SaveAttempt
<1>2. marker' = As(a, ph) /\ SaveAllowed(marker, As(a, ph))
  BY DEF SaveAttempt
<1>3. QED BY <1>1, <1>2, AsAttempt DEF SaveAllowed

\* No step changes the marker in any other way.
LEMMA MarkerSteps == Typed /\ [Next]_vars => MarkerStep
<1> SUFFICES ASSUME Typed, [Next]_vars PROVE MarkerStep
  OBVIOUS
<1> USE DEF disk, procs, server, history, Goto, Hold
<1>a. DiskOK /\ ProcsOK /\ ServerOK /\ HistoryOK /\ Copies
  BY DEF Typed, TypeOK
<1>1. ASSUME NEW p \in Procs, Start(p) PROVE MarkerStep
  BY <1>1 DEF MarkerStep, MarkerKept, Start
<1>2. ASSUME NEW p \in Procs, Stop(p) PROVE MarkerStep
  BY <1>2 DEF MarkerStep, MarkerKept, Stop, Return
<1>3. ASSUME NEW p \in Procs, Crash(p) PROVE MarkerStep
  BY <1>3 DEF MarkerStep, MarkerKept, Crash, Off
<1>4. ASSUME NEW p \in Procs, SaveConfig(p) PROVE MarkerStep
  BY <1>4 DEF MarkerStep, MarkerKept, SaveConfig
<1>5. ASSUME NEW p \in Procs, Poll(p) PROVE MarkerStep
  BY <1>5 DEF MarkerStep, MarkerKept, Poll
<1>6. ASSUME NEW p \in Procs, LoadAttempt(p) PROVE MarkerStep
  BY <1>6 DEF MarkerStep, MarkerKept, LoadAttempt
<1>7. ASSUME NEW p \in Procs, Archive(p) PROVE MarkerStep
  <2>1. /\ marker = at[p] /\ marker.phase = "verified"
        /\ marker' = NoMarker /\ archived' = archived \union {marker.id}
    BY <1>7 DEF Archive, ArchiveVerifiedAttempt
  <2>2. marker \in Attempts
    BY <1>a, <2>1, Fields DEF DiskOK
  <2>3. QED BY <2>1, <2>2 DEF MarkerStep, MarkerRetired
<1>8. ASSUME NEW p \in Procs, RetryReserved(p) PROVE MarkerStep
  BY <1>8 DEF MarkerStep, MarkerRemoved, RetryReserved, RemoveAttemptForRetry,
     ValidateReservedRetry
<1>9. ASSUME NEW p \in Procs, ReserveAttempt(p) PROVE MarkerStep
  BY <1>9, <1>a, NewAttemptTyped DEF MarkerStep, MarkerMade, ReserveAttempt, CanReserve
<1>10. ASSUME NEW p \in Procs, ReserveTorn(p) PROVE MarkerStep
  BY <1>10, Fields DEF MarkerStep, MarkerMade, ReserveTorn, CanReserve
<1>11. ASSUME NEW p \in Procs, StartRejoin(p) PROVE MarkerStep
  BY <1>11 DEF MarkerStep, MarkerKept, StartRejoin
<1>12. ASSUME NEW p \in Procs, MayHaveRun(p) PROVE MarkerStep
  <2>1. at[p] \in Attempts /\ pc[p] = "latch" /\ SaveAttempt(As(at[p], "may_have_run"))
    BY <1>12, <1>a DEF Copies, CopyOK, MayHaveRun
  <2>2. archived' = archived
    BY <1>12 DEF MayHaveRun
  <2>3. MarkerSaved(p, "latch", "may_have_run")
    BY <1>a, <2>1, <2>2, SaveTyped DEF MarkerSaved, Phases
  <2>4. at'[p].id = at[p].id
    BY <1>12, <1>a, <2>1, AsAttempt DEF ProcsOK, Phases, MayHaveRun
  <2>5. QED BY <2>3, <2>4 DEF MarkerStep
<1>13. ASSUME NEW p \in Procs, SetRejoinName(p) PROVE MarkerStep
  BY <1>13 DEF MarkerStep, MarkerKept, SetRejoinName
<1>14. ASSUME NEW p \in Procs, Native(p) PROVE MarkerStep
  BY <1>14 DEF MarkerStep, MarkerKept, Native
<1>15. ASSUME NEW p \in Procs, SaveUnknown(p) PROVE MarkerStep
  <2>1. at[p] \in Attempts /\ pc[p] = "lost" /\ SaveAttempt(As(at[p], "unknown"))
    BY <1>15, <1>a DEF Copies, CopyOK, SaveUnknown
  <2>2. archived' = archived
    BY <1>15 DEF SaveUnknown
  <2>3. MarkerSaved(p, "lost", "unknown")
    BY <1>a, <2>1, <2>2, SaveTyped DEF MarkerSaved, Phases
  <2>4. pc'[p] = "idle"
    BY <1>15, <1>a, <2>1, <1>a DEF ProcsOK, SaveUnknown, Return
  <2>5. QED BY <2>3, <2>4 DEF MarkerStep
<1>16. ASSUME NEW p \in Procs, SaveFailed(p) PROVE MarkerStep
  <2>1. at[p] \in Attempts /\ pc[p] = "failed" /\ SaveAttempt(As(at[p], "failed"))
    BY <1>16, <1>a DEF Copies, CopyOK, SaveFailed
  <2>2. archived' = archived
    BY <1>16 DEF SaveFailed
  <2>3. MarkerSaved(p, "failed", "failed")
    BY <1>a, <2>1, <2>2, SaveTyped DEF MarkerSaved, Phases
  <2>4. pc'[p] = "idle"
    BY <1>16, <1>a, <2>1, <1>a DEF ProcsOK, SaveFailed, Return
  <2>5. QED BY <2>3, <2>4 DEF MarkerStep
<1>17. ASSUME NEW p \in Procs, SaveAwaiting(p) PROVE MarkerStep
  <2>1. at[p] \in Attempts /\ pc[p] = "done" /\ SaveAttempt(As(at[p],
  "awaiting_reboot"))
    BY <1>17, <1>a DEF Copies, CopyOK, SaveAwaiting
  <2>2. archived' = archived
    BY <1>17 DEF SaveAwaiting
  <2>3. MarkerSaved(p, "done", "awaiting_reboot")
    BY <1>a, <2>1, <2>2, SaveTyped DEF MarkerSaved, Phases
  <2>4. pc'[p] = "record"
    BY <1>17, <1>a, <2>1, <1>a DEF ProcsOK, SaveAwaiting
  <2>5. QED BY <2>3, <2>4 DEF MarkerStep
<1>18. ASSUME NEW p \in Procs, Record(p) PROVE MarkerStep
  BY <1>18 DEF MarkerStep, MarkerKept, Record, Return
<1>19. ASSUME NEW p \in Procs, ReportVerified(p) PROVE MarkerStep
  BY <1>19 DEF MarkerStep, MarkerKept, ReportVerified, NewBoot
<1>20. ASSUME NEW p \in Procs, SaveVerified(p) PROVE MarkerStep
  <2>1. at[p] \in Attempts /\ pc[p] = "prove" /\ SaveAttempt(As(at[p], "verified"))
    BY <1>20, <1>a DEF Copies, CopyOK, SaveVerified
  <2>2. archived' = archived
    BY <1>20 DEF SaveVerified
  <2>3. MarkerSaved(p, "prove", "verified")
    BY <1>a, <2>1, <2>2, SaveTyped DEF MarkerSaved, Phases
  <2>4. pc'[p] = "idle"
    BY <1>20, <1>a, <2>1, <1>a DEF ProcsOK, SaveVerified, Return
  <2>5. QED BY <2>3, <2>4 DEF MarkerStep
<1>21. ASSUME NEW p \in Procs, Coordinate(p) PROVE MarkerStep
  BY <1>21 DEF MarkerStep, MarkerKept, Coordinate
<1>22. ASSUME NEW p \in Procs, ClaimRestart(p) PROVE MarkerStep
  <2>1. at[p] \in Attempts /\ marker = at[p]
    BY <1>22, <1>a DEF Copies, CopyOK, Restarting, ClaimRestart,
       SetAttemptRebootRequested
  <2>2. /\ marker.phase = "awaiting_reboot" /\ marker.asked # TRUE
        /\ marker' = [at[p] EXCEPT !.asked = TRUE] /\ archived' = archived
    BY <1>22, <2>1 DEF ClaimRestart, SetAttemptRebootRequested
  <2>3. MarkerAsked(p, TRUE)
    BY <2>1, <2>2, AskedAttempt DEF MarkerAsked
  <2>4. QED BY <2>3 DEF MarkerStep
<1>23. ASSUME NEW p \in Procs, SaveTaken(p) PROVE MarkerStep
  BY <1>23 DEF MarkerStep, MarkerKept, SaveTaken
<1>24. ASSUME NEW p \in Procs, RequestReboot(p) PROVE MarkerStep
  BY <1>24 DEF MarkerStep, MarkerKept, RequestReboot, Return
<1>25. ASSUME NEW p \in Procs, RefusedDirectoryReboot(p) PROVE MarkerStep
  <2>1. at[p] \in Attempts /\ marker = at[p]
    BY <1>25, <1>a DEF Copies, CopyOK, Restarting, RefusedDirectoryReboot,
       SetAttemptRebootRequested
  <2>2. /\ marker.phase = "awaiting_reboot" /\ marker.asked # FALSE
        /\ marker' = [at[p] EXCEPT !.asked = FALSE] /\ archived' = archived
    BY <1>25, <2>1 DEF RefusedDirectoryReboot, SetAttemptRebootRequested
  <2>3. MarkerAsked(p, FALSE)
    BY <2>1, <2>2, AskedAttempt DEF MarkerAsked
  <2>4. QED BY <2>3 DEF MarkerStep
<1>26. ASSUME NEW p \in Procs, RotateIdentity(p) PROVE MarkerStep
  BY <1>26 DEF MarkerStep, MarkerKept, RotateIdentity
<1>27. ASSUME NEW p \in Procs, ArchiveRotated(p) PROVE MarkerStep
  <2>1. /\ marker = at[p] /\ marker.phase = "verified"
        /\ marker' = NoMarker /\ archived' = archived \union {marker.id}
    BY <1>27 DEF ArchiveRotated, ArchiveVerifiedAttempt
  <2>2. marker \in Attempts
    BY <1>a, <2>1, Fields DEF DiskOK
  <2>3. QED BY <2>1, <2>2 DEF MarkerStep, MarkerRetired
<1>28. ASSUME NEW p \in Procs, NewKey(p) PROVE MarkerStep
  BY <1>28 DEF MarkerStep, MarkerKept, NewKey, Return
<1>29. ASSUME NEW again \in BOOLEAN, Issue(again) PROVE MarkerStep
  BY <1>29 DEF MarkerStep, MarkerKept, Issue
<1>30. CASE Reboot
  BY <1>30 DEF MarkerStep, MarkerKept, Reboot, Off
<1>z. CASE UNCHANGED vars
  BY <1>z DEF vars, MarkerStep, MarkerKept
<1>q. QED BY <1>1, <1>2, <1>3, <1>4, <1>5, <1>6, <1>7, <1>8, <1>9, <1>10, <1>11, <1>12,
   <1>13, <1>14, <1>15, <1>16, <1>17, <1>18, <1>19, <1>20, <1>21, <1>22, <1>23, <1>24,
   <1>25, <1>26, <1>27, <1>28, <1>29, <1>30, <1>z DEF Next, ProcessRejoin, Restart,
   Identity

-----------------------------------------------------------------------------
(* The marker is latched while the operation may run, so nothing is forgotten. *)

\* The marker names the operation that is about to run, and says so.
Latched ==
    \A p \in Procs : pc[p] \in {"name", "native"} =>
        marker.id = at[p].id /\ marker.phase \in {"may_have_run", "unknown"}

\* Saving can leave these two phases only for each other, unless the saver is
\* past its native call.
LEMMA LatchHeld ==
  Typed /\ Owned /\ MarkerStep =>
    \A q \in Procs :
      /\ pc[q] \in {"name", "native"}
      /\ marker.id = at[q].id /\ marker.phase \in {"may_have_run", "unknown"}
      => marker'.id = at[q].id /\ marker'.phase \in {"may_have_run", "unknown"}
<1> SUFFICES ASSUME Typed, Owned, MarkerStep, NEW q \in Procs,
                    pc[q] \in {"name", "native"}, marker.id = at[q].id,
                    marker.phase \in {"may_have_run", "unknown"}
             PROVE  marker'.id = at[q].id /\ marker'.phase \in {"may_have_run", "unknown"}
  OBVIOUS
<1>1. ASSUME NEW p \in Procs, pc[p] \in {"done", "failed"} PROVE at[p].id # at[q].id
  BY <1>1 DEF Owned, Exclusive, Holders
<1>2. CASE MarkerKept
  BY <1>2 DEF MarkerKept
<1>3. ~MarkerMade /\ ~MarkerRemoved /\ ~MarkerRetired
  BY Fields DEF MarkerMade, MarkerRemoved, MarkerRetired
<1>4. ASSUME NEW p \in Procs, NEW from, NEW to, MarkerSaved(p, from, to)
      PROVE  /\ marker'.id = at[q].id /\ pc[p] = from
             /\ marker'.phase = to /\ from \notin {"done", "failed"}
             /\ AttemptPhaseUpdate(marker.phase, to)
  BY <1>1, <1>4 DEF MarkerSaved
<1>5. ASSUME NEW p \in Procs PROVE ~MarkerSaved(p, "prove", "verified")
  BY <1>4 DEF AttemptPhaseUpdate
<1>6. ASSUME NEW p \in Procs, NEW b \in BOOLEAN PROVE ~MarkerAsked(p, b)
  BY DEF MarkerAsked
<1>7. QED BY <1>2, <1>3, <1>4, <1>5, <1>6 DEF MarkerStep

\* The latch is closed before the call and stays closed through it.
LEMMA LatchedStep == Typed /\ Owned /\ Latched /\ [Next]_vars => Latched'
<1> SUFFICES ASSUME Typed, Owned, Latched, [Next]_vars,
                    NEW q \in Procs, pc'[q] \in {"name", "native"}
             PROVE  marker'.id = at'[q].id /\ marker'.phase \in {"may_have_run", "unknown"}
  BY DEF Latched
<1>1. MarkerStep
  BY MarkerSteps
<1>2. pc[q] \in {"name", "native"} =>
        marker'.id = at[q].id /\ marker'.phase \in {"may_have_run", "unknown"}
  BY <1>1, LatchHeld DEF Latched
<1>3. CASE Quiet
  <2>1. pc[q] \in {"name", "native"} => at'[q].id = at[q].id
    BY <1>3 DEF Quiet, Holders
  <2>2. QED BY <1>2, <1>3, <2>1 DEF Quiet
<1>4. ASSUME NEW p \in Procs, Claims(p) PROVE pc[q] \in {"name", "native"} /\ at' = at
  BY <1>4 DEF Typed, TypeOK, ProcsOK, Claims
<1>5. ASSUME NEW p \in Procs, Mutates(p) PROVE pc[q] \in {"name", "native"} /\ at' = at
  BY <1>5 DEF Typed, TypeOK, ProcsOK, Mutates
<1>6. QED BY <1>2, <1>3, <1>4, <1>5, OperationSteps

\* A change is recorded by the latch that preceded it; only verified markers go.
LEMMA ForgottenStep ==
  Typed /\ Owned /\ Latched /\ NothingForgotten /\ [Next]_vars => NothingForgotten'
<1> SUFFICES ASSUME Typed, Owned, Latched, NothingForgotten, [Next]_vars,
                    NEW i \in Ids, touched'[i] # 0 \/ runs'[i] # 0
             PROVE  i \in archived' \/ (marker'.id = i /\ marker'.phase # "reserved")
  BY DEF NothingForgotten
<1>1. i \in archived \/ (marker.id = i /\ marker.phase # "reserved")
  <2>1. CASE touched'[i] = touched[i] /\ runs'[i] = runs[i]
    BY <2>1 DEF NothingForgotten
  <2>2. CASE ~(touched'[i] = touched[i] /\ runs'[i] = runs[i])
    <3>1. PICK p \in Procs : Mutates(p)
      BY <2>2, OperationSteps DEF Quiet, Claims
    <3>2. i = at[p].id
      BY <2>2, <3>1 DEF Mutates
    <3>3. QED BY <3>1, <3>2 DEF Latched, Mutates
  <2>3. QED BY <2>1, <2>2
<1>2. MarkerStep
  BY MarkerSteps
<1>3. CASE MarkerKept
  BY <1>1, <1>3 DEF MarkerKept
<1>4. CASE MarkerMade \/ MarkerRemoved \/ MarkerRetired
  BY <1>1, <1>4, Fields DEF MarkerMade, MarkerRemoved, MarkerRetired
<1>5. ASSUME NEW p \in Procs, NEW from, NEW to, MarkerSaved(p, from, to),
to # "reserved"
      PROVE  i \in archived' \/ (marker'.id = i /\ marker'.phase # "reserved")
  BY <1>1, <1>5 DEF MarkerSaved
<1>6. ASSUME NEW p \in Procs, NEW b \in BOOLEAN, MarkerAsked(p, b)
      PROVE  i \in archived' \/ (marker'.id = i /\ marker'.phase # "reserved")
  BY <1>1, <1>6 DEF MarkerAsked
<1>7. QED BY <1>2, <1>3, <1>4, <1>5, <1>6 DEF MarkerStep

\* The inductive invariant behind the first three theorems.
Remembered == Typed /\ Owned /\ Latched /\ NothingForgotten

\* It holds at first.
LEMMA RememberedInit == Init => Remembered
<1> SUFFICES ASSUME Init PROVE Remembered
  OBVIOUS
<1>1. Latched /\ NothingForgotten
  BY DEF Init, Latched, NothingForgotten
<1>2. QED BY <1>1, TypedInit, OwnedInit DEF Remembered

\* Every step keeps it.
LEMMA RememberedStep == Remembered /\ [Next]_vars => Remembered'
  BY TypedStep, OwnedStep, LatchedStep, ForgottenStep DEF Remembered

\* A native change needs an unused plan, and everything else archived.
LEMMA ReplayedStep ==
  Remembered /\ [Next]_vars =>
    \A i \in Ids : runs'[i] # runs[i] \/ touched'[i] # touched[i] =>
          /\ runs[i] = 0
          /\ \A j \in Ids \ {i} : touched[j] # 0 => j \in archived
<1> SUFFICES ASSUME Remembered, [Next]_vars, NEW i \in Ids,
                    runs'[i] # runs[i] \/ touched'[i] # touched[i]
             PROVE  /\ runs[i] = 0
                    /\ \A j \in Ids \ {i} : touched[j] # 0 => j \in archived
  OBVIOUS
<1>0. Typed /\ Owned /\ Latched /\ NothingForgotten
  BY DEF Remembered
<1>1. PICK p \in Procs : Mutates(p)
  BY <1>0, OperationSteps DEF Quiet, Claims
<1>2. i = at[p].id
  BY <1>1 DEF Mutates
<1>3. runs[i] = 0
  BY <1>0, <1>1, <1>2 DEF Owned, Ran, Mutates, Mutating
<1>4. marker.id = i
  BY <1>0, <1>1, <1>2 DEF Latched, Mutates
<1>5. QED BY <1>0, <1>3, <1>4 DEF NothingForgotten

\* The variables keep their types, through crashes and reboots at any line.
THEOREM Types == Spec => []TypeOK
<1>1. Init => Remembered
  BY RememberedInit
<1>2. Remembered /\ [Next]_vars => Remembered'
  BY RememberedStep
<1>3. Remembered => TypeOK
  BY DEF Remembered, Typed
<1>4. QED BY <1>1, <1>2, <1>3, PTL DEF Spec

\* Whatever touched the machine's membership is named by the active marker, past
\* its reservation, or by an archived one (rejoin.go, attempt_archive.go).
THEOREM NeverForgotten == Spec => []NothingForgotten
<1>1. Remembered => NothingForgotten
  BY DEF Remembered
<1>2. QED BY <1>1, RememberedInit, RememberedStep, PTL DEF Spec

\* No native operation runs twice or over an unverified one, whatever plans and
\* copies of the marker two agents hold (directory_rejoin.go processRejoin).
THEOREM NeverReplayed == Spec => NothingReplayed
<1>1. Remembered /\ [Next]_vars =>
        [\A i \in Ids : runs'[i] # runs[i] \/ touched'[i] # touched[i] =>
          /\ runs[i] = 0
          /\ \A j \in Ids \ {i} : touched[j] # 0 => j \in archived]_vars
  BY ReplayedStep
<1>2. QED BY <1>1, RememberedInit, RememberedStep, PTL DEF Spec, NothingReplayed

-----------------------------------------------------------------------------
(* What awaits a restart has run and is over; what is verified has seen one. *)

\* The operation changed the machine, and nobody is still at it.
Settled(i) ==
    /\ i \in Ids /\ touched[i] # 0
    /\ \A p \in Procs : pc[p] \in Holders => at[p].id # i

\* And the machine has started again since.
Proven(i) == Settled(i) /\ touched[i] < boot

\* What a marker, or a copy of it, claims about the operation is so.
CopySound(a) ==
    a \in Attempts =>
        /\ a.phase = "awaiting_reboot" => Settled(a.id) /\ touched[a.id] = a.before
        /\ a.phase = "verified" => Proven(a.id)

\* All of them, and all that was archived or reported.
Sound ==
    /\ CopySound(marker)
    /\ \A p \in Procs : CopySound(at[p])
    /\ \A i \in archived \union confirmed : Proven(i)

\* What is over stays over: its plan cannot be started again.
LEMMA SettledHeld ==
  Typed /\ Owned /\ [Next]_vars =>
    \A i : Settled(i) => /\ Settled(i)' /\ touched'[i] = touched[i]
                         /\ Proven(i) => Proven(i)'
<1> SUFFICES ASSUME Typed, Owned, [Next]_vars, NEW i, Settled(i)
             PROVE  /\ Settled(i)' /\ touched'[i] = touched[i]
                    /\ Proven(i) => Proven(i)'
  OBVIOUS
<1>1. /\ i \in Ids /\ touched[i] # 0
      /\ \A p \in Procs : pc[p] \in Holders => at[p].id # i
  BY DEF Settled
<1>2. /\ touched[i] \in Nat /\ boot \in Nat /\ boot' \in Nat
      /\ ProcsOK
  BY <1>1, TypedStep, RejoinConstants DEF Typed, TypeOK, HistoryOK, DiskOK, Boots
<1>3. /\ touched'[i] = touched[i] /\ boot <= boot'
      /\ \A p \in Procs : pc'[p] \in Holders => at'[p].id # i
  <2>1. CASE Quiet
    BY <1>1, <2>1 DEF Quiet
  <2>2. ASSUME NEW p \in Procs, Claims(p)
        PROVE  /\ touched'[i] = touched[i] /\ boot <= boot'
               /\ \A q \in Procs : pc'[q] \in Holders => at'[q].id # i
    <3>1. i \in claimed
      BY <1>1 DEF Owned, Ran
    <3>2. QED BY <1>1, <1>2, <2>2, <3>1 DEF ProcsOK, Claims
  <2>3. ASSUME NEW p \in Procs, Mutates(p)
        PROVE  /\ touched'[i] = touched[i] /\ boot <= boot'
               /\ \A q \in Procs : pc'[q] \in Holders => at'[q].id # i
    <3>1. pc[p] \in Holders /\ i # at[p].id
      BY <1>1, <2>3 DEF Mutates, Holders
    <3>2. QED BY <1>1, <1>2, <2>3, <3>1 DEF ProcsOK, Mutates
  <2>4. QED BY <2>1, <2>2, <2>3, OperationSteps
<1>4. Settled(i)'
  BY <1>1, <1>3 DEF Settled
<1>5. ASSUME touched[i] < boot PROVE touched'[i] < boot'
  BY <1>2, <1>3, <1>5
<1>6. QED BY <1>3, <1>4, <1>5 DEF Proven

\* So a copy that is sound stays sound.
LEMMA SoundHeld ==
  Typed /\ Owned /\ [Next]_vars => \A a : CopySound(a) => CopySound(a)'
<1> SUFFICES ASSUME Typed, Owned, [Next]_vars, NEW a, CopySound(a) PROVE CopySound(a)'
  OBVIOUS
<1>1. /\ Settled(a.id) => Settled(a.id)' /\ touched'[a.id] = touched[a.id]
      /\ Proven(a.id) => Proven(a.id)'
  BY SettledHeld DEF Proven
<1>2. QED BY <1>1 DEF CopySound

\* And every marker that is written is sound.
LEMMA MarkerSound == Typed /\ Owned /\ Sound /\ [Next]_vars => CopySound(marker)'
<1> SUFFICES ASSUME Typed, Owned, Sound, [Next]_vars PROVE CopySound(marker)'
  OBVIOUS
<1>0. CopySound(marker) /\ \A p \in Procs : CopySound(at[p])
  BY DEF Sound
<1>1. CASE marker' = marker
  <2>1. CopySound(marker)'
    <3>1. PICK a : a = marker
      OBVIOUS
    <3>2. CopySound(a)'
      BY <1>0, <3>1, SoundHeld
    <3>3. marker' = a
      BY <1>1, <3>1
    <3>4. QED BY <3>2, <3>3 DEF CopySound, Proven, Settled
  <2>2. QED BY <2>1
<1>2. CASE marker' # marker
  <2>1. CASE marker'.phase \notin {"awaiting_reboot", "verified"}
    BY <2>1 DEF CopySound
  <2>2. ASSUME NEW p \in Procs, MarkerSaved(p, "done", "awaiting_reboot"),
  pc'[p] = "record"
        PROVE  CopySound(marker)'
    <3>1. Quiet
      BY <1>2, OperationSteps DEF Claims, Mutates
    <3>2. /\ at[p].id \in Ids /\ at[p].before = boot /\ touched[at[p].id] = boot
          /\ boot # 0 /\ pc[p] = "done"
      BY <2>2, Fields DEF MarkerSaved, Typed, TypeOK, DiskOK, Boots, Copies, CopyOK,
         Owned, Ran
    <3>3. ASSUME NEW q \in Procs, pc'[q] \in Holders PROVE at'[q].id # at[p].id
      <4>1. q # p
        BY <2>2, <3>3 DEF Holders
      <4>2. pc[q] \in Holders /\ at'[q].id = at[q].id
        BY <3>1, <3>3 DEF Quiet
      <4>3. QED BY <3>2, <4>1, <4>2 DEF Owned, Exclusive, Holders
    <3>4. touched' = touched
      BY <3>1 DEF Quiet
    <3>5. /\ marker'.id = at[p].id /\ marker'.before = boot
          /\ marker'.phase = "awaiting_reboot"
      BY <2>2, <3>2 DEF MarkerSaved
    <3>6. Settled(marker.id)' /\ touched'[marker'.id] = marker'.before
      BY <3>2, <3>3, <3>4, <3>5 DEF Settled
    <3>7. QED BY <3>5, <3>6 DEF CopySound
  <2>3. ASSUME NEW p \in Procs, MarkerSaved(p, "prove",
  "verified") PROVE CopySound(marker)'
    <3>1. /\ at[p] \in Attempts /\ at[p].phase = "awaiting_reboot" /\ at[p].before # boot
      BY <2>3 DEF MarkerSaved, Typed, Copies, CopyOK
    <3>2. Settled(at[p].id) /\ touched[at[p].id] # boot
      BY <1>0, <3>1 DEF CopySound
    <3>3. touched[at[p].id] <= boot /\ touched[at[p].id] \in Nat /\ boot \in Nat
      BY <3>2, RejoinConstants DEF Settled, Owned, Ran, Typed, TypeOK, HistoryOK,
         DiskOK, Boots
    <3>4. touched[at[p].id] < boot
      BY <3>2, <3>3
    <3>5. Proven(at[p].id)
      BY <3>2, <3>4 DEF Proven
    <3>a. PICK i : i = at[p].id
      OBVIOUS
    <3>6. Proven(i)'
      BY <3>2, <3>5, <3>a, SettledHeld
    <3>7. marker'.id = at[p].id /\ marker'.phase = "verified"
      BY <2>3 DEF MarkerSaved
    <3>8. Proven(marker.id)'
      BY <3>6, <3>7, <3>a DEF Proven, Settled
    <3>9. QED BY <3>7, <3>8 DEF CopySound
  <2>4. ASSUME NEW p \in Procs, NEW b \in BOOLEAN, MarkerAsked(p,
  b) PROVE CopySound(marker)'
    <3>1. /\ marker \in Attempts /\ marker.phase = "awaiting_reboot"
          /\ marker'.id = marker.id /\ marker'.phase = marker.phase
          /\ marker'.before = marker.before
      BY <2>4 DEF MarkerAsked
    <3>2. Settled(marker.id) /\ touched[marker.id] = marker.before
      BY <1>0, <3>1 DEF CopySound
    <3>3. Settled(marker.id)' /\ touched'[marker'.id] = marker'.before
      BY <3>1, <3>2, SettledHeld DEF Settled
    <3>4. QED BY <3>1, <3>3 DEF CopySound
  <2>5. MarkerStep
    BY MarkerSteps
  <2>6. ASSUME MarkerKept \/ MarkerMade \/ MarkerRemoved \/ MarkerRetired
        PROVE  marker'.phase \notin {"awaiting_reboot", "verified"}
    BY <1>2, <2>6, Fields DEF MarkerKept, MarkerMade, MarkerRemoved, MarkerRetired
  <2>7. ASSUME NEW p \in Procs, NEW from, NEW to, MarkerSaved(p, from, to),
               to \in {"may_have_run", "unknown", "failed"}
        PROVE  marker'.phase \notin {"awaiting_reboot", "verified"}
    BY <2>7 DEF MarkerSaved
  <2>8. QED BY <2>1, <2>2, <2>3, <2>4, <2>5, <2>6, <2>7 DEF MarkerStep
<1>3. QED BY <1>1, <1>2

\* Copies come from the marker; archived and reported attempts from copies.
LEMMA SoundStep == Typed /\ Owned /\ Sound /\ [Next]_vars => Sound'
<1> SUFFICES ASSUME Typed, Owned, Sound, [Next]_vars PROVE Sound'
  OBVIOUS
<1>1. CopySound(marker)'
  BY MarkerSound
<1>2. ASSUME NEW p \in Procs PROVE CopySound(at[p])'
  <2>1. ASSUME NEW a, CopySound(a), at'[p] = a PROVE CopySound(at[p])'
    <3>1. /\ Settled(a.id) => Settled(a.id)' /\ touched'[a.id] = touched[a.id]
          /\ Proven(a.id) => Settled(a.id)' /\ touched'[a.id] < boot'
      BY SettledHeld DEF Proven
    <3>2. Settled(a.id) => Settled(at[p].id)' /\ touched'[at'[p].id] = touched[a.id]
      BY <2>1, <3>1 DEF Settled
    <3>3. Proven(a.id) => Proven(at[p].id)'
      BY <2>1, <3>1 DEF Proven, Settled
    <3>4. QED BY <2>1, <3>2, <3>3 DEF CopySound
  <2>2. at'[p] \in {at[p], NoMarker, marker, marker'}
    BY OperationSteps DEF Quiet, Claims, Mutates
  <2>3. CASE at'[p] = marker'
    BY <1>1, <2>3 DEF CopySound, Proven, Settled
  <2>4. CASE at'[p] = NoMarker
    BY <2>4, Fields DEF CopySound
  <2>5. CopySound(at[p]) /\ CopySound(marker)
    BY DEF Sound
  <2>6. QED BY <2>1, <2>2, <2>3, <2>4, <2>5
<1>3. ASSUME NEW i \in archived' PROVE Proven(i)'
  <2>1. Proven(i)
    <3>1. MarkerStep
      BY MarkerSteps
    <3>2. i \in archived \/ (MarkerRetired /\ i = marker.id)
      BY <1>3, <3>1 DEF MarkerStep, MarkerKept, MarkerMade, MarkerRemoved,
         MarkerRetired, MarkerSaved, MarkerAsked
    <3>3. QED BY <3>2 DEF Sound, MarkerRetired, CopySound
  <2>2. QED BY <2>1, SettledHeld DEF Proven
<1>4. ASSUME NEW i \in confirmed' PROVE Proven(i)'
  <2>1. Proven(i)
    <3>1. i \in confirmed \/ \E q \in Procs : Reports(q) /\ i = at[q].id
      BY <1>4, OperationSteps DEF Quiet, Claims, Mutates, Reports
    <3>2. ASSUME NEW q \in Procs, Reports(q), i = at[q].id PROVE Proven(i)
      <4>1. Settled(i) /\ touched[i] # boot
        BY <3>2 DEF Sound, CopySound, Reports
      <4>2. touched[i] <= boot /\ touched[i] \in Nat /\ boot \in Nat
        BY <4>1, RejoinConstants DEF Settled, Owned, Ran, Typed, TypeOK, HistoryOK,
           DiskOK, Boots
      <4>3. touched[i] < boot
        BY <4>1, <4>2
      <4>4. QED BY <4>1, <4>3 DEF Proven
    <3>3. QED BY <3>1, <3>2 DEF Sound
  <2>2. QED BY <2>1, SettledHeld DEF Proven
<1>5. QED BY <1>1, <1>2, <1>3, <1>4 DEF Sound

\* There is nothing to be sound about at first.
LEMMA SoundInit == Init => Sound
  BY Fields DEF Init, Sound, CopySound

\* Verified, archived or reported means run, and restarted since
\* (directory_rejoin.go, NewBoot).
THEOREM VerifiedOnlyAfterRestart == Spec => []VerifiedAfterRestart
<1>1. Init => Remembered /\ Sound
  BY RememberedInit, SoundInit
<1>2. Remembered /\ Sound /\ [Next]_vars => (Remembered /\ Sound)'
  BY RememberedStep, SoundStep DEF Remembered
<1>3. Remembered /\ Sound => VerifiedAfterRestart
  <2> SUFFICES ASSUME Remembered, Sound, NEW i \in Ids,
                      \/ i \in archived \union confirmed
                      \/ marker.id = i /\ marker.phase = "verified"
               PROVE  touched[i] # 0 /\ touched[i] < boot
    BY DEF VerifiedAfterRestart
  <2>1. CASE i \in archived \union confirmed
    BY <2>1 DEF Sound, Proven, Settled
  <2>2. CASE marker.id = i /\ marker.phase = "verified"
    BY <2>2, Fields DEF Remembered, Typed, TypeOK, DiskOK, Sound, CopySound, Proven,
       Settled
  <2>3. QED BY <2>1, <2>2
<1>4. QED BY <1>1, <1>2, <1>3, PTL DEF Spec

-----------------------------------------------------------------------------
(* One restart for an operation. *)

\* No step of a coordinator past its claim of the restart.
RestKept ==
    /\ restarts' = restarts
    /\ \A q \in Procs : pc'[q] \in Restarting =>
          pc[q] \in Restarting /\ at'[q].id = at[q].id
    /\ \/ marker' = marker
       \/ marker'.phase # "awaiting_reboot"
       \/ \E p \in Procs : pc[p] = "done" /\ marker'.id = at[p].id

\* p claims the restart on the marker.
RestClaimed(p) ==
    /\ MarkerAsked(p, TRUE) /\ restarts' = restarts
    /\ pc[p] = "restart" /\ pc' = [pc EXCEPT ![p] = "taken"]
    /\ at'[p].id = at[p].id
    /\ \A q \in Procs \ {p} : at'[q] = at[q]

\* p gives the claim back: nobody restarted.
RestReleased(p) ==
    /\ MarkerAsked(p, FALSE) /\ restarts' = restarts
    /\ pc[p] \in Restarting /\ pc' = [pc EXCEPT ![p] = "idle"]
    /\ \A q \in Procs \ {p} : at'[q] = at[q]

\* The system accepts the restart p asks for.
RestAccepted(p) ==
    /\ marker' = marker
    /\ restarts' = [restarts EXCEPT ![at[p].id] = @ + 1]
    /\ pc[p] = "request" /\ pc' = [pc EXCEPT ![p] = "idle"]
    /\ \A q \in Procs \ {p} : at'[q] = at[q]

\* Coordinators do nothing else about a restart.
LEMMA RestartSteps ==
  Typed /\ [Next]_vars =>
    RestKept \/ \E p \in Procs : RestClaimed(p) \/ RestReleased(p) \/ RestAccepted(p)
<1> SUFFICES ASSUME Typed, [Next]_vars
             PROVE  RestKept \/ \E p \in Procs :
                       RestClaimed(p) \/ RestReleased(p) \/ RestAccepted(p)
  OBVIOUS
<1> DEFINE G == RestKept \/ \E p \in Procs :
                   RestClaimed(p) \/ RestReleased(p) \/ RestAccepted(p)
<1> USE DEF disk, procs, server, history, Goto, Hold
<1>a. DiskOK /\ ProcsOK /\ ServerOK /\ HistoryOK /\ Copies
  BY DEF Typed, TypeOK
<1>1. ASSUME NEW p \in Procs, Start(p) PROVE G
  <2>1. RestKept
    BY <1>1, <1>a DEF ProcsOK, Restarting, RestKept, Start
  <2>2. QED BY <2>1
<1>2. ASSUME NEW p \in Procs, Stop(p) PROVE G
  <2>1. RestKept
    BY <1>2, <1>a DEF ProcsOK, Restarting, RestKept, Stop, Return
  <2>2. QED BY <2>1
<1>3. ASSUME NEW p \in Procs, Crash(p) PROVE G
  <2>1. RestKept
    BY <1>3, <1>a DEF ProcsOK, Restarting, RestKept, Crash, Off
  <2>2. QED BY <2>1
<1>4. ASSUME NEW p \in Procs, SaveConfig(p) PROVE G
  <2>1. RestKept
    BY <1>4, <1>a DEF ProcsOK, Restarting, RestKept, SaveConfig
  <2>2. QED BY <2>1
<1>5. ASSUME NEW p \in Procs, Poll(p) PROVE G
  <2>1. RestKept
    BY <1>5, <1>a DEF ProcsOK, Restarting, RestKept, Poll
  <2>2. QED BY <2>1
<1>6. ASSUME NEW p \in Procs, LoadAttempt(p) PROVE G
  <2>1. RestKept
    BY <1>6, <1>a DEF ProcsOK, Restarting, RestKept, LoadAttempt
  <2>2. QED BY <2>1
<1>7. ASSUME NEW p \in Procs, Archive(p) PROVE G
  <2>1. marker'.phase # "awaiting_reboot"
    BY <1>7, <1>a, Fields, NewAttemptTyped DEF Archive, ArchiveVerifiedAttempt
  <2>2. RestKept
    BY <1>7, <1>a, <2>1 DEF ProcsOK, Restarting, RestKept, Archive,
       ArchiveVerifiedAttempt
  <2>3. QED BY <2>2
<1>8. ASSUME NEW p \in Procs, RetryReserved(p) PROVE G
  <2>1. marker'.phase # "awaiting_reboot"
    BY <1>8, <1>a, Fields, NewAttemptTyped DEF RetryReserved, RemoveAttemptForRetry
  <2>2. RestKept
    BY <1>8, <1>a, <2>1 DEF ProcsOK, Restarting, RestKept, RetryReserved,
       RemoveAttemptForRetry
  <2>3. QED BY <2>2
<1>9. ASSUME NEW p \in Procs, ReserveAttempt(p) PROVE G
  <2>1. marker'.phase # "awaiting_reboot"
    BY <1>9, <1>a, Fields, NewAttemptTyped DEF ReserveAttempt, CanReserve
  <2>2. RestKept
    BY <1>9, <1>a, <2>1 DEF ProcsOK, Restarting, RestKept, ReserveAttempt, CanReserve
  <2>3. QED BY <2>2
<1>10. ASSUME NEW p \in Procs, ReserveTorn(p) PROVE G
  <2>1. marker'.phase # "awaiting_reboot"
    BY <1>10, <1>a, Fields, NewAttemptTyped DEF ReserveTorn, CanReserve, Return
  <2>2. RestKept
    BY <1>10, <1>a, <2>1 DEF ProcsOK, Restarting, RestKept, ReserveTorn, CanReserve,
       Return
  <2>3. QED BY <2>2
<1>11. ASSUME NEW p \in Procs, StartRejoin(p) PROVE G
  <2>1. RestKept
    BY <1>11, <1>a DEF ProcsOK, Restarting, RestKept, StartRejoin
  <2>2. QED BY <2>1
<1>12. ASSUME NEW p \in Procs, MayHaveRun(p) PROVE G
  <2>1. at[p] \in Attempts /\ SaveAttempt(As(at[p], "may_have_run"))
    BY <1>12, <1>a DEF Copies, CopyOK, MayHaveRun
  <2>2. marker'.phase = "may_have_run" /\ marker'.id = at[p].id
    BY <1>a, <2>1, SaveTyped DEF Phases
  <2>3. RestKept
    BY <1>12, <1>a, <2>2 DEF ProcsOK, Restarting, RestKept, MayHaveRun
  <2>4. QED BY <2>3
<1>13. ASSUME NEW p \in Procs, SetRejoinName(p) PROVE G
  <2>1. RestKept
    BY <1>13, <1>a DEF ProcsOK, Restarting, RestKept, SetRejoinName
  <2>2. QED BY <2>1
<1>14. ASSUME NEW p \in Procs, Native(p) PROVE G
  <2>1. RestKept
    BY <1>14, <1>a DEF ProcsOK, Restarting, RestKept, Native
  <2>2. QED BY <2>1
<1>15. ASSUME NEW p \in Procs, SaveUnknown(p) PROVE G
  <2>1. at[p] \in Attempts /\ SaveAttempt(As(at[p], "unknown"))
    BY <1>15, <1>a DEF Copies, CopyOK, SaveUnknown
  <2>2. marker'.phase = "unknown" /\ marker'.id = at[p].id
    BY <1>a, <2>1, SaveTyped DEF Phases
  <2>3. RestKept
    BY <1>15, <1>a, <2>2 DEF ProcsOK, Restarting, RestKept, SaveUnknown, Return
  <2>4. QED BY <2>3
<1>16. ASSUME NEW p \in Procs, SaveFailed(p) PROVE G
  <2>1. at[p] \in Attempts /\ SaveAttempt(As(at[p], "failed"))
    BY <1>16, <1>a DEF Copies, CopyOK, SaveFailed
  <2>2. marker'.phase = "failed" /\ marker'.id = at[p].id
    BY <1>a, <2>1, SaveTyped DEF Phases
  <2>3. RestKept
    BY <1>16, <1>a, <2>2 DEF ProcsOK, Restarting, RestKept, SaveFailed, Return
  <2>4. QED BY <2>3
<1>17. ASSUME NEW p \in Procs, SaveAwaiting(p) PROVE G
  <2>1. at[p] \in Attempts /\ SaveAttempt(As(at[p], "awaiting_reboot"))
    BY <1>17, <1>a DEF Copies, CopyOK, SaveAwaiting
  <2>2. marker'.phase = "awaiting_reboot" /\ marker'.id = at[p].id
    BY <1>a, <2>1, SaveTyped DEF Phases
  <2>3. RestKept
    BY <1>17, <1>a, <2>2 DEF ProcsOK, Restarting, RestKept, SaveAwaiting
  <2>4. QED BY <2>3
<1>18. ASSUME NEW p \in Procs, Record(p) PROVE G
  <2>1. RestKept
    BY <1>18, <1>a DEF ProcsOK, Restarting, RestKept, Record, Return
  <2>2. QED BY <2>1
<1>19. ASSUME NEW p \in Procs, ReportVerified(p) PROVE G
  <2>1. RestKept
    BY <1>19, <1>a DEF ProcsOK, Restarting, RestKept, ReportVerified, NewBoot
  <2>2. QED BY <2>1
<1>20. ASSUME NEW p \in Procs, SaveVerified(p) PROVE G
  <2>1. at[p] \in Attempts /\ SaveAttempt(As(at[p], "verified"))
    BY <1>20, <1>a DEF Copies, CopyOK, SaveVerified
  <2>2. marker'.phase = "verified" /\ marker'.id = at[p].id
    BY <1>a, <2>1, SaveTyped DEF Phases
  <2>3. RestKept
    BY <1>20, <1>a, <2>2 DEF ProcsOK, Restarting, RestKept, SaveVerified, Return
  <2>4. QED BY <2>3
<1>21. ASSUME NEW p \in Procs, Coordinate(p) PROVE G
  <2>1. RestKept
    BY <1>21, <1>a DEF ProcsOK, Restarting, RestKept, Coordinate
  <2>2. QED BY <2>1
<1>22. ASSUME NEW p \in Procs, ClaimRestart(p) PROVE G
  <2>1. at[p] \in Attempts /\ marker = at[p]
    BY <1>22, <1>a DEF Copies, CopyOK, Restarting, ClaimRestart,
       SetAttemptRebootRequested
  <2>2. /\ marker.phase = "awaiting_reboot" /\ marker.asked # TRUE
        /\ marker' = [at[p] EXCEPT !.asked = TRUE] /\ archived' = archived
    BY <1>22, <2>1 DEF ClaimRestart, SetAttemptRebootRequested
  <2>3. MarkerAsked(p, TRUE)
    BY <2>1, <2>2, AskedAttempt DEF MarkerAsked
  <2>4. at'[p].id = at[p].id
    BY <1>22, <1>a, <2>1, AskedAttempt DEF ProcsOK, ClaimRestart
  <2>5. RestClaimed(p)
    BY <1>22, <1>a, <2>3, <2>4 DEF ProcsOK, RestClaimed, ClaimRestart
  <2>6. QED BY <2>5
<1>23. ASSUME NEW p \in Procs, SaveTaken(p) PROVE G
  <2>1. RestKept
    BY <1>23, <1>a DEF ProcsOK, Restarting, RestKept, SaveTaken
  <2>2. QED BY <2>1
<1>24. ASSUME NEW p \in Procs, RequestReboot(p) PROVE G
  <2>1. CASE restarts' = restarts /\ pc'[p] = "refused"
    <3>1. RestKept
      BY <1>24, <1>a, <2>1 DEF ProcsOK, Restarting, RestKept, RequestReboot, Return
    <3>2. QED BY <3>1
  <2>2. CASE restarts' = [restarts EXCEPT ![at[p].id] = @ + 1] /\ Return(p)
    <3>1. RestAccepted(p)
      BY <1>24, <1>a, <2>2 DEF ProcsOK, RestAccepted, RequestReboot, Return
    <3>2. QED BY <3>1
  <2>3. QED BY <1>24, <1>a, <2>1, <2>2 DEF ProcsOK, RequestReboot
<1>25. ASSUME NEW p \in Procs, RefusedDirectoryReboot(p) PROVE G
  <2>1. at[p] \in Attempts /\ marker = at[p]
    BY <1>25, <1>a DEF Copies, CopyOK, Restarting, RefusedDirectoryReboot,
       SetAttemptRebootRequested
  <2>2. /\ marker.phase = "awaiting_reboot" /\ marker.asked # FALSE
        /\ marker' = [at[p] EXCEPT !.asked = FALSE] /\ archived' = archived
    BY <1>25, <2>1 DEF RefusedDirectoryReboot, SetAttemptRebootRequested
  <2>3. MarkerAsked(p, FALSE)
    BY <2>1, <2>2, AskedAttempt DEF MarkerAsked
  <2>4. RestReleased(p)
    BY <1>25, <1>a, <2>3 DEF ProcsOK, Restarting, RestReleased, RefusedDirectoryReboot,
       Return
  <2>5. QED BY <2>4
<1>26. ASSUME NEW p \in Procs, RotateIdentity(p) PROVE G
  <2>1. RestKept
    BY <1>26, <1>a DEF ProcsOK, Restarting, RestKept, RotateIdentity
  <2>2. QED BY <2>1
<1>27. ASSUME NEW p \in Procs, ArchiveRotated(p) PROVE G
  <2>1. marker'.phase # "awaiting_reboot"
    BY <1>27, <1>a, Fields, NewAttemptTyped DEF ArchiveRotated, ArchiveVerifiedAttempt
  <2>2. RestKept
    BY <1>27, <1>a, <2>1 DEF ProcsOK, Restarting, RestKept, ArchiveRotated,
       ArchiveVerifiedAttempt
  <2>3. QED BY <2>2
<1>28. ASSUME NEW p \in Procs, NewKey(p) PROVE G
  <2>1. RestKept
    BY <1>28, <1>a DEF ProcsOK, Restarting, RestKept, NewKey, Return
  <2>2. QED BY <2>1
<1>29. ASSUME NEW again \in BOOLEAN, Issue(again) PROVE G
  <2>1. RestKept
    BY <1>29, <1>a DEF ProcsOK, Restarting, RestKept, Issue
  <2>2. QED BY <2>1
<1>30. CASE Reboot
  <2>1. RestKept
    BY <1>30, <1>a DEF ProcsOK, Restarting, RestKept, Reboot, Off
  <2>2. QED BY <2>1
<1>z. CASE UNCHANGED vars
  <2>1. RestKept
    BY <1>z DEF vars, RestKept
  <2>2. QED BY <2>1
<1>q. QED BY <1>1, <1>2, <1>3, <1>4, <1>5, <1>6, <1>7, <1>8, <1>9, <1>10, <1>11, <1>12,
   <1>13, <1>14, <1>15, <1>16, <1>17, <1>18, <1>19, <1>20, <1>21, <1>22, <1>23, <1>24,
   <1>25, <1>26, <1>27, <1>28, <1>29, <1>30, <1>z DEF Next, ProcessRejoin, Restart,
   Identity

\* Who holds the claim holds it alone, on a marker that says so; nobody restarted
\* for it yet.
Claimers ==
    /\ \A p \in Procs : pc[p] \in Restarting => restarts[at[p].id] = 0
    /\ \A p, q \in Procs :
          pc[p] \in Restarting /\ pc[q] \in Restarting /\ at[p].id = at[q].id => p = q

\* A marker whose restart is unclaimed has no restart and no claimer.
Unasked ==
    marker.phase = "awaiting_reboot" /\ ~marker.asked =>
        /\ restarts[marker.id] = 0
        /\ \A p \in Procs : pc[p] \in Restarting => at[p].id # marker.id

\* Restarts are of operations that are over, and one each.
Restarts ==
    /\ \A i \in Ids : restarts[i] # 0 => Settled(i)
    /\ OneRestart

\* The inductive invariant behind OneRestart, on top of Sound.
Once == Claimers /\ Unasked /\ Restarts

\* A coordinator's copy awaits the restart, so its operation is over.
LEMMA ClaimerSettled ==
  Typed /\ Sound => \A p \in Procs : pc[p] \in Restarting =>
                       at[p].id \in Ids /\ Settled(at[p].id)
  BY Fields DEF Typed, Copies, CopyOK, Restarting, Sound, CopySound

\* The claim is exclusive because it compares the whole marker with its copy.
LEMMA OnceStep == Typed /\ Owned /\ Sound /\ Once /\ [Next]_vars => Once'
<1> SUFFICES ASSUME Typed, Owned, Sound, Once, [Next]_vars PROVE Once'
  OBVIOUS
<1>1. /\ ProcsOK /\ HistoryOK /\ Claimers /\ Unasked
      /\ \A i \in Ids : restarts[i] # 0 => Settled(i)
      /\ OneRestart
  BY DEF Typed, TypeOK, Once, Restarts
<1>2. \A p \in Procs : pc[p] \in Restarting => at[p].id \in Ids /\ Settled(at[p].id)
  BY ClaimerSettled
<1>3. \A i \in Ids : Settled(i) => Settled(i)'
  BY SettledHeld
<1>4. marker.phase = "awaiting_reboot" => marker.id \in Ids /\ marker \in Attempts
  BY Fields DEF Typed, TypeOK, DiskOK
<1>5. CASE RestKept
  <2>1. Claimers'
    BY <1>1, <1>5 DEF Claimers, RestKept
  <2>2. Restarts'
    BY <1>1, <1>3, <1>5 DEF Restarts, OneRestart, RestKept
  <2>3. Unasked'
    <3>1. CASE marker' = marker
      BY <1>1, <1>5, <3>1 DEF Unasked, RestKept
    <3>2. CASE marker'.phase # "awaiting_reboot"
      BY <3>2 DEF Unasked
    <3>3. ASSUME NEW p \in Procs, pc[p] = "done", marker'.id = at[p].id PROVE Unasked'
      <4>1. at[p].id \in Ids /\ ~Settled(at[p].id)
        BY <3>3, HolderTyped DEF Settled, Holders
      <4>2. restarts[at[p].id] = 0
        BY <1>1, <4>1
      <4>3. ASSUME NEW q \in Procs, pc'[q] \in Restarting PROVE at'[q].id # at[p].id
        BY <1>2, <1>5, <4>1, <4>3 DEF RestKept
      <4>4. QED BY <1>5, <3>3, <4>2, <4>3 DEF Unasked, RestKept
    <3>4. QED BY <1>5, <3>1, <3>2, <3>3 DEF RestKept
  <2>4. QED BY <2>1, <2>2, <2>3 DEF Once
<1>6. ASSUME NEW p \in Procs, RestClaimed(p) PROVE Once'
  <2>1. /\ marker = at[p] /\ marker.phase = "awaiting_reboot" /\ ~marker.asked
        /\ marker'.asked = TRUE /\ restarts' = restarts
    <3>1. marker \in Attempts /\ marker.asked # TRUE
      BY <1>6 DEF RestClaimed, MarkerAsked
    <3>2. ~marker.asked
      BY <3>1, Fields
    <3>3. QED BY <1>6, <3>2 DEF RestClaimed, MarkerAsked
  <2>2. /\ restarts[at[p].id] = 0
        /\ \A q \in Procs : pc[q] \in Restarting => at[q].id # at[p].id
    BY <1>1, <2>1 DEF Unasked
  <2>3. ASSUME NEW q \in Procs, pc'[q] \in Restarting
        PROVE  at'[q].id = at[q].id /\ (q = p \/ pc[q] \in Restarting)
    BY <1>1, <1>6, <2>3 DEF ProcsOK, RestClaimed
  <2>4. Claimers'
    BY <1>1, <2>1, <2>2, <2>3 DEF Claimers
  <2>5. Unasked'
    BY <2>1 DEF Unasked
  <2>6. Restarts'
    BY <1>1, <1>3, <2>1 DEF Restarts, OneRestart
  <2>7. QED BY <2>4, <2>5, <2>6 DEF Once
<1>7. ASSUME NEW p \in Procs, RestReleased(p) PROVE Once'
  <2>1. /\ marker'.id = at[p].id /\ restarts' = restarts /\ pc[p] \in Restarting
    BY <1>7 DEF RestReleased, MarkerAsked
  <2>2. ASSUME NEW q \in Procs, pc'[q] \in Restarting
        PROVE  pc[q] \in Restarting /\ q # p /\ at'[q] = at[q]
    BY <1>1, <1>7, <2>2 DEF ProcsOK, RestReleased, Restarting
  <2>3. Claimers'
    BY <1>1, <2>1, <2>2 DEF Claimers
  <2>4. Unasked'
    BY <1>1, <2>1, <2>2 DEF Claimers, Unasked
  <2>5. Restarts'
    BY <1>1, <1>3, <2>1 DEF Restarts, OneRestart
  <2>6. QED BY <2>3, <2>4, <2>5 DEF Once
<1>8. ASSUME NEW p \in Procs, RestAccepted(p) PROVE Once'
  <2>1. /\ marker' = marker /\ pc[p] \in Restarting /\ at[p].id \in Ids
        /\ restarts[at[p].id] = 0 /\ Settled(at[p].id)
    BY <1>1, <1>2, <1>8 DEF RestAccepted, Restarting, Claimers
  <2>2. ASSUME NEW q \in Procs, pc'[q] \in Restarting
        PROVE  pc[q] \in Restarting /\ at'[q] = at[q] /\ at[q].id # at[p].id
    <3>1. pc[q] \in Restarting /\ q # p /\ at'[q] = at[q]
      BY <1>1, <1>8, <2>2 DEF ProcsOK, RestAccepted, Restarting
    <3>2. QED BY <1>1, <2>1, <3>1 DEF Claimers
  <2>3. /\ restarts'[at[p].id] = 1
        /\ \A i \in Ids \ {at[p].id} : restarts'[i] = restarts[i]
    BY <1>1, <1>8, <2>1 DEF HistoryOK, RestAccepted
  <2>4. Claimers'
    BY <1>1, <1>2, <2>2, <2>3 DEF Claimers
  <2>5. Unasked'
    <3>1. marker.phase = "awaiting_reboot" /\ ~marker.asked => marker.id # at[p].id
      BY <1>1, <2>1 DEF Unasked
    <3>2. QED BY <1>1, <1>4, <2>1, <2>2, <2>3, <3>1 DEF Unasked
  <2>6. Restarts'
    BY <1>1, <1>3, <2>1, <2>3 DEF Restarts, OneRestart
  <2>7. QED BY <2>4, <2>5, <2>6 DEF Once
<1>9. QED BY <1>5, <1>6, <1>7, <1>8, RestartSteps

\* Nobody claims a restart at first.
LEMMA OnceInit == Init => Once
  BY Fields DEF Init, Once, Claimers, Unasked, Restarts, OneRestart, Restarting

\* One accepted restart at most for an attempt (SetAttemptRebootRequested).
THEOREM RestartsOnce == Spec => []OneRestart
<1>1. Init => Remembered /\ Sound /\ Once
  BY RememberedInit, SoundInit, OnceInit
<1>2. Remembered /\ Sound /\ Once /\ [Next]_vars => (Remembered /\ Sound /\ Once)'
  BY RememberedStep, SoundStep, OnceStep DEF Remembered
<1>3. Once => OneRestart
  BY DEF Once, Restarts
<1>4. QED BY <1>1, <1>2, <1>3, PTL DEF Spec

-----------------------------------------------------------------------------
(* The marker is a restart latch. *)

\* An attempt that never awaited its restart did not claim it.
Unclaimed(a) ==
    a \in Attempts /\ a.phase \notin {"awaiting_reboot", "verified"} => a.asked = FALSE

\* The inductive invariant behind FollowsLatch, on top of Once: a verified marker
\* as well has no restart and no claimer unless it says so.
Latching ==
    /\ Unclaimed(marker)
    /\ \A p \in Procs : Unclaimed(at[p])
    /\ Named /\ ~marker.asked =>
          /\ restarts[marker.id] = 0
          /\ \A p \in Procs : pc[p] \in Restarting => at[p].id # marker.id

\* Only a restart of the machine begins a new boot.
LEMMA BootSteps ==
  [Next]_vars => \/ boot' = boot
                 \/ boot' = boot + 1 /\ UNCHANGED <<marker, touched, restarts>>
<1>1. ASSUME NEW p \in Procs, Start(p) \/ Stop(p) \/ Crash(p) \/ SaveConfig(p) PROVE boot' = boot
  BY <1>1 DEF Start, Stop, Return, Crash, Off, SaveConfig, disk
<1>2. ASSUME NEW p \in Procs, ProcessRejoin(p) PROVE boot' = boot
  BY <1>2 DEF ProcessRejoin, Poll, LoadAttempt, Archive, RetryReserved, ReserveAttempt,
     ReserveTorn, StartRejoin, MayHaveRun, SetRejoinName, Native, SaveUnknown, SaveFailed,
     SaveAwaiting, Record, ReportVerified, SaveVerified
<1>3. ASSUME NEW p \in Procs, Restart(p) \/ Identity(p) PROVE boot' = boot
  BY <1>3 DEF Restart, Coordinate, ClaimRestart, SaveTaken, RequestReboot,
     RefusedDirectoryReboot, Identity, RotateIdentity, ArchiveRotated, NewKey
<1>4. ASSUME NEW again \in BOOLEAN, Issue(again) PROVE boot' = boot
  BY <1>4 DEF Issue
<1>5. CASE Reboot
  BY <1>5 DEF Reboot, Off, disk, history
<1>6. CASE UNCHANGED vars
  BY <1>6 DEF vars
<1> QED
  BY <1>1, <1>2, <1>3, <1>4, <1>5, <1>6 DEF Next

\* A copy is the one before or comes from the marker.
LEMMA CopySteps ==
  Typed /\ [Next]_vars => \A p \in Procs : at'[p] \in {at[p], NoMarker, marker, marker'}
  BY OperationSteps DEF Quiet, Claims, Mutates

LEMMA LatchingInit == Init => Latching
  BY Fields DEF Init, Latching, Unclaimed, Named

\* Saving keeps the claim, and an attempt is saved past its reservation only by
\* who holds a copy of it.
LEMMA UnclaimedStep ==
  ASSUME Typed, Latching, [Next]_vars
  PROVE  Unclaimed(marker)' /\ \A p \in Procs : Unclaimed(at[p])'
<1>1. Unclaimed(marker')
  <2>1. ASSUME NEW p \in Procs, NEW from \in {"latch", "lost", "failed"},
               NEW to \in {"may_have_run", "unknown", "failed"}, MarkerSaved(p, from, to)
        PROVE  marker'.asked = FALSE
    <3>1. at[p] \in Attempts /\ pc[p] = from /\ marker' = As(at[p], to) /\ to \in Phases
      BY <2>1 DEF MarkerSaved, Phases
    <3>2. at[p].phase \in {"reserved", "may_have_run"}
      BY <2>1, <3>1 DEF Typed, Copies, CopyOK
    <3>3. at[p].asked = FALSE
      BY <3>1, <3>2 DEF Latching, Unclaimed
    <3> QED
      BY <3>1, <3>3, AsAttempt
  <2>2. MarkerStep
    BY MarkerSteps
  <2> QED
    BY <2>1, <2>2, Fields DEF MarkerStep, MarkerKept, MarkerMade, MarkerRemoved, MarkerRetired,
       MarkerSaved, MarkerAsked, Latching, Unclaimed
<1>2. Unclaimed(NoMarker)
  BY Fields DEF Unclaimed
<1>3. ASSUME NEW p \in Procs PROVE Unclaimed(at'[p])
  BY <1>1, <1>2, CopySteps DEF Latching
<1> QED
  BY <1>1, <1>3 DEF Unclaimed

LEMMA LatchingStep ==
  ASSUME Typed, Owned, Sound, Once, Latching, [Next]_vars
  PROVE  Latching'
<1>1. Unasked'
  BY OnceStep DEF Once
<1>2. ASSUME marker'.phase = "verified", ~marker'.asked
      PROVE  /\ restarts'[marker'.id] = 0
             /\ \A p \in Procs : pc'[p] \in Restarting => at'[p].id # marker'.id
  <2>1. Named /\ marker.id \in Ids /\ marker'.id = marker.id /\ ~marker.asked
    <3>1. MarkerStep
      BY MarkerSteps
    <3>2. Named /\ marker'.id = marker.id /\ marker'.asked = marker.asked
      BY <1>2, <3>1, Fields DEF MarkerStep, MarkerKept, MarkerMade, MarkerRemoved, MarkerRetired,
         MarkerSaved, MarkerAsked, AttemptPhaseUpdate, Named
    <3> QED
      BY <1>2, <3>2, Fields DEF Named, Typed, TypeOK, DiskOK
  <2>2. /\ restarts[marker.id] = 0
        /\ \A p \in Procs : pc[p] \in Restarting => at[p].id # marker.id
    BY <2>1 DEF Latching
  <2>3. CASE RestKept
    BY <2>1, <2>2, <2>3 DEF RestKept
  <2>4. ASSUME NEW p \in Procs, RestClaimed(p) \/ RestReleased(p) PROVE FALSE
    BY <1>2, <2>4 DEF RestClaimed, RestReleased, MarkerAsked
  <2>5. ASSUME NEW p \in Procs, RestAccepted(p)
        PROVE  /\ restarts'[marker'.id] = 0
               /\ \A q \in Procs : pc'[q] \in Restarting => at'[q].id # marker'.id
    <3>1. at[p].id # marker.id
      BY <2>2, <2>5 DEF RestAccepted, Restarting
    <3>2. restarts'[marker.id] = restarts[marker.id]
      BY <2>1, <2>5, <3>1 DEF RestAccepted, Typed, TypeOK, HistoryOK
    <3>3. ASSUME NEW q \in Procs, pc'[q] \in Restarting
          PROVE  pc[q] \in Restarting /\ at'[q] = at[q]
      BY <2>5, <3>3 DEF RestAccepted, Restarting, Typed, TypeOK, ProcsOK
    <3> QED
      BY <2>1, <2>2, <3>2, <3>3
  <2> QED
    BY <2>3, <2>4, <2>5, RestartSteps
<1>3. Unclaimed(marker)' /\ \A p \in Procs : Unclaimed(at[p])'
  BY UnclaimedStep
<1> QED
  BY <1>1, <1>2, <1>3 DEF Latching, Unasked, Named

\* What the invariants say of the attempt a latch is on.
LEMMA LatchedAttempt ==
  ASSUME Typed, Owned, Sound, Once, Latching, Named
  PROVE  /\ marker \in Attempts /\ marker.id \in Ids /\ marker.asked \in BOOLEAN
         /\ Settled(marker.id) /\ touched[marker.id] \in Nat /\ boot \in Nat
         /\ touched[marker.id] <= boot
         /\ marker.phase = "verified" => touched[marker.id] < boot
<1>1. marker \in Attempts /\ marker.id \in Ids /\ marker.asked \in BOOLEAN
  BY Fields DEF Named, Typed, TypeOK, DiskOK
<1>2. Settled(marker.id) /\ (marker.phase = "verified" => touched[marker.id] < boot)
  BY <1>1 DEF Named, Sound, CopySound, Proven
<1>3. touched[marker.id] \in Nat /\ boot \in Nat /\ touched[marker.id] <= boot
  BY <1>1, RejoinConstants DEF Owned, Ran, Typed, TypeOK, HistoryOK, DiskOK, Boots
<1> QED
  BY <1>1, <1>2, <1>3

\* Every step is a step of the latch, or none.
LEMMA LatchStep ==
  ASSUME Typed, Owned, Sound, Once, Latching, [Next]_vars
  PROVE  [Latch!Next]_(Latch!latch)
<1> DEFINE G == [Latch!Next]_(Latch!latch)
<1> USE DEF Latch!Next, Latch!latch
<1>1. Typed' /\ Owned' /\ Sound' /\ Once' /\ Latching'
  BY TypedStep, OwnedStep, SoundStep, OnceStep, LatchingStep
<1>2. Named => touched'[marker.id] = touched[marker.id]
  BY LatchedAttempt, SettledHeld
<1>3. ASSUME UNCHANGED <<marker, boot>>, restarts'[marker.id] = restarts[marker.id] PROVE G
  BY <1>2, <1>3 DEF Named
<1>4. ASSUME ~Named, ~Named' PROVE G
  BY <1>4
<1>5. CASE boot' # boot
  <2>1. boot' = boot + 1 /\ UNCHANGED <<marker, touched, restarts>>
    BY <1>5, BootSteps
  <2>2. CASE Named /\ marker.phase = "awaiting_reboot"
    BY <2>1, <2>2, LatchedAttempt DEF Named, Latch!Boot, Latch!Awaits
  <2>3. CASE Named /\ marker.phase = "verified"
    BY <2>1, <2>3, LatchedAttempt DEF Named
  <2> QED
    BY <1>4, <2>1, <2>2, <2>3 DEF Named
<1>6. ASSUME boot' = boot, NEW p \in Procs, RestAccepted(p) PROVE G
  <2>1. marker' = marker /\ pc[p] \in Restarting /\ at[p].id \in Ids /\ restarts[at[p].id] = 0
    BY <1>6, ClaimerSettled DEF RestAccepted, Restarting, Once, Claimers
  <2>2. CASE Named /\ marker.id = at[p].id
    <3>1. marker.asked
      BY <2>1, <2>2 DEF Latching
    <3>2. restarts'[marker.id] # 0
      BY <1>6, <2>1, <2>2 DEF RestAccepted, Typed, TypeOK, HistoryOK
    <3> QED
      BY <1>2, <1>6, <2>1, <2>2, <3>1, <3>2, LatchedAttempt DEF Named, Latch!Accept
  <2>3. CASE Named /\ marker.id # at[p].id
    <3>1. restarts'[marker.id] = restarts[marker.id]
      BY <1>6, <2>3, LatchedAttempt DEF RestAccepted, Typed, TypeOK, HistoryOK
    <3> QED
      BY <1>3, <1>6, <2>1, <3>1
  <2> QED
    BY <1>4, <2>1, <2>2, <2>3 DEF Named
<1>7. ASSUME boot' = boot, NEW p \in Procs, RestClaimed(p) PROVE G
  <2>1. /\ marker.phase = "awaiting_reboot" /\ marker'.phase = "awaiting_reboot"
        /\ marker'.id = marker.id /\ ~marker.asked /\ marker'.asked = TRUE
        /\ restarts' = restarts
    BY <1>7, Fields DEF RestClaimed, MarkerAsked
  <2> QED
    BY <1>2, <1>7, <2>1 DEF Named, Latch!Claim, Latch!Awaits
<1>8. ASSUME boot' = boot, NEW p \in Procs, RestReleased(p) PROVE G
  <2>1. /\ marker.phase = "awaiting_reboot" /\ marker'.phase = "awaiting_reboot"
        /\ marker'.id = marker.id /\ marker.asked /\ marker'.asked = FALSE
        /\ restarts' = restarts /\ marker.id = at[p].id /\ pc[p] \in Restarting
    BY <1>8, Fields DEF RestReleased, MarkerAsked
  <2>2. restarts[marker.id] = 0
    BY <2>1 DEF Once, Claimers
  <2> QED
    BY <1>2, <1>8, <2>1, <2>2 DEF Named, Latch!Release, Latch!Awaits
<1>9. CASE boot' = boot /\ RestKept
  <2>1. restarts' = restarts
    BY <1>9 DEF RestKept
  <2>2. CASE MarkerKept
    BY <1>3, <1>9, <2>1, <2>2 DEF MarkerKept
  <2>3. CASE MarkerMade \/ MarkerRemoved
    BY <1>4, <2>3, Fields DEF MarkerMade, MarkerRemoved, Named
  <2>4. CASE MarkerRetired
    <3>1. Named /\ ~Named' /\ marker.phase = "verified"
      BY <2>4, Fields DEF MarkerRetired, Named
    <3> QED
      BY <3>1 DEF Latch!Leave
  <2>5. ASSUME NEW p \in Procs, NEW from, NEW to \in {"may_have_run", "failed"},
               MarkerSaved(p, from, to)
        PROVE  G
    BY <1>4, <2>5 DEF MarkerSaved, AttemptPhaseUpdate, Named
  <2>6. ASSUME NEW p \in Procs, MarkerSaved(p, "lost", "unknown") PROVE G
    <3>1. ~Named' /\ (Named => marker.phase = "awaiting_reboot")
      BY <2>6 DEF MarkerSaved, AttemptPhaseUpdate, Named
    <3>2. ~marker.asked
      BY <1>1, <2>6 DEF MarkerSaved, Latching, Unclaimed
    <3> QED
      BY <1>4, <3>1, <3>2 DEF Latch!Leave, Latch!Awaits
  <2>7. ASSUME NEW p \in Procs, MarkerSaved(p, "done", "awaiting_reboot") PROVE G
    <3>1. CASE marker.phase = "awaiting_reboot"
      BY <1>3, <1>9, <2>1, <2>7, <3>1 DEF MarkerSaved
    <3>2. CASE marker.phase # "awaiting_reboot"
      <4>1. ~Named /\ Named' /\ marker'.phase = "awaiting_reboot" /\ marker'.id = at[p].id
        BY <2>7, <3>2 DEF MarkerSaved, AttemptPhaseUpdate, Named
      <4>2. marker'.asked = FALSE
        BY <2>7, <4>1 DEF MarkerSaved, Latching, Unclaimed, Named
      <4>3. pc[p] = "done" /\ at[p].id \in Ids /\ ~Settled(at[p].id)
        BY <2>7, HolderTyped DEF MarkerSaved, Settled, Holders
      <4>4. restarts[at[p].id] = 0
        BY <4>3 DEF Once, Restarts
      <4>5. ~(touched'[marker'.id] < boot')
        <5>1. marker' \in Attempts /\ marker'.before = boot' /\ marker'.before \in Nat
          BY <1>9, <2>7, RejoinConstants DEF MarkerSaved, Typed, Copies, CopyOK, Attempts, Boots
        <5>2. touched'[marker'.id] = marker'.before
          BY <1>1, <4>1, <5>1 DEF Sound, CopySound
        <5> QED
          BY <5>1, <5>2
      <4> QED
        BY <2>1, <4>1, <4>2, <4>4, <4>5 DEF Latch!Await, Latch!Awaits
    <3> QED
      BY <3>1, <3>2
  <2>8. ASSUME NEW p \in Procs, MarkerSaved(p, "prove", "verified") PROVE G
    <3>1. CASE marker.phase = "verified"
      BY <1>3, <1>9, <2>1, <2>8, <3>1 DEF MarkerSaved
    <3>2. CASE marker.phase # "verified"
      <4>1. /\ marker.phase = "awaiting_reboot" /\ marker'.phase = "verified"
            /\ marker'.id = marker.id /\ marker'.asked = marker.asked
        BY <2>8, <3>2 DEF MarkerSaved, AttemptPhaseUpdate
      <4>2. touched'[marker'.id] < boot'
        BY <1>1, <2>8, <4>1 DEF MarkerSaved, Sound, CopySound, Proven
      <4> QED
        BY <1>2, <1>9, <2>1, <4>1, <4>2 DEF Named, Latch!Verify, Latch!Awaits
    <3> QED
      BY <3>1, <3>2
  <2>9. ASSUME NEW p \in Procs, NEW asked, MarkerAsked(p, asked) PROVE FALSE
    <3>1. marker.phase = "awaiting_reboot" /\ marker'.phase = "awaiting_reboot"
          /\ marker'.id = marker.id /\ marker' # marker
      BY <2>9 DEF MarkerAsked
    <3>2. Settled(marker.id)
      BY <3>1, LatchedAttempt DEF Named
    <3> QED
      BY <1>9, <3>1, <3>2 DEF RestKept, Settled, Holders
  <2> QED
    BY <2>2, <2>3, <2>4, <2>5, <2>6, <2>7, <2>8, <2>9, MarkerSteps DEF MarkerStep
<1> QED
  BY <1>5, <1>6, <1>7, <1>8, <1>9, RestartSteps

(* The marker, with any number of agents at work on it, is the latch that  *)
(* coordinateForPlatform relies on (SetAttemptRebootRequested compares the *)
(* whole marker, SaveAttempt refuses to go back).                          *)
THEOREM ImplementsLatch == Spec => FollowsLatch
<1>1. Init => Remembered /\ Sound /\ Once /\ Latching
  BY RememberedInit, SoundInit, OnceInit, LatchingInit
<1>2. Remembered /\ Sound /\ Once /\ Latching /\ [Next]_vars
        => (Remembered /\ Sound /\ Once /\ Latching)'
  BY RememberedStep, SoundStep, OnceStep, LatchingStep DEF Remembered
<1>3. Init => Latch!Init
  BY Fields DEF Init, Named, Latch!Init
<1>4. Remembered /\ Sound /\ Once /\ Latching /\ [Next]_vars => [Latch!Next]_(Latch!latch)
  BY LatchStep DEF Remembered
<1> QED
  BY <1>1, <1>2, <1>3, <1>4, PTL DEF Spec, FollowsLatch, Latch!Spec

\* And so, whatever several agents do to the marker, an attempt that a restart
\* was accepted for stays claimed until it leaves the marker: proved of the
\* latch, and carried over to its implementation.
THEOREM AcceptedStaysClaimed == Spec => []Latch!ClaimIsSpent
<1>1. Latch!Init => Latch!ClaimIsSpent
  BY DEF Latch!Init, Latch!ClaimIsSpent
<1>2. Latch!ClaimIsSpent /\ [Latch!Next]_(Latch!latch) => Latch!ClaimIsSpent'
  BY DEF Latch!ClaimIsSpent, Latch!Next, Latch!latch, Latch!Await, Latch!Claim,
         Latch!Release, Latch!Accept, Latch!Boot, Latch!Verify, Latch!Leave
<1>3. Latch!Spec => []Latch!ClaimIsSpent
  BY <1>1, <1>2, PTL DEF Latch!Spec
<1> QED
  BY <1>3, ImplementsLatch DEF FollowsLatch
=============================================================================
