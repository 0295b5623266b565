---------------------------- MODULE ReportsProofs ----------------------------
(***************************************************************************)
(* The two reports a poll carries, proved of the modules that model them.  *)
(*                                                                         *)
(* Sessions, for any number of sessions, faults and orders: no end the     *)
(* agent saw is dropped, none is made up, and nobody is logged off without *)
(* a warning.                                                              *)
(*                                                                         *)
(* Facts, for every set of blocks, both builds of the collectors and any   *)
(* number of faults, changes and orders: what is on record as sent is what *)
(* the server has.  Facts is instantiated, since it names its variables as *)
(* Sessions does; what its promise is about comes from FactsRecord.        *)
(***************************************************************************)
EXTENDS Sessions, FactsRecord, TLAPS

CONSTANTS Platform, FactsFaults, MaxFactsFaults, MaxChanges, MaxFactsOrders

VARIABLES built, at, sent, said, asks, collect, struck, changes, ordered

F == INSTANCE Facts WITH
    Faults <- FactsFaults, MaxFaults <- MaxFactsFaults, MaxOrders <- MaxFactsOrders,
    machine <- built, pc <- at, req <- sent, resp <- said,
    faults <- struck, orders <- ordered

(***************************************************************************)
(* Sessions.                                                               *)
(***************************************************************************)
Typed ==
    /\ host \in [Keys -> 0..MaxLogon] /\ logons \in 0..MaxLogon
    /\ idle \in [Keys -> 0..Limit]
    /\ open \in SUBSET Session
    /\ cfg \in Config /\ disk \in Config
    /\ req \in Block
    /\ want \in Settings /\ resp \in Settings
    /\ rows \in [Session -> {"none", "open", "ended", "inferred"}]
    /\ owed \in SUBSET Session

\* Between the request and the record of its answer nothing is sampled, and what
\* the server took is what the answer settles.
Settling ==
    /\ pc # "waiting" => wait # "due"
    /\ pc \in {"polling", "answered"} /\ req.sent => req.closed = cfg.pending
    /\ pc = "answered" /\ req.sent /\ resp.collect => owed = {}

\* The sessions somebody holds for ended, and those the agent has seen.
HeldForEnded == cfg.pending \cup disk.pending \cup req.closed \cup {s \in Session : rows[s] = "ended"}
Known == HeldForEnded \cup open

\* A session of the future is seen to nobody; one held for ended is over, or
\* was left out of a list.
Past ==
    /\ \A k \in Keys : host[k] <= logons
    /\ \A s \in Known : s.logon <= logons
    /\ \A s \in HeldForEnded : s \in Present => s.key \in missed

LEMMA Constants ==
    /\ Keys # {} /\ MaxLogon \in Nat
    /\ Limit \in Nat /\ WarnSpan \in Nat /\ 0 < WarnSpan /\ Limit - WarnSpan > 1
<1>1. MaxLogon \in Nat /\ Limit \in Nat /\ Warn \in Nat
  BY SessionsAssumption
<1>2. Limit - WarnSpan > 1 /\ Warn > 0
  BY SessionsAssumption
<1>3. Limit \div 2 \in Nat /\ (Limit > 1 => 0 < Limit \div 2)
  BY <1>1
<1>4. CASE Warn >= Limit
  <2>1. WarnSpan = Limit \div 2
    BY <1>4 DEF WarnSpan
  <2> QED
    BY <1>1, <1>2, <1>3, <2>1, SessionsAssumption
<1>5. CASE ~(Warn >= Limit)
  <2>1. WarnSpan = Warn
    BY <1>5 DEF WarnSpan
  <2> QED
    BY <1>1, <1>2, <2>1, SessionsAssumption
<1> QED
  BY <1>4, <1>5

-----------------------------------------------------------------------------
\* The sessions block of a poll.
LEMMA AttachTyped ==
    ASSUME cfg \in Config, NEW now \in SUBSET Session
    PROVE  /\ Attach(now) \in Block
           /\ Attach(now).sent => Attach(now).closed = cfg.pending
           /\ Attach(now).closed \subseteq cfg.pending
  BY DEF Attach, Block, NoBlock, Config

LEMMA ClosedTyped ==
    ASSUME NEW prev \in SUBSET Session, NEW cur
    PROVE  Closed(prev, cur) \subseteq prev
  BY DEF Closed

LEMMA PresentTyped == Present \subseteq Session
  BY DEF Present

LEMMA TypesInit == Init => Typed
<1>1. 0 \in 0..MaxLogon /\ 0 \in 0..Limit
  BY Constants
<1> QED
  BY <1>1 DEF Init, Typed, Config, Block, NoBlock, Settings, NoAnswer

LEMMA TypesStep == Typed /\ [Next]_vars => Typed'
<1> SUFFICES ASSUME Typed, [Next]_vars PROVE Typed'
  OBVIOUS
<1> USE DEF Typed
<1>z. 0 \in 0..MaxLogon /\ 0 \in 0..Limit
  BY Constants
<1>o. ASSUME NEW K, Over(K)
      PROVE  host' \in [Keys -> 0..MaxLogon] /\ idle' \in [Keys -> 0..Limit]
  BY <1>o, <1>z DEF Over
<1>1. ASSUME NEW k \in Keys, Logon(k) PROVE Typed'
  <2>1. logons' \in 0..MaxLogon
    BY <1>1, Constants DEF Logon
  <2>2. host' \in [Keys -> 0..MaxLogon] /\ idle' \in [Keys -> 0..Limit]
    BY <1>1, <2>1, <1>z DEF Logon
  <2> QED
    BY <1>1, <2>1, <2>2 DEF Logon, server, watcher, history
<1>2. ASSUME NEW k \in Keys, Leave(k) PROVE Typed'
  BY <1>2, <1>o DEF Leave, server, watcher
<1>3. ASSUME NEW k \in Keys, Input(k) PROVE Typed'
  <2>1. idle' \in [Keys -> 0..Limit]
    BY <1>3, <1>z DEF Input
  <2> QED
    BY <1>3, <2>1 DEF Input, server, watcher
<1>4. CASE Tick
  <2>1. idle' \in [Keys -> 0..Limit]
    BY <1>4, Constants DEF Tick
  <2> QED
    BY <1>4, <2>1 DEF Tick, server, watcher
<1>5. CASE Hour
  BY <1>5 DEF Hour, machine, server, watcher, history, Config
<1>6. CASE Order
  BY <1>6 DEF Order, machine, watcher, history, Settings
<1>7. CASE SampleNothing
  BY <1>7 DEF SampleNothing, machine, server, watcher
<1>8. CASE Sample
  <2>1. PICK cur \in SUBSET Present :
            /\ open' = cur
            /\ cfg' = [cfg EXCEPT !.pending = @ \cup Closed(open, cur)]
            /\ disk' \in {cfg', disk}
            /\ owed' = owed \cup {s \in Closed(open, cur) : rows[s] # "ended"}
            /\ \E K : Over(K)
    BY <1>8 DEF Sample
  <2>2. cfg' \in Config
    BY <2>1, ClosedTyped DEF Config
  <2>3. host' \in [Keys -> 0..MaxLogon] /\ idle' \in [Keys -> 0..Limit]
    BY <2>1, <1>o
  <2> QED
    BY <1>8, <2>1, <2>2, <2>3, ClosedTyped, PresentTyped DEF Sample, server
<1>9. CASE Poll
  <2>0. NoBlock \in Block /\ Attach(Present) \in Block /\ Attach(open) \in Block
    BY AttachTyped, PresentTyped DEF Block, NoBlock
  <2>1. open' \in SUBSET Session /\ req' \in Block
    BY <1>9, <2>0, PresentTyped DEF Poll
  <2> QED
    BY <1>9, <2>1 DEF Poll, machine, server, history
<1>10. CASE Arrive
  <2>1. rows' \in [Session -> {"none", "open", "ended", "inferred"}]
    BY <1>10 DEF Arrive, Ingested
  <2> QED
    BY <1>10, <2>1 DEF Arrive, machine, watcher
<1>11. CASE Lose
  BY <1>11 DEF Lose, machine, watcher, server, history, NoBlock, NoAnswer, Block, Settings
<1>12. CASE Record
  <2>1. Recorded(resp.collect) \in Config
    BY DEF Recorded, Config, Settings, Block
  <2> QED
    BY <1>12, <2>1 DEF Record, machine, watcher, server, NoBlock, Block
<1>13. CASE Pass
  BY <1>13 DEF Pass, machine, watcher, server, Config, Settings, NoAnswer
<1>14. CASE Crash
  BY <1>14 DEF Crash, Stopped, machine, server, NoBlock, NoAnswer, Block, Settings
<1>15. CASE PowerCut
  <2>1. host' \in [Keys -> 0..MaxLogon] /\ idle' \in [Keys -> 0..Limit]
    BY <1>15, <1>o DEF PowerCut
  <2> QED
    BY <1>15, <2>1 DEF PowerCut, Stopped, server, NoBlock, NoAnswer, Block, Settings
<1>16. CASE Start
  BY <1>16 DEF Start, machine, watcher, server, history
<1>17. CASE UNCHANGED vars
  BY <1>17 DEF vars, machine, watcher, server, history
<1> QED
  BY <1>1, <1>2, <1>3, <1>4, <1>5, <1>6, <1>7, <1>8, <1>9, <1>10, <1>11, <1>12,
     <1>13, <1>14, <1>15, <1>16, <1>17 DEF Next, Agent

-----------------------------------------------------------------------------
LEMMA SettlingInit == Init => Settling
  BY DEF Init, Settling

LEMMA SettlingStep == Typed /\ Settling /\ EndsKept /\ [Next]_vars => Settling'
<1> SUFFICES ASSUME Typed, Settling, EndsKept, [Next]_vars PROVE Settling'
  OBVIOUS
<1> USE DEF Settling
<1>1. ASSUME NEW k \in Keys, Logon(k) \/ Leave(k) \/ Input(k) PROVE Settling'
  BY <1>1 DEF Logon, Leave, Input, server, watcher, history
<1>2. CASE Tick
  BY <1>2 DEF Tick, server, watcher
<1>3. CASE Hour
  <2>1. cfg'.pending = cfg.pending
    BY <1>3 DEF Hour, Typed, Config
  <2> QED
    BY <1>3, <2>1 DEF Hour, machine, server, watcher, history
<1>4. CASE Order
  BY <1>4 DEF Order, machine, watcher, history
<1>5. CASE SampleNothing \/ Sample
  BY <1>5 DEF SampleNothing, Sample, machine, server, watcher
<1>6. CASE Poll
  <2>1. req'.sent => req'.closed = cfg.pending
    BY <1>6, AttachTyped, PresentTyped DEF Poll, NoBlock, Typed
  <2> QED
    BY <1>6, <2>1 DEF Poll, machine, server, history
<1>7. CASE Arrive
  <2>1. req.sent /\ resp'.collect => owed' = {}
    BY <1>7 DEF Arrive, EndsKept
  <2> QED
    BY <1>7, <2>1 DEF Arrive, machine, watcher
<1>8. CASE Lose
  BY <1>8 DEF Lose, machine, watcher, server, history, NoBlock
<1>9. CASE Record
  BY <1>9 DEF Record, machine, watcher, server, NoBlock
<1>10. CASE Pass
  BY <1>10 DEF Pass, machine, watcher, server
<1>11. CASE Crash \/ PowerCut
  BY <1>11 DEF Crash, PowerCut, Stopped, machine, server, NoBlock
<1>12. CASE Start
  BY <1>12 DEF Start, machine, watcher, server, history
<1>13. CASE UNCHANGED vars
  BY <1>13 DEF vars, machine, watcher, server, history
<1> QED
  BY <1>1, <1>2, <1>3, <1>4, <1>5, <1>6, <1>7, <1>8, <1>9, <1>10, <1>11, <1>12,
     <1>13 DEF Next, Agent

-----------------------------------------------------------------------------
LEMMA KeptInit == Init => EndsKept
  BY DEF Init, EndsKept

LEMMA KeptStep == Typed /\ Settling /\ EndsKept /\ [Next]_vars => EndsKept'
<1> SUFFICES ASSUME Typed, Settling, EndsKept, [Next]_vars PROVE EndsKept'
  OBVIOUS
<1> USE DEF EndsKept
<1>1. ASSUME NEW k \in Keys, Logon(k) \/ Leave(k) \/ Input(k) PROVE EndsKept'
  BY <1>1 DEF Logon, Leave, Input, history
<1>2. CASE Tick \/ Order \/ SampleNothing \/ Poll \/ Lose \/ Start
  BY <1>2 DEF Tick, Order, SampleNothing, Poll, Lose, Start, history
<1>3. CASE Hour
  BY <1>3 DEF Hour, history, Typed, Config
<1>4. CASE Sample
  BY <1>4 DEF Sample, Typed, Config
<1>5. CASE Arrive
  BY <1>5 DEF Arrive
<1>6. CASE Record
  <2>1. CASE ~resp.collect
    BY <1>6, <2>1 DEF Record
  <2>2. CASE resp.collect /\ req.sent
    BY <1>6, <2>2 DEF Record, Settling
  <2>3. CASE resp.collect /\ ~req.sent
    BY <1>6, <2>3 DEF Record, Recorded, Typed, Config
  <2> QED
    BY <2>1, <2>2, <2>3
<1>7. CASE Pass
  BY <1>7 DEF Pass, Typed, Config
<1>8. CASE Crash \/ PowerCut
  BY <1>8 DEF Crash, PowerCut, Stopped
<1>9. CASE UNCHANGED vars
  BY <1>9 DEF vars, history
<1> QED
  BY <1>1, <1>2, <1>3, <1>4, <1>5, <1>6, <1>7, <1>8, <1>9 DEF Next, Agent

(* An end the agent saw is queued or at the server until it is given up,   *)
(* whatever polls, saves and processes fail (sessions.go:105-107).         *)
THEOREM KeepsEnds == Spec => []EndsKept
<1> DEFINE Inv == Typed /\ Settling /\ EndsKept
<1>1. Init => Inv
  BY TypesInit, SettlingInit, KeptInit
<1>2. Inv /\ [Next]_vars => Inv'
  BY TypesStep, SettlingStep, KeptStep
<1> QED
  BY <1>1, <1>2, PTL DEF Spec

-----------------------------------------------------------------------------
LEMMA HeldTyped == Typed => Known \subseteq Session
  BY DEF Typed, Known, HeldForEnded, Config, Block

\* What is held for ended moves with these four; who is on, with host.
LEMMA PastFrame ==
    ASSUME Past, UNCHANGED <<host, logons, missed, rows>>,
           cfg'.pending \subseteq cfg.pending \cup disk.pending,
           disk'.pending \subseteq cfg.pending \cup disk.pending,
           req'.closed \subseteq req.closed \cup cfg.pending,
           open' \subseteq open \cup Present
    PROVE  Past'
<1>1. HeldForEnded' \subseteq HeldForEnded
  BY DEF HeldForEnded
<1>2. Present' = Present
  BY DEF Present
<1>3. Known' \subseteq Known \cup Present
  BY <1>1 DEF Known
<1>4. \A s \in Present : s.logon <= logons
  BY DEF Past, Present, Session
<1> QED
  BY <1>1, <1>2, <1>3, <1>4 DEF Past

LEMMA PastInit == Init => Past
  BY Constants DEF Init, Past, Known, HeldForEnded, NoBlock

LEMMA PastStep == Typed /\ Past /\ [Next]_vars => Past'
<1> SUFFICES ASSUME Typed, Past, [Next]_vars PROVE Past'
  OBVIOUS
<1>t. /\ host \in [Keys -> 0..MaxLogon] /\ logons \in Nat /\ MaxLogon \in Nat
      /\ cfg \in Config /\ disk \in Config /\ open \in SUBSET Session
  BY Constants DEF Typed
<1>k. \A s \in Known : s \in Session /\ s.key \in Keys /\ s.logon \in 1..MaxLogon
  BY HeldTyped DEF Session, Logons
<1>1. ASSUME NEW k \in Keys, Logon(k) PROVE Past'
  <2>1. /\ logons' = logons + 1
        /\ host' = [host EXCEPT ![k] = logons + 1]
        /\ UNCHANGED <<watcher, cfg, disk, req, server, history>>
    BY <1>1 DEF Logon
  <2>2. Known' = Known /\ HeldForEnded' = HeldForEnded
    BY <2>1 DEF Known, HeldForEnded, watcher, server
  <2>3. \A s \in HeldForEnded : s \in Present' => s \in Present
    BY <2>1, <1>t, <1>k DEF Past, Present, Known
  <2> QED
    BY <2>1, <2>2, <2>3, <1>t, <1>k DEF Past, history
<1>2. ASSUME NEW k \in Keys, Leave(k) PROVE Past'
  <2>1. /\ host' = [i \in Keys |-> IF i = k THEN 0 ELSE host[i]]
        /\ missed' = missed \ {k}
        /\ UNCHANGED <<logons, watcher, cfg, disk, req, server>>
    BY <1>2 DEF Leave, Over
  <2>2. Known' = Known /\ HeldForEnded' = HeldForEnded
    BY <2>1 DEF Known, HeldForEnded, watcher, server
  <2>3. \A s \in Known : s \in Present' => s \in Present /\ s.key # k
    BY <2>1, <1>k DEF Present
  <2> QED
    BY <2>1, <2>2, <2>3, <1>t DEF Past, Known
<1>3. ASSUME NEW k \in Keys, Input(k) PROVE Past'
  BY <1>3, PastFrame DEF Input, server, watcher
<1>4. CASE Tick \/ SampleNothing \/ Start \/ Order
  BY <1>4, PastFrame DEF Tick, SampleNothing, Start, Order, machine, server, watcher, history
<1>5. CASE Hour
  <2>1. cfg'.pending = cfg.pending /\ disk'.pending = disk.pending
    BY <1>5, <1>t DEF Hour, Config
  <2> QED
    BY <1>5, <2>1, PastFrame DEF Hour, machine, server, watcher, history
<1>6. CASE Sample
  <2>1. PICK cur \in SUBSET Present, gone \in SUBSET Present :
            /\ open' = cur
            /\ Over(KeysOf(gone))
            /\ cfg'.pending = cfg.pending \cup Closed(open, cur)
            /\ disk'.pending \subseteq disk.pending \cup cfg'.pending
            /\ missed' = (missed \cup LeftOut(cur)) \ KeysOf(gone)
            /\ UNCHANGED <<logons, req, server>>
    <3>1. ASSUME NEW seen PROVE AutoLogout(seen).off \subseteq seen
      BY DEF AutoLogout, Plan
    <3> QED
      BY <1>6, <3>1, <1>t DEF Sample, Config
  <2>2. HeldForEnded' \subseteq HeldForEnded \cup Closed(open, cur)
    BY <2>1 DEF HeldForEnded, server
  <2>3. Known' \subseteq Known \cup Present
    BY <2>1, <2>2, ClosedTyped, <1>t DEF Known
  <2>4. \A s \in Present : s.logon <= logons
    BY DEF Past, Present, Session
  <2>5. \A k \in Keys : host'[k] \in {0, host[k]} /\ (k \in KeysOf(gone) => host'[k] = 0)
    BY <2>1 DEF Over
  <2>6. \A s \in Session : s \in Present' => s \in Present /\ s.key \notin KeysOf(gone)
    BY <2>5 DEF Present, Session, Logons
  <2>7. \A s \in Closed(open, cur) : s \in Present => s.key \in LeftOut(cur)
    <3> SUFFICES ASSUME NEW s \in Closed(open, cur), s \in Present PROVE s.key \in LeftOut(cur)
      OBVIOUS
    <3>1. s \notin cur
      BY DEF Closed, KeysOf
    <3> QED
      BY <3>1 DEF LeftOut, KeysOf
  <2>8. \A s \in HeldForEnded \cup Closed(open, cur) : s \in Session
    BY <1>k, <1>t, ClosedTyped DEF Known
  <2>9. \A s \in HeldForEnded' : s \in Present' => s.key \in missed'
    BY <2>1, <2>2, <2>6, <2>7, <2>8 DEF Past
  <2>10. \A k \in Keys : host'[k] <= logons'
    BY <2>1, <2>5, <1>t DEF Past
  <2>11. \A s \in Known' : s.logon <= logons'
    BY <2>1, <2>3, <2>4 DEF Past
  <2> QED
    BY <2>9, <2>10, <2>11 DEF Past
<1>7. CASE Poll
  <2>1. open' \subseteq open \cup Present
    BY <1>7 DEF Poll
  <2>2. req'.closed \subseteq cfg.pending
    BY <1>7, AttachTyped, PresentTyped, <1>t DEF Poll, NoBlock
  <2> QED
    BY <1>7, <2>1, <2>2, PastFrame DEF Poll, machine, server, history
<1>8. CASE Arrive
  <2>1. /\ {s \in Session : rows'[s] = "ended"}
               \subseteq {s \in Session : rows[s] = "ended"} \cup req.closed
        /\ UNCHANGED <<machine, watcher, cfg, disk, req, missed>>
    BY <1>8 DEF Arrive, Ingested
  <2>2. HeldForEnded' \subseteq HeldForEnded /\ Known' \subseteq Known /\ Present' = Present
    BY <2>1 DEF HeldForEnded, Known, Present, machine, watcher
  <2> QED
    BY <2>1, <2>2 DEF Past, machine
<1>9. CASE Lose
  BY <1>9, PastFrame DEF Lose, machine, watcher, server, history, NoBlock
<1>10. CASE Record
  <2>1. cfg'.pending \subseteq cfg.pending /\ disk'.pending \subseteq cfg.pending \cup disk.pending
    BY <1>10, <1>t DEF Record, Recorded, Config
  <2> QED
    BY <1>10, <2>1, PastFrame DEF Record, machine, watcher, server, NoBlock
<1>11. CASE Pass
  <2>1. cfg'.pending = cfg.pending /\ disk'.pending = cfg.pending
    BY <1>11, <1>t DEF Pass, Config
  <2> QED
    BY <1>11, <2>1, PastFrame DEF Pass, machine, watcher, server
<1>12. CASE Crash
  BY <1>12, PastFrame DEF Crash, Stopped, machine, server, NoBlock
<1>13. CASE PowerCut
  <2>1. /\ \A k \in Keys : host'[k] = 0
        /\ UNCHANGED <<logons, disk, rows>>
        /\ cfg' = disk /\ open' = {} /\ req'.closed = {}
    BY <1>13 DEF PowerCut, Stopped, Over, server, NoBlock
  <2>2. HeldForEnded' \subseteq HeldForEnded /\ Known' \subseteq Known
    BY <2>1 DEF HeldForEnded, Known
  <2>3. \A s \in Known' : s \notin Present'
    BY <2>1, <2>2, <1>k DEF Present
  <2> QED
    BY <2>1, <2>2, <2>3, <1>t DEF Past, Known
<1>14. CASE UNCHANGED vars
  BY <1>14, PastFrame DEF vars, machine, watcher, server, history
<1> QED
  BY <1>1, <1>2, <1>3, <1>4, <1>5, <1>6, <1>7, <1>8, <1>9, <1>10, <1>11, <1>12,
     <1>13, <1>14 DEF Next, Agent

(* The server holds nobody for gone who is on, but for sessions a reading  *)
(* left out of its list (usersession.Closed compares two readings).        *)
THEOREM EndsAreTrue == Spec => []EndsTrue
<1>1. Init => Typed /\ Past
  BY TypesInit, PastInit
<1>2. Typed /\ Past /\ [Next]_vars => (Typed /\ Past)'
  BY TypesStep, PastStep
<1>3. Past => EndsTrue
  BY DEF Past, EndsTrue, HeldForEnded, Present
<1> QED
  BY <1>1, <1>2, <1>3, PTL DEF Spec

NoneMissed == missed = {}

LEMMA NoneMissedStep ==
    ASSUME "miss" \notin Faults
    PROVE  Typed /\ NoneMissed /\ [Next]_vars => NoneMissed'
<1> SUFFICES ASSUME NoneMissed, [Next]_vars PROVE NoneMissed'
  OBVIOUS
<1> USE DEF NoneMissed
<1>1. CASE Sample
  <2>1. PICK cur \in SUBSET Present, kept \in BOOLEAN : \E timed \in SUBSET cur :
          LET plan == AutoLogout(timed)
          IN \E gone \in SUBSET plan.off :
             /\ Strike(WentWrong(cur, timed, plan.off, gone, kept))
             /\ missed' = (missed \cup LeftOut(cur)) \ KeysOf(gone)
    BY <1>1 DEF Sample
  <2>2. PICK timed \in SUBSET cur : \E gone :
             /\ Strike(WentWrong(cur, timed, AutoLogout(timed).off, gone, kept))
             /\ missed' = (missed \cup LeftOut(cur)) \ KeysOf(gone)
    BY <2>1
  <2>3. PICK gone :
             /\ WentWrong(cur, timed, AutoLogout(timed).off, gone, kept) \subseteq Faults
             /\ missed' = (missed \cup LeftOut(cur)) \ KeysOf(gone)
    BY <2>2 DEF Strike
  <2>4. LeftOut(cur) = {}
    BY <2>3 DEF WentWrong, FaultKinds
  <2> QED
    BY <2>3, <2>4
<1>2. CASE \E k \in Keys : Leave(k)
  BY <1>2 DEF Leave
<1>3. CASE PowerCut
  BY <1>3 DEF PowerCut
<1>4. CASE \/ \E k \in Keys : Logon(k) \/ Input(k)
           \/ Tick \/ Hour \/ Order \/ SampleNothing \/ Poll \/ Arrive \/ Record \/ Pass \/ Start
           \/ Lose \/ Crash \/ UNCHANGED vars
  BY <1>4 DEF Logon, Input, Tick, Hour, Order, SampleNothing, Poll, Arrive, Record, Pass, Start,
     Lose, Crash, history, vars
<1> QED
  BY <1>1, <1>2, <1>3, <1>4 DEF Next, Agent

\* Where the collector lists every session it is asked for (list_linux.go,
\* list_windows.go), a session that is on is never ended at the server, through
\* lost requests and answers, failed saves and crashes.
THEOREM EndsAreTrueWhereListed ==
    ASSUME "miss" \notin Faults
    PROVE  Spec => [](\A s \in Present : rows[s] # "ended")
<1>1. Init => Typed /\ NoneMissed
  BY TypesInit DEF Init, NoneMissed
<1>2. Typed /\ NoneMissed /\ [Next]_vars => (Typed /\ NoneMissed)'
  BY TypesStep, NoneMissedStep
<1>3. EndsTrue /\ NoneMissed => \A s \in Present : rows[s] # "ended"
  BY DEF EndsTrue, NoneMissed
<1> QED
  BY <1>1, <1>2, <1>3, EndsAreTrue, PTL DEF Spec

-----------------------------------------------------------------------------
\* Who is on, not told and looked at in time, has not been idle for long; a
\* warning left over is one from before the last input.
Watched == {k \in Keys : host[k] # 0 /\ k \notin told \cup unwatched}
InTime ==
    /\ cfg.policy => \A k \in Watched :
           idle[k] < Limit - WarnSpan \/ (wait = "due" /\ idle[k] = Limit - WarnSpan)
    /\ \A k \in Watched \cap warned : idle[k] = 0 \/ (wait = "due" /\ idle[k] = 1)

LEMMA PresentKeys ==
    ASSUME host \in [Keys -> 0..MaxLogon]
    PROVE  KeysOf(Present) = {k \in Keys : host[k] # 0}
<1> USE Constants
<1>1. ASSUME NEW s \in Present PROVE s.key \in Keys /\ host[s.key] # 0
  BY DEF Present, Session, Logons
<1>2. ASSUME NEW k \in Keys, host[k] # 0 PROVE k \in KeysOf(Present)
  <2>1. [key |-> k, logon |-> host[k]] \in Session
    BY <1>2 DEF Session, Logons
  <2>2. [key |-> k, logon |-> host[k]] \in Present
    BY <2>1 DEF Present
  <2> QED
    BY <2>2 DEF KeysOf
<1> QED
  BY <1>1, <1>2 DEF KeysOf

LEMMA InTimeInit == Init => InTime
  BY DEF Init, InTime, Watched

\* A step that leaves the clock and the warnings alone.
LEMMA InTimeFrame ==
    ASSUME InTime, Watched' \subseteq Watched, UNCHANGED <<idle, warned>>,
           wait' = wait \/ wait # "due", cfg'.policy => cfg.policy \/ Watched' = {}
    PROVE  InTime'
  BY DEF InTime

\* The sample of the sessions seen, where it decides on whom to log off.
LEMMA SampleInTime == Typed /\ InTime /\ Sample => InTime' /\ KeysOf(Present \ Present') \subseteq told \cup unwatched
<1> SUFFICES ASSUME Typed, InTime, Sample
             PROVE  InTime' /\ KeysOf(Present \ Present') \subseteq told \cup unwatched
  OBVIOUS
<1>t. /\ host \in [Keys -> 0..MaxLogon] /\ idle \in [Keys -> 0..Limit] /\ cfg \in Config
      /\ Limit \in Nat /\ WarnSpan \in Nat /\ 0 < WarnSpan /\ Limit - WarnSpan > 1
  BY Constants DEF Typed
<1>1. PICK seen \in SUBSET Present, gone \in SUBSET Session :
          /\ gone \subseteq AutoLogout(seen).off
          /\ warned' = AutoLogout(seen).kept
          /\ Over(KeysOf(gone))
          /\ cfg'.policy = cfg.policy
          /\ told' = (told \cup KeysOf(AutoLogout(seen).warn)) \ KeysOf(gone)
          /\ unwatched' = (unwatched \cup KeysOf(Present \ seen))
                \ KeysOf(gone \cup {s \in seen : idle[s.key] < Limit - WarnSpan})
  <2>1. PICK seen \in SUBSET Present : \E gone \in SUBSET AutoLogout(seen).off :
            /\ warned' = AutoLogout(seen).kept
            /\ Over(KeysOf(gone))
            /\ cfg'.policy = cfg.policy
            /\ told' = (told \cup KeysOf(AutoLogout(seen).warn)) \ KeysOf(gone)
            /\ unwatched' = (unwatched \cup KeysOf(Present \ seen))
                  \ KeysOf(gone \cup {s \in seen : idle[s.key] < Limit - WarnSpan})
    BY <1>t DEF Sample, Config
  <2>2. AutoLogout(seen).off \subseteq seen
    BY DEF AutoLogout, Plan
  <2>3. seen \subseteq Session
    BY PresentTyped
  <2> QED
    BY <2>1, <2>2, <2>3
<1> DEFINE plan == AutoLogout(seen)
<1>2. \A s \in seen : s \in Present /\ s.key \in Keys /\ host[s.key] # 0
  BY <1>t, Constants DEF Present, Session, Logons
<1>3. plan.off \subseteq {s \in seen : cfg.policy /\ idle[s.key] >= Limit}
  BY DEF AutoLogout, Plan
<1>4. \A k \in Keys : (k \in KeysOf(gone) => host'[k] = 0)
                   /\ (k \notin KeysOf(gone) => host'[k] = host[k] /\ idle'[k] = idle[k])
  BY <1>1 DEF Over
<1>5. ASSUME NEW k \in Watched'
      PROVE  /\ k \in Keys /\ k \notin KeysOf(gone) /\ host[k] # 0 /\ idle'[k] = idle[k]
             /\ k \in KeysOf(seen)
             /\ k \notin told /\ k \notin KeysOf(plan.warn)
             /\ idle[k] < Limit - WarnSpan \/ k \in Watched
  <2>1. k \in Keys /\ k \notin KeysOf(gone) /\ host[k] # 0 /\ idle'[k] = idle[k]
    BY <1>4 DEF Watched
  <2>2. k \notin told /\ k \notin KeysOf(plan.warn)
    BY <1>1, <2>1 DEF Watched
  <2>3. PICK s \in Present : s.key = k
    BY <2>1, <1>t, PresentKeys DEF KeysOf
  <2>4. s \in seen \/ idle[k] < Limit - WarnSpan
    BY <1>1, <2>1, <2>3 DEF Watched, KeysOf
  <2>5. ASSUME s \notin seen PROVE k \in KeysOf(seen)
    <3>1. k \in KeysOf(Present \ seen)
      BY <2>3, <2>5 DEF KeysOf
    <3>2. k \in KeysOf(gone \cup {r \in seen : idle[r.key] < Limit - WarnSpan})
      BY <1>1, <3>1 DEF Watched
    <3> QED
      BY <3>2, <2>1 DEF KeysOf
  <2>6. k \in KeysOf(seen)
    BY <2>3, <2>5 DEF KeysOf
  <2>7. k \in unwatched => idle[k] < Limit - WarnSpan
    <3> SUFFICES ASSUME k \in unwatched PROVE idle[k] < Limit - WarnSpan
      OBVIOUS
    <3>1. k \in KeysOf(gone \cup {r \in seen : idle[r.key] < Limit - WarnSpan})
      BY <1>1 DEF Watched
    <3> QED
      BY <3>1, <2>1 DEF KeysOf
  <2> QED
    BY <2>1, <2>2, <2>6, <2>7 DEF Watched
<1>6. ASSUME cfg.policy, NEW k \in KeysOf(seen), InWindow(k), k \notin warned
      PROVE  k \in KeysOf(plan.warn)
  <2>1. plan = Plan(seen)
    BY <1>6 DEF AutoLogout, KeysOf
  <2> QED
    BY <1>6, <2>1 DEF Plan, KeysOf
<1>7. ASSUME cfg.policy, NEW k \in Watched' PROVE idle'[k] < Limit - WarnSpan
  <2>1. CASE idle[k] < Limit - WarnSpan
    BY <1>5, <2>1
  <2>2. CASE k \in Watched /\ ~(idle[k] < Limit - WarnSpan)
    <3>1. idle[k] = Limit - WarnSpan /\ k \in Keys
      BY <1>5, <1>7, <2>2, <1>t DEF InTime
    <3>2. InWindow(k)
      BY <3>1, <1>t DEF InWindow
    <3>3. k \notin warned
      BY <2>2, <3>1, <1>t DEF InTime
    <3> QED
      BY <1>5, <1>6, <1>7, <3>2, <3>3
  <2> QED
    BY <1>5, <2>1, <2>2
<1>8. ASSUME NEW k \in Watched' \cap warned' PROVE FALSE
  <2>1. k \in KeysOf(seen) /\ k \in Keys /\ seen # {}
    BY <1>5 DEF KeysOf
  <2>2. cfg.policy /\ plan = Plan(seen)
    BY <1>1, <1>8, <2>1 DEF AutoLogout
  <2>3. idle[k] >= Limit - WarnSpan
    BY <1>1, <1>8, <2>2 DEF Plan, InWindow
  <2> QED
    BY <1>5, <1>7, <1>8, <2>1, <2>2, <2>3, <1>t
<1>9. InTime'
  BY <1>1, <1>7, <1>8 DEF InTime
<1>10. ASSUME NEW s \in Present, s \notin Present' PROVE s.key \in told \cup unwatched
  <2>1. s \in Session /\ s.key \in Keys /\ host[s.key] = s.logon /\ host[s.key] # 0
    BY <1>t, Constants DEF Present, Session, Logons
  <2>2. s.key \in KeysOf(gone)
    BY <1>4, <1>10, <2>1 DEF Present
  <2>3. PICK r \in gone : r.key = s.key
    BY <2>2 DEF KeysOf
  <2>4. cfg.policy /\ idle[s.key] >= Limit
    <3>1. r \in {q \in seen : cfg.policy /\ idle[q.key] >= Limit}
      BY <1>1, <1>3, <2>3
    <3> QED
      BY <2>3, <3>1
  <2>5. ~(idle[s.key] < Limit - WarnSpan) /\ idle[s.key] # Limit - WarnSpan
    BY <2>1, <2>4, <1>t
  <2> QED
    BY <2>1, <2>4, <2>5 DEF InTime, Watched
<1> QED
  BY <1>9, <1>10 DEF KeysOf

LEMMA InTimeStep == Typed /\ Settling /\ InTime /\ [Next]_vars => InTime'
<1> SUFFICES ASSUME Typed, Settling, InTime, [Next]_vars PROVE InTime'
  OBVIOUS
<1>t. /\ host \in [Keys -> 0..MaxLogon] /\ idle \in [Keys -> 0..Limit]
      /\ cfg \in Config /\ disk \in Config
      /\ Limit \in Nat /\ WarnSpan \in Nat /\ 0 < WarnSpan /\ Limit - WarnSpan > 1
  BY Constants DEF Typed
<1>1. ASSUME NEW k \in Keys, Logon(k) \/ Input(k) PROVE InTime'
  <2>1. /\ idle' = [idle EXCEPT ![k] = 0]
        /\ \A i \in Keys \ {k} : host'[i] = host[i] /\ (i \in told <=> i \in told')
        /\ UNCHANGED <<unwatched, warned, cfg, wait>>
    BY <1>1, <1>t DEF Logon, Input, watcher, history
  <2>2. \A i \in Watched' : i = k \/ i \in Watched
    BY <2>1 DEF Watched
  <2>3. \A i \in Watched' : i \in Keys
    BY DEF Watched
  <2> QED
    BY <2>1, <2>2, <2>3, <1>t DEF InTime
<1>2. ASSUME NEW k \in Keys, Leave(k) PROVE InTime'
  <2>1. /\ \A i \in Keys : (i = k => host'[i] = 0) /\ (i # k => host'[i] = host[i] /\ idle'[i] = idle[i])
        /\ \A i \in Keys \ {k} : (i \in told' <=> i \in told) /\ (i \in unwatched' <=> i \in unwatched)
        /\ UNCHANGED <<warned, cfg, wait>>
    BY <1>2 DEF Leave, Over, watcher
  <2>2. \A i \in Watched' : i \in Watched /\ idle'[i] = idle[i]
    BY <2>1 DEF Watched
  <2> QED
    BY <2>1, <2>2 DEF InTime
<1>3. CASE Tick
  <2>1. CASE pc = "waiting"
    <3>1. /\ wait # "due" /\ wait' = "due"
          /\ \A k \in Keys : idle'[k] \in {idle[k], idle[k] + 1}
          /\ UNCHANGED <<host, unwatched, told, warned, cfg>>
      BY <1>3, <2>1 DEF Tick, watcher
    <3>2. Watched' = Watched /\ Watched \subseteq Keys
      BY <3>1 DEF Watched
    <3> QED
      BY <3>1, <3>2, <1>t DEF InTime
  <2>2. CASE pc # "waiting"
    <3>1. Watched' = {}
      BY <1>3, <2>2, <1>t, PresentKeys DEF Tick, Watched
    <3> QED
      BY <3>1 DEF InTime
  <2> QED
    BY <2>1, <2>2
<1>4. CASE SampleNothing
  <2>1. Watched' = {}
    BY <1>4, <1>t, PresentKeys DEF SampleNothing, Watched, machine
  <2> QED
    BY <2>1 DEF InTime
<1>5. CASE Sample
  BY <1>5, SampleInTime
<1>6. CASE Hour
  <2>1. cfg'.policy = cfg.policy /\ Watched' = Watched
    BY <1>6, <1>t DEF Hour, Config, Watched, machine, history
  <2> QED
    BY <1>6, <2>1, InTimeFrame DEF Hour, machine, watcher
<1>7. CASE Order \/ Poll \/ Arrive \/ Start
  <2>1. Watched' = Watched
    BY <1>7 DEF Order, Poll, Arrive, Start, Watched, machine, history
  <2> QED
    BY <1>7, <2>1, InTimeFrame DEF Order, Poll, Arrive, Start, machine, watcher
<1>8. CASE Lose
  <2>1. wait # "due" /\ Watched' = Watched
    BY <1>8 DEF Lose, Settling, Watched, machine, history
  <2> QED
    BY <1>8, <2>1, InTimeFrame DEF Lose, machine, watcher
<1>9. CASE Record
  <2>1. cfg'.policy = cfg.policy /\ Watched' = Watched
    BY <1>9, <1>t DEF Record, Recorded, Config, Watched, machine
  <2> QED
    BY <1>9, <2>1, InTimeFrame DEF Record, machine, watcher
<1>10. CASE Pass
  <2>1. wait # "due" /\ Watched' \subseteq Watched
    BY <1>10 DEF Pass, Settling, Watched, machine
  <2>2. cfg'.policy => cfg.policy \/ Watched' = {}
    BY <1>10, <1>t, PresentKeys DEF Pass, Config, Watched, machine
  <2> QED
    BY <1>10, <2>1, <2>2, InTimeFrame DEF Pass, machine, watcher
<1>11. CASE Crash
  <2>1. Watched' = {}
    BY <1>11, <1>t, PresentKeys DEF Crash, Stopped, Watched, machine
  <2> QED
    BY <2>1 DEF InTime
<1>12. CASE PowerCut
  <2>1. Watched' = {}
    BY <1>12 DEF PowerCut, Over, Watched
  <2> QED
    BY <2>1 DEF InTime
<1>13. CASE UNCHANGED vars
  <2>1. Watched' = Watched
    BY <1>13 DEF vars, Watched, machine, history
  <2> QED
    BY <1>13, <2>1, InTimeFrame DEF vars, machine, watcher
<1> QED
  BY <1>1, <1>2, <1>3, <1>4, <1>5, <1>6, <1>7, <1>8, <1>9, <1>10, <1>11, <1>12,
     <1>13 DEF Next, Agent

(* Nobody is logged off unwarned, but for a session no sample looked at in *)
(* the time before (autologout.go:86-93), for every limit that leaves a    *)
(* sample between a user's last input and the warning.                     *)
THEOREM WarnsFirst == Spec => WarnedFirst
<1> DEFINE Inv == Typed /\ Settling /\ EndsKept /\ InTime
<1>1. Init => Inv
  BY TypesInit, SettlingInit, KeptInit, InTimeInit
<1>2. Inv /\ [Next]_vars => Inv'
  BY TypesStep, SettlingStep, KeptStep, InTimeStep
<1>3. Inv => (Sample => KeysOf(Present \ Present') \subseteq told \cup unwatched)
  BY SampleInTime
<1> QED
  BY <1>1, <1>2, <1>3, PTL DEF Spec, WarnedFirst

(***************************************************************************)
(* Facts.                                                                  *)
(***************************************************************************)
Stored == F!Value \cup {F!None}

FactsTyped ==
    /\ built \in [Blocks -> F!Value]
    /\ at \in {"waiting", "polling", "answered"}
    /\ known \in F!Config /\ saved \in F!Config
    /\ sent \in F!Request /\ said \in F!Response
    /\ holds \in [Blocks -> Stored]
    /\ asks \subseteq Blocks /\ collect \in F!Gate
    /\ unsettled \subseteq Blocks

\* What is stored of a block that was sent agrees with what the server has.
Agrees(b, stored) ==
    stored \notin {F!None, holds[b]} => holds[b] = F!None \/ F!EmptyList(b, stored)

\* Blocks that are settled agree, in memory and in config.json.  Those of a poll
\* that was answered are not settled; what the server took of them is what will
\* be recorded, and if they are the same as before there is something to save.
Recording == \A b \in Blocks \ unsettled : \A c \in {known, saved} : Agrees(b, c.hash[b])
Taken ==
    at = "answered" =>
        /\ F!Carried \subseteq unsettled
        /\ said.collect # "off" => \A b \in F!Carried : Agrees(b, sent.sent[b])
Moves ==
    at # "waiting" =>
        \A b \in F!Carried :
            /\ ~sent.gathered => b = "network"
            /\ sent.sent[b] # known.hash[b] \/ b \in known.want
            /\ at = "answered" /\ said.collect # "off" /\ F!OnWire(b) => b \notin said.want

-----------------------------------------------------------------------------
LEMMA NoneIsNoBlock == F!None \notin F!Value
  BY DEF F!None, F!Value, F!Readings

\* A collector reports some of the readings, or nothing.
LEMMA GatherTyped ==
    ASSUME F!FactsAssumption, NEW b \in Blocks, NEW failed, built \in [Blocks -> F!Value]
    PROVE  F!Gather(b, failed).value \in F!Value
<1>1. b \in {"inventory", "software", "directory", "printers", "network", "secureboot"}
  BY DEF F!FactsAssumption
<1>2. built[b] \in F!Value /\ built[b] \ failed \in F!Value /\ {} \in F!Value /\ {"main"} \in F!Value
  BY DEF F!Value, F!Readings
<1>3. ASSUME NEW ok, NEW v \in F!Value PROVE F!ReportIf(ok, v).value \in F!Value
  BY <1>2 DEF F!ReportIf, F!Report, F!Nothing
<1> QED
  BY <1>1, <1>2, <1>3 DEF F!Gather, F!InventoryLinux, F!InventoryWindows, F!SoftwareLinux, F!SoftwareWindows,
     F!DirectoryLinux, F!DirectoryWindows, F!PrintersLinux, F!PrintersWindows, F!NetworkInterfaces,
     F!SecureBoot, F!Report

\* What the poll carries of a block.
LEMMA AttachSends ==
    ASSUME F!FactsAssumption, FactsTyped, NEW b \in Blocks, NEW failed
    PROVE  /\ F!Attach(b, failed) \in Stored
           /\ F!Attach(b, failed) # F!None =>
                 b \in F!Collected /\ (F!Attach(b, failed) # known.hash[b] \/ b \in known.want)
  BY GatherTyped DEF F!Attach, Stored, FactsTyped

LEMMA FactsTypesInit == F!Init => FactsTyped
<1>1. {"main"} \in F!Value /\ {} \in F!Value
  BY DEF F!Value, F!Readings
<1> QED
  BY <1>1 DEF F!Init, FactsTyped, F!Config, F!Request, F!NoRequest, F!Response, F!NoResponse, F!Gate, Stored

LEMMA RecordedFactsTyped ==
    ASSUME FactsTyped
    PROVE  /\ F!Recorded \in F!Config
           /\ \A b \in Blocks : F!Recorded.hash[b] = IF b \in F!Carried THEN sent.sent[b] ELSE known.hash[b]
           /\ F!Recorded.want = said.want
  BY DEF FactsTyped, F!Recorded, F!Config, F!Request, F!Response, F!Gate

LEMMA FactsTypesStep ==
    ASSUME F!FactsAssumption, FactsTyped, [F!Next]_(F!vars)
    PROVE  FactsTyped'
<1> USE DEF FactsTyped
<1>1. ASSUME NEW b \in Blocks, F!Change(b) PROVE FactsTyped'
  BY <1>1 DEF F!Change, F!server
<1>2. CASE F!Hour
  BY <1>2 DEF F!Hour, F!server, F!Config
<1>3. CASE F!Order
  BY <1>3 DEF F!Order, F!Gate, Stored
<1>4. ASSUME NEW x \in Blocks, NEW failed \in F!Value, F!Poll(x, failed) PROVE FactsTyped'
  <2>1. \A b \in Blocks : F!Attach(b, IF b = x THEN failed ELSE {}) \in Stored
    BY AttachSends
  <2>2. (~known.disabled /\ F!factsDue) \in BOOLEAN
    OBVIOUS
  <2>3. sent' \in F!Request
    BY <1>4, <2>1, <2>2 DEF F!Poll, F!Request, Stored
  <2> QED
    BY <1>4, <2>3 DEF F!Poll, F!server
<1>5. CASE F!Arrive
  <2>1. holds' \in [Blocks -> Stored] /\ asks' \subseteq Blocks
    BY <1>5 DEF F!Arrive, F!Request, Stored
  <2>2. said' \in F!Response
    BY <1>5, <2>1 DEF F!Arrive, F!Response
  <2>3. unsettled' \subseteq Blocks
    BY <1>5 DEF F!Arrive, F!Carried
  <2> QED
    BY <1>5, <2>1, <2>2, <2>3 DEF F!Arrive
<1>6. CASE F!Record
  <2>1. sent' \in F!Request /\ said' \in F!Response
    BY <1>6 DEF F!Record, F!NoRequest, F!NoResponse, F!Request, F!Response, F!Gate
  <2>2. known' \in F!Config /\ saved' \in F!Config
    BY <1>6, RecordedFactsTyped DEF F!Record
  <2>3. unsettled' \subseteq Blocks
    BY <1>6 DEF F!Record, F!Carried
  <2> QED
    BY <1>6, <2>1, <2>2, <2>3 DEF F!Record, F!server
<1>7. CASE F!LoseRequest
  <2>1. sent' \in F!Request
    BY <1>7 DEF F!LoseRequest, F!NoRequest, F!Request
  <2> QED
    BY <1>7, <2>1 DEF F!LoseRequest, F!server
<1>8. F!NoRequest \in F!Request /\ F!NoResponse \in F!Response /\ F!Carried \subseteq Blocks
  BY DEF F!NoRequest, F!NoResponse, F!Request, F!Response, F!Gate, F!Carried
<1>9. CASE F!LoseAnswer
  BY <1>9, <1>8 DEF F!LoseAnswer, F!server
<1>10. CASE F!SaveConfig
  BY <1>10 DEF F!SaveConfig, F!server
<1>11. CASE F!Crash
  BY <1>11, <1>8 DEF F!Crash, F!server
<1>12. CASE UNCHANGED F!vars
  BY <1>12 DEF F!vars, F!server
<1> QED
  BY <1>1, <1>2, <1>3, <1>4, <1>5, <1>6, <1>7, <1>9, <1>10, <1>11, <1>12 DEF F!Next, F!Agent

-----------------------------------------------------------------------------
LEMMA MovesInit == F!Init => Moves
  BY DEF F!Init, Moves

LEMMA MovesStep ==
    ASSUME F!FactsAssumption, FactsTyped, Moves, [F!Next]_(F!vars)
    PROVE  Moves'
<1>1. ASSUME UNCHANGED <<at, sent, said>>, known'.hash = known.hash, known'.want = known.want PROVE Moves'
  BY <1>1 DEF Moves, F!Carried, F!OnWire
<1>2. ASSUME at' = "waiting" PROVE Moves'
  BY <1>2 DEF Moves
<1>3. ASSUME NEW x \in Blocks, NEW failed \in F!Value, F!Poll(x, failed) PROVE Moves'
  <2>1. at' = "polling" /\ known' = known /\ sent'.gathered = (~known.disabled /\ F!factsDue)
    BY <1>3 DEF F!Poll
  <2>2. ASSUME NEW b \in Blocks
        PROVE  sent'.sent[b] = F!Attach(b, IF b = x THEN failed ELSE {})
    BY <1>3, <2>2 DEF F!Poll
  <2>3. ASSUME NEW b \in F!Carried'
        PROVE  b \in Blocks /\ b \in F!Collected /\ (sent'.sent[b] # known.hash[b] \/ b \in known.want)
    BY <2>2, <2>3, AttachSends DEF F!Carried
  <2> QED
    BY <2>1, <2>3 DEF Moves, F!Collected
<1>4. CASE F!Arrive
  <2>1. /\ at = "polling" /\ known' = known /\ sent' = sent /\ F!Carried' = F!Carried
        /\ said'.collect = collect
        /\ said'.want = asks' \cup {b \in Blocks : holds'[b] = F!None}
    BY <1>4 DEF F!Arrive, F!Carried
  <2>2. ASSUME NEW b \in F!Carried, collect # "off", F!OnWire(b) PROVE b \notin said'.want
    <3>1. b \in Blocks /\ holds'[b] = sent.sent[b] /\ b \notin asks'
      BY <1>4, <2>2 DEF F!Arrive, F!Carried
    <3> QED
      BY <2>1, <2>2, <3>1 DEF F!Carried
  <2>3. \A b \in Blocks : F!OnWire(b)' <=> F!OnWire(b)
    BY <2>1 DEF F!OnWire
  <2>4. F!Carried \subseteq Blocks
    BY DEF F!Carried
  <2> QED
    BY <2>1, <2>2, <2>3, <2>4 DEF Moves
<1> QED
  BY <1>1, <1>2, <1>3, <1>4 DEF F!Next, F!Agent, F!Change, F!Hour, F!Order, F!Record, F!LoseRequest, F!LoseAnswer,
     F!SaveConfig, F!Crash, F!vars, FactsTyped, F!Config

-----------------------------------------------------------------------------
LEMMA RecordingInit == F!Init => Recording /\ Taken
  BY DEF F!Init, Recording, Taken, Agrees

\* A step outside the exchange.
LEMMA RecordingFrame ==
    ASSUME FactsTyped, Recording, Taken, UNCHANGED <<at, sent, said, unsettled>>,
           \A b \in Blocks : holds'[b] \in {holds[b], F!None},
           known'.hash = known.hash, saved'.hash \in {saved.hash, known.hash}
    PROVE  (Recording /\ Taken)'
<1>1. F!Carried' = F!Carried /\ F!Carried \subseteq Blocks
  BY DEF F!Carried
<1>2. \A b \in Blocks : \A v : Agrees(b, v) => Agrees(b, v)'
  BY DEF Agrees, F!EmptyList
<1>3. Recording'
  BY <1>1, <1>2 DEF Recording
<1>4. Taken'
  BY <1>1, <1>2 DEF Taken
<1> QED
  BY <1>3, <1>4

LEMMA RecordStep == FactsTyped /\ Recording /\ Taken /\ Moves /\ F!Record => (Recording /\ Taken)'
<1> SUFFICES ASSUME FactsTyped, Recording, Taken, Moves, F!Record PROVE (Recording /\ Taken)'
  OBVIOUS
<1>1. /\ at = "answered" /\ at' = "waiting"
      /\ known' = F!Recorded
      /\ UNCHANGED holds
  BY DEF F!Record, F!server
<1>2. \A b \in Blocks : known'.hash[b] = IF b \in F!Carried THEN sent.sent[b] ELSE known.hash[b]
  BY <1>1, RecordedFactsTyped
<1>3. \A b \in Blocks : \A v : Agrees(b, v) => Agrees(b, v)'
  BY <1>1 DEF Agrees, F!EmptyList
<1>4. ASSUME NEW b \in Blocks, b \notin unsettled', b \notin F!Carried
      PROVE  Agrees(b, known.hash[b])' /\ Agrees(b, saved.hash[b])'
  <2>1. b \notin unsettled
    BY <1>4 DEF F!Record
  <2>2. Agrees(b, known.hash[b]) /\ Agrees(b, saved.hash[b])
    BY <1>4, <2>1 DEF Recording
  <2>3. saved' = known' \/ saved' = saved
    BY DEF F!Record
  <2> QED
    BY <1>2, <1>3, <1>4, <2>2, <2>3
<1>5. ASSUME NEW b \in Blocks, b \notin unsettled', b \in F!Carried
      PROVE  Agrees(b, known.hash[b])' /\ Agrees(b, saved.hash[b])'
  <2>1. /\ said.collect # "off"
        /\ saved' = IF known' # known \/ sent.gathered THEN known' ELSE saved
    BY <1>1, <1>5 DEF F!Record, Taken
  <2>2. Agrees(b, known.hash[b])'
    BY <1>1, <1>2, <1>3, <1>5, <2>1 DEF Taken
  <2>3. known' # known \/ sent.gathered
    <3> SUFFICES ASSUME known' = known, ~sent.gathered PROVE FALSE
      OBVIOUS
    <3>1. b = "network" /\ sent.sent[b] = known.hash[b]
      BY <1>1, <1>2, <1>5 DEF Moves
    <3>2. F!OnWire(b)
      BY <1>5, <3>1 DEF F!OnWire, F!Carried
    <3>3. b \in known.want /\ b \notin said.want
      BY <1>1, <1>5, <2>1, <3>1, <3>2 DEF Moves
    <3> QED
      BY <1>1, <3>3, RecordedFactsTyped
  <2> QED
    BY <2>1, <2>2, <2>3
<1> QED
  BY <1>1, <1>4, <1>5 DEF Recording, Taken

LEMMA RecordingStep ==
    ASSUME F!FactsAssumption, FactsTyped, Recording, Taken, Moves, [F!Next]_(F!vars)
    PROVE  (Recording /\ Taken)'
<1>1. CASE (\E b \in Blocks : F!Change(b)) \/ UNCHANGED F!vars
  BY <1>1, RecordingFrame DEF F!Change, F!server, F!vars
<1>2. CASE F!Hour
  BY <1>2, RecordingFrame DEF F!Hour, F!server, FactsTyped, F!Config
<1>3. CASE F!Order
  BY <1>3, RecordingFrame DEF F!Order, FactsTyped
<1>4. CASE F!SaveConfig
  BY <1>4, RecordingFrame DEF F!SaveConfig, F!server
<1>5. ASSUME NEW x \in Blocks, NEW failed \in F!Value, F!Poll(x, failed) PROVE (Recording /\ Taken)'
  <2>1. /\ at = "waiting" /\ at' = "polling"
        /\ UNCHANGED <<known, saved, holds, unsettled>>
    BY <1>5 DEF F!Poll, F!server
  <2> QED
    BY <2>1 DEF Recording, Taken, Agrees, F!EmptyList
<1>6. CASE F!Arrive
  <2>1. /\ at = "polling" /\ at' = "answered" /\ said'.collect = collect /\ F!Carried' = F!Carried
        /\ UNCHANGED <<known, saved, sent>> /\ unsettled' = unsettled \cup F!Carried
        /\ \A b \in Blocks : holds'[b] = IF F!OnWire(b) /\ collect # "off" THEN sent.sent[b] ELSE holds[b]
    BY <1>6 DEF F!Arrive, F!Carried
  <2>2. \A b \in Blocks : F!OnWire(b) => b \in F!Carried
    BY DEF F!OnWire, F!Carried
  <2>3. Recording'
    BY <2>1, <2>2 DEF Recording, Agrees, F!EmptyList
  <2>4. ASSUME collect # "off", NEW b \in F!Carried PROVE Agrees(b, sent.sent[b])'
    BY <2>1, <2>4 DEF F!Carried, Agrees, F!EmptyList, F!OnWire
  <2>5. Taken'
    BY <2>1, <2>4 DEF Taken
  <2> QED
    BY <2>3, <2>5
<1>7. CASE F!Record
  BY <1>7, RecordStep
<1>8. CASE F!LoseRequest \/ F!LoseAnswer \/ F!Crash
  <2>1. /\ at' = "waiting" /\ holds' = holds
        /\ known' \in {known, saved} /\ saved' = saved
        /\ unsettled' = unsettled
    BY <1>8 DEF F!LoseRequest, F!LoseAnswer, F!Crash, F!server
  <2> QED
    BY <2>1 DEF Recording, Taken, Agrees, F!EmptyList
<1> QED
  BY <1>1, <1>2, <1>3, <1>4, <1>5, <1>6, <1>7, <1>8 DEF F!Next, F!Agent

(* What is on record as sent, in memory or in config.json, is what the     *)
(* server has, or will ask for again (facts.go:135-136), through any       *)
(* number of lost polls, failed saves and crashes.                         *)
THEOREM RecordsWhatIsHeld ==
    ASSUME F!FactsAssumption
    PROVE  F!Spec => []RecordedIsHeld
<1> DEFINE Inv == FactsTyped /\ Moves /\ Recording /\ Taken
<1>1. F!Init => Inv
  BY FactsTypesInit, MovesInit, RecordingInit
<1>2. Inv /\ [F!Next]_(F!vars) => Inv'
  BY FactsTypesStep, MovesStep, RecordingStep
<1>3. Inv => RecordedIsHeld
  BY DEF Recording, Agrees, RecordedIsHeld, None, EmptyList, F!None, F!EmptyList
<1> QED
  BY <1>1, <1>2, <1>3, PTL DEF F!Spec
=============================================================================
