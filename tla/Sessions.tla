------------------------------ MODULE Sessions ------------------------------
(***************************************************************************)
(* Who is logged on, reported to the server, and auto log out, which rides *)
(* the same sampler.  From cmd/fog-agent/sessions.go, autologout.go,       *)
(* internal/usersession and internal/provider/autologout.                  *)
(*                                                                         *)
(* The agent reads the open sessions every SessionSampleInterval while it  *)
(* waits and once more for each poll; nothing reads them while a poll or a *)
(* converge pass runs.  The open set and the warnings are in memory only;  *)
(* closures, the acknowledged digest and the settings are in config.json.  *)
(*                                                                         *)
(* A session is its OS key and the moment it started, here the number of   *)
(* the logon: the OS gives a key out again.  The other fields of a session *)
(* do no more than move the digest and are left out.  Time is counted in   *)
(* sample intervals.  The server's rows are external (design 0008 section  *)
(* 5).  Variables under "history" are read by properties only.             *)
(***************************************************************************)
EXTENDS Naturals, FiniteSets

CONSTANTS
    Keys,        \* session ids of the OS
    MaxLogon,    \* bound: logons in a behaviour
    Limit,       \* Policy.Minutes, in sample intervals
    Warn,        \* Policy.WarnSeconds, in sample intervals
    Faults,      \* the kinds of fault that may happen
    MaxFaults,   \* bound: how many do
    MaxOrders    \* bound: changes of the server's settings

FaultKinds == {"crash", "cut", "request", "answer", "save", "read", "miss",
               "unknown", "logoff"}

\* Clamped as Plan does; the warning must begin more than one sample after
\* a user's last input, or Plan never sees that the user came back.
WarnSpan == IF Warn >= Limit THEN Limit \div 2 ELSE Warn

ASSUME SessionsAssumption ==
    /\ Keys # {}
    /\ {MaxLogon, Limit, Warn, MaxFaults, MaxOrders} \subseteq Nat
    /\ Warn > 0
    /\ Limit - WarnSpan > 1
    /\ Faults \subseteq FaultKinds

Logons == 1..MaxLogon
Session == [key : Keys, logon : Logons]

VARIABLES
    host,      \* who is on: the logon under each key, 0 for nobody
    idle,      \* sample intervals since the last input, up to Limit
    pc,        \* where runAgent is
    wait,      \* of the wait under way: just begun, a sample due, sampled
    open,      \* sessionWatcher.open
    warned,    \* sessionWatcher.warned
    cfg,       \* st.Config, the fields of sessions and auto log out
    disk,      \* config.json
    req,       \* the sessions block of the poll under way
    resp,      \* the settings its answer states
    rows,      \* external: the server's row of each session
    want,      \* external: what the admin set
    logons, faults, orders,                            \* bounds
    owed,      \* history: ends seen, not at the server and not given up
    missed,    \* history: keys whose open session a reading left out
    told,      \* history: keys warned since the last input
    unwatched  \* history: keys not looked at in the time before

machine == <<host, idle, logons>>
watcher == <<open, warned>>
server == <<rows, want>>
history == <<owed, missed, told, unwatched>>
vars == <<machine, pc, wait, watcher, cfg, disk, req, resp, server, faults, orders, history>>

Settings == [collect : BOOLEAN, policy : BOOLEAN]
Config == [pending : SUBSET Session, acked : SUBSET Session, fresh : BOOLEAN,
           disabled : BOOLEAN, policy : BOOLEAN]
NoAnswer == [collect |-> FALSE, policy |-> FALSE]
NoBlock == [sent |-> FALSE, open |-> {}, closed |-> {}]
Block == [sent : BOOLEAN, open : SUBSET Session, closed : SUBSET Session]

TypeOK ==
    /\ host \in [Keys -> 0..MaxLogon]
    /\ idle \in [Keys -> 0..Limit]
    /\ pc \in {"down", "start", "waiting", "polling", "answered", "passing"}
    /\ wait \in {"begun", "due", "sampled"}
    /\ open \in SUBSET Session
    /\ warned \in SUBSET Keys
    /\ cfg \in Config /\ disk \in Config
    /\ req \in Block /\ resp \in Settings
    /\ rows \in [Session -> {"none", "open", "ended", "inferred"}]
    /\ want \in Settings
    /\ logons \in 0..MaxLogon /\ faults \in 0..MaxFaults /\ orders \in 0..MaxOrders
    /\ owed \in SUBSET Session
    /\ {missed, told, unwatched} \subseteq SUBSET Keys

KeysOf(S) == {s.key : s \in S}
Present == {s \in Session : host[s.key] = s.logon}

\* The sessions under the keys K are over, and with them what was noted of them.
Over(K) ==
    /\ host' = [k \in Keys |-> IF k \in K THEN 0 ELSE host[k]]
    /\ idle' = [k \in Keys |-> IF k \in K THEN 0 ELSE idle[k]]

Init ==
    /\ host = [k \in Keys |-> 0] /\ idle = [k \in Keys |-> 0] /\ logons = 0
    /\ pc = "start" /\ wait = "begun"
    /\ open = {} /\ warned = {}
    /\ cfg = [pending |-> {}, acked |-> {}, fresh |-> FALSE,
              disabled |-> FALSE, policy |-> FALSE]
    /\ disk = cfg
    /\ req = NoBlock /\ resp = NoAnswer
    /\ rows = [s \in Session |-> "none"]
    /\ want = [collect |-> TRUE, policy |-> TRUE]
    /\ faults = 0 /\ orders = 0
    /\ owed = {} /\ missed = {} /\ told = {} /\ unwatched = {}

\* The faults of these kinds happen in this step.
Strike(kinds) ==
    /\ kinds \subseteq Faults
    /\ faults' = faults + Cardinality(kinds)
    /\ faults' <= MaxFaults
Strikes(kind) == Strike({kind})

(***************************************************************************)
(* The users and the clock.                                                *)
(***************************************************************************)
Logon(k) ==
    /\ host[k] = 0 /\ logons < MaxLogon
    /\ logons' = logons + 1
    /\ host' = [host EXCEPT ![k] = logons'] /\ idle' = [idle EXCEPT ![k] = 0]
    /\ UNCHANGED <<pc, wait, watcher, cfg, disk, req, resp, server, faults, orders, history>>

Leave(k) ==
    /\ host[k] # 0
    /\ Over({k})
    /\ missed' = missed \ {k} /\ told' = told \ {k} /\ unwatched' = unwatched \ {k}
    /\ UNCHANGED <<logons, pc, wait, watcher, cfg, disk, req, resp, server, faults, orders, owed>>

Input(k) ==
    /\ host[k] # 0 /\ idle[k] > 0
    /\ idle' = [idle EXCEPT ![k] = 0]
    /\ told' = told \ {k}
    /\ UNCHANGED <<host, logons, pc, wait, watcher, cfg, disk, req, resp, server, faults,
                   orders, owed, missed, unwatched>>

\* One sample interval.  sleepSampling samples at the end of each of its own;
\* while the agent is not in it, time passes unwatched.
Tick ==
    /\ wait # "due"
    /\ wait' = IF pc = "waiting" THEN "due" ELSE wait
    /\ idle' = [k \in Keys |-> IF host[k] # 0 /\ idle[k] < Limit THEN idle[k] + 1 ELSE idle[k]]
    /\ unwatched' = IF pc = "waiting" THEN unwatched ELSE unwatched \cup KeysOf(Present)
    /\ UNCHANGED <<host, logons, pc, watcher, cfg, disk, req, resp, server, faults, orders,
                   owed, missed, told>>

\* SessionResyncInterval since the last acknowledgement has passed.
Hour ==
    /\ cfg.fresh \/ disk.fresh
    /\ cfg' = [cfg EXCEPT !.fresh = FALSE] /\ disk' = [disk EXCEPT !.fresh = FALSE]
    /\ UNCHANGED <<machine, pc, wait, watcher, req, resp, server, faults, orders, history>>

Order ==
    /\ orders < MaxOrders /\ orders' = orders + 1
    /\ \/ want' = [want EXCEPT !.collect = ~@]
       \/ want' = [want EXCEPT !.policy = ~@]
    /\ UNCHANGED <<machine, pc, wait, watcher, cfg, disk, req, resp, rows, faults, history>>

(***************************************************************************)
(* The pure functions.                                                     *)
(***************************************************************************)
\* usersession.Closed: compared by key, so a key given out again between two
\* samples hides the end of its first session.  (ClosedSwapped, and the like
\* below, are faults put in on purpose.)
ClosedSwapped(prev, cur) == {s \in cur : s.key \notin KeysOf(prev)}
Closed(prev, cur) == {s \in prev : s.key \notin KeysOf(cur)}

\* autologout.Plan for the sessions of known, which have an idle time: whom
\* to log off, whom to warn, and the warnings kept.
InWindow(k) == idle[k] >= Limit - WarnSpan /\ idle[k] < Limit
PlanOnlyGrows(known) ==
    [off  |-> {s \in known : idle[s.key] >= Limit},
     warn |-> {s \in known : InWindow(s.key) /\ s.key \notin warned},
     kept |-> warned \cup {k \in KeysOf(known) : InWindow(k)}]
PlanNeedsWarning(known) ==
    [off  |-> {s \in known : idle[s.key] >= Limit /\ s.key \in warned},
     warn |-> {s \in known : InWindow(s.key) /\ s.key \notin warned},
     kept |-> {k \in KeysOf(known) : InWindow(k)}]
Plan(known) ==
    [off  |-> {s \in known : idle[s.key] >= Limit},
     warn |-> {s \in known : InWindow(s.key) /\ s.key \notin warned},
     kept |-> {k \in KeysOf(known) : InWindow(k)}]

\* autoLogout: nothing is decided, and no warning forgotten, when no session
\* has a known idle time.
AutoLogout(known) ==
    IF ~cfg.policy THEN [off |-> {}, warn |-> {}, kept |-> {}]
    ELSE IF known = {} THEN [off |-> {}, warn |-> {}, kept |-> warned]
    ELSE Plan(known)

(***************************************************************************)
(* The sampler.                                                            *)
(***************************************************************************)
\* sample with the gate closed, or with no reading: nothing is looked at.
SampleNothing ==
    /\ wait = "due"
    /\ wait' = "sampled"
    /\ \/ cfg.disabled /\ UNCHANGED faults
       \/ ~cfg.disabled /\ Strikes("read")
    /\ unwatched' = unwatched \cup KeysOf(Present)
    /\ UNCHANGED <<machine, pc, watcher, cfg, disk, req, resp, server, orders, owed, missed, told>>

\* A session whose own reading fails is left out of the list.
LeftOut(cur) == KeysOf(Present \ cur)

\* What went wrong in a sample that lists cur, of which known have an idle
\* time, and logs off gone of those it wants off.
WentWrong(cur, known, off, gone, saved) ==
    {kind \in FaultKinds :
        \/ kind = "miss" /\ LeftOut(cur) # {}
        \/ kind = "unknown" /\ known # cur
        \/ kind = "logoff" /\ gone # off
        \/ kind = "save" /\ ~saved}

Sample ==
    /\ wait = "due" /\ ~cfg.disabled
    /\ wait' = "sampled"
    /\ \E cur \in SUBSET Present, saved \in BOOLEAN : \E known \in SUBSET cur :
         LET closed == Closed(open, cur)
             plan == AutoLogout(known)
         IN \E gone \in SUBSET plan.off :
            /\ saved \/ closed # {}
            /\ Strike(WentWrong(cur, known, plan.off, gone, saved))
            /\ open' = cur /\ warned' = plan.kept
            /\ Over(KeysOf(gone))
            /\ cfg' = [cfg EXCEPT !.pending = @ \cup closed]
            /\ disk' = IF closed # {} /\ saved THEN cfg' ELSE disk
            /\ owed' = owed \cup {s \in closed : rows[s] # "ended"}
            /\ missed' = (missed \cup LeftOut(cur)) \ KeysOf(gone)
            /\ told' = (told \cup KeysOf(plan.warn)) \ KeysOf(gone)
            /\ unwatched' = (unwatched \cup KeysOf(Present \ known))
                  \ KeysOf(gone \cup {s \in known : idle[s.key] < Limit - WarnSpan})
    /\ UNCHANGED <<logons, pc, req, resp, server, orders>>

(***************************************************************************)
(* The poll.                                                               *)
(***************************************************************************)
\* attach and the request.  The open set is read again and what closed since
\* the last sample is not computed.
AttachOnChange(now) ==
    IF now = cfg.acked /\ cfg.pending = {}
    THEN NoBlock
    ELSE [sent |-> TRUE, open |-> now, closed |-> cfg.pending]
Attach(now) ==
    IF now = cfg.acked /\ cfg.pending = {} /\ cfg.fresh
    THEN NoBlock
    ELSE [sent |-> TRUE, open |-> now, closed |-> cfg.pending]

Poll ==
    /\ pc = "start" \/ (pc = "waiting" /\ wait = "sampled")
    /\ pc' = "polling"
    /\ \/ /\ cfg.disabled
          /\ req' = NoBlock
          /\ UNCHANGED <<open, faults>>
       \/ /\ ~cfg.disabled
          /\ open' = Present
          /\ req' = Attach(Present)
          /\ UNCHANGED faults
       \/ /\ ~cfg.disabled /\ Strikes("read")
          /\ req' = IF open = {} THEN NoBlock ELSE Attach(open)
          /\ UNCHANGED open
    /\ UNCHANGED <<machine, wait, warned, cfg, disk, resp, server, orders, history>>

\* The server's ingress: closures, then the open set, then the leftovers.
Ingested(r) ==
    [s \in Session |->
        IF s \in req.closed THEN "ended"
        ELSE IF s \in req.open /\ r[s] = "none" THEN "open"
        ELSE IF r[s] = "open" /\ s.key \notin KeysOf(req.open) THEN "inferred"
        ELSE r[s]]

Arrive ==
    /\ pc = "polling"
    /\ pc' = "answered" /\ resp' = want
    /\ rows' = IF req.sent /\ want.collect THEN Ingested(rows) ELSE rows
    /\ owed' = IF req.sent /\ want.collect THEN owed \ req.closed ELSE owed
    /\ UNCHANGED <<machine, wait, watcher, cfg, disk, req, want, faults, orders,
                   missed, told, unwatched>>

\* The request or its answer is lost: the loop waits and asks again.
Lose ==
    /\ \/ pc = "polling" /\ Strikes("request")
       \/ pc = "answered" /\ Strikes("answer")
    /\ pc' = "waiting" /\ wait' = "begun" /\ req' = NoBlock /\ resp' = NoAnswer
    /\ UNCHANGED <<machine, watcher, cfg, disk, server, orders, history>>

\* recordSessions, from an answer that states collect_sessions.
RecordedUnsent(collect) ==
    IF ~collect
    THEN [cfg EXCEPT !.disabled = TRUE, !.pending = {}, !.acked = {}]
    ELSE [cfg EXCEPT !.disabled = FALSE, !.pending = {}, !.acked = req.open, !.fresh = TRUE]
Recorded(collect) ==
    IF ~collect
    THEN [cfg EXCEPT !.disabled = TRUE, !.pending = {}, !.acked = {}]
    ELSE IF req.sent
    THEN [cfg EXCEPT !.disabled = FALSE, !.pending = {}, !.acked = req.open, !.fresh = TRUE]
    ELSE [cfg EXCEPT !.disabled = FALSE]

Record ==
    /\ pc = "answered"
    /\ pc' = "passing" /\ req' = NoBlock
    /\ cfg' = Recorded(resp.collect)
    /\ owed' = IF resp.collect THEN owed ELSE {}
    /\ \/ disk' = cfg' /\ UNCHANGED faults
       \/ disk' = disk /\ cfg' # cfg /\ Strikes("save")
    /\ UNCHANGED <<machine, wait, watcher, resp, server, orders, missed, told, unwatched>>

\* The rest of the pass, which applies the policy the server sends.
Pass ==
    /\ pc = "passing"
    /\ pc' = "waiting" /\ wait' = "begun"
    /\ cfg' = [cfg EXCEPT !.policy = resp.policy]
    /\ disk' = cfg' /\ resp' = NoAnswer
    /\ unwatched' = IF resp.policy /\ ~cfg.policy THEN unwatched \cup KeysOf(Present)
                    ELSE unwatched
    /\ UNCHANGED <<machine, watcher, req, server, faults, orders, owed, missed, told>>

(***************************************************************************)
(* The process and the machine stop.                                       *)
(***************************************************************************)
Stopped ==
    /\ pc # "down"
    /\ pc' = "down" /\ wait' = "begun"
    /\ open' = {} /\ warned' = {} /\ req' = NoBlock /\ resp' = NoAnswer
    /\ cfg' = disk
    /\ owed' = owed \cap disk.pending

Crash ==
    /\ Strikes("crash") /\ Stopped
    /\ unwatched' = unwatched \cup KeysOf(Present)
    /\ UNCHANGED <<machine, disk, server, orders, missed, told>>

\* Power is cut: every session is over and nobody saw it.
PowerCut ==
    /\ Strikes("cut") /\ Stopped
    /\ Over(Keys)
    /\ missed' = {} /\ told' = {} /\ unwatched' = {}
    /\ UNCHANGED <<logons, disk, server, orders>>

Start ==
    /\ pc = "down"
    /\ pc' = "start"
    /\ UNCHANGED <<machine, wait, watcher, cfg, disk, req, resp, server, faults, orders, history>>

Agent == SampleNothing \/ Sample \/ Poll \/ Arrive \/ Record \/ Pass \/ Start

Next ==
    \/ \E k \in Keys : Logon(k) \/ Leave(k) \/ Input(k)
    \/ Tick \/ Hour \/ Order
    \/ Agent
    \/ Lose \/ Crash \/ PowerCut

Spec == Init /\ [][Next]_vars

(***************************************************************************)
(* The loop has no exit and its steps take their turn; the clock goes on;  *)
(* in each interval of waiting there is a sample, and polls happen.  Users *)
(* and faults need not do anything.                                        *)
(***************************************************************************)
Fairness ==
    /\ WF_vars(SampleNothing \/ Sample) /\ WF_vars(Arrive) /\ WF_vars(Record)
    /\ WF_vars(Pass) /\ WF_vars(Start) /\ WF_vars(Tick) /\ WF_vars(Hour)
    /\ SF_vars(Poll)

LiveSpec == Spec /\ Fairness

-----------------------------------------------------------------------------
(* An end the agent saw is in config.json's queue, or on the server as an  *)
(* observed end, until the admin turned the collection off or the process  *)
(* died before it could save (sessions.go:105-107, "a failed poll resends  *)
(* them instead of losing a session end forever").                         *)
EndsKept == owed \subseteq cfg.pending

(* The server is told of the end of a session only when it is over         *)
(* (list_linux.go:38-39).  Exempt are sessions the collector once left out *)
(* of its list while they were open: those are reported as ended.          *)
EndsTrue == \A s \in Present : rows[s] = "ended" => s.key \in missed

\* Sessions whose end was hidden by the next one under the same key.
Hidden == {s \in Session : \E t \in Present : t.key = s.key /\ t.logon > s.logon}
Seen == {s \in Present : s.key \notin missed}

(* When users stop coming and going, the server ends up with exactly the   *)
(* sessions that are open, through lost requests and answers, failed       *)
(* saves, crashes and the gate closed and opened (SessionResyncInterval,   *)
(* sessions.go:24-26).  Exempt are hidden and once-missed sessions.        *)
ServerFollows ==
    <>[](~cfg.disabled /\ want.collect =>
            /\ \A s \in Seen : rows[s] = "open"
            /\ \A s \in Session \ (Present \cup Hidden) : rows[s] # "open")

(* Nobody is logged off without having been warned since the last input,   *)
(* unless no sample looked at the session in the time before               *)
(* (autologout.go:86-93).                                                  *)
WarnedFirst == [][Sample => KeysOf(Present \ Present') \subseteq told \cup unwatched]_vars

(* A session left idle while the policy is on, and the collection of       *)
(* sessions with it, does not stay.                                        *)
IdleLeaves ==
    \A k \in Keys :
        <>[](cfg.policy /\ ~cfg.disabled /\ want.policy /\ want.collect)
            => []<>(host[k] = 0 \/ idle[k] < Limit)
=============================================================================
