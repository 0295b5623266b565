--------------------------- MODULE PowerSchedules ---------------------------
(***************************************************************************)
(* Power schedules in the agent's loop: waitOrFire (cmd/fog-agent/main.go) *)
(* looks for the next minute a schedule names and sleeps until then, or    *)
(* until the next poll.                                                    *)
(*                                                                         *)
(* The sleep is measured by a clock that only runs while the machine does, *)
(* the schedule by the clock on the wall, which may jump ahead (a          *)
(* suspended machine, a late sync) or be set back.  What a firing leads to *)
(* is RebootCoordinator's.                                                 *)
(***************************************************************************)
EXTENDS Cron, FiniteSets

CONSTANTS
    Zones,          \* the zones a machine may be in
    CalendarOf(_),  \* what the clock on the wall shows, in each
    Schedules,      \* the schedules an admin may set
    CronOf(_),      \* the expression of each
    Wait,        \* minutes between polls
    Year,        \* how far ahead Next looks
    MaxTime,     \* bound: the last minute lived through
    Faults,      \* the kinds of fault that may happen
    MaxFaults,   \* bound: how many do
    MaxOrders    \* bound: changes of the schedules

FaultKinds == {"ahead", "back", "save", "crash"}

\* The clock shows this minute's time at another one too.
Repeated(cal, m) ==
    \E other \in Minutes \ {m} :
        \A clock \in {cal.month, cal.dom, cal.hour, cal.min} : clock[m] = clock[other]

\* time.Date's next month, day or hour passes over minutes of this one, or of a
\* time shown twice.  One that is not later is this month, day or hour still.
Steps(cal, shown, to) ==
    \A n \in Minutes :
        LET Alike(m) == \A clock \in shown : clock[m] = clock[n] IN
        /\ to[n] > n \/ (Alike(to[n]) /\ to[to[n]] = to[n])
        /\ \A m \in Minutes : n < m /\ m < to[n] => Alike(m) \/ Repeated(cal, m)
GoodCalendar(cal) ==
    /\ Steps(cal, {cal.month}, cal.nextMonth)
    /\ Steps(cal, {cal.month, cal.dom, cal.dow}, cal.nextDay)
    /\ Steps(cal, {cal.month, cal.dom, cal.dow, cal.hour}, cal.nextHour)

Calendars == [z \in Zones |-> CalendarOf(z)]
Crons == [s \in Schedules |-> CronOf(s)]
NamedBy == [z \in Zones |-> [s \in Schedules |->
    {m \in Minutes : Matches(Crons[s], Calendars[z], m)}]]

ASSUME PowerSchedulesAssumption ==
    /\ Calendars \in [Zones -> Calendar]
    /\ \A z \in Zones : GoodCalendar(Calendars[z])
    /\ Crons \in [Schedules -> Cron]
    /\ {Wait, Year, MaxTime, MaxFaults, MaxOrders} \subseteq Nat
    /\ 0 < Wait /\ Wait <= Year
    /\ 0..(MaxTime + Wait + Year + 1) \subseteq Minutes
    /\ Faults \subseteq FaultKinds

Never == 0

VARIABLES
    zone,      \* that the machine is in
    now,       \* the clock on the wall
    schedules, \* st.Config.PowerSchedules
    fired,     \* st.Config.PowerFired, in memory and on disk
    pc,        \* where the loop is
    from,      \* waitOrFire's after
    cursor,    \* Next's n, for each schedule
    left,      \* of the sleep
    target,    \* the minute that will fire at its end
    faults, orders,   \* bounds
    rung,      \* history: the minutes acted on
    jumped     \* history: the clock was set during this sleep

loop == <<pc, from, cursor, left, target>>
vars == <<zone, now, schedules, fired, loop, faults, orders, rung, jumped>>

calendar == Calendars[zone]
Named == UNION {NamedBy[zone][s] : s \in schedules}
Promise == INSTANCE Alarm WITH named <- Named

TypeOK ==
    /\ zone \in Zones
    /\ now \in 0..MaxTime
    /\ schedules \subseteq Schedules
    /\ fired \in Minutes \cup {Never}
    /\ pc \in {"off", "poll", "search", "sleep"}
    /\ from \in Nat
    /\ cursor \in [schedules -> Minutes]
    /\ left \in Nat
    /\ target \in Minutes \cup {Never}
    /\ faults \in 0..MaxFaults /\ orders \in 0..MaxOrders
    /\ rung \subseteq Minutes
    /\ jumped \in BOOLEAN

Init ==
    /\ zone \in Zones
    /\ now = 0 /\ schedules = {} /\ fired = Never
    /\ pc = "poll" /\ from = 0 /\ cursor = [s \in {} |-> 0] /\ left = 0 /\ target = Never
    /\ faults = 0 /\ orders = 0
    /\ rung = {} /\ jumped = FALSE

Strike(kind) ==
    /\ kind \in Faults /\ faults < MaxFaults
    /\ faults' = faults + 1

(***************************************************************************)
(* The clocks.                                                             *)
(***************************************************************************)
\* A poll takes as long as it takes.
Tick ==
    /\ now < MaxTime
    /\ now' = now + 1
    /\ pc # "search"
    /\ pc = "sleep" => left > 0
    /\ left' = IF pc = "sleep" THEN left - 1 ELSE left
    /\ UNCHANGED <<zone, schedules, fired, pc, from, cursor, target, faults, orders, rung, jumped>>

ClockMoves(to) ==
    /\ \/ to > now /\ Strike("ahead")
       \/ to < now /\ Strike("back")
    /\ now' = to
    /\ pc # "search"
    /\ jumped' = TRUE
    /\ UNCHANGED <<zone, schedules, fired, loop, orders, rung>>

(***************************************************************************)
(* The loop.                                                               *)
(***************************************************************************)
Later(a, b) == IF a > b THEN a ELSE b

\* The poll, with a reconcile that may bring other schedules, and then the
\* look for the next firing.  (A mutation: the last one fired is not looked at.)
AfterNow == now
After == Later(now, fired)

Poll(brought) ==
    /\ pc = "poll"
    /\ \/ brought = schedules /\ UNCHANGED orders
       \/ brought # schedules /\ orders < MaxOrders /\ orders' = orders + 1
    /\ schedules' = brought
    /\ from' = After
    /\ cursor' = [s \in brought |-> After + 1]
    /\ pc' = "search"
    /\ UNCHANGED <<zone, now, fired, left, target, faults, rung, jumped>>

End == from + 1 + Year
Settled(s) == cursor[s] >= End \/ Matches(Crons[s], calendar, cursor[s])

\* One round of power.Next's search, for one schedule after the other (in which
\* order makes no difference).
Search ==
    /\ pc = "search" /\ \E s \in schedules : ~Settled(s)
    /\ LET one == CHOOSE s \in schedules : ~Settled(s) IN
       cursor' = [cursor EXCEPT ![one] = Advance(Crons[one], calendar, @)]
    /\ UNCHANGED <<zone, now, schedules, fired, pc, from, left, target, faults, orders, rung, jumped>>

Firings == {cursor[s] : s \in {r \in schedules : cursor[r] < End}}
\* The mutation: the last of them.
EarliestIsLast == {m \in Firings : \A other \in Firings : m >= other}
Earliest == {m \in Firings : \A other \in Firings : m <= other}

\* waitOrFire: the earliest one, if it comes before the next poll.
Rest ==
    /\ pc = "search" /\ \A s \in schedules : Settled(s)
    /\ \/ \E m \in Earliest : m - now < Wait /\ target' = m /\ left' = m - now
       \/ /\ \A m \in Firings : m - now >= Wait
          /\ target' = Never /\ left' = Wait
    /\ pc' = "sleep"
    /\ jumped' = FALSE
    /\ UNCHANGED <<zone, now, schedules, fired, from, cursor, faults, orders, rung>>

Wake ==
    /\ pc = "sleep" /\ left = 0 /\ target = Never
    /\ pc' = "poll"
    /\ UNCHANGED <<zone, now, schedules, fired, from, cursor, left, target, faults, orders, rung, jumped>>

\* The firing is saved with its reason before the coordinator runs.
Fire ==
    /\ pc = "sleep" /\ left = 0 /\ target # Never
    /\ fired' = target /\ rung' = rung \cup {target}
    /\ pc' = "poll" /\ target' = Never
    /\ UNCHANGED <<zone, now, schedules, from, cursor, left, faults, orders, jumped>>

\* It cannot be: the agent exits.
SaveFails ==
    /\ pc = "sleep" /\ left = 0 /\ target # Never /\ Strike("save")
    /\ pc' = "off" /\ target' = Never
    /\ UNCHANGED <<zone, now, schedules, fired, from, cursor, left, orders, rung, jumped>>

Crash ==
    /\ pc # "off" /\ Strike("crash")
    /\ pc' = "off" /\ target' = Never
    /\ UNCHANGED <<zone, now, schedules, fired, from, cursor, left, orders, rung, jumped>>

\* The agent, or the machine, comes back, within the minute or later.
Start ==
    /\ pc = "off"
    /\ pc' = "poll"
    /\ UNCHANGED <<zone, now, schedules, fired, from, cursor, left, target, faults, orders, rung, jumped>>

Loop ==
    \/ \E brought \in SUBSET Schedules : Poll(brought)
    \/ Search \/ Rest \/ Wake \/ Fire

Next ==
    \/ Loop
    \/ Tick
    \/ \E to \in 0..MaxTime : ClockMoves(to)
    \/ SaveFails \/ Crash \/ Start

Spec == Init /\ [][Next]_vars

\* The loop is scheduled.
LiveSpec == Spec /\ WF_vars(Loop)

-----------------------------------------------------------------------------
ShownAgain(m) == Repeated(calendar, m)

(* Next is the first matching minute after the time it is given            *)
(* (cron.go:132-133), whatever month, day, hour or minute it has to jump   *)
(* over; where the clock shows an hour twice it may be a later one.        *)
NextIsFirst ==
    pc = "search" =>
        \A s \in schedules : Settled(s) =>
            /\ from < cursor[s]
            /\ \A m \in NamedBy[zone][s] : from < m /\ m < cursor[s] => ShownAgain(m)

(* A minute is acted on only if named, in order, and once (0004-power.md:  *)
(* 38-39), through crashes, restarts and a clock set back.                 *)
OnceEach == Promise!Spec

(* A sleep passes over no minute a schedule names (0004-power.md:57),      *)
(* unless the clock was set meanwhile.  One that comes due while the loop  *)
(* polls is not slept over, and is not acted on.                           *)
NoneSleptOver ==
    pc = "sleep" /\ ~jumped =>
        \A m \in Named : from < m /\ m < now => ShownAgain(m)

(* Next says when, or that there is no such time (cron.go:132-133).        *)
SearchEnds == (pc = "search") ~> (pc # "search")
=============================================================================
