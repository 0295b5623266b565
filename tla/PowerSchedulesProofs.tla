------------------------ MODULE PowerSchedulesProofs ------------------------
(***************************************************************************)
(* Power schedules, for every calendar, schedule and bound: the search     *)
(* finds the first minute named, no minute named is slept over, and the    *)
(* loop implements Alarm.                                                  *)
(***************************************************************************)
EXTENDS PowerSchedules, TLAPS

Onward(c, cal, n, to) ==
    /\ to \in Minutes
    /\ to > n \/ (~Matches(c, cal, to) /\ Advance(c, cal, to) = to)
    /\ \A m \in Minutes : n < m /\ m < to => ~Matches(c, cal, m) \/ Repeated(cal, m)

\* A round of Next goes on to a later time, passing over none that matches and is
\* shown once, or comes back to where it will stay.
LEMMA AdvanceGoesOn ==
    ASSUME NEW c \in Cron, NEW cal \in Calendar, GoodCalendar(cal),
           NEW n \in Minutes, n + 1 \in Minutes, ~Matches(c, cal, n)
    PROVE  Onward(c, cal, n, Advance(c, cal, n))
<1> DEFINE to == Advance(c, cal, n)
<1>0. /\ Minutes \subseteq Nat
      /\ cal.nextMonth[n] \in Minutes /\ cal.nextDay[n] \in Minutes /\ cal.nextHour[n] \in Minutes
  BY CronAssumption DEF Calendar
<1>1. CASE cal.month[n] \notin c.month
  <2>1. to = cal.nextMonth[n]
    BY <1>1 DEF Advance
  <2>2. /\ to > n \/ (cal.month[to] = cal.month[n] /\ cal.nextMonth[to] = to)
        /\ \A m \in Minutes : n < m /\ m < to => cal.month[m] = cal.month[n] \/ Repeated(cal, m)
    BY <2>1 DEF GoodCalendar, Steps
  <2>3. \A m : cal.month[m] = cal.month[n] => ~Matches(c, cal, m) /\ Advance(c, cal, m) = cal.nextMonth[m]
    BY <1>1 DEF Matches, Advance
  <2> QED
    BY <1>0, <2>1, <2>2, <2>3 DEF Onward
<1>2. CASE cal.month[n] \in c.month /\ ~dayMatches(c, cal, n)
  <2> DEFINE SameDay(m) == cal.month[m] = cal.month[n] /\ cal.dom[m] = cal.dom[n] /\ cal.dow[m] = cal.dow[n]
  <2>1. to = cal.nextDay[n]
    BY <1>2 DEF Advance
  <2>2. /\ to > n \/ (SameDay(to) /\ cal.nextDay[to] = to)
        /\ \A m \in Minutes : n < m /\ m < to => SameDay(m) \/ Repeated(cal, m)
    BY <2>1 DEF GoodCalendar, Steps
  <2>3. \A m : SameDay(m) => ~Matches(c, cal, m) /\ Advance(c, cal, m) = cal.nextDay[m]
    BY <1>2 DEF Matches, Advance, dayMatches
  <2> QED
    BY <1>0, <2>1, <2>2, <2>3 DEF Onward
<1>3. CASE cal.month[n] \in c.month /\ dayMatches(c, cal, n) /\ cal.hour[n] \notin c.hour
  <2> DEFINE SameHour(m) == /\ cal.month[m] = cal.month[n] /\ cal.dom[m] = cal.dom[n]
                            /\ cal.dow[m] = cal.dow[n] /\ cal.hour[m] = cal.hour[n]
  <2>1. to = cal.nextHour[n]
    BY <1>3 DEF Advance
  <2>2. /\ to > n \/ (SameHour(to) /\ cal.nextHour[to] = to)
        /\ \A m \in Minutes : n < m /\ m < to => SameHour(m) \/ Repeated(cal, m)
    BY <2>1 DEF GoodCalendar, Steps
  <2>3. \A m : SameHour(m) => ~Matches(c, cal, m) /\ Advance(c, cal, m) = cal.nextHour[m]
    BY <1>3 DEF Matches, Advance, dayMatches
  <2> QED
    BY <1>0, <2>1, <2>2, <2>3 DEF Onward
<1>4. CASE cal.month[n] \in c.month /\ dayMatches(c, cal, n) /\ cal.hour[n] \in c.hour
  <2>1. to = n + 1
    BY <1>4 DEF Advance
  <2> QED
    BY <1>0, <2>1 DEF Onward
<1> QED
  BY <1>1, <1>2, <1>3, <1>4

-----------------------------------------------------------------------------
Horizon == MaxTime + Wait

Typed ==
    /\ zone \in Zones
    /\ now \in 0..MaxTime
    /\ schedules \subseteq Schedules
    /\ fired \in 0..Horizon /\ from \in 0..Horizon /\ target \in 0..Horizon
    /\ left \in Nat
    /\ cursor \in [DOMAIN cursor -> Minutes]
    /\ rung \subseteq Minutes

Passed(s, n) == \A m \in NamedBy[zone][s] : from < m /\ m < n => ShownAgain(m)

\* Next will not come back from here.
Stuck(s) ==
    /\ cursor[s] < End /\ ~Matches(Crons[s], calendar, cursor[s])
    /\ Advance(Crons[s], calendar, cursor[s]) = cursor[s]

RungBefore == \A m \in rung : m <= fired

Searching ==
    pc = "search" =>
        /\ fired <= from /\ now <= from
        /\ DOMAIN cursor = schedules
        /\ \A s \in schedules : Passed(s, cursor[s]) /\ (cursor[s] > from \/ Stuck(s))

Sleeping ==
    pc = "sleep" =>
        /\ target # Never => target \in Named /\ fired < target
        /\ ~jumped => \A m \in Named : from < m /\ m < now + left => ShownAgain(m)

IInv == Typed /\ RungBefore /\ Searching /\ Sleeping

LEMMA Constants ==
    /\ Minutes \subseteq Nat
    /\ MaxTime \in Nat /\ Wait \in Nat /\ Year \in Nat /\ Wait <= Year
    /\ 0..(MaxTime + Wait + Year + 1) \subseteq Minutes
    /\ \A z \in Zones : Calendars[z] \in Calendar /\ GoodCalendar(Calendars[z])
    /\ \A s \in Schedules : Crons[s] \in Cron
    /\ \A z \in Zones, s \in Schedules :
          NamedBy[z][s] = {m \in Minutes : Matches(Crons[s], Calendars[z], m)}
<1>1. /\ Minutes \subseteq Nat
      /\ MaxTime \in Nat /\ Wait \in Nat /\ Year \in Nat /\ Wait <= Year
      /\ 0..(MaxTime + Wait + Year + 1) \subseteq Minutes
  BY CronAssumption, PowerSchedulesAssumption
<1>2. \A z \in Zones : Calendars[z] \in Calendar /\ GoodCalendar(Calendars[z])
  BY PowerSchedulesAssumption
<1>3. \A s \in Schedules : Crons[s] \in Cron
  BY PowerSchedulesAssumption
<1>4. \A z \in Zones, s \in Schedules :
          NamedBy[z][s] = {m \in Minutes : Matches(Crons[s], Calendars[z], m)}
  BY DEF NamedBy
<1> QED
  BY <1>1, <1>2, <1>3, <1>4

LEMMA InitIInv == Init => IInv
  BY Constants DEF Init, IInv, Typed, Horizon, RungBefore, Searching, Sleeping, Never

\* The state predicates that read the calendar, the schedules or the search are
\* untouched by a step that leaves these alone.
LEMMA StillNamed ==
    ASSUME UNCHANGED <<zone, schedules, from, cursor>>
    PROVE  /\ Named' = Named
           /\ \A m : ShownAgain(m)' = ShownAgain(m)
           /\ \A s, n : Passed(s, n)' = Passed(s, n)
           /\ \A s : Stuck(s)' = Stuck(s)
  BY DEF Named, calendar, ShownAgain, Passed, Stuck, End

LEMMA TickStep == IInv /\ Tick => IInv'
<1> SUFFICES ASSUME IInv, Tick PROVE IInv'
  OBVIOUS
<1>1. UNCHANGED <<zone, schedules, fired, pc, from, cursor, target, rung, jumped>>
  BY DEF Tick
<1>2. Typed'
  BY <1>1, Constants DEF IInv, Typed, Tick, Horizon
<1>3. RungBefore'
  BY <1>1 DEF IInv, RungBefore
<1>4. Searching'
  BY <1>1 DEF Searching, Tick
<1>5. Sleeping'
  <2> SUFFICES ASSUME pc = "sleep" PROVE Sleeping'
    BY <1>1 DEF Sleeping
  <2>1. now' + left' = now + left
    BY Constants DEF Tick, IInv, Typed
  <2> QED
    BY <1>1, <2>1, StillNamed DEF IInv, Sleeping
<1> QED
  BY <1>2, <1>3, <1>4, <1>5 DEF IInv

LEMMA ClockMovesStep == IInv /\ (\E to \in 0..MaxTime : ClockMoves(to)) => IInv'
<1> SUFFICES ASSUME IInv, NEW to \in 0..MaxTime, ClockMoves(to) PROVE IInv'
  OBVIOUS
<1>1. UNCHANGED <<zone, schedules, fired, pc, from, cursor, left, target, rung>>
  BY DEF ClockMoves, loop
<1>2. Typed'
  BY <1>1 DEF IInv, Typed, ClockMoves
<1>3. RungBefore'
  BY <1>1 DEF IInv, RungBefore
<1>4. Searching'
  BY <1>1 DEF Searching, ClockMoves
<1>5. Sleeping'
  BY <1>1, StillNamed DEF IInv, Sleeping, ClockMoves
<1> QED
  BY <1>2, <1>3, <1>4, <1>5 DEF IInv

LEMMA PollStep == IInv /\ (\E brought \in SUBSET Schedules : Poll(brought)) => IInv'
<1> SUFFICES ASSUME IInv, NEW brought \in SUBSET Schedules, Poll(brought) PROVE IInv'
  OBVIOUS
<1>1. /\ UNCHANGED <<zone, now, fired, left, target, rung, jumped>>
      /\ schedules' = brought /\ pc' = "search" /\ from' = After
      /\ cursor' = [s \in brought |-> After + 1]
  BY DEF Poll
<1>2. After \in 0..Horizon /\ now <= After /\ fired <= After /\ After + 1 \in Minutes
  BY Constants DEF IInv, Typed, After, Later, Horizon
<1>3. Typed'
  BY <1>1, <1>2 DEF IInv, Typed
<1>4. RungBefore'
  BY <1>1 DEF IInv, RungBefore
<1>5. Searching'
  <2> SUFFICES ASSUME NEW s \in brought
               PROVE  Passed(s, cursor[s])' /\ cursor'[s] > from'
    BY <1>1, <1>2 DEF Searching
  <2>1. cursor'[s] = from' + 1 /\ from' \in Nat
    BY <1>1, <1>2, Constants DEF Horizon
  <2>2. NamedBy[zone][s] \subseteq Nat
    BY Constants DEF IInv, Typed
  <2> QED
    BY <1>1, <2>1, <2>2 DEF Passed
<1>6. Sleeping'
  BY <1>1 DEF Sleeping
<1> QED
  BY <1>3, <1>4, <1>5, <1>6 DEF IInv

LEMMA SearchStep == IInv /\ Search => IInv'
<1> SUFFICES ASSUME IInv, Search PROVE IInv'
  OBVIOUS
<1>1. PICK one \in schedules :
        /\ ~Settled(one)
        /\ cursor' = [cursor EXCEPT ![one] = Advance(Crons[one], calendar, cursor[one])]
  BY DEF Search
<1>2. /\ pc = "search"
      /\ UNCHANGED <<zone, now, schedules, fired, pc, from, left, target, rung, jumped>>
  BY DEF Search
<1> DEFINE n == cursor[one]
           to == Advance(Crons[one], calendar, n)
<1>3. /\ Crons[one] \in Cron /\ calendar \in Calendar /\ GoodCalendar(calendar)
      /\ n \in Minutes /\ n < End /\ ~Matches(Crons[one], calendar, n)
      /\ DOMAIN cursor = schedules
  <2>1. n \in Minutes /\ DOMAIN cursor = schedules
    BY <1>2 DEF IInv, Typed, Searching
  <2> QED
    BY <1>1, <2>1, Constants DEF IInv, Typed, Settled, calendar, End, Horizon
<1>4. n + 1 \in Minutes
  BY <1>3, Constants DEF IInv, Typed, End, Horizon
<1>5. Onward(Crons[one], calendar, n, to)
  BY <1>3, <1>4, AdvanceGoesOn
<1>6. Typed'
  BY <1>2, <1>1, <1>3, <1>5 DEF IInv, Typed, Onward
<1>7. RungBefore'
  BY <1>2 DEF IInv, RungBefore
<1>8. Searching'
  <2>1. fired <= from /\ now <= from /\ DOMAIN cursor' = schedules
    BY <1>1, <1>2, <1>3 DEF IInv, Searching
  <2>2. ASSUME NEW s \in schedules
        PROVE  Passed(s, cursor[s])' /\ (cursor'[s] > from \/ Stuck(s)')
    <3>1. /\ \A m : ShownAgain(m)' = ShownAgain(m)
          /\ \A k : Passed(s, k)' = Passed(s, k)
      BY <1>2 DEF ShownAgain, calendar, Passed
    <3>2. Passed(s, cursor[s]) /\ (cursor[s] > from \/ Stuck(s))
      BY <1>2 DEF IInv, Searching
    <3>3. CASE s # one
      <4>1. cursor'[s] = cursor[s]
        BY <1>1, <1>3, <3>3
      <4>2. Stuck(s)' = Stuck(s)
        BY <1>2, <4>1 DEF Stuck, End, calendar
      <4> QED
        BY <1>2, <3>1, <3>2, <4>1, <4>2 DEF Passed
    <3>4. CASE s = one
      <4>1. cursor'[s] = to
        BY <1>1, <1>3, <3>4
      <4>2. Passed(s, to)
        <5> SUFFICES ASSUME NEW m \in NamedBy[zone][s], from < m, m < to PROVE ShownAgain(m)
          BY DEF Passed
        <5>1. m \in Minutes /\ Matches(Crons[one], calendar, m)
          BY <3>4, Constants DEF IInv, Typed, calendar
        <5>. m \in Nat /\ n \in Nat
          BY <5>1, <1>3, CronAssumption
        <5>2. CASE m < n
          BY <3>2, <3>4, <5>2 DEF Passed
        <5>3. CASE m = n
          BY <1>3, <5>1, <5>3
        <5>4. CASE n < m
          BY <1>5, <5>1, <5>4 DEF Onward, ShownAgain
        <5> QED
          BY <5>2, <5>3, <5>4
      <4>3. to > from \/ Stuck(s)'
        <5>1. CASE n > from /\ to > n
          BY <5>1, <1>3, <1>5, Constants DEF Onward, IInv, Typed, Horizon
        <5>2. CASE ~(to > n)
          <6>1. ~Matches(Crons[one], calendar, to) /\ Advance(Crons[one], calendar, to) = to
            BY <1>5, <5>2 DEF Onward
          <6>2. to < End
            BY <1>3, <1>5, <5>2, Constants DEF Onward, IInv, Typed, End, Horizon
          <6> QED
            BY <1>2, <3>4, <4>1, <6>1, <6>2 DEF Stuck, End, calendar
        <5>3. CASE Stuck(s)
          <6>1. to = n
            BY <3>4, <5>3 DEF Stuck
          <6> QED
            BY <1>2, <3>4, <4>1, <5>3, <6>1 DEF Stuck, End, calendar
        <5> QED
          BY <3>2, <3>4, <5>1, <5>2, <5>3
      <4> QED
        BY <1>2, <3>1, <4>1, <4>2, <4>3 DEF Passed
    <3> QED
      BY <3>3, <3>4
  <2> QED
    BY <1>2, <2>1, <2>2 DEF Searching
<1>9. Sleeping'
  BY <1>2 DEF Sleeping
<1> QED
  BY <1>6, <1>7, <1>8, <1>9 DEF IInv

LEMMA RestStep == IInv /\ Rest => IInv'
<1> SUFFICES ASSUME IInv, Rest PROVE IInv'
  OBVIOUS
<1>1. /\ pc = "search" /\ pc' = "sleep"
      /\ UNCHANGED <<zone, now, schedules, fired, from, cursor, rung>>
      /\ \A s \in schedules : Settled(s)
  BY DEF Rest
<1>2. /\ now \in Nat /\ from \in Nat /\ fired \in Nat /\ now <= from /\ fired <= from
      /\ now <= MaxTime
  BY <1>1, Constants DEF IInv, Typed, Searching, Horizon
<1>3. ASSUME NEW s \in schedules
      PROVE  /\ cursor[s] \in Nat /\ cursor[s] > from /\ Passed(s, cursor[s])
             /\ cursor[s] < End => cursor[s] \in NamedBy[zone][s]
  <2>1. cursor[s] \in Minutes /\ Passed(s, cursor[s]) /\ (cursor[s] > from \/ Stuck(s))
    BY <1>1 DEF IInv, Typed, Searching
  <2>2. cursor[s] \in Nat
    BY <2>1, CronAssumption
  <2>. End \in Nat
    BY <1>2, Constants DEF End
  <2>3. ~Stuck(s)
    BY <1>1, <2>2 DEF Settled, Stuck
  <2>4. cursor[s] < End => Matches(Crons[s], calendar, cursor[s])
    BY <1>1, <2>2 DEF Settled
  <2> QED
    BY <2>1, <2>2, <2>3, <2>4, Constants DEF IInv, Typed, calendar
<1>4. CASE \E m \in Earliest : m - now < Wait /\ target' = m /\ left' = m - now
  <2>1. PICK m \in Earliest : m - now < Wait /\ target' = m /\ left' = m - now
    BY <1>4
  <2>2. PICK s \in schedules : cursor[s] = m /\ m < End
    BY DEF Earliest, Firings
  <2>3. m \in Nat /\ from < m /\ m \in Named /\ now < m
    BY <1>2, <1>3, <2>2 DEF Named
  <2>4. m <= Horizon /\ now + left' = m /\ left' \in Nat
    BY <1>2, <2>1, <2>3, Constants DEF Horizon
  <2>5. \A r \in schedules : m <= cursor[r]
    <3> SUFFICES ASSUME NEW r \in schedules PROVE m <= cursor[r]
      OBVIOUS
    <3>1. CASE cursor[r] < End
      BY <3>1 DEF Earliest, Firings
    <3>2. CASE ~(cursor[r] < End)
      BY <3>2, <1>2, <1>3, <2>2, <2>3, Constants DEF End
    <3> QED
      BY <3>1, <3>2
  <2>6. \A k \in Named : from < k /\ k < now + left' => ShownAgain(k)
    <3> SUFFICES ASSUME NEW r \in schedules, NEW k \in NamedBy[zone][r], from < k, k < m
                 PROVE  ShownAgain(k)
      BY <2>4 DEF Named
    <3>1. k \in Nat
      BY Constants DEF IInv, Typed
    <3> QED
      BY <3>1, <1>3, <2>3, <2>5 DEF Passed
  <2>7. Typed'
    BY <1>1, <2>1, <2>3, <2>4 DEF IInv, Typed, Horizon
  <2>8. Sleeping'
    <3>1. Named' = Named /\ \A k : ShownAgain(k)' = ShownAgain(k)
      BY <1>1, StillNamed
    <3>2. fired < m
      BY <1>2, <2>3
    <3> QED
      BY <1>1, <2>1, <2>3, <2>6, <3>1, <3>2 DEF Sleeping
  <2> QED
    BY <1>1, <2>7, <2>8 DEF IInv, RungBefore, Searching
<1>5. CASE (\A m \in Firings : m - now >= Wait) /\ target' = Never /\ left' = Wait
  <2>1. \A r \in schedules : now + Wait <= cursor[r]
    <3> SUFFICES ASSUME NEW r \in schedules PROVE now + Wait <= cursor[r]
      OBVIOUS
    <3>1. CASE cursor[r] < End
      <4>1. cursor[r] - now >= Wait
        BY <1>5, <3>1 DEF Firings
      <4> QED
        BY <4>1, <1>2, <1>3, Constants
    <3>2. CASE ~(cursor[r] < End)
      BY <3>2, <1>2, <1>3, Constants DEF End
    <3> QED
      BY <3>1, <3>2
  <2>2. \A k \in Named : from < k /\ k < now + left' => ShownAgain(k)
    <3> SUFFICES ASSUME NEW r \in schedules, NEW k \in NamedBy[zone][r], from < k, k < now + Wait
                 PROVE  ShownAgain(k)
      BY <1>5 DEF Named
    <3>1. k \in Nat
      BY Constants DEF IInv, Typed
    <3>2. k < cursor[r]
      BY <3>1, <1>2, <1>3, <2>1, Constants
    <3> QED
      BY <3>2, <1>3 DEF Passed
  <2>3. Typed'
    BY <1>1, <1>5, Constants DEF IInv, Typed, Never, Horizon
  <2>4. Sleeping'
    BY <1>1, <1>5, <2>2, StillNamed DEF Sleeping
  <2> QED
    BY <1>1, <2>3, <2>4 DEF IInv, RungBefore, Searching
<1> QED
  BY <1>4, <1>5 DEF Rest

LEMMA FireStep == IInv /\ Fire => IInv'
<1> SUFFICES ASSUME IInv, Fire PROVE IInv'
  OBVIOUS
<1>1. /\ pc = "sleep" /\ target # Never
      /\ fired' = target /\ rung' = rung \cup {target} /\ pc' = "poll" /\ target' = Never
      /\ UNCHANGED <<zone, now, schedules, from, cursor, left>>
  BY DEF Fire
<1>2. fired < target /\ target \in Named /\ fired \in Nat /\ target \in Nat
  BY <1>1, Constants DEF IInv, Sleeping, Typed, Horizon
<1>3. target \in Minutes
  BY <1>2, Constants DEF Named, IInv, Typed
<1>4. Typed'
  BY <1>1, <1>3, Constants DEF IInv, Typed, Never, Horizon
<1>5. RungBefore'
  <2> SUFFICES ASSUME NEW m \in rung PROVE m <= target
    BY <1>1, <1>2 DEF RungBefore
  <2>1. m \in Nat /\ m <= fired
    BY Constants DEF IInv, Typed, RungBefore
  <2> QED
    BY <1>2, <2>1
<1> QED
  BY <1>1, <1>4, <1>5 DEF IInv, Searching, Sleeping

LEMMA StopStep == IInv /\ (Wake \/ SaveFails \/ Crash \/ Start) => IInv'
<1> SUFFICES ASSUME IInv, Wake \/ SaveFails \/ Crash \/ Start PROVE IInv'
  OBVIOUS
<1>1. /\ pc' \in {"poll", "off"} /\ target' \in {target, Never}
      /\ UNCHANGED <<zone, now, schedules, fired, from, cursor, left, rung>>
  BY DEF Wake, SaveFails, Crash, Start
<1>2. Typed'
  BY <1>1, Constants DEF IInv, Typed, Never, Horizon
<1> QED
  BY <1>1, <1>2 DEF IInv, RungBefore, Searching, Sleeping

LEMMA StutterStep == IInv /\ UNCHANGED vars => IInv'
<1> SUFFICES ASSUME IInv, UNCHANGED vars PROVE IInv'
  OBVIOUS
<1>1. UNCHANGED <<zone, now, schedules, fired, pc, from, cursor, left, target, rung, jumped>>
  BY DEF vars, loop
<1>2. Typed' /\ RungBefore'
  BY <1>1 DEF IInv, Typed, RungBefore
<1>3. Searching' /\ Sleeping'
  BY <1>1, StillNamed DEF IInv, Searching, Sleeping, Passed
<1> QED
  BY <1>2, <1>3 DEF IInv

THEOREM Invariance == Spec => []IInv
<1>1. IInv /\ [Next]_vars => IInv'
  BY TickStep, ClockMovesStep, PollStep, SearchStep, RestStep, FireStep, StopStep, StutterStep
  DEF Next, Loop
<1> QED
  BY InitIInv, <1>1, PTL DEF Spec

-----------------------------------------------------------------------------
(* The search of cron.go answers with no minute but the first a schedule   *)
(* names, whatever the calendar, unless its time is shown twice.           *)
THEOREM FindsFirst == Spec => []NextIsFirst
<1>1. IInv => NextIsFirst
  <2> SUFFICES ASSUME IInv, pc = "search", NEW s \in schedules, Settled(s)
               PROVE  from < cursor[s] /\ Passed(s, cursor[s])
    BY DEF NextIsFirst, Passed
  <2>1. Passed(s, cursor[s]) /\ (cursor[s] > from \/ Stuck(s))
    BY DEF IInv, Searching
  <2>2. cursor[s] \in Nat /\ from \in Nat /\ End \in Nat
    BY Constants DEF IInv, Typed, Searching, End, Horizon
  <2>3. ~Stuck(s)
    BY <2>2 DEF Settled, Stuck
  <2> QED
    BY <2>1, <2>2, <2>3
<1> QED
  BY <1>1, Invariance, PTL

(* waitOrFire sleeps over no minute a schedule names, unless the clock was *)
(* set meanwhile.                                                          *)
THEOREM SleepsOverNone == Spec => []NoneSleptOver
<1>1. IInv => NoneSleptOver
  <2> SUFFICES ASSUME IInv, pc = "sleep", ~jumped, NEW m \in Named, from < m, m < now
               PROVE  ShownAgain(m)
    BY DEF NoneSleptOver
  <2>1. m \in Nat /\ now \in Nat /\ left \in Nat
    BY Constants DEF IInv, Typed, Named
  <2>2. m < now + left
    BY <2>1
  <2> QED
    BY <2>2 DEF IInv, Sleeping
<1> QED
  BY <1>1, Invariance, PTL

(* The loop, with its restarts, failed saves and set clocks, implements    *)
(* Alarm: a minute is acted on if named, in order, and once.               *)
THEOREM KeepsItsPromise == Spec => OnceEach
<1>1. Init => Promise!Init
  BY Constants DEF Init, Promise!Init, Named
<1>2. IInv /\ [Next]_vars => [Promise!Next]_<<Named, rung>>
  <2> SUFFICES ASSUME IInv, [Next]_vars PROVE [Promise!Next]_<<Named, rung>>
    OBVIOUS
  <2>1. CASE Fire
    <3>1. /\ target \in Named /\ rung' = rung \cup {target} /\ fired < target
          /\ UNCHANGED <<zone, schedules>>
      BY <2>1 DEF Fire, IInv, Sleeping
    <3>2. \A earlier \in rung : earlier < target
      <4> SUFFICES ASSUME NEW earlier \in rung PROVE earlier < target
        OBVIOUS
      <4>1. /\ earlier \in Nat /\ earlier <= fired
            /\ fired \in Nat /\ target \in Nat
        BY Constants DEF IInv, Typed, RungBefore, Horizon
      <4> QED
        BY <3>1, <4>1
    <3>3. Named' = Named
      BY <3>1 DEF Named
    <3> QED
      BY <3>1, <3>2, <3>3 DEF Promise!Next, Promise!Ring
  <2>2. CASE \E brought \in SUBSET Schedules : Poll(brought)
    <3>1. Named' \subseteq Minutes /\ rung' = rung
      BY <2>2, Constants DEF Poll, Named, IInv, Typed
    <3> QED
      BY <3>1 DEF Promise!Next, Promise!Reschedule
  <2>3. CASE UNCHANGED <<zone, schedules, rung>>
    BY <2>3 DEF Named
  <2>4. \/ Fire \/ \E brought \in SUBSET Schedules : Poll(brought)
        \/ UNCHANGED <<zone, schedules, rung>>
    BY DEF Next, Loop, Tick, ClockMoves, Search, Rest, Wake, SaveFails, Crash, Start, vars
  <2> QED
    BY <2>1, <2>2, <2>3, <2>4
<1> QED
  BY <1>1, <1>2, Invariance, PTL DEF Spec, OnceEach, Promise!Spec
=============================================================================
