-------------------------------- MODULE Cron --------------------------------
(***************************************************************************)
(* Cron expressions over a calendar, from internal/provider/power/cron.go: *)
(* what an expression matches, and the steps in which Next looks for the   *)
(* first match after a time.                                               *)
(*                                                                         *)
(* Time is counted in minutes.  A calendar says what a clock on the wall   *)
(* shows at each, and which minute time.Date answers for the first one of  *)
(* the month, day or hour that follows on that clock.  Where the clock     *)
(* skips an hour or shows one twice, that answer may be an earlier minute, *)
(* or not the first.                                                       *)
(***************************************************************************)
EXTENDS Naturals

CONSTANTS
    Minutes,     \* the minutes a calendar knows
    DaysInWeek   \* a day of week by this number is day 0

ASSUME CronAssumption == Minutes \subseteq Nat /\ DaysInWeek \in Nat \ {0}

Clock == [Minutes -> Nat]
Calendar == [month : Clock, dom : Clock, dow : Clock, hour : Clock, min : Clock,
             nextMonth : [Minutes -> Minutes], nextDay : [Minutes -> Minutes],
             nextHour : [Minutes -> Minutes]]

Cron == [month : SUBSET Nat, dom : SUBSET Nat, dow : SUBSET Nat, hour : SUBSET Nat,
         min : SUBSET Nat, anyDom : BOOLEAN, anyDow : BOOLEAN]

\* A field is a list of ranges with a step.  `*` is the whole range of the
\* field, and any when its step is 1.
Item(lo, hi, step) == [lo |-> lo, hi |-> hi, step |-> step, star |-> FALSE]
Star(lo, hi, step) == [lo |-> lo, hi |-> hi, step |-> step, star |-> TRUE]

parseField(items) ==
    [bits |-> UNION {{v \in i.lo..i.hi : (v - i.lo) % i.step = 0} : i \in items},
     any  |-> \E i \in items : i.star /\ i.step = 1]

Parse(min, hour, dom, month, dow) ==
    [min |-> parseField(min).bits, hour |-> parseField(hour).bits,
     month |-> parseField(month).bits,
     dom |-> parseField(dom).bits, anyDom |-> parseField(dom).any,
     dow |-> parseField(dow).bits \cup (IF DaysInWeek \in parseField(dow).bits THEN {0} ELSE {}),
     anyDow |-> parseField(dow).any]

\* Both day fields restricted: either may match.
dayMatches(c, cal, t) ==
    LET domHit == cal.dom[t] \in c.dom
        dowHit == cal.dow[t] \in c.dow
    IN IF c.anyDom \/ c.anyDow
       THEN (c.anyDom \/ domHit) /\ (c.anyDow \/ dowHit)
       ELSE domHit \/ dowHit

Matches(c, cal, t) ==
    /\ cal.min[t] \in c.min
    /\ cal.hour[t] \in c.hour
    /\ cal.month[t] \in c.month
    /\ dayMatches(c, cal, t)

\* One round of Next, at a time that does not match.  (Before it, a mutation: a
\* day has to be named by both day fields.)
AdvancePastDays(c, cal, n) ==
    CASE cal.month[n] \notin c.month -> cal.nextMonth[n]
      [] cal.month[n] \in c.month /\ (cal.dow[n] \notin c.dow \/ cal.dom[n] \notin c.dom) -> cal.nextDay[n]
      [] cal.month[n] \in c.month /\ cal.dow[n] \in c.dow /\ cal.dom[n] \in c.dom
            /\ cal.hour[n] \notin c.hour -> cal.nextHour[n]
      [] OTHER -> n + 1
Advance(c, cal, n) ==
    CASE cal.month[n] \notin c.month -> cal.nextMonth[n]
      [] cal.month[n] \in c.month /\ ~dayMatches(c, cal, n) -> cal.nextDay[n]
      [] cal.month[n] \in c.month /\ dayMatches(c, cal, n)
            /\ cal.hour[n] \notin c.hour -> cal.nextHour[n]
      [] OTHER -> n + 1
=============================================================================
