-------------------------- MODULE MCPowerSchedules --------------------------
(* PowerSchedules on small calendars: an hour has two minutes, a day three *)
(* hours, a week three days and a month two days, and Next looks less than a month ahead. *)
EXTENDS PowerSchedules, TLC

CONSTANT LastMinute
AllMinutes == 0..LastMinute

\* From minute at on, the clock shows an hour more, less, or the same.  West of
\* Greenwich time.Date reads a time that is skipped, or shown twice, by the
\* clock of before; east of it, by the clock of after.
Zone(shift, at, side) == [shift |-> shift, at |-> at, side |-> side]

Shown(z, n) ==
    CASE n < z.at -> n
      [] n >= z.at /\ z.shift = "ahead" -> n + 2
      [] n >= z.at /\ z.shift = "back" -> n - 2

\* time.Date: the minute that shows time t.
Date(z, t) ==
    LET to == CASE z.shift = "ahead" -> IF t < z.at \/ (t < z.at + 2 /\ z.side = "east") THEN t ELSE t - 2
                [] z.shift = "back" -> IF t < z.at - 2 \/ (t < z.at /\ z.side = "west") THEN t ELSE t + 2
    IN IF to > LastMinute THEN LastMinute ELSE to

\* A function as a table, which TLC computes once.
Table(f) == f @@ <<>>

ZoneCalendar(z) ==
    LET shown == Table([n \in AllMinutes |-> Shown(z, n)])
    IN [min |-> Table([n \in AllMinutes |-> shown[n] % 2]),
        hour |-> Table([n \in AllMinutes |-> (shown[n] \div 2) % 3]),
        dow |-> Table([n \in AllMinutes |-> (shown[n] \div 6) % 3]),
        dom |-> Table([n \in AllMinutes |-> (shown[n] \div 6) % 2]),
        month |-> Table([n \in AllMinutes |-> shown[n] \div 12]),
        nextHour |-> Table([n \in AllMinutes |-> Date(z, 2 * (shown[n] \div 2) + 2)]),
        nextDay |-> Table([n \in AllMinutes |-> Date(z, 6 * (shown[n] \div 6) + 6)]),
        nextMonth |-> Table([n \in AllMinutes |-> Date(z, 12 * (shown[n] \div 12) + 12)])]

AllZones == {
    Zone("ahead", 4, "east"), Zone("ahead", 4, "west"), Zone("ahead", 6, "west"),
    Zone("back", 8, "east"), Zone("back", 8, "west")}
West == {Zone("ahead", 4, "west")}

Every(lo, hi) == {Star(lo, hi, 1)}
One(v) == {Item(v, v, 1)}
\* 1 2 * * *, */2 * 0 * 1, * 0 * 1 *, 0 1-2 1 * 3 (that is, 0).
Four == {"nightly", "either day", "a month", "a range"}
Nightly == {"nightly"}
Expression(s) ==
    CASE s = "nightly"    -> Parse(One(1), One(2), Every(0, 1), Every(0, 9), Every(0, 3))
      [] s = "either day" -> Parse({Star(0, 1, 2)}, Every(0, 2), One(0), Every(0, 9), One(1))
      [] s = "a month"    -> Parse(Every(0, 1), One(0), Every(0, 1), One(1), Every(0, 3))
      [] s = "a range"    -> Parse(One(0), {Item(1, 2, 1)}, One(1), Every(0, 9), One(3))
AllFaults == FaultKinds
=============================================================================
