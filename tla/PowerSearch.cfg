SPECIFICATION LiveSpec
CONSTANTS
    LastMinute = 26
    Minutes <- AllMinutes
    DaysInWeek = 3
    Zones <- West
    CalendarOf <- ZoneCalendar
    Schedules <- Nightly
    CronOf <- Expression
    Wait = 3
    Year = 11
    MaxTime = 11
    Faults = {}
    MaxFaults = 0
    MaxOrders = 1
PROPERTY
    SearchEnds
CHECK_DEADLOCK FALSE
