SPECIFICATION Spec
CONSTANTS
    LastMinute = 26
    Minutes <- AllMinutes
    DaysInWeek = 3
    Zones <- AllZones
    CalendarOf <- ZoneCalendar
    Schedules <- Four
    CronOf <- Expression
    Wait = 3
    Year = 11
    MaxTime = 11
    Faults <- AllFaults
    MaxFaults = 1
    MaxOrders = 1
INVARIANTS
    NextIsFirst
    NoneSleptOver
PROPERTIES
    OnceEach
CHECK_DEADLOCK FALSE
