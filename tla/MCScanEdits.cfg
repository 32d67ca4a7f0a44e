\* Every command once, on every schedule, from every cursor.
CONSTANTS
    NStatn    = 3
    Sources   = {1, 2}
    StartTime = 1
    Slew      = 1
    Schedules <- MCSchedules
    Windows   <- MCWindows
    Day       = 4
    MaxObs    = 4
    Forget    = 4
    Numbers   = {1, 2}
    SourceLists = {{1}, {1, 2}}
    Subnets   = {{1}, {1, 2, 3}}

SPECIFICATION Spec

\* The command given ends the behaviour.
CHECK_DEADLOCK FALSE

INVARIANTS
    FillOnTime
    FillLeavesNoneAlone
    DoesAsAsked
    WalkLeavesInTime
    StaysInside

PROPERTIES
    CommandsEnd
