SPECIFICATION Spec
CONSTANTS
    s1 = s1
    s2 = s2
    Stations = {s1, s2}
    Sources = {1}
    Subnets <- OneEach
    StartTime = 1
    LastTime = 2
    MaxObs = 3
    Files <- SomeFiles
    VexFile = FALSE
    Edits <- EarlyEdits
    Counts <- SomeCounts
    MaxPlace = 2
SYMMETRY StationsAlike
INVARIANT TypeOK
PROPERTIES DeleteRefreshesSubnets WalkKeepsSubnets AppendNeverOverlaps KeepsSchedule
CHECK_DEADLOCK FALSE
