SPECIFICATION Spec
CONSTANTS
    s1 = s1
    Stations = {s1}
    Sources = {1}
    Subnets <- OneEach
    StartTime = 1
    LastTime = 2
    MaxObs = 3
    Files <- SomeFiles
    VexFile = FALSE
    Edits <- EarlyEdits
    Counts <- AheadCounts
    MaxPlace = 2
INVARIANTS RecordsDistinct CursorValid
PROPERTIES MoveBringsCurrent RewoundInFront WalkKeepsSubnets KeepsSchedule
CHECK_DEADLOCK FALSE
