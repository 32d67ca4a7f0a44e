SPECIFICATION Spec
CONSTANTS
    s1 = s1
    s2 = s2
    Stations = {s1, s2}
    Sources = {1}
    Subnets <- OneEach
    StartTime = 1
    LastTime = 2
    MaxObs = 3
    Files <- SomeFiles
    VexFile = TRUE
    Edits <- EarlyEdits
    Counts <- SomeCounts
    MaxPlace = 2
PROPERTY InsertKeepsScans
CHECK_DEADLOCK FALSE
