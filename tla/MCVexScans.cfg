CONSTANTS
    Files <- MCFiles
    Known = {"A", "B"}
    Modes <- MCModes
    Sources = {"S"}
    Recorded <- MCRecorded
    MaxObs = 3
    MaxStn = 3
    MaxXfer = 6
SPECIFICATION Spec
INVARIANTS OwnScan ReadAsWritten
PROPERTIES NthLine ReadingEnds
CHECK_DEADLOCK FALSE
