CONSTANTS
    Vex <- MCVex
    Queries <- MCQueries
    MaxNames <- MCMaxNames
    MaxCalls = 5
SPECIFICATION Spec
INVARIANTS FieldsFit NamesStoredAll
PROPERTIES WalksAnswer ReadingEnds
CHECK_DEADLOCK FALSE
