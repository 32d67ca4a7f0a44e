SPECIFICATION StatementSpec
CONSTANTS
    Tried <- MCTried
    MaxMany = 3
    MaxMissing = 4
INVARIANTS
    CompleteArrives
    NothingMoves
    TestedIsReadable
    QuotedArrives
CHECK_DEADLOCK FALSE
