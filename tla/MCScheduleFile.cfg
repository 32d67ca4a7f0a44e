SPECIFICATION Spec
CONSTANTS
    Names = {A, B}
    Scratch = Scratch
    NoName = NoName
    OldFiles <- TwoFiles
    MaxVersion = 3
    Usage = {}
    Faults = {"diskfull"}
INVARIANT UnsavedIsFlagged
PROPERTIES AbortLosesNothing FilesHoldDocuments
CHECK_DEADLOCK FALSE
