SPECIFICATION Spec
CONSTANTS
    Names = {A, B}
    Scratch = Scratch
    NoName = NoName
    OldFiles <- OneFile
    MaxVersion = 2
    Usage = {"elsewhere", "thin", "catalogflux"}
    Faults = {"badfile", "diskfull", "move"}
PROPERTIES OnlyAskedReplaced NewFileHasAll
CHECK_DEADLOCK FALSE
