SPECIFICATION Spec
CONSTANTS
    Names = {A, B}
    Scratch = Scratch
    NoName = NoName
    OldFiles <- OneFile
    MaxVersion = 2
    Usage = {"vex", "correlator"}
    Faults = {}
PROPERTY ScansSurviveVex
CHECK_DEADLOCK FALSE
