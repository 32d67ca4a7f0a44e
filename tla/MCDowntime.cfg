SPECIFICATION Spec
CONSTANTS
    Names = {Aa, Bb, Cc}
    Blank = Blank
    Intervals <- SomeIntervals
    Starts = {2, 3}
    MaxDur = 2
    Day = 10
    MaxDown = 2
CONSTRAINT OneByOne
SYMMETRY AnyStation
INVARIANTS TypeOK UpIsClear
PROPERTIES ScansStayClear DowntimesHold
CHECK_DEADLOCK FALSE
