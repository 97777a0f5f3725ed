SPECIFICATION ClientSpec
CONSTANTS
    SubjectNames <- MCSubjectNames
    SegmentNames <- MCSegmentNames
    SegmentParents <- MCSegmentParents
    NoName = ""
    MaxPrediction = 1
    FullTurn = 6
    RunInPeriod = 1
    MaxFrames = 2
    MaxTime = 3
    Cuts = {0, 3}
INVARIANT FromOneFrame
CHECK_DEADLOCK FALSE
