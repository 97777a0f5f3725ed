SPECIFICATION Spec
CONSTANTS
    SubjectNames <- MCSubjectNames
    SegmentNames <- MCSegmentNames
    SegmentParents <- MCSegmentParents
    NoName = ""
    MaxPrediction = 1
    FullTurn = 6
    RunInPeriod = 1
    MaxFrames = 3
    MaxTime = 3
    Cuts = {0, 3}
    Target <- MCTarget
    SizeT = 65536
    MaxCallbacks = 2
    SegmentKeys <- MCSegmentKeys
    MaxFrame = 3
    Creators = {"c1", "c2"}
INVARIANT MissedCounted
CHECK_DEADLOCK FALSE
