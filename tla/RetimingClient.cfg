SPECIFICATION ClientSpec
CONSTANTS
    SubjectNames <- MCSubjectNames
    SegmentNames <- MCSegmentNames
    SegmentParents <- MCSegmentParents
    NoName = ""
    MaxPrediction = 1
    FullTurn = 6
    RunInPeriod = 1
    MaxFrames = 2
    MaxTime = 2
    Cuts = {0}
INVARIANTS
    ClientInv
    AnswersAgree
CONSTRAINT AlwaysSends
CHECK_DEADLOCK FALSE
