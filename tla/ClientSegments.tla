--------------------------- MODULE ClientSegments ---------------------------
(***************************************************************************)
(* The global and local segments that VClient computes itself, from        *)
(* lightweight ones.                                                       *)
(***************************************************************************)
EXTENDS ClientSubjects

PosedSegment(id, t, r) == [SegmentID |-> id, Translation |-> t, Rotation |-> r]

\* Mutant of GlobalPose: the rotations are multiplied in the other order.
GlobalPoseTurnedFirst(parent, local) ==
    PosedSegment(local.SegmentID,
                 Plus(parent.Translation, Apply(parent.Rotation, local.Translation)),
                 Product(local.Rotation, parent.Rotation))
GlobalPose(parent, local) ==
    PosedSegment(local.SegmentID,
                 Plus(parent.Translation, Apply(parent.Rotation, local.Translation)),
                 Product(parent.Rotation, local.Rotation))

RECURSIVE CalculateSegmentGlobalFromLocal(_, _, _, _, _, _)
\* The segment, then its children one after another; made is what was added so
\* far to the subject's segments, and a child that fails ends the calculation.
CalculateSegmentGlobalFromLocal(c, subject, segment, parent, lightweight, made) ==
    Then(GetSubjectAndSegmentID(c, subject, segment), LAMBDA ids :
      Then(FirstWith(lightweight.Segments, "SegmentID", ids.segment, "InvalidSegmentName"), LAMBDA g :
        LET local  == PosedSegment(ids.segment, g.Translation, HelicalToMatrix(g.Rotation))
            global == GlobalPose(parent, local)
            count  == GetSegmentChildCount(c, subject, segment).v
            Child(sofar, i) ==
              Then(sofar, LAMBDA m :
                Then(GetSegmentChildName(c, subject, segment, i), LAMBDA child :
                  CalculateSegmentGlobalFromLocal(c, subject, child, global, lightweight, m)))
        IN  FoldLeft(Child, Answer([globals |-> Append(made.globals, global),
                                    locals  |-> Append(made.locals, local)]),
                     [n \in 1..count |-> n - 1])))

\* One subject of the frame: computing stops at a subject without a root, or
\* one the server sent segments for.
Calculated(c, state, subject) ==
    LET root == GetSubjectRootSegmentName(c, subject.Name)
        sent == SubjectWithID(state.frame, "LightweightSegments", subject.SubjectID, "Unknown")
        made == CalculateSegmentGlobalFromLocal(c, subject.Name, root.v,
                  PosedSegment(NoParent, <<0, 0, 0>>, Identity), sent.v,
                  [globals |-> << >>, locals |-> << >>])
    IN  IF state.stopped THEN state
        ELSE IF root.result # "Success" THEN [state EXCEPT !.stopped = TRUE]
        ELSE IF sent.result # "Success" THEN state
        ELSE IF \E type \in {"GlobalSegments", "LocalSegments"} :
                  SubjectWithID(state.frame, type, subject.SubjectID, "Unknown").result = "Success"
        THEN [state EXCEPT !.stopped = TRUE]
        ELSE IF made.result # "Success" THEN state
        ELSE [state EXCEPT
               !.frame.GlobalSegments =
                 Append(@, [SubjectID |-> subject.SubjectID, Segments |-> made.v.globals]),
               !.frame.LocalSegments =
                 Append(@, [SubjectID |-> subject.SubjectID, Segments |-> made.v.locals])]

CalculateGlobalsFromLocals(c) ==
    IF "LightweightSegment" \notin c.on THEN c.frame
    ELSE FoldLeft(LAMBDA state, s : Calculated(c, state, s),
                  [frame |-> c.frame, stopped |-> FALSE], c.frame.SubjectInfo).frame
==============================================================================
