--------------------------- MODULE ClientSubjects ---------------------------
(***************************************************************************)
(* VClient's getters of subjects, their segments and their markers.        *)
(***************************************************************************)
EXTENDS ClientFrame

------------------------------------------------------------------------------
(* Names to identifiers                                                       *)

GetSubjectInfo(c, subject) ==
    Then(InitGet(c), LAMBDA f :
      IF subject = "" THEN Refuse("InvalidSubjectName")
      ELSE FirstWith(f.SubjectInfo, "Name", subject, "InvalidSubjectName"))

GetSegmentID(info, segment) ==
    IF segment = "" THEN Refuse("InvalidSegmentName")
    ELSE Then(FirstWith(info.Segments, "Name", segment, "InvalidSegmentName"),
              LAMBDA g : Answer(g.SegmentID))
GetMarkerID(info, marker) ==
    IF marker = "" THEN Refuse("InvalidMarkerName")
    ELSE Then(FirstWith(info.Markers, "Name", marker, "InvalidMarkerName"),
              LAMBDA m : Answer(m.MarkerID))

GetSubjectAndSegmentID(c, subject, segment) ==
    Then(GetSubjectInfo(c, subject), LAMBDA info :
      Then(GetSegmentID(info, segment), LAMBDA id :
        Answer([subject |-> info.SubjectID, segment |-> id])))
GetSubjectAndMarkerID(c, subject, marker) ==
    Then(GetSubjectInfo(c, subject), LAMBDA info :
      Then(GetMarkerID(info, marker), LAMBDA id :
        Answer([subject |-> info.SubjectID, marker |-> id])))

SubjectWithID(f, type, id, otherwise) ==
    FirstWith(f[type], "SubjectID", id, otherwise)
GetSubjectTopology(f, id) == SubjectWithID(f, "SubjectTopology", id, "InvalidSubjectName")
GetSubjectScale(f, id) == SubjectWithID(f, "SubjectScale", id, "NotPresent")
ObjectQualityOf(f, id) == SubjectWithID(f, "ObjectQuality", id, "NotImplemented")

------------------------------------------------------------------------------
(* What subjects are made of                                                  *)

GetSubjectCount(c) == Then(InitGet(c), LAMBDA f : Answer(Len(f.SubjectInfo)))
GetSubjectName(c, i) ==
    Then(InitGet(c), LAMBDA f :
      Then(Indexed(f.SubjectInfo, i), LAMBDA s : Answer(s.Name)))

NoParent == 0
GetSubjectRootSegmentName(c, subject) ==
    Then(GetSubjectInfo(c, subject), LAMBDA info :
      Then(FirstWith(info.Segments, "ParentID", NoParent, "Unknown"),
           LAMBDA g : Answer(g.Name)))
GetSegmentCount(c, subject) ==
    Then(GetSubjectInfo(c, subject), LAMBDA info : Answer(Len(info.Segments)))
GetSegmentName(c, subject, i) ==
    Then(GetSubjectInfo(c, subject), LAMBDA info :
      Then(Indexed(info.Segments, i), LAMBDA g : Answer(g.Name)))

\* The getters below look the subject up a second time, by the id they found.
OfSegment(c, subject, segment, K(_, _)) ==
    Then(GetSubjectAndSegmentID(c, subject, segment), LAMBDA ids :
      Then(SubjectWithID(c.frame, "SubjectInfo", ids.subject, "Unknown"), LAMBDA info :
        K(info, ids.segment)))
Children(info, id) == SelectSeq(info.Segments, LAMBDA g : g.ParentID = id)

GetSegmentChildCount(c, subject, segment) ==
    OfSegment(c, subject, segment, LAMBDA info, id : Answer(Len(Children(info, id))))
\* Mutant of GetSegmentChildName: the index is that of a segment of the subject.
SegmentNameByPlace(c, subject, segment, i) ==
    OfSegment(c, subject, segment, LAMBDA info, id :
      Then(Indexed(info.Segments, i), LAMBDA g : Answer(g.Name)))
GetSegmentChildName(c, subject, segment, i) ==
    OfSegment(c, subject, segment, LAMBDA info, id :
      Then(Indexed(Children(info, id), i), LAMBDA g : Answer(g.Name)))
GetSegmentParentName(c, subject, segment) ==
    OfSegment(c, subject, segment, LAMBDA info, id :
      Then(FirstWith(info.Segments, "SegmentID", id, "Unknown"), LAMBDA g :
        Then(FirstWith(info.Segments, "SegmentID", g.ParentID, "Unknown"),
             LAMBDA p : Answer(p.Name))))

GetObjectQuality(c, subject) ==
    Then(GetSubjectInfo(c, subject), LAMBDA info :
      Then(ObjectQualityOf(c.frame, info.SubjectID), LAMBDA q : Answer(q.ObjectQuality)))

GetMarkerCount(c, subject) ==
    Then(GetSubjectInfo(c, subject), LAMBDA info : Answer(Len(info.Markers)))
GetMarkerName(c, subject, i) ==
    Then(GetSubjectInfo(c, subject), LAMBDA info :
      Then(Indexed(info.Markers, i), LAMBDA m : Answer(m.Name)))
GetMarkerParentName(c, subject, marker) ==
    Then(GetSubjectInfo(c, subject), LAMBDA info :
      Then(GetMarkerID(info, marker), LAMBDA id :
        LET attached == FirstWith(info.Attachments, "MarkerID", id, "Unknown")
            segment  == IF attached.result = "Success" THEN attached.v.SegmentID ELSE 0
        IN  Then(FirstWith(info.Segments, "SegmentID", segment, "InvalidMarkerName"),
                 LAMBDA g : Answer(g.Name))))

------------------------------------------------------------------------------
(* Where markers are                                                          *)

GetMarkerGlobalTranslation(c, subject, marker) ==
    Then(GetSubjectAndMarkerID(c, subject, marker), LAMBDA ids :
      OrOccluded(FirstWhere(OneOf(c.frame, "LabeledRecons", [LabeledRecons |-> << >>]).LabeledRecons,
                            LAMBDA r : r.SubjectID = ids.subject /\ r.MarkerID = ids.marker,
                            "Unknown"),
                 LAMBDA r : Visible(TransformT(c, r.Position))))

\* The markers that the node vicon_bridge publishes of a frame. A name it is refused is empty.
OrEmpty(answer) == IF answer.result = "Success" THEN answer.v ELSE ""
OrNone(count) == IF count.result = "Success" THEN count.v ELSE 0
publish_markers(c) ==
    LET Message(subject, marker) ==
          [subject |-> subject, marker |-> marker,
           segment |-> OrEmpty(GetMarkerParentName(c, subject, marker)),
           at |-> GetMarkerGlobalTranslation(c, subject, marker)]
        MessagesOf(subject) ==
          {Message(subject, OrEmpty(GetMarkerName(c, subject, i))) :
             i \in 0..(OrNone(GetMarkerCount(c, subject)) - 1)}
    IN  {m \in UNION {MessagesOf(OrEmpty(GetSubjectName(c, i))) :
                       i \in 0..(OrNone(GetSubjectCount(c)) - 1)} : m.at.result = "Success"}

\* Every ray of every assignment to the marker.
GetReconRayAssignments(c, subject, marker) ==
    Then(GetSubjectAndMarkerID(c, subject, marker), LAMBDA ids :
      LET all  == OneOf(c.frame, "LabeledReconRayAssignments",
                        [ReconRayAssignments |-> << >>]).ReconRayAssignments
          mine == SelectSeq(all, LAMBDA r : r.SubjectID = ids.subject /\ r.MarkerID = ids.marker)
      IN  Answer(FlattenSeq([i \in DOMAIN mine |-> mine[i].ReconRays])))
GetMarkerRayAssignmentCount(c, subject, marker) ==
    Then(GetReconRayAssignments(c, subject, marker), LAMBDA rays : Answer(Len(rays)))
GetMarkerRayAssignment(c, subject, marker, i) ==
    Then(GetReconRayAssignments(c, subject, marker), LAMBDA rays :
      Then(Indexed(rays, i), LAMBDA r : Answer(<<r.CameraID, r.CentroidIndex>>)))

RecordOf(r, c) == [translation |-> TransformT(c, r.Position), trajectory |-> r.TrajectoryId]
UnlabeledMarkers(f) == OneOf(f, "UnlabeledRecons", [UnlabeledRecons |-> << >>]).UnlabeledRecons
LabeledMarkers(f) == OneOf(f, "LabeledRecons", [LabeledRecons |-> << >>]).LabeledRecons
GetUnlabeledMarkerCount(c) == Then(InitGet(c), LAMBDA f : Answer(Len(UnlabeledMarkers(f))))
GetUnlabeledMarkerGlobalTranslation(c, i) ==
    Then(InitGet(c), LAMBDA f :
      Then(Indexed(UnlabeledMarkers(f), i), LAMBDA r : Answer(RecordOf(r, c))))
GetLabeledMarkerCount(c) == Then(InitGet(c), LAMBDA f : Answer(Len(LabeledMarkers(f))))
GetLabeledMarkerGlobalTranslation(c, i) ==
    Then(InitGet(c), LAMBDA f :
      Then(Indexed(LabeledMarkers(f), i), LAMBDA r : Answer(RecordOf(r, c))))

------------------------------------------------------------------------------
(* Where segments are                                                         *)

\* The segments of every object of the type that belongs to the subject.
SegmentPose(f, type, ids) ==
    LET mine == SelectSeq(f[type], LAMBDA s : s.SubjectID = ids.subject)
    IN  FirstWith(FlattenSeq([i \in DOMAIN mine |-> mine[i].Segments]),
                  "SegmentID", ids.segment, "Unknown")

\* GlobalSegments and LocalSegments are read in the same way.
SegmentTranslation(c, type, subject, segment) ==
    Then(GetSubjectAndSegmentID(c, subject, segment), LAMBDA ids :
      OrOccluded(SegmentPose(c.frame, type, ids), LAMBDA g :
        Visible(TransformT(c, g.Translation))))
SegmentRotation(c, type, subject, segment) ==
    Then(GetSubjectAndSegmentID(c, subject, segment), LAMBDA ids :
      OrOccluded(SegmentPose(c.frame, type, ids), LAMBDA g :
        Visible(TransformR(c, g.Rotation))))

\* The other forms of a rotation are made of its matrix, if there is one.
Converted(answer, Convert(_)) ==
    Then(answer, LAMBDA m : IF m.occluded THEN Occluded ELSE Visible(Convert(m.v)))

GetSegmentGlobalTranslation(c, s, g) == SegmentTranslation(c, "GlobalSegments", s, g)
GetSegmentGlobalRotationMatrix(c, s, g) == SegmentRotation(c, "GlobalSegments", s, g)
GetSegmentGlobalRotationHelical(c, s, g) ==
    Converted(GetSegmentGlobalRotationMatrix(c, s, g), MatrixToHelical)
GetSegmentGlobalRotationQuaternion(c, s, g) ==
    Converted(GetSegmentGlobalRotationMatrix(c, s, g), MatrixToQuaternion)
GetSegmentGlobalRotationEulerXYZ(c, s, g) ==
    Converted(GetSegmentGlobalRotationMatrix(c, s, g), MatrixToEulerXYZ)

GetSegmentLocalTranslation(c, s, g) == SegmentTranslation(c, "LocalSegments", s, g)
GetSegmentLocalRotationMatrix(c, s, g) == SegmentRotation(c, "LocalSegments", s, g)
GetSegmentLocalRotationHelical(c, s, g) ==
    Converted(GetSegmentLocalRotationMatrix(c, s, g), MatrixToHelical)
GetSegmentLocalRotationQuaternion(c, s, g) ==
    Converted(GetSegmentLocalRotationMatrix(c, s, g), MatrixToQuaternion)
GetSegmentLocalRotationEulerXYZ(c, s, g) ==
    Converted(GetSegmentLocalRotationMatrix(c, s, g), MatrixToEulerXYZ)

\* The pose of a segment in the subject's topology.
StaticSegment(c, subject, segment, otherwise) ==
    Then(GetSubjectAndSegmentID(c, subject, segment), LAMBDA ids :
      Then(GetSubjectTopology(c.frame, ids.subject), LAMBDA t :
        FirstWith(t.Segments, "SegmentID", ids.segment, otherwise)))
GetSegmentStaticTranslation(c, s, g) ==
    Then(StaticSegment(c, s, g, "InvalidSegmentName"), LAMBDA p :
      Answer(TransformT(c, p.Translation)))
GetSegmentStaticRotationMatrix(c, s, g) ==
    Then(StaticSegment(c, s, g, "Unknown"), LAMBDA p : Answer(TransformR(c, p.Rotation)))
GetSegmentStaticRotationHelical(c, s, g) ==
    Then(GetSegmentStaticRotationMatrix(c, s, g), LAMBDA m : Answer(MatrixToHelical(m)))
GetSegmentStaticRotationQuaternion(c, s, g) ==
    Then(GetSegmentStaticRotationMatrix(c, s, g), LAMBDA m : Answer(MatrixToQuaternion(m)))
GetSegmentStaticRotationEulerXYZ(c, s, g) ==
    Then(GetSegmentStaticRotationMatrix(c, s, g), LAMBDA m : Answer(MatrixToEulerXYZ(m)))

\* A scale is not transformed.
GetSegmentStaticScale(c, subject, segment) ==
    IF "Segment" \in c.on /\ "SubjectScale" \notin c.on THEN Refuse("NotSupported")
    ELSE Then(GetSubjectAndSegmentID(c, subject, segment), LAMBDA ids :
           Then(GetSubjectScale(c.frame, ids.subject), LAMBDA t :
             Then(FirstWith(t.Segments, "SegmentID", ids.segment, "Unknown"),
                  LAMBDA g : Answer(g.Scale))))
==============================================================================
