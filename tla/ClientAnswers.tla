---------------------------- MODULE ClientAnswers ----------------------------
(***************************************************************************)
(* How the answers of VClient's getters about one frame fit together.      *)
(***************************************************************************)
EXTENDS ClientCameras, FrameMeant

------------------------------------------------------------------------------
(* What the getters enumerate                                                 *)

UpTo(count) == IF count.result = "Success" THEN 0..count.v ELSE {0}
Agree(count, Get(_)) ==
    \A i \in UpTo(count) :
      (Get(i).result = "Success") = (count.result = "Success" /\ i < count.v)
NamesOf(count, Get(_)) == {Get(i).v : i \in 0..(OrNone(count) - 1)}

SubjectsOf(c) == NamesOf(GetSubjectCount(c), LAMBDA i : GetSubjectName(c, i))
SegmentsOf(c, s) == NamesOf(GetSegmentCount(c, s), LAMBDA i : GetSegmentName(c, s, i))
MarkersOf(c, s) == NamesOf(GetMarkerCount(c, s), LAMBDA i : GetMarkerName(c, s, i))
DevicesOf(c) == {d.name : d \in NamesOf(GetDeviceCount(c), LAMBDA i : GetDeviceName(c, i))}
CamerasOf(c) == NamesOf(GetCameraCount(c), LAMBDA i : GetCameraName(c, i))
PlatesOf(c) == NamesOf(GetForcePlateCount(c), LAMBDA i : GetForcePlateID(c, i))
OutputsOf(c, d) ==
    NamesOf(GetDeviceOutputCount(c, d), LAMBDA i : GetDeviceOutputNameComponent(c, d, i))

\* Every getter that takes an index answers exactly below the count that goes
\* with it, on every frame, with every group of data on or off.
CountsAgree(c) ==
    /\ Agree(GetSubjectCount(c), LAMBDA i : GetSubjectName(c, i))
    /\ Agree(GetLatencySampleCount(c), LAMBDA i : GetLatencySampleName(c, i))
    /\ Agree(GetFrameRateCount(c), LAMBDA i : GetFrameRateName(c, i))
    /\ Agree(GetLabeledMarkerCount(c), LAMBDA i : GetLabeledMarkerGlobalTranslation(c, i))
    /\ Agree(GetUnlabeledMarkerCount(c), LAMBDA i : GetUnlabeledMarkerGlobalTranslation(c, i))
    /\ Agree(GetDeviceCount(c), LAMBDA i : GetDeviceName(c, i))
    /\ Agree(GetForcePlateCount(c), LAMBDA i : GetForcePlateID(c, i))
    /\ Agree(GetEyeTrackerCount(c), LAMBDA i : GetEyeTrackerID(c, i))
    /\ Agree(GetCameraCount(c), LAMBDA i : GetCameraName(c, i))
    /\ \A s \in SubjectsOf(c) :
         /\ Agree(GetSegmentCount(c, s), LAMBDA i : GetSegmentName(c, s, i))
         /\ Agree(GetMarkerCount(c, s), LAMBDA i : GetMarkerName(c, s, i))
         /\ \A g \in SegmentsOf(c, s) :
              Agree(GetSegmentChildCount(c, s, g), LAMBDA i : GetSegmentChildName(c, s, g, i))
         /\ \A m \in MarkersOf(c, s) :
              Agree(GetMarkerRayAssignmentCount(c, s, m),
                    LAMBDA i : GetMarkerRayAssignment(c, s, m, i))
    /\ \A d \in DevicesOf(c) :
         Agree(GetDeviceOutputCount(c, d), LAMBDA i : GetDeviceOutputName(c, d, i))
    /\ \A p \in PlatesOf(c) :
         /\ Agree(GetForcePlateSubsamples(c, p), LAMBDA i : GetForceVectorAtSample(c, p, i))
         /\ Agree(GetForcePlateSubsamples(c, p), LAMBDA i : GetMomentVectorAtSample(c, p, i))
    /\ \A m \in CamerasOf(c) :
         /\ Agree(GetCentroidCount(c, m), LAMBDA i : GetCentroidPosition(c, m, i))
         /\ Agree(GetGreyscaleBlobCount(c, m), LAMBDA i : GetGreyscaleBlob(c, m, i))
EnumerationsAgree == CountsAgree(client)

Succeeds(answer) == answer.result = "Success"

\* Every name the client enumerates is one its other getters accept, those it
\* makes up for unnamed devices and for cameras included; and the node vicon_bridge
\* publishes each marker of each subject, with a segment of that subject.
NamesAccepted(c) ==
    /\ \A s \in SubjectsOf(c) :
         /\ \A g \in SegmentsOf(c, s) :
              /\ Succeeds(GetSegmentGlobalTranslation(c, s, g))
              /\ Succeeds(GetSegmentLocalRotationQuaternion(c, s, g))
         /\ \A m \in MarkersOf(c, s) :
              /\ Succeeds(GetMarkerGlobalTranslation(c, s, m))
              /\ SegmentsOf(c, s) # {} => Succeeds(GetMarkerParentName(c, s, m))
    /\ LET sent == publish_markers(c)
       IN  /\ {<<m.subject, m.marker>> : m \in sent}
                = UNION {{<<s, m>> : m \in MarkersOf(c, s)} : s \in SubjectsOf(c)}
           /\ \A m \in sent :
                m.segment \in SegmentsOf(c, m.subject) \/ SegmentsOf(c, m.subject) = {}
    /\ \A d \in DevicesOf(c) : Succeeds(GetDeviceOutputCount(c, d))
    /\ \A m \in CamerasOf(c) :
         Succeeds(GetCameraID(c, m)) /\ Succeeds(GetCameraResolution(c, m))
    /\ \A i \in 0..(GetDynamicCameraCount(c).v - 1) :
         LET m == GetDynamicCameraName(c, i)
         IN  Succeeds(m) => Succeeds(GetCameraGlobalRotationMatrix(c, m.v))
    /\ \A i \in 0..(GetLatencySampleCount(c).v - 1) :
         Succeeds(GetLatencySampleValue(c, GetLatencySampleName(c, i).v))
NamesResolve == Succeeds(InitGet(client)) => NamesAccepted(client)

\* What the client selects of a subject or of a device leads back to it: a child's
\* parent is the segment it was enumerated under, and every output enumerated of a
\* device, unnamed ones included, is one its samples are found by.  An unnamed
\* output's name counts the device's outputs, so it only resolves where no
\* channel is skipped.
LinksAccepted(c) ==
    /\ \A s \in SubjectsOf(c) : \A g \in SegmentsOf(c, s) :
         \A i \in 0..(GetSegmentChildCount(c, s, g).v - 1) :
           GetSegmentParentName(c, s, GetSegmentChildName(c, s, g, i).v) = Answer(g)
    /\ \A d \in DevicesOf(c), o \in UNION {OutputsOf(c, e) : e \in DevicesOf(c)} :
         o \in OutputsOf(c, d) =>
           /\ Succeeds(GetDeviceOutputSubsamples(c, d, "", o.component))
           /\ Succeeds(GetDeviceOutputValue(c, d, "", o.component, 0))
           /\ \/ Succeeds(GetDeviceOutputValue(c, d, o.output, o.component, 0))
              \/ \A h \in ToSet(c.frame.ChannelInfo) : o.component \notin ToSet(h.ComponentNames)
LinksResolve == Succeeds(InitGet(client)) => LinksAccepted(client)

------------------------------------------------------------------------------
(* Geometry                                                                   *)

\* A quaternion turns vectors, up to the square of its length, as the matrix does.
TurnsAs(q, m) ==
    LET Dot(v, w) == v[1] * w[1] + v[2] * w[2] + v[3] * w[3]
        axis == <<q[1], q[2], q[3]>>
        real == q[4] * q[4] - Dot(axis, axis)
        norm == q[4] * q[4] + Dot(axis, axis)
    IN  /\ norm # 0
        /\ \A e \in {<<1, 0, 0>>, <<0, 1, 0>>, <<0, 0, 1>>} :
             LET across == CrossProduct(axis, e)
                 turned == Apply(m, e)
                 along  == Dot(axis, e)
             IN  \A i \in 1..3 :
                   real * e[i] + 2 * along * axis[i] + 2 * q[4] * across[i] = norm * turned[i]

Cosine(quarters) == <<1, 0, -1, 0>>[quarters + 1]
Sine(quarters) == <<0, 1, 0, -1>>[quarters + 1]
AboutX(a) == <<1, 0, 0, 0, Cosine(a), -Sine(a), 0, Sine(a), Cosine(a)>>
AboutY(a) == <<Cosine(a), 0, Sine(a), 0, 1, 0, -Sine(a), 0, Cosine(a)>>
AboutZ(a) == <<Cosine(a), -Sine(a), 0, Sine(a), Cosine(a), 0, 0, 0, 1>>

Seen(answer) == Succeeds(answer) /\ ~answer.v.occluded
Forms(m, q, h, e) == [matrix |-> m, quaternion |-> q, helical |-> h, euler |-> e]
Coherent(forms) ==
    LET h == forms.helical  e == forms.euler IN
    /\ TurnsAs(forms.quaternion, forms.matrix)
    /\ TurnsAs(<<h[1][1], h[2][1], h[3][1], h[1][2]>>, forms.matrix)
    /\ forms.matrix = Product(Product(AboutX(e[1]), AboutY(e[2])), AboutZ(e[3]))

GlobalForms(c, s) ==
    {Forms(GetSegmentGlobalRotationMatrix(c, s, g).v.v,
           GetSegmentGlobalRotationQuaternion(c, s, g).v.v,
           GetSegmentGlobalRotationHelical(c, s, g).v.v,
           GetSegmentGlobalRotationEulerXYZ(c, s, g).v.v) :
       g \in {h \in SegmentsOf(c, s) : Seen(GetSegmentGlobalRotationMatrix(c, s, h))}}
StaticForms(c, s) ==
    {Forms(GetSegmentStaticRotationMatrix(c, s, g).v,
           GetSegmentStaticRotationQuaternion(c, s, g).v,
           GetSegmentStaticRotationHelical(c, s, g).v,
           GetSegmentStaticRotationEulerXYZ(c, s, g).v) :
       g \in {h \in SegmentsOf(c, s) : Succeeds(GetSegmentStaticRotationMatrix(c, s, h))}}
CameraForms(c) ==
    {Forms(GetCameraGlobalRotationMatrix(c, m).v, GetCameraGlobalRotationQuaternion(c, m).v,
           GetCameraGlobalRotationHelical(c, m).v, GetCameraGlobalRotationEulerXYZ(c, m).v) :
       m \in {n \in CamerasOf(c) : Succeeds(GetCameraGlobalRotationMatrix(c, n))}}

\* The quaternion, the helical angle and the Euler angles the getters give for a
\* segment or a camera are of the rotation whose matrix they give, in whatever
\* axes the caller chose: of a half turn or where Euler angles are singular too.
RotationsDescribed ==
    \A forms \in CameraForms(client) \cup
                 UNION {GlobalForms(client, s) \cup StaticForms(client, s) :
                          s \in SubjectsOf(client)} :
      Coherent(forms)

\* What the getters answer is one rigid picture: a segment's global pose is its
\* parent's followed by its local one, however the caller maps the axes and
\* whichever of the two the client computed itself.
PosesCompose ==
    LET c == client IN
    \A s \in SubjectsOf(c) : \A g \in SegmentsOf(c, s) :
      LET parent == GetSegmentParentName(c, s, g) IN
      /\ Succeeds(parent)
      /\ Seen(GetSegmentGlobalTranslation(c, s, g))
      /\ Seen(GetSegmentGlobalTranslation(c, s, parent.v))
      => LET over == GetSegmentGlobalRotationMatrix(c, s, parent.v).v.v
         IN  /\ GetSegmentGlobalRotationMatrix(c, s, g).v.v
                  = Product(over, GetSegmentLocalRotationMatrix(c, s, g).v.v)
             /\ GetSegmentGlobalTranslation(c, s, g).v.v
                  = Plus(GetSegmentGlobalTranslation(c, s, parent.v).v.v,
                         Apply(over, GetSegmentLocalTranslation(c, s, g).v.v))

------------------------------------------------------------------------------
(* What the answers rest on: frames that say what they say once, and whole    *)

Listed(seq) == {seq[i] : i \in 1..Len(seq)}
OnceEach(seq, field) == \A i, j \in 1..Len(seq) : seq[i][field] = seq[j][field] => i = j

\* A subject has one identifier, and a segment one name and one identifier in its subject.
Identified(f) ==
    /\ OnceEach(f.SubjectInfo, "SubjectID")
    /\ \A s \in Listed(f.SubjectInfo) :
         OnceEach(s.Segments, "SegmentID") /\ OnceEach(s.Segments, "Name")

\* What a segment's pose is in the world is its parent's, followed by its local one.
Rigid(pose) == pose.Rotation \in ProperRotations /\ pose.Translation \in Vectors
Follows(pose, parent, local) ==
    /\ pose.Rotation = Product(parent.Rotation, local.Rotation)
    /\ pose.Translation = Plus(parent.Translation, Apply(parent.Rotation, local.Translation))
Posed(f) ==
    /\ \A s \in Listed(f.SubjectInfo) : \A g \in Listed(s.Segments) :
         LET At(type, id) == SegmentPose(f, type, [subject |-> s.SubjectID, segment |-> id])
             pose   == At("GlobalSegments", g.SegmentID)
             local  == At("LocalSegments", g.SegmentID)
             parent == At("GlobalSegments", g.ParentID)
         IN  /\ Succeeds(pose) => Rigid(pose.v)
             /\ Succeeds(pose) /\ Succeeds(parent) =>
                  Succeeds(local) /\ Rigid(local.v) /\ Follows(pose.v, parent.v, local.v)
    /\ \A t \in Listed(f.SubjectTopology) : \A g \in Listed(t.Segments) : Rigid(g)
    /\ \A k \in Listed(f.CameraCalibrationInfo) \cup Listed(f.DynamicCameraCalibrationInfo) :
         k.PoseRotation \in ProperRotations

\* Of a force plate that sends forces or moments, every frame of either holds the same number
\* of samples, one that divides its period, and between them every sample of the system frame.
Sampled(f) ==
    \A type, other \in {"ForceFrame", "MomentFrame"} : \A d \in Listed(f[type]) :
      LET id      == d.DeviceID
          samples == Len(d.Samples) \div 3
          due     == SamplesInFrame(f, id, samples)
          mine    == {e \in Listed(f[other]) : e.DeviceID = id}
      IN  IsForcePlateDevice(f, id) =>
            /\ samples # 0 /\ GetDevicePeriod(f, id) # 0 /\ GetDevicePeriod(f, id) % samples = 0
            /\ \A e \in mine : Len(e.Samples) \div 3 = samples
            /\ due \in Nat
            /\ \A i \in 0..(due - 1) : \E e \in mine : SamplePlace(f, id, e, samples, i) # Elsewhere

\* Lists are sequences; what has a name has one that is not empty; a marker is attached
\* to a segment of its subject, if it has any; and cameras of one name are one.
Ordered(seq) == seq \in Seq(Listed(seq))
Nameable(f) ==
    /\ \A seq \in {f.SubjectInfo, f.DeviceInfo, f.CameraInfo, LatencySamples(f),
                   f.DynamicCameraCalibrationInfo} : Ordered(seq)
    /\ \A s \in Listed(f.SubjectInfo) :
         /\ s.Name # "" /\ Ordered(s.Segments) /\ Ordered(s.Markers)
         /\ \A x \in Listed(s.Segments) \cup Listed(s.Markers) : x.Name # ""
         /\ Len(s.Segments) # 0 =>
              /\ \A m \in Listed(s.Markers) :
                   \E a \in Listed(s.Attachments) : a.MarkerID = m.MarkerID
              /\ \A a \in Listed(s.Attachments) :
                   \E g \in Listed(s.Segments) : g.SegmentID = a.SegmentID
    /\ \A d, e \in Listed(f.CameraInfo) : CameraName(d) = CameraName(e) => d.CameraID = e.CameraID

\* The axes are those of a mapping the client accepted.
AxesChosen(c) ==
    c.axes \in Direction \X Direction \X Direction /\ AxisMappingResult(c.axes) = "Success"

\* Every frame the client answers from, whichever of its objects the server sent and
\* whichever the client derived, names what it holds once, tells one rigid picture and
\* holds whole samples; and the client's axes are right-handed.  It is what the answers
\* above rest on.
FrameSound ==
    /\ AxesChosen(client)
    /\ Identified(client.frame)
    /\ Nameable(client.frame)
    /\ Posed(client.frame)
    /\ Sampled(client.frame)
==============================================================================
