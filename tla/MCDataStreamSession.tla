------------------------ MODULE MCDataStreamSession ------------------------
(***************************************************************************)
(* A scene for the session: subjects of several segments, one of them      *)
(* without any, a force plate whose sample rate is not the frames', a      *)
(* device of voltages, an eye tracker and two cameras, some of them        *)
(* unnamed.                                                                *)
(***************************************************************************)
EXTENDS DataStreamProperties

\* The rotations about the axes, and the quaternion of each by its meaning.
Rotations ==
    InOrder({Transform(axes) : axes \in {<<a, b, c>> \in Direction \X Direction \X Direction :
                                            AxisMappingResult(<<a, b, c>>) = "Success"}})
Rotation(k) == Rotations[(k % Len(Rotations)) + 1]
QuaternionOf == [m \in ToSet(Rotations) |->
                   CHOOSE q \in (-1..1) \X (-1..1) \X (-1..1) \X (0..1) : TurnsAs(q, m)]
HelicalOf(m) == LET q == QuaternionOf[m] IN [i \in 1..3 |-> <<q[i], q[4]>>]

\* The segments of a subject: their parents, and where they are in their parents.
Name(subject, segment) ==
    <<<<"Hip", "Thigh", "Shin">>, <<"Base", "Left", "Right">>>>[subject][segment]
Parent(subject, segment) == <<<<0, 1, 2>>, <<0, 1, 1>>>>[subject][segment]
Local(subject, segment, n) ==
    PosedSegment(segment, <<segment, subject, n>>, Rotation(7 * n + 5 * segment + 3 * subject))
Below(parent, local) ==
    PosedSegment(local.SegmentID,
                 Plus(parent.Translation, Apply(parent.Rotation, local.Translation)),
                 Product(parent.Rotation, local.Rotation))
Global(subject, segment, n) ==
    LET root == Local(subject, 1, n)
        two  == Below(root, Local(subject, 2, n))
    IN  CASE segment = 1 -> root
          [] segment = 2 -> two
          [] segment = 3 -> Below(IF Parent(subject, 3) = 2 THEN two ELSE root,
                                  Local(subject, 3, n))

\* In the second frame the first subject's last segment is occluded, and the
\* subject between the two, which has only markers, is gone.
SegmentsSeen(subject, n) == IF subject = 1 /\ n = FirstFrame + 1 THEN <<1, 2>> ELSE <<1, 2, 3>>
EachSubject(Make(_)) == <<Make(1), Make(2)>>
Poses(n, Pose(_, _)) ==
    EachSubject(LAMBDA s : [SubjectID |-> s, Segments |-> [i \in DOMAIN SegmentsSeen(s, n) |-> Pose(s, i)]])

Marked == [SubjectID |-> 3, Name |-> "Wand", Segments |-> << >>,
           Markers |-> <<[MarkerID |-> 1, Name |-> "Tip"]>>, Attachments |-> << >>]
Subject(s) ==
    [SubjectID |-> s, Name |-> <<"Ann", "Box">>[s],
     Segments |-> [i \in 1..3 |-> [ParentID |-> Parent(s, i), SegmentID |-> i,
                                   Bounds |-> <<0, 0, 0, 1, 1, 1>>, Name |-> Name(s, i)]],
     Markers |-> <<[MarkerID |-> 1, Name |-> "Front"], [MarkerID |-> 2, Name |-> "Back"]>>,
     Attachments |-> <<[MarkerID |-> 1, SegmentID |-> 1], [MarkerID |-> 2, SegmentID |-> 3]>>]
Subjects(n) == IF n = FirstFrame THEN <<Subject(1), Marked, Subject(2)>>
               ELSE <<Subject(1), Subject(2)>>

\* A frame of the system lasts 6 ticks, one of a device 10; its two samples
\* are numbered through, from tick 3 on.
SystemPeriod == 6
DevicePeriod == 10
StartTick == 3
DeviceFrames(n) ==
    SortSeq(InOrder({d \in 0..(n + 1) : StartTick + 10 * d < SystemPeriod * (n + 1)
                                       /\ SystemPeriod * n < StartTick + 10 * d + 10}),
                 LAMBDA a, b : a < b)
Samples(n, device, channel, components) ==
    [i \in DOMAIN DeviceFrames(n) |->
       [FrameID |-> DeviceFrames(n)[i], DeviceID |-> device, ChannelID |-> channel,
        Samples |-> [k \in 1..(2 * components) |->
                       100 * ((k - 1) \div 2) + 2 * DeviceFrames(n)[i] + ((k - 1) % 2)]]]

Channel(device, channel, name, components) ==
    [DeviceID |-> device, ChannelID |-> channel, Name |-> name, ComponentNames |-> components]

Camera(id, name) ==
    [CameraID |-> id, FramePeriod |-> SystemPeriod, Type |-> "V", DisplayType |-> "Vero",
     Name |-> name, ResolutionX |-> 2, ResolutionY |-> 1, AspectRatio |-> 1,
     CircularityThreshold |-> 0, bCentroidTracking |-> 0, bIsVideoCamera |-> 0,
     UserID |-> id, MarkerVelocity |-> 0]
Sensor(id) ==
    [CameraID |-> id, SensorMode |-> "Full", WindowOffsetX |-> 0, WindowOffsetY |-> 0,
     WindowWidth |-> 2, WindowHeight |-> 1, Future1 |-> 0, Future2 |-> 0, Future3 |-> 0,
     Future4 |-> 0]
Calibrated(id) ==
    [CameraID |-> id, PoseTranslation |-> <<1, 2, 3>>, PoseRotation |-> Rotation(11 * id),
     PrincipalPoint |-> <<1, 1>>, RadialDistortion |-> <<0, 0, 0>>, FocalLength |-> 1,
     Skew |-> 0, ImageError |-> 0]
Blobs(id, n) ==
    [FrameID |-> n, CameraID |-> id,
     GreyscaleBlobs |-> <<[GreyscaleLines |-> <<[Greyscale |-> <<7, 8>>, Position |-> <<0, 1>>]>>]>>]

Dynamic(n) ==
    [ FrameInfo |-> <<[FrameID |-> n]>>,
      HardwareFrameInfo |-> <<[HardwareFrame |-> n]>>,
      Timecode |-> <<[Hours |-> 0, Minutes |-> 0, Seconds |-> 0, Frames |-> n, Subframes |-> 0,
                      SubframesPerFrame |-> 1, Standard |-> "PAL", UserBits |-> 0,
                      FieldFlag |-> 0]>>,
      LatencyInfo |-> <<[Samples |-> <<[Name |-> "Capture", Latency |-> 1],
                                       [Name |-> "Label", Latency |-> n]>>]>>,
      FrameRateInfo |-> <<[FrameRates |-> [r \in {"Camera", "System"} |-> 100]]>>,
      LabeledRecons |-> <<[LabeledRecons |->
         <<[SubjectID |-> 1, MarkerID |-> 2, Radius |-> 1, Position |-> <<1, 2, n>>,
            Covariance |-> Identity, TrajectoryId |-> 5]>>]>>,
      UnlabeledRecons |-> <<[UnlabeledRecons |->
         <<[Radius |-> 1, Position |-> <<3, 2, 1>>, Covariance |-> Identity,
            TrajectoryId |-> 6]>>]>>,
      LabeledReconRayAssignments |-> <<[ReconRayAssignments |->
         <<[SubjectID |-> 1, MarkerID |-> 2,
            ReconRays |-> <<[FrameID |-> n, CameraID |-> 1, CentroidIndex |-> 0]>>],
           [SubjectID |-> 1, MarkerID |-> 2,
            ReconRays |-> <<[FrameID |-> n, CameraID |-> 2, CentroidIndex |-> 1]>>]>>]>>,
      GlobalSegments |-> Poses(n, LAMBDA s, i : Global(s, i, n)),
      LocalSegments |-> Poses(n, LAMBDA s, i : Local(s, i, n)),
      LightweightSegments |-> Poses(n, LAMBDA s, i :
         LET local == Local(s, i, n)
         IN  PosedSegment(i, local.Translation, HelicalOf(local.Rotation))),
      ForceFrame |-> Samples(n, 1, 1, 3),
      MomentFrame |-> Samples(n, 1, 2, 3),
      CentreOfPressureFrame |-> Samples(n, 1, 3, 3),
      VoltageFrame |-> Samples(n, 1, 4, 2) \o Samples(n, 2, 5, 2) \o Samples(n, 2, 6, 1),
      EyeTrackerFrame |-> <<[FrameID |-> n, DeviceID |-> 3, GazeVector |-> <<0, 0, 1>>]>>,
      Centroids |-> [i \in 1..2 |->
         [FrameID |-> n, CameraID |-> i,
          Centroids |-> [k \in 1..i |-> [Position |-> <<k, i>>, Radius |-> 1, Accuracy |-> 1]]]],
      CentroidTracks |-> << >>,
      CentroidWeights |-> <<[FrameID |-> n, CameraID |-> 2, Weights |-> <<1, 2>>]>>,
      GreyscaleBlobs |-> <<Blobs(1, n), Blobs(2, n)>>,
      GreyscaleSubsampledBlobs |-> <<Blobs(1, n) @@
         [TwiceOffsetX |-> 1, TwiceOffsetY |-> 1, SensorPixelsPerImagePixelX |-> 2,
          SensorPixelsPerImagePixelY |-> 2]>>,
      EdgePairs |-> << >>,
      CameraWand2d |-> <<[CameraID |-> 1, WaveSession |-> 0,
                          WandPoints |-> <<[Position |-> <<1, 1>>]>>,
                          CamerasWithWand |-> 1, bMoving |-> 0]>>,
      CameraWand3d |-> << >>,
      VideoFrame |-> <<[FrameID |-> n, CameraID |-> 2, Position |-> <<0, 0>>, Width |-> 2,
                        Height |-> 1, Format |-> "Grey", VideoData |-> <<1, 2>>]>>,
      DynamicCameraCalibrationInfo |-> <<Calibrated(2)>> ]

Static(n) ==
    [ StreamInfo |-> <<[FramePeriod |-> SystemPeriod]>>,
      ApplicationInfo |-> <<[AxisOrientation |-> "YUp"]>>,
      SubjectInfo |-> Subjects(n),
      SubjectTopology |-> EachSubject(LAMBDA s :
         [SubjectID |-> s, Segments |-> [i \in 1..3 |->
            PosedSegment(i, <<i, 0, s>>, Rotation(4 * i + s))]]),
      SubjectScale |-> EachSubject(LAMBDA s :
         [SubjectID |-> s, Segments |-> [i \in 1..3 |-> [SegmentID |-> i, Scale |-> <<1, 1, 2>>]]]),
      SubjectHealth |-> << >>,
      ObjectQuality |-> EachSubject(LAMBDA s : [SubjectID |-> s, ObjectQuality |-> n]),
      CameraInfo |-> <<Camera(1, ""), Camera(2, "Door")>>,
      CameraSensorInfo |-> <<Sensor(1), Sensor(2)>>,
      CameraCalibrationInfo |-> <<Calibrated(1)>>,
      CameraCalibrationHealth |-> << >>,
      DeviceInfo |-> [d \in 1..3 |-> [DeviceID |-> d, FramePeriod |-> DevicePeriod,
                                      Name |-> <<"", "EMG", "">>[d]]],
      DeviceInfoExtra |-> [d \in 1..3 |-> [DeviceID |-> d, FrameStartTick |-> StartTick]],
      ChannelInfo |-> <<Channel(1, 1, "Force", <<"Fx", "Fy", "Fz">>),
                        Channel(1, 2, "Moment", <<"Mx", "My", "Mz">>),
                        Channel(1, 3, "CoP", <<"Cx", "Cy", "Cz">>),
                        Channel(1, 4, "Raw", <<"Pin 1", "">>),
                        Channel(2, 5, "Volts", <<"Left", "">>),
                        Channel(2, 6, "Tilt", <<"">>)>>,
      ChannelInfoExtra |-> <<[DeviceID |-> 2, ChannelID |-> 5, Unit |-> "volt", Type |-> "t"]>>,
      ForcePlateInfo |-> <<[DeviceID |-> 1, WorldTranslation |-> <<1000, 0, 0>>,
         WorldRotation |-> Rotation(5), Bounds |-> <<0, 0, 0, 1, 1, 1>>,
         LocalTranslation |-> <<0, 0, 0>>, LocalRotation |-> Identity]>>,
      EyeTrackerInfo |-> <<[DeviceID |-> 3, SubjectID |-> 1, SegmentID |-> 1,
         LocalTranslation |-> <<0, 1, 0>>, LocalRotation |-> Rotation(2)]>> ]

Scenes == [n \in FirstFrame..(FirstFrame + MaxFrames) |-> Dynamic(n) @@ Static(n)]
MCScene(n) == Scenes[n]

------------------------------------------------------------------------------
AllTypes == Types
OldTypes == Types \ {"LightweightSegments", "SubjectScale", "GreyscaleSubsampledBlobs"}
MCServerVersions == {AllTypes, OldTypes}
On(group) == [group |-> group, enabled |-> TRUE]
Off(group) == [group |-> group, enabled |-> FALSE]
MCConfigurations ==
    { BridgeConfiguration \o <<On("UnlabeledMarker"), On("MarkerRay"), On("Device")>>,
      <<On("Centroid"), On("Greyscale"), On("CameraCalibration"), On("Video"), On("Debug"),
        On("CameraWand2d")>>,
      RetimingConfiguration,
      <<Off("Greyscale"), Off("Segment"), Off("LightweightSegment")>> }
MCAxisChoices == {<<"Up", "Left", "Backward">>, <<"Left", "Forward", "Up">>}
MCCameraFilters == {<<{1}, {2}, {}>>}
NoSkew == [kind |-> "none", type |-> "none", last |-> FALSE]
Skew(kind, type, last) == [kind |-> kind, type |-> type, last |-> last]
MCSkews ==
    { NoSkew, Skew("newer", "SubjectInfo", FALSE),
      Skew("older", "Timecode", FALSE), Skew("older", "Timecode", TRUE) }
==============================================================================
