---------------------------- MODULE CGStreamTypes ----------------------------
(***************************************************************************)
(* The objects of the Vicon stream: for every class of ViconCGStream, the  *)
(* fields its Read and Write functions exchange with a buffer, in their    *)
(* order.  A layout is a sequence of fields, a field a name and a type; a  *)
(* type is a plain value, a text, a fixed array, a list, a set or a map,   *)
(* or an object with a layout of its own.                                  *)
(***************************************************************************)
EXTENDS Integers, Sequences

Pod == [kind |-> "pod"]
Str == [kind |-> "str"]
ArrayOf(n) == [kind |-> "array", size |-> n]
ListOf(t) == [kind |-> "list", of |-> t]
SetOf(t) == [kind |-> "set", of |-> t]
MapOf(k, t) == [kind |-> "map", key |-> k, of |-> t]
Object(layout) == [kind |-> "object", fields |-> layout]

Field(name, t) == <<[name |-> name, type |-> t]>>
EachOf(names, t) == [i \in DOMAIN names |-> [name |-> names[i], type |-> t]]
Pods(names) == EachOf(names, Pod)
Strs(names) == EachOf(names, Str)
Array(name, n) == Field(name, ArrayOf(n))
PodVector(name) == Field(name, ListOf(Pod))
StrVector(name) == Field(name, ListOf(Str))
Vector(name, layout) == Field(name, ListOf(Object(layout)))
PodSet(name) == Field(name, SetOf(Pod))
Map(name, k, t) == Field(name, MapOf(k, t))

------------------------------------------------------------------------------
(* What the client and the server say to each other about the stream *)

VContents == Map("EnumsTable", Pod, Pod) \o PodSet("EnumsUnchanged")
VObjectEnums == PodSet("Enums")
VRequestFrame == Pods(<<"bStreaming">>)
VRequestNextFrame == Pods(<<"bNumber">>)
VFilter == Map("FilterMap", Pod, SetOf(Pod))
VPing == Pods(<<"PingID">>)
VApexHaptics == PodSet("OnDevicesList")
VKeepAlive == << >>
VStartMulticastSender == Pods(<<"MulticastIpAddress", "SourceIpAddress", "Port">>)
VStopMulticastSender == << >>
------------------------------------------------------------------------------
(* The frame *)

VApplicationInfo == Pods(<<"AxisOrientation">>)
VStreamInfo == Pods(<<"FramePeriod">>)
VFrameInfo == Pods(<<"FrameID">>)
VHardwareFrameInfo == Pods(<<"HardwareFrame">>)
VTimecode ==
    Pods(<<"Hours", "Minutes", "Seconds", "Frames", "Subframes", "SubframesPerFrame",
    "Standard", "UserBits", "FieldFlag">>)
VLatencyInfo_Sample == Strs(<<"Name">>) \o Pods(<<"Latency">>)
VLatencyInfo == Vector("Samples", VLatencyInfo_Sample)
VFrameRateInfo == Map("FrameRates", Str, Pod)
------------------------------------------------------------------------------
(* Subjects: what they are made of, and where their segments are *)

VSubjectInfo_Segment ==
    Pods(<<"ParentID", "SegmentID">>) \o Array("Bounds", 6) \o Strs(<<"Name">>)
VSubjectInfo_Marker == Pods(<<"MarkerID">>) \o Strs(<<"Name">>)
VSubjectInfo_Attachment == Pods(<<"MarkerID", "SegmentID">>)
VSubjectInfo ==
    Pods(<<"SubjectID">>) \o Strs(<<"Name">>) \o
    Vector("Segments", VSubjectInfo_Segment) \o
    Vector("Markers", VSubjectInfo_Marker) \o
    Vector("Attachments", VSubjectInfo_Attachment)
VSubjectTopology_Segment ==
    Pods(<<"SegmentID">>) \o Array("Translation", 3) \o Array("Rotation", 9)
VSubjectTopology ==
    Pods(<<"SubjectID">>) \o Vector("Segments", VSubjectTopology_Segment)
VSubjectScale_Segment == Pods(<<"SegmentID">>) \o Array("Scale", 3)
VSubjectScale == Pods(<<"SubjectID">>) \o Vector("Segments", VSubjectScale_Segment)
VSubjectHealth == Pods(<<"SubjectID", "MarkerError", "SubjectHealth">>)
VObjectQuality == Pods(<<"SubjectID", "ObjectQuality">>)
VGlobalSegments_Segment ==
    Pods(<<"SegmentID">>) \o Array("Translation", 3) \o Array("Rotation", 9)
VGlobalSegments == Pods(<<"SubjectID">>) \o Vector("Segments", VGlobalSegments_Segment)
VLocalSegments_Segment ==
    Pods(<<"SegmentID">>) \o Array("Translation", 3) \o Array("Rotation", 9)
VLocalSegments == Pods(<<"SubjectID">>) \o Vector("Segments", VLocalSegments_Segment)
VLightweightSegments_Segment ==
    Pods(<<"SegmentID">>) \o Array("Translation", 3) \o Array("Rotation", 3)
VLightweightSegments ==
    Pods(<<"SubjectID">>) \o Vector("Segments", VLightweightSegments_Segment)
------------------------------------------------------------------------------
(* Reconstructed markers *)

VLabeledRecons_LabeledRecon ==
    Pods(<<"SubjectID", "MarkerID", "Radius">>) \o Array("Position", 3) \o
    Array("Covariance", 9) \o Pods(<<"TrajectoryId">>)
VLabeledRecons == Vector("LabeledRecons", VLabeledRecons_LabeledRecon)
VUnlabeledRecons_UnlabeledRecon ==
    Pods(<<"Radius">>) \o Array("Position", 3) \o Array("Covariance", 9) \o
    Pods(<<"TrajectoryId">>)
VUnlabeledRecons == Vector("UnlabeledRecons", VUnlabeledRecons_UnlabeledRecon)
VReconRay == Pods(<<"FrameID", "CameraID", "CentroidIndex">>)
VReconRayAssignments ==
    Pods(<<"SubjectID", "MarkerID">>) \o Vector("ReconRays", VReconRay)
VLabeledReconRayAssignments == Vector("ReconRayAssignments", VReconRayAssignments)
VUnlabeledReconRayAssignments == Vector("ReconRayAssignments", VReconRayAssignments)
------------------------------------------------------------------------------
(* Devices, force plates and eye trackers *)

VDeviceInfo == Pods(<<"DeviceID", "FramePeriod">>) \o Strs(<<"Name">>)
VDeviceInfoExtra == Pods(<<"DeviceID", "FrameStartTick">>)
VChannelInfo ==
    Pods(<<"DeviceID", "ChannelID">>) \o Strs(<<"Name">>) \o StrVector("ComponentNames")
VChannelInfoExtra == Pods(<<"DeviceID", "ChannelID">>) \o Strs(<<"Unit", "Type">>)
VForcePlateInfo ==
    Pods(<<"DeviceID">>) \o Array("WorldTranslation", 3) \o
    Array("WorldRotation", 9) \o Array("Bounds", 6) \o Array("LocalTranslation", 3) \o
    Array("LocalRotation", 9)
VForceFrame == Pods(<<"FrameID", "DeviceID", "ChannelID">>) \o PodVector("Samples")
VMomentFrame == Pods(<<"FrameID", "DeviceID", "ChannelID">>) \o PodVector("Samples")
VCentreOfPressureFrame ==
    Pods(<<"FrameID", "DeviceID", "ChannelID">>) \o PodVector("Samples")
VVoltageFrame == Pods(<<"FrameID", "DeviceID", "ChannelID">>) \o PodVector("Samples")
VEyeTrackerInfo ==
    Pods(<<"DeviceID", "SubjectID", "SegmentID">>) \o Array("LocalTranslation", 3) \o
    Array("LocalRotation", 9)
VEyeTrackerFrame == Pods(<<"FrameID", "DeviceID">>) \o Array("GazeVector", 3)
------------------------------------------------------------------------------
(* Cameras *)

VCameraInfo ==
    Pods(<<"CameraID", "FramePeriod">>) \o Strs(<<"Type", "DisplayType", "Name">>) \o
    Pods(<<"ResolutionX", "ResolutionY", "AspectRatio", "CircularityThreshold",
    "bCentroidTracking", "bIsVideoCamera", "UserID", "MarkerVelocity">>)
VCameraSensorInfo ==
    Pods(<<"CameraID">>) \o Strs(<<"SensorMode">>) \o Pods(<<"WindowOffsetX",
    "WindowOffsetY", "WindowWidth", "WindowHeight", "Future1", "Future2", "Future3",
    "Future4">>)
VCameraTimingInfo == Pods(<<"CameraID", "FramePeriod", "FrameOffset">>)
VCameraCalibrationInfo ==
    Pods(<<"CameraID">>) \o Array("PoseTranslation", 3) \o Array("PoseRotation", 9) \o
    Array("PrincipalPoint", 2) \o Array("RadialDistortion", 3) \o
    Pods(<<"FocalLength", "Skew", "ImageError">>)
VDynamicCameraCalibrationInfo == VCameraCalibrationInfo
VCameraCalibrationHealth_Camera ==
    Pods(<<"DeviceID", "ReconUsage", "AverageReprojectionError", "NReconsInFrustrum",
    "NReprojections", "UnusedCentroids">>)
VCameraCalibrationHealth ==
    Pods(<<"SystemHealth">>) \o Vector("Cameras", VCameraCalibrationHealth_Camera)
VCentroids_Centroid == Array("Position", 2) \o Pods(<<"Radius", "Accuracy">>)
VCentroids ==
    Pods(<<"FrameID", "CameraID">>) \o Vector("Centroids", VCentroids_Centroid)
VCentroidTracks_CentroidTrack ==
    Pods(<<"CentroidIndex", "TrackId", "TrackLength", "TrackQuality">>)
VCentroidTracks ==
    Pods(<<"FrameID", "CameraID">>) \o
    Vector("CentroidTracks", VCentroidTracks_CentroidTrack)
VCentroidWeights == Pods(<<"FrameID", "CameraID">>) \o PodVector("Weights")
VGreyscaleBlobs_GreyscaleLine == PodVector("Greyscale") \o Array("Position", 2)
VGreyscaleBlobs_GreyscaleBlob == Vector("GreyscaleLines", VGreyscaleBlobs_GreyscaleLine)
VGreyscaleBlobs ==
    Pods(<<"FrameID", "CameraID">>) \o
    Vector("GreyscaleBlobs", VGreyscaleBlobs_GreyscaleBlob)
VGreyscaleSubsampledBlobs ==
    Pods(<<"FrameID", "CameraID", "TwiceOffsetX", "TwiceOffsetY",
    "SensorPixelsPerImagePixelX", "SensorPixelsPerImagePixelY">>) \o
    Vector("GreyscaleBlobs", VGreyscaleBlobs_GreyscaleBlob)
VEdgePairs_EdgePair == Array("Position", 2) \o Pods(<<"Length">>)
VEdgePairs ==
    Pods(<<"FrameID", "CameraID">>) \o Vector("EdgePairs", VEdgePairs_EdgePair)
VCameraWand2d_Point == Array("Position", 2)
VCameraWand2d ==
    Pods(<<"CameraID", "WaveSession">>) \o Vector("WandPoints", VCameraWand2d_Point) \o
    Pods(<<"CamerasWithWand", "bMoving">>)
VCameraWand3d_Point == Array("Position", 3)
VCameraWand3d ==
    Pods(<<"WaveSession">>) \o Vector("WandPoints", VCameraWand3d_Point) \o
    Pods(<<"CamerasWithWand", "bMoving">>)
VVideoFrame ==
    Pods(<<"FrameID", "CameraID">>) \o Array("Position", 2) \o
    Pods(<<"Width", "Height", "Format">>) \o PodVector("VideoData")

------------------------------------------------------------------------------
(* Every class that travels as a block of its own: its layout, and the field  *)
(* a filter selects it by (absent where FilterID is FILTER_NA)                *)

Layout ==
    [ Contents |-> VContents, ObjectEnums |-> VObjectEnums,
      RequestFrame |-> VRequestFrame, RequestNextFrame |-> VRequestNextFrame,
      Filter |-> VFilter, Ping |-> VPing, ApexHaptics |-> VApexHaptics,
      KeepAlive |-> VKeepAlive, StartMulticastSender |-> VStartMulticastSender,
      StopMulticastSender |-> VStopMulticastSender, ApplicationInfo |-> VApplicationInfo,
      StreamInfo |-> VStreamInfo, FrameInfo |-> VFrameInfo,
      HardwareFrameInfo |-> VHardwareFrameInfo, Timecode |-> VTimecode,
      LatencyInfo |-> VLatencyInfo, FrameRateInfo |-> VFrameRateInfo,
      SubjectInfo |-> VSubjectInfo, SubjectTopology |-> VSubjectTopology,
      SubjectScale |-> VSubjectScale, SubjectHealth |-> VSubjectHealth,
      ObjectQuality |-> VObjectQuality, GlobalSegments |-> VGlobalSegments,
      LocalSegments |-> VLocalSegments, LightweightSegments |-> VLightweightSegments,
      LabeledRecons |-> VLabeledRecons, UnlabeledRecons |-> VUnlabeledRecons,
      LabeledReconRayAssignments |-> VLabeledReconRayAssignments,
      UnlabeledReconRayAssignments |-> VUnlabeledReconRayAssignments,
      DeviceInfo |-> VDeviceInfo, DeviceInfoExtra |-> VDeviceInfoExtra,
      ChannelInfo |-> VChannelInfo, ChannelInfoExtra |-> VChannelInfoExtra,
      ForcePlateInfo |-> VForcePlateInfo, ForceFrame |-> VForceFrame,
      MomentFrame |-> VMomentFrame, CentreOfPressureFrame |-> VCentreOfPressureFrame,
      VoltageFrame |-> VVoltageFrame, EyeTrackerInfo |-> VEyeTrackerInfo,
      EyeTrackerFrame |-> VEyeTrackerFrame, CameraInfo |-> VCameraInfo,
      CameraSensorInfo |-> VCameraSensorInfo, CameraTimingInfo |-> VCameraTimingInfo,
      CameraCalibrationInfo |-> VCameraCalibrationInfo,
      DynamicCameraCalibrationInfo |-> VDynamicCameraCalibrationInfo,
      CameraCalibrationHealth |-> VCameraCalibrationHealth, Centroids |-> VCentroids,
      CentroidTracks |-> VCentroidTracks, CentroidWeights |-> VCentroidWeights,
      GreyscaleBlobs |-> VGreyscaleBlobs,
      GreyscaleSubsampledBlobs |-> VGreyscaleSubsampledBlobs, EdgePairs |-> VEdgePairs,
      CameraWand2d |-> VCameraWand2d, CameraWand3d |-> VCameraWand3d,
      VideoFrame |-> VVideoFrame]

Types == DOMAIN Layout

OfSubject == {"SubjectInfo", "SubjectTopology", "SubjectScale", "SubjectHealth",
              "ObjectQuality", "GlobalSegments", "LocalSegments",
              "LightweightSegments"}
OfDevice == {"DeviceInfo", "DeviceInfoExtra", "ChannelInfo", "ChannelInfoExtra",
             "ForcePlateInfo", "ForceFrame", "MomentFrame",
             "CentreOfPressureFrame", "VoltageFrame", "EyeTrackerInfo",
             "EyeTrackerFrame"}
OfCamera == {"CameraInfo", "CameraSensorInfo", "CameraTimingInfo",
             "CameraCalibrationInfo", "DynamicCameraCalibrationInfo", "Centroids",
             "CentroidTracks", "CentroidWeights", "GreyscaleBlobs",
             "GreyscaleSubsampledBlobs", "EdgePairs", "CameraWand2d", "VideoFrame"}

FILTER_NA == -1
FilterID(type, item) ==
    CASE type \in OfSubject      -> item.SubjectID
      [] type \in OfDevice       -> item.DeviceID
      [] type \in OfCamera       -> item.CameraID
      [] type = "CameraWand3d"   -> item.WaveSession
      [] OTHER                   -> FILTER_NA
==============================================================================
