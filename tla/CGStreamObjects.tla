--------------------------- MODULE CGStreamObjects ---------------------------
(***************************************************************************)
(* The objects of a frame, decoded: a function from the stream's types to  *)
(* the sequences of the objects a frame has of each.  The static ones come *)
(* only when they change; a packet is completed from the one before it.    *)
(***************************************************************************)
EXTENDS CGStreamTypes, SequencesExt, FiniteSetsExt, Functions

\* A set or a map is written in the one order it is kept in.
InOrder(S) == FoldSet(LAMBDA e, seq : Append(seq, e), << >>, S)

------------------------------------------------------------------------------
\* What VStaticObjects and VDynamicObjects hold, and which of it CopyObjects
\* takes over from the packet before.
StaticTypes ==
    {"StreamInfo", "ApplicationInfo", "SubjectInfo", "SubjectTopology",
     "SubjectScale", "SubjectHealth", "ObjectQuality", "CameraInfo",
     "CameraSensorInfo", "CameraCalibrationInfo", "CameraCalibrationHealth",
     "DeviceInfo", "DeviceInfoExtra", "ChannelInfo", "ChannelInfoExtra",
     "ForcePlateInfo", "EyeTrackerInfo"}
DynamicTypes ==
    {"FrameInfo", "HardwareFrameInfo", "Timecode", "LatencyInfo", "Centroids",
     "CentroidTracks", "CentroidWeights", "VideoFrame", "LabeledRecons",
     "UnlabeledRecons", "LabeledReconRayAssignments", "GlobalSegments",
     "LocalSegments", "LightweightSegments", "GreyscaleBlobs",
     "GreyscaleSubsampledBlobs", "EdgePairs", "ForceFrame", "MomentFrame",
     "CentreOfPressureFrame", "VoltageFrame", "CameraWand2d", "CameraWand3d",
     "EyeTrackerFrame", "FrameRateInfo", "DynamicCameraCalibrationInfo"}
ObjectTypes == StaticTypes \cup DynamicTypes

\* Mutant of CopiedStaticTypes: CopyObjects lacks a case.
CopiedWithoutScale == StaticTypes \ {"SubjectScale"}
CopiedStaticTypes == StaticTypes
CopiedDynamicTypes ==
    DynamicTypes \ {"CentroidTracks", "ForceFrame", "MomentFrame",
                    "CentreOfPressureFrame", "VoltageFrame"}

\* The types of which a packet carries one object, and a later one replaces it.
SingleTypes ==
    {"StreamInfo", "ApplicationInfo", "CameraCalibrationHealth", "FrameInfo",
     "HardwareFrameInfo", "Timecode", "LatencyInfo", "LabeledRecons",
     "UnlabeledRecons", "LabeledReconRayAssignments", "FrameRateInfo"}

NoObjects(types) == [t \in types |-> << >>]
AddObject(objects, type, item) ==
    [objects EXCEPT ![type] = IF type \in SingleTypes THEN <<item>> ELSE Append(@, item)]

\* What the server announced as unchanged is taken from the packet before,
\* over anything this packet brought.
CopyObjects(contents, copied, last, now) ==
    [t \in DOMAIN now |->
       IF t \in copied /\ contents # << >> /\ t \in contents[1].EnumsUnchanged
       THEN last[t] ELSE now[t]]

\* A packet's objects of one kind, if it brought any, completed by those before.
Completed(read, types, copied, before) ==
    IF read.seen \cap types = {} THEN << >>
    ELSE LET now == Restrict(read.objects, types)
         IN  IF before = << >> THEN <<now>>
             ELSE <<CopyObjects(read.contents, copied, before[1], now)>>

\* The frame VCGClient::ReadFramePair makes of the static objects that came
\* last, if any did, and of this packet's dynamic ones.
ReadFramePair(static, dynamic) ==
    [t \in ObjectTypes |-> IF t \in DynamicTypes THEN dynamic[1][t]
                           ELSE IF static = << >> THEN << >> ELSE static[1][t]]

------------------------------------------------------------------------------
(* What is expected of a packet: an assumption about servers                  *)

NoFrameYet == NoObjects(ObjectTypes)
NoLink == [static |-> << >>, dynamic |-> << >>]

\* These are sent with every frame, for none of them would be completed.
AlwaysSent ==
    {"CentroidTracks", "ForceFrame", "MomentFrame", "CentreOfPressureFrame", "VoltageFrame"}

\* Of a packet: the objects it was meant to say, the types it left out as unchanged,
\* those an older server garbled, and what was read; and of the frame made of it, the
\* types that are garbled, and those it has still though the server has none any more.
NoPacket == [wanted |-> NoFrameYet, elided |-> {}, older |-> {}, read |-> NoFrameYet,
             garbled |-> {}, lapsed |-> {}]

\* The types whose objects are those of before: the ones left out, and all static
\* ones when none came.
Kept(link, elided, read) ==
    elided \cup (IF link.static = << >> \/ \E t \in StaticTypes : read[t] # << >> THEN {}
                 ELSE StaticTypes)
PacketRead(last, link, wanted, elided, older, read) ==
    LET kept == Kept(link, elided, read)
    IN  [wanted |-> wanted, elided |-> elided, older |-> older, read |-> read,
         garbled |-> older \cup (last.garbled \cap kept),
         lapsed |-> {t \in StaticTypes \cap kept :
                       wanted[t] = << >> /\ (t \in elided => t \in last.lapsed)}]
==============================================================================
