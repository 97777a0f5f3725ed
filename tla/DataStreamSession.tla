------------------------- MODULE DataStreamSession -------------------------
(***************************************************************************)
(* One caller's session with the DataStream client: it connects, switches  *)
(* groups of data on and off, filters subjects and cameras, maps the axes, *)
(* and fetches frames.  The packets are encoded by a server, an assumption *)
(* of the model, and decoded as the client does.                           *)
(*                                                                         *)
(* The calls run to their end one after another; the client's thread, the  *)
(* second route and the queue of frames are those of CGStreamRoutes.       *)
(***************************************************************************)
EXTENDS ClientAnswers, ClientSegments, CGStreamBuffer

CONSTANTS
    Scene(_),        \* what the server has to send about its frame of a number
    FirstFrame,
    MaxFrames,       \* bound: how many frames a behaviour fetches
    MaxCalls,        \* bound: how many calls other than GetFrame it makes
    ServerVersions,  \* the sets of types a server may know
    Configurations,  \* sequences of [group, enabled]: calls made in one step
    AxisChoices,     \* the axes the caller asks for
    SubjectNames, HapticDevices, CameraFilters,
    Skews            \* how a packet may differ from what this client reads

VARIABLES
    asked,    \* what its CGClient asks for, and which of it is not yet written
    server,   \* what the server knows, was told, and sent last
    link,     \* the objects the connection decoded last
    number,   \* the server's frame
    skewed,   \* whether a packet differed, and its bound: it is only one
    calls

vars == <<client, asked, server, link, number, packet, skewed, calls>>

NoFilter == << >>
NothingAsked ==
    [types |-> {}, filter |-> NoFilter, haptic |-> {}, controller |-> FALSE, changed |-> {}]

------------------------------------------------------------------------------
(* Requests                                                                   *)

DefaultRequests ==
    {"Contents", "StreamInfo", "SubjectInfo", "FrameInfo", "Timecode", "LatencyInfo",
     "ApplicationInfo", "SubjectHealth", "ObjectQuality", "FrameRateInfo"}

\* The groups whose two calls, Enable and Disable, only ask for types or not.
GroupTypes ==
    [ Marker            |-> {"LabeledRecons"},
      UnlabeledMarker   |-> {"UnlabeledRecons"},
      MarkerRay         |-> {"LabeledReconRayAssignments"},
      Device            |-> {"DeviceInfo", "DeviceInfoExtra", "ChannelInfo",
                             "ChannelInfoExtra", "ForcePlateInfo", "EyeTrackerInfo",
                             "ForceFrame", "MomentFrame", "CentreOfPressureFrame",
                             "VoltageFrame", "EyeTrackerFrame"},
      Centroid          |-> {"CameraInfo", "CameraSensorInfo", "Centroids",
                             "CentroidWeights"},
      Greyscale         |-> {"CameraInfo", "CameraSensorInfo", "GreyscaleBlobs",
                             "GreyscaleSubsampledBlobs"},
      Debug             |-> {"HardwareFrameInfo"},
      CameraWand2d      |-> {"CameraInfo", "CameraSensorInfo", "CameraWand2d"},
      CameraCalibration |-> {"CameraInfo", "CameraCalibrationInfo",
                             "DynamicCameraCalibrationInfo"},
      Video             |-> {"CameraInfo", "CameraSensorInfo", "VideoFrame"} ]
Groups == DOMAIN GroupTypes \cup {"Segment", "LightweightSegment"}

\* The caller's side of the session, on which the calls below work.
Side == [client |-> client, asked |-> asked]

\* Until the server's types have arrived, every type passes for supported.
ObjectIsSupported(type) == server.told = {} \/ type \in server.types

SetRequestTypes(side, types, enabled) ==
    IF enabled
    THEN LET known == {t \in types : ObjectIsSupported(t)}
         IN  [side EXCEPT !.asked.types = @ \cup known,
                          !.asked.changed = IF known = {} THEN @ ELSE @ \cup {"enums"}]
    ELSE [side EXCEPT !.asked.types = @ \ types, !.asked.changed = @ \cup {"enums"}]

Flag(side, group, enabled) ==
    [side EXCEPT !.client.on = IF enabled THEN @ \cup {group} ELSE @ \ {group}]

\* The scale's flag is whether the request was taken, even one to disable it.
SetSegmentDataEnabled(side, enabled) ==
    LET scaled == Flag(SetRequestTypes(side, {"LocalSegments", "GlobalSegments",
                                              "SubjectTopology", "SubjectScale"}, enabled),
                       "SubjectScale", ~enabled \/ ObjectIsSupported("SubjectScale"))
    IN  Flag(IF enabled THEN SetRequestTypes(scaled, {"LightweightSegments"}, FALSE) ELSE scaled,
             "Segment", enabled)

SetGroup(side, group, enabled) ==
    Flag(SetRequestTypes(side, GroupTypes[group], enabled), group, enabled)

\* The groups switched off for lightweight segments; camera calibration stays.
SetLightweightSegmentDataEnabled(side, enabled) ==
    LET without == FoldLeft(LAMBDA s, g : SetGroup(s, g, FALSE),
                     SetSegmentDataEnabled(side, FALSE),
                     InOrder(DOMAIN GroupTypes \ {"CameraCalibration"}))
        lighter == SetRequestTypes(IF enabled THEN without ELSE side,
                                   {"LightweightSegments"}, enabled)
    IN  IF enabled /\ ~ObjectIsSupported("LightweightSegments") THEN side
        ELSE Flag(SetRequestTypes(lighter, {"SubjectTopology", "SubjectScale"}, enabled),
                  "LightweightSegment", enabled)

SetEnabled(side, call) ==
    CASE call.group = "Segment" -> SetSegmentDataEnabled(side, call.enabled)
      [] call.group = "LightweightSegment" ->
           SetLightweightSegmentDataEnabled(side, call.enabled)
      [] OTHER -> SetGroup(side, call.group, call.enabled)

\* The calls init_vicon of the node vicon_bridge makes, and of vicon_bridge_retiming. The
\* first asks for lightweight segments and takes it back with the next call.
BridgeConfiguration ==
    <<[group |-> "LightweightSegment", enabled |-> TRUE],
      [group |-> "Segment", enabled |-> TRUE], [group |-> "Marker", enabled |-> TRUE]>>
RetimingConfiguration == <<[group |-> "LightweightSegment", enabled |-> TRUE]>>

------------------------------------------------------------------------------
(* Filters: a function from the types filtered to the identifiers let through *)

FilterAdd(filter, type, ids) ==
    (type :> (ids \cup (IF type \in DOMAIN filter THEN filter[type] ELSE {}))) @@ filter
FilterClear(filter, types) == Restrict(filter, DOMAIN filter \ types)
Allow(filter, type, item) ==
    type \in DOMAIN filter => FilterID(type, item) \in filter[type]

SetFilter(filter) ==
    /\ client' = [client EXCEPT !.filter = filter]
    /\ asked' = [asked EXCEPT !.filter = filter, !.changed = @ \cup {"filter"}]

------------------------------------------------------------------------------
(* The server: what it was told to send of its scene, without the types it    *)
(* announces as unchanged                                                     *)

WantedOf(t) == IF t \in server.told
               THEN SelectSeq(Scene(number)[t], LAMBDA o : Allow(server.filter, t, o))
               ELSE << >>
Wanted == [t \in ObjectTypes |-> WantedOf(t)]
Unchanged == {t \in (server.told \cap ObjectTypes) \ AlwaysSent :
                server.sent # << >> /\ server.sent[1][t] = WantedOf(t)}

\* A newer server's objects end in fields this client does not know, and it has
\* objects the client has never heard of; an older one's lack fields it knows.
SkewedItem(type, item, skew) ==
    LET cells == Write(Object(Layout[type]), item)
    IN  Block(type, CASE skew.type # type     -> cells
                      [] skew.kind = "newer"  -> cells \o <<"unknown", "unknown">>
                      [] skew.kind = "older"  -> Front(cells))
Packet(elided, skew) ==
    LET sent   == (server.told \cap ObjectTypes) \ elided
        order  == InOrder(sent \ {skew.type})
                    \o (IF skew.type \in sent THEN <<skew.type>> ELSE << >>)
        Of(t)  == LET items == WantedOf(t)
                  IN  FlattenSeq([i \in DOMAIN items |-> SkewedItem(t, items[i], skew)])
        last   == IF skew.last THEN order ELSE Reverse(order)
        other  == IF skew.kind = "newer" THEN Block("Unknown", <<"unknown">>) ELSE << >>
    IN  Block("Objects",
              WriteItem("Contents", [EnumsTable |-> << >>, EnumsUnchanged |-> elided])
                \o other \o FlattenSeq([i \in DOMAIN last |-> Of(last[i])]))

------------------------------------------------------------------------------
(* The client's thread decodes it                                             *)

\* What comes of a packet: the objects the connection holds after it.
Received(elided, skew) ==
    LET read   == ReadObjects(Packet(elided, skew))
        static == Completed(read, StaticTypes, CopiedStaticTypes, link.static)
    IN  IF ~read.ok THEN [ok |-> FALSE]
        ELSE [ok |-> TRUE, elided |-> elided, skew |-> skew, objects |-> read.objects,
              static |-> IF static = << >> THEN link.static ELSE static,
              dynamic |-> Completed(read, DynamicTypes, CopiedDynamicTypes, link.dynamic)]

------------------------------------------------------------------------------
Init ==
    /\ client = [connected |-> FALSE, frame |-> NoFrameYet, cached |-> NoFrameYet,
                 axes |-> ZUpAxes, on |-> {}, filter |-> NoFilter]
    /\ asked = NothingAsked
    /\ \E types \in ServerVersions :
         server = [types |-> types, told |-> {}, filter |-> NoFilter, sent |-> << >>,
                   haptic |-> {}, multicast |-> FALSE]
    /\ link = NoLink
    /\ number = FirstFrame
    /\ packet = NoPacket
    /\ skewed = FALSE
    /\ calls = 0

Call == calls < MaxCalls /\ calls' = calls + 1

\* Mutant of Connect: the objects the connection before decoded last stay.
ConnectKeepingLink ==
    /\ ~client.connected
    /\ Call
    /\ client' = [client EXCEPT !.connected = TRUE]
    /\ asked' = [NothingAsked EXCEPT !.types = DefaultRequests, !.changed = {"enums"}]
    /\ server' = [server EXCEPT !.told = {}, !.filter = NoFilter, !.sent = << >>,
                                     !.haptic = {}]
    /\ UNCHANGED <<link, number, packet, skewed>>

\* Every Connect brings a client of its own, which is told neither the groups
\* that are on nor the filter.
Connect ==
    /\ ~client.connected
    /\ Call
    /\ client' = [client EXCEPT !.connected = TRUE]
    /\ asked' = [NothingAsked EXCEPT !.types = DefaultRequests, !.changed = {"enums"}]
    /\ server' = [server EXCEPT !.told = {}, !.filter = NoFilter, !.sent = << >>,
                                     !.haptic = {}]
    /\ link' = NoLink
    /\ UNCHANGED <<number, packet, skewed>>

\* Nothing but the client is dropped: the frames, the groups and the filter stay.
Disconnect ==
    /\ client.connected
    /\ Call
    /\ client' = [client EXCEPT !.connected = FALSE]
    /\ UNCHANGED <<asked, server, link, number, packet, skewed>>

Configure ==
    /\ client.connected
    /\ Call
    /\ \E configuration \in Configurations :
         LET done == FoldLeft(SetEnabled, Side, configuration)
         IN  client' = done.client /\ asked' = done.asked
    /\ UNCHANGED <<server, link, number, packet, skewed>>

SetAxisMapping ==
    /\ Call
    /\ \E axes \in AxisChoices :
         client' = [client EXCEPT !.axes = IF AxisMappingResult(axes) = "Success" THEN axes
                                           ELSE @]
    /\ UNCHANGED <<asked, server, link, number, packet, skewed>>

AddToSubjectFilter ==
    /\ Call
    /\ \E name \in SubjectNames :
         LET subject == GetSubjectInfo(client, name)
         IN  /\ subject.result = "Success"
             /\ SetFilter(FoldLeft(LAMBDA f, t : FilterAdd(f, t, {subject.v.SubjectID}),
                                   client.filter,
                                   <<"GlobalSegments", "LocalSegments",
                                     "LightweightSegments", "ObjectQuality">>))
    /\ UNCHANGED <<server, link, number, packet, skewed>>

\* Object qualities stay filtered.
ClearSubjectFilter ==
    /\ client.connected
    /\ Call
    /\ SetFilter(FilterClear(client.filter,
                   {"SubjectInfo", "GlobalSegments", "LocalSegments",
                    "LightweightSegments", "SubjectScale", "SubjectTopology"}))
    /\ UNCHANGED <<server, link, number, packet, skewed>>

\* An identifier no camera has makes an empty selection let nothing through.
SetCameraFilter ==
    /\ client.connected
    /\ Call
    /\ \E ids \in CameraFilters :
         LET filtered == <<"Centroids", "GreyscaleBlobs", "VideoFrame">>
         IN  SetFilter(FoldLeft(LAMBDA f, i : FilterAdd(f, filtered[i], ids[i] \cup {-1}),
                                FilterClear(client.filter, ToSet(filtered)), <<1, 2, 3>>))
    /\ UNCHANGED <<server, link, number, packet, skewed>>

\* A device that already is as it should be is HapticAlreadySet.
SetApexDeviceFeedback ==
    /\ client.connected
    /\ Call
    /\ \E name \in HapticDevices, on \in BOOLEAN :
         LET device == GetDeviceID(client, name)
         IN  /\ device.result = "Success"
             /\ (device.v \in asked.haptic) # on
             /\ asked' = [asked EXCEPT !.haptic = IF on THEN @ \cup {device.v} ELSE @ \ {device.v},
                                       !.changed = @ \cup {"haptic"}]
    /\ UNCHANGED <<client, server, link, number, packet, skewed>>

\* The server is told at once. Only the client that started it may stop it.
StartTransmittingMulticast ==
    /\ client.connected /\ ~asked.controller
    /\ Call
    /\ asked' = [asked EXCEPT !.controller = TRUE]
    /\ server' = [server EXCEPT !.multicast = TRUE]
    /\ UNCHANGED <<client, link, number, packet, skewed>>
StopTransmittingMulticast ==
    /\ client.connected /\ asked.controller
    /\ Call
    /\ asked' = [asked EXCEPT !.controller = FALSE]
    /\ server' = [server EXCEPT !.multicast = FALSE]
    /\ UNCHANGED <<client, link, number, packet, skewed>>

\* The contents are asked for whatever else is.
RequiredObjects == asked.types \cup {"Contents"}
Intersect(types, required) == types \cap required

\* A changed filter alone is not written.
WriteObjects ==
    /\ client.connected
    /\ asked.changed \cap {"enums", "haptic", "ping"} # {}
    /\ server' = [server EXCEPT
                    !.told = IF "enums" \in asked.changed
                             THEN Intersect(server.types, RequiredObjects) ELSE @,
                    !.haptic = IF "haptic" \in asked.changed THEN asked.haptic ELSE @,
                    !.filter = IF "filter" \in asked.changed THEN asked.filter ELSE @]
    /\ asked' = [asked EXCEPT !.changed = {}]
    /\ UNCHANGED <<client, link, number, packet, skewed, calls>>

\* The type of which an older server sent objects, if it sent any.
Garbles(received) ==
    IF received.skew.kind = "older" /\ WantedOf(received.skew.type) # << >>
    THEN {received.skew.type} \ received.elided ELSE {}

\* The session takes a frame: the one the connection completed, with the poses
\* the client computes itself, and a ping goes out.
Dispatch(received) ==
    LET cached == ReadFramePair(received.static, received.dynamic) IN
    /\ link' = [static |-> received.static, dynamic |-> received.dynamic]
    /\ client' = [client EXCEPT !.cached = cached,
                   !.frame = CalculateGlobalsFromLocals([client EXCEPT !.frame = cached])]
    /\ asked' = [asked EXCEPT !.changed = @ \cup {"ping"}]
    /\ packet' = PacketRead(packet, link, Wanted, received.elided, Garbles(received),
                            received.objects)
    /\ skewed' = (skewed \/ received.skew.kind # "none")

\* A packet that cannot be read ends the connection's thread.
Drop ==
    /\ client' = [client EXCEPT !.connected = FALSE]
    /\ skewed' = TRUE
    /\ UNCHANGED <<link, asked, packet>>

GetFrame ==
    /\ client.connected /\ server.told # {}
    /\ number < FirstFrame + MaxFrames
    /\ number' = number + 1
    /\ server' = [server EXCEPT !.sent = <<Wanted>>]
    /\ \E elided \in {{}, Unchanged}, skew \in {k \in Skews : skewed => k.kind = "none"} :
         \E received \in {Received(elided, skew)} :
           IF received.ok THEN Dispatch(received) ELSE Drop
    /\ UNCHANGED calls

Next == \/ Connect \/ Disconnect \/ Configure \/ SetAxisMapping
        \/ AddToSubjectFilter \/ ClearSubjectFilter \/ SetCameraFilter
        \/ SetApexDeviceFeedback
        \/ StartTransmittingMulticast \/ StopTransmittingMulticast
        \/ WriteObjects \/ GetFrame

Spec == Init /\ [][Next]_vars
==============================================================================
