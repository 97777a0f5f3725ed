--------------------------- MODULE ClientDevices ---------------------------
(***************************************************************************)
(* VClient's getters of devices, their outputs and samples, force plates   *)
(* and eye trackers.  A device frame holds the samples of one channel, all *)
(* of a component before those of the next.                                *)
(***************************************************************************)
EXTENDS ClientSubjects

LastWhere(seq, Test(_), otherwise) ==
    LET i == SelectLastInSeq(seq, Test)
    IN  IF i = 0 THEN Refuse(otherwise) ELSE Answer(seq[i])
OfDeviceID(f, type, id) == SelectSeq(f[type], LAMBDA d : d.DeviceID = id)

\* A plain field of the device's first object of the type: 0 without one.
FirstFieldOr0(f, type, id, field) ==
    LET mine == OfDeviceID(f, type, id) IN IF mine = << >> THEN 0 ELSE mine[1][field]
GetDevicePeriod(f, id) == FirstFieldOr0(f, "DeviceInfo", id, "FramePeriod")
GetDeviceStartTick(f, id) == FirstFieldOr0(f, "DeviceInfoExtra", id, "FrameStartTick")

------------------------------------------------------------------------------
(* Force plates are the devices with a force, a moment and a pressure channel *)

IsForcePlateForceChannel(channel) == channel.ComponentNames = <<"Fx", "Fy", "Fz">>
IsForcePlateMomentChannel(channel) == channel.ComponentNames = <<"Mx", "My", "Mz">>
IsForcePlateCoPChannel(channel) == channel.ComponentNames = <<"Cx", "Cy", "Cz">>
IsForcePlateCoreChannel(channel) ==
    \/ IsForcePlateForceChannel(channel)
    \/ IsForcePlateMomentChannel(channel)
    \/ IsForcePlateCoPChannel(channel)
IsForcePlateDevice(f, id) ==
    Len(SelectSeq(OfDeviceID(f, "ChannelInfo", id), IsForcePlateCoreChannel)) = 3

ForcePlates(f) == SelectSeq(f.DeviceInfo, LAMBDA d : IsForcePlateDevice(f, d.DeviceID))
\* Mutant of GetForcePlateCount: every device counts.
CountDevices(c) == Then(InitGet(c), LAMBDA f : Answer(Len(f.DeviceInfo)))
GetForcePlateCount(c) == Then(InitGet(c), LAMBDA f : Answer(Len(ForcePlates(f))))
GetForcePlateID(c, i) ==
    Then(InitGet(c), LAMBDA f :
      Then(Indexed(ForcePlates(f), i), LAMBDA d : Answer(d.DeviceID)))

------------------------------------------------------------------------------
(* Samples                                                                    *)

SamplePeriod(f, id, perDeviceFrame) == GetDevicePeriod(f, id) \div perDeviceFrame
SamplesInFrame(f, id, perDeviceFrame) ==
    GetSamplesInFrame(GetFramePeriod(f), GetDeviceStartTick(f, id),
                      SamplePeriod(f, id, perDeviceFrame))

\* Where a device frame holds the requested sample: Elsewhere if it does not.
Elsewhere == Answer(-1)
SamplePlace(f, id, frame, perDeviceFrame, requested) ==
    IF requested >= SamplesInFrame(f, id, perDeviceFrame) THEN Refuse("InvalidIndex")
    ELSE Answer(SampleIndexInRange(requested, frame.FrameID, perDeviceFrame,
                  SamplePeriod(f, id, perDeviceFrame), GetDeviceStartTick(f, id),
                  GetFramePeriod(f)))

\* The device frames are tried in turn, until one settles the answer.
FirstSettled(frames, Place(_), K(_, _)) ==
    Then(FirstWhere(frames, LAMBDA d : Place(d) # Elsewhere, "Unknown"), LAMBDA d :
      Then(Place(d), LAMBDA at : K(d, at)))

ComponentSamples(frame, components, perDeviceFrame, at) ==
    [k \in 1..components |-> frame.Samples[(k - 1) * perDeviceFrame + at + 1]]

\* A number of samples a device's period is a multiple of.
Whole(f, id, n) == n # 0 /\ GetDevicePeriod(f, id) % n = 0
WholePlace(f, id, frame, n, requested) ==
    IF Whole(f, id, n) THEN SamplePlace(f, id, frame, n, requested) ELSE Refuse("Unknown")

GetForcePlateSubsamples(c, plate) ==
    Then(InitGet(c), LAMBDA f :
      IF ~IsForcePlateDevice(f, plate) THEN Refuse("InvalidIndex")
      ELSE Then(FirstWith(f.ForceFrame, "DeviceID", plate, "Unknown"), LAMBDA d :
             LET n == Len(d.Samples) \div 3
             IN  IF Whole(f, plate, n) THEN Answer(SamplesInFrame(f, plate, n))
                 ELSE Refuse("Unknown")))

\* A vector's three components share the samples of a frame of the plate.
VectorPlace(f, plate, d, i) ==
    IF d.DeviceID # plate THEN Elsewhere
    ELSE WholePlace(f, plate, d, Len(d.Samples) \div 3, i)
ForcePlateVector(f, type, plate, i) ==
    IF ~IsForcePlateDevice(f, plate) \/ GetDevicePeriod(f, plate) = 0 THEN Refuse("InvalidIndex")
    ELSE FirstSettled(f[type], LAMBDA d : VectorPlace(f, plate, d, i), LAMBDA d, at :
           Answer(ComponentSamples(d, 3, Len(d.Samples) \div 3, at)))
GetForcePlateVector(c, type, plate, i) ==
    Then(InitGet(c), LAMBDA f : ForcePlateVector(f, type, plate, i))

ForcePlateVectorAtSample(c, type, plate, i) ==
    Then(GetForcePlateVector(c, type, plate, i), LAMBDA v : Answer(TransformT(c, v)))
GetForceVectorAtSample(c, plate, i) == ForcePlateVectorAtSample(c, "ForceFrame", plate, i)
GetMomentVectorAtSample(c, plate, i) == ForcePlateVectorAtSample(c, "MomentFrame", plate, i)
GetCentreOfPressureAtSample(c, plate, i) ==
    ForcePlateVectorAtSample(c, "CentreOfPressureFrame", plate, i)

\* In the world: turned by the plate's orientation; plates are placed in
\* millimetres, and a centre of pressure is in metres.
ForcePlateInfo(f, plate) ==
    FirstWith(f.ForcePlateInfo, "DeviceID", plate, "Unknown")
GlobalForcePlateVector(c, type, plate, i, InWorld(_, _)) ==
    Then(GetForcePlateVector(c, type, plate, i), LAMBDA v :
      Then(ForcePlateInfo(c.frame, plate), LAMBDA p : Answer(TransformT(c, InWorld(p, v)))))
Turned(p, v) == Apply(p.WorldRotation, v)
TurnedAndPlaced(p, v) ==
    Plus(Turned(p, v), [k \in 1..3 |-> p.WorldTranslation[k] \div 1000])
GetGlobalForceVectorAtSample(c, plate, i) ==
    GlobalForcePlateVector(c, "ForceFrame", plate, i, Turned)
GetGlobalMomentVectorAtSample(c, plate, i) ==
    GlobalForcePlateVector(c, "MomentFrame", plate, i, Turned)
GetGlobalCentreOfPressureAtSample(c, plate, i) ==
    GlobalForcePlateVector(c, "CentreOfPressureFrame", plate, i, TurnedAndPlaced)

\* The getters without a sample answer about the frame's first.
GetForceVector(c, plate) == GetForceVectorAtSample(c, plate, 0)
GetMomentVector(c, plate) == GetMomentVectorAtSample(c, plate, 0)
GetCentreOfPressure(c, plate) == GetCentreOfPressureAtSample(c, plate, 0)
GetGlobalForceVector(c, plate) == GetGlobalForceVectorAtSample(c, plate, 0)
GetGlobalMomentVector(c, plate) == GetGlobalMomentVectorAtSample(c, plate, 0)
GetGlobalCentreOfPressure(c, plate) == GetGlobalCentreOfPressureAtSample(c, plate, 0)

------------------------------------------------------------------------------
(* The plate's analog channel is its first that is none of those three        *)

AnalogChannel(f, plate, otherwise) ==
    FirstWhere(OfDeviceID(f, "ChannelInfo", plate),
               LAMBDA channel : ~IsForcePlateCoreChannel(channel), otherwise)
GetNumberOfAnalogChannels(c, plate) ==
    Then(InitGet(c), LAMBDA f :
      IF ~IsForcePlateDevice(f, plate) THEN Refuse("InvalidIndex")
      ELSE Then(AnalogChannel(f, plate, "Unknown"), LAMBDA channel :
             Answer(Len(channel.ComponentNames))))

\* A voltage frame is taken by its channel alone, whatever its device.
GetAnalogChannelVoltageAtSample(c, plate, component, i) ==
    Then(InitGet(c), LAMBDA f :
      IF ~IsForcePlateDevice(f, plate) \/ GetDevicePeriod(f, plate) = 0
      THEN Refuse("InvalidIndex")
      ELSE Then(AnalogChannel(f, plate, "InvalidIndex"), LAMBDA channel :
        LET Per(d)   == Len(d.Samples) \div Len(channel.ComponentNames)
            Place(d) == WholePlace(f, plate, d, Per(d), i)
        IN  FirstSettled(SelectSeq(f.VoltageFrame, LAMBDA d : d.ChannelID = channel.ChannelID),
                         Place, LAMBDA d, at : Answer(d.Samples[component * Per(d) + at + 1]))))
GetAnalogChannelVoltage(c, plate, component) ==
    GetAnalogChannelVoltageAtSample(c, plate, component, 0)

------------------------------------------------------------------------------
(* Eye trackers: of two with one identifier, the last counts                  *)

EyeTracker(f, id) == LastWhere(f.EyeTrackerInfo, LAMBDA e : e.DeviceID = id, "InvalidIndex")
IsEyeTrackerDevice(f, id) == \E i \in DOMAIN f.EyeTrackerInfo : f.EyeTrackerInfo[i].DeviceID = id
HeadSegment(f, e) ==
    SegmentPose(f, "GlobalSegments", [subject |-> e.SubjectID, segment |-> e.SegmentID])
GetEyeTrackerCount(c) == Then(InitGet(c), LAMBDA f : Answer(Len(f.EyeTrackerInfo)))
GetEyeTrackerID(c, i) ==
    Then(InitGet(c), LAMBDA f :
      Then(Indexed(f.EyeTrackerInfo, i), LAMBDA e : Answer(e.DeviceID)))
GetEyeTrackerGlobalPosition(c, id) ==
    Then(InitGet(c), LAMBDA f :
      Then(EyeTracker(f, id), LAMBDA e :
        OrOccluded(HeadSegment(f, e), LAMBDA g :
          Visible(TransformT(c, Plus(Apply(g.Rotation, e.LocalTranslation), g.Translation))))))
GetEyeTrackerGlobalGazeVector(c, id) ==
    Then(InitGet(c), LAMBDA f :
      Then(EyeTracker(f, id), LAMBDA e :
        OrOccluded(LastWhere(f.EyeTrackerFrame, LAMBDA t : t.DeviceID = id, "Unknown"), LAMBDA t :
          OrOccluded(HeadSegment(f, e), LAMBDA g :
            Visible(TransformT(c, Apply(Product(g.Rotation, e.LocalRotation), t.GazeVector)))))))

------------------------------------------------------------------------------
(* Devices by name and their outputs                                          *)

\* An unnamed device or output is named after its number.
AdaptDeviceName(name, id) == IF name # "" THEN name ELSE "Unnamed Device " \o ToString(id)
AdaptDeviceOutputName(name, index) ==
    IF name # "" THEN name ELSE "Unnamed Device Output " \o ToString(index + 1)

\* Mutant of GetDevice: the name is compared with the one the server gave.
GetDeviceBySentName(f, name) ==
    FirstWith(f.DeviceInfo, "Name", name, "InvalidDeviceName")

\* The getters of outputs have checked InitGet before they look the device up.
GetDevice(f, name) ==
    FirstWhere(f.DeviceInfo, LAMBDA d : AdaptDeviceName(d.Name, d.DeviceID) = name,
               "InvalidDeviceName")
DeviceNamed(c, name, K(_, _)) ==
    Then(InitGet(c), LAMBDA f : Then(GetDevice(f, name), LAMBDA d : K(f, d)))
GetDeviceID(c, name) == DeviceNamed(c, name, LAMBDA f, d : Answer(d.DeviceID))

GetDeviceCount(c) == Then(InitGet(c), LAMBDA f : Answer(Len(f.DeviceInfo)))
GetDeviceName(c, i) ==
    Then(InitGet(c), LAMBDA f :
      Then(Indexed(f.DeviceInfo, i), LAMBDA d :
        Answer([name |-> AdaptDeviceName(d.Name, d.DeviceID),
                type |-> CASE IsForcePlateDevice(f, d.DeviceID) -> "ForcePlate"
                           [] ~IsForcePlateDevice(f, d.DeviceID)
                                /\ IsEyeTrackerDevice(f, d.DeviceID) -> "EyeTracker"
                           [] OTHER -> "Unknown"])))

\* The outputs of a device: the components of its channels, numbered through.
\* Where an output name is given, channels of other names are not even counted.
Outputs(f, id, outputName) ==
    LET mine == SelectSeq(OfDeviceID(f, "ChannelInfo", id),
                          LAMBDA channel : outputName \in {"", channel.Name})
        all  == FlattenSeq([i \in DOMAIN mine |->
                  [k \in DOMAIN mine[i].ComponentNames |->
                    [channel |-> mine[i], component |-> k, name |-> mine[i].ComponentNames[k]]]])
    IN  [n \in DOMAIN all |->
          [all[n] EXCEPT !.name = AdaptDeviceOutputName(@, n - 1)]]

GetDeviceOutputCount(c, device) ==
    DeviceNamed(c, device, LAMBDA f, d : Answer(Len(Outputs(f, d.DeviceID, ""))))

KnownUnits ==
    {"meter", "kilogram", "second", "ampere", "kelvin", "mole", "candela", "radian",
     "steradian", "meter squared", "meter cubed", "meter per second",
     "meter per second squared", "radian per second", "radian per second squared",
     "hertz", "newton", "joule", "watt", "pascal", "lumen", "lux", "coulomb", "volt",
     "ohm", "farad", "weber", "tesla", "henry", "siemens", "becquerel", "gray",
     "sievert", "katal"}
DeviceOutputUnit(f, id, channel) ==
    IF IsForcePlateDevice(f, id)
    THEN CASE IsForcePlateForceChannel(channel)  -> "newton"
           [] IsForcePlateMomentChannel(channel) -> "newton meter"
           [] IsForcePlateCoPChannel(channel)    -> "meter"
           [] OTHER                              -> "volt"
    ELSE LET extra == LastWhere(OfDeviceID(f, "ChannelInfoExtra", id),
                                LAMBDA e : e.ChannelID = channel.ChannelID /\ e.Unit \in KnownUnits,
                                "Unknown")
         IN  IF extra.result = "Success" THEN extra.v.Unit ELSE "unknown"

GetDeviceOutputNameComponent(c, device, i) ==
    DeviceNamed(c, device, LAMBDA f, d :
      Then(Indexed(Outputs(f, d.DeviceID, ""), i), LAMBDA o :
        Answer([output |-> o.channel.Name, component |-> o.name,
                unit |-> DeviceOutputUnit(f, d.DeviceID, o.channel)])))
GetDeviceOutputName(c, device, i) ==
    Then(GetDeviceOutputNameComponent(c, device, i), LAMBDA o : Answer(o.component))

\* The frames that carry a channel's samples.
FramesOfChannel(f, channel) ==
    LET type == CASE IsForcePlateForceChannel(channel)  -> "ForceFrame"
                  [] IsForcePlateMomentChannel(channel) -> "MomentFrame"
                  [] IsForcePlateCoPChannel(channel)    -> "CentreOfPressureFrame"
                  [] OTHER                              -> "VoltageFrame"
    IN  SelectSeq(OfDeviceID(f, type, channel.DeviceID), LAMBDA d :
          /\ d.ChannelID = channel.ChannelID
          /\ Len(d.Samples) >= Len(channel.ComponentNames))
Stride(d, channel) == Len(d.Samples) \div Len(channel.ComponentNames)

\* A channel of the right name without components ends the search for subsamples.
GetDeviceOutputSubsamples(c, device, outputName, component) ==
    DeviceNamed(c, device, LAMBDA f, d :
      LET outputs  == Outputs(f, d.DeviceID, outputName)
          found    == FirstWith(outputs, "name", component, "InvalidDeviceOutputName")
          channels == SelectSeq(OfDeviceID(f, "ChannelInfo", d.DeviceID),
                                LAMBDA h : outputName \in {"", h.Name})
          empty    == SelectInSeq(channels, LAMBDA h : h.ComponentNames = << >>)
          reached  == IF found.result = "Success"
                      THEN SelectInSeq(channels, LAMBDA h : h = found.v.channel)
                      ELSE Len(channels) + 1
      IN  IF empty # 0 /\ empty < reached THEN Refuse("NoFrame")
          ELSE Then(found, LAMBDA o :
                 OrOccluded(Indexed(FramesOfChannel(f, o.channel), 0), LAMBDA s :
                   Visible(SamplesInFrame(f, d.DeviceID, Stride(s, o.channel))))))

\* The vectors of a force plate are transformed, voltages are not.
GetDeviceOutputValue(c, device, outputName, component, i) ==
    DeviceNamed(c, device, LAMBDA f, d :
      Then(FirstWith(Outputs(f, d.DeviceID, outputName), "name", component,
                     "InvalidDeviceOutputName"), LAMBDA o :
        LET Place(s) == SamplePlace(f, d.DeviceID, s, Stride(s, o.channel), i)
            settled  == FirstSettled(FramesOfChannel(f, o.channel), Place, LAMBDA s, at :
                          Answer(ComponentSamples(s, Len(o.channel.ComponentNames),
                                                  Stride(s, o.channel), at)))
        IN  IF settled.result = "Unknown" THEN Occluded
            ELSE Then(settled, LAMBDA v :
                   Visible((IF IsForcePlateCoreChannel(o.channel) THEN TransformT(c, v)
                            ELSE v)[o.component]))))
==============================================================================
