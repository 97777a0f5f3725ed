---------------------------- MODULE ClientFrame ----------------------------
(***************************************************************************)
(* What VClient answers about the frame it last dispatched as a whole, and *)
(* the steps its getters are made of.                                      *)
(*                                                                         *)
(* A client is a record: connected; frame, the latest frame, and cached,   *)
(* the one fetched last, as functions from stream types to the sequences   *)
(* of their objects; axes, the axis mapping; on, the flags of the groups   *)
(* of data it enabled.  An answer has the result of the call and, on       *)
(* Success, what its out parameters hold.                                  *)
(***************************************************************************)
EXTENDS CGStreamObjects, ClientGeometry

Answer(v) == [result |-> "Success", v |-> v]
Refuse(result) == [result |-> result]
Then(answer, K(_)) == IF answer.result = "Success" THEN K(answer.v) ELSE answer

Indexed(seq, i) == IF i < Len(seq) THEN Answer(seq[i + 1]) ELSE Refuse("InvalidIndex")
FirstWhere(seq, Test(_), otherwise) ==
    LET i == SelectInSeq(seq, Test)
    IN  IF i = 0 THEN Refuse(otherwise) ELSE Answer(seq[i])
FirstWith(seq, field, value, otherwise) ==
    FirstWhere(seq, LAMBDA x : x[field] = value, otherwise)

\* A pose the frame lacks is a success with the occluded flag.
Occluded == Answer([occluded |-> TRUE])
Visible(v) == Answer([occluded |-> FALSE, v |-> v])
OrOccluded(answer, K(_)) == IF answer.result = "Success" THEN K(answer.v) ELSE Occluded

\* A member its class does not initialise, in a frame that brought no such object.
Unspecified == "unspecified"
OneOf(frame, type, otherwise) == IF frame[type] = << >> THEN otherwise ELSE frame[type][1]

------------------------------------------------------------------------------
HasData(c) == c.frame.FrameInfo # << >>
InitGet(c) ==
    IF ~c.connected THEN Refuse("NotConnected")
    ELSE IF ~HasData(c) THEN Refuse("NoFrame")
    ELSE Answer(c.frame)

\* The server's orientation is read from the cached frame.
ApplicationInfo(c) == c.cached.ApplicationInfo
YUp(c) == ApplicationInfo(c) # << >> /\ ApplicationInfo(c)[1].AxisOrientation = "YUp"
TransformT(c, t) == CopyAndTransformT(c.axes, YUp(c), t)
TransformR(c, r) == CopyAndTransformR(c.axes, YUp(c), r)

GetServerOrientation(c) ==
    IF ApplicationInfo(c) = << >> THEN Refuse("NotSupported")
    ELSE LET o == ApplicationInfo(c)[1].AxisOrientation
         IN  Answer(IF o \in {"YUp", "ZUp"} THEN o ELSE "Unknown")

GetAxisMapping(c) == c.axes

------------------------------------------------------------------------------
GetFrameNumber(c) == Then(InitGet(c), LAMBDA f : Answer(f.FrameInfo[1].FrameID + 1))

FramePeriodOf(f) == f.StreamInfo[1].FramePeriod
TicksPerSecond == 135000000
GetFrameRate(c) ==
    Then(InitGet(c), LAMBDA f :
      Answer(IF FramePeriodOf(f) = 0 THEN 0 ELSE TicksPerSecond \div FramePeriodOf(f)))

TimecodeStandards == {"PAL", "NTSC", "NTSCDrop", "Film", "NTSCFilm", "ATSC"}
NoTimecode == [n \in {"Hours", "Minutes", "Seconds", "Frames", "Subframes",
                      "SubframesPerFrame", "UserBits", "FieldFlag"} |-> 0]
                @@ ("Standard" :> "None")
GetTimecode(c) ==
    Then(InitGet(c), LAMBDA f :
      LET t == OneOf(f, "Timecode", NoTimecode)
      IN  Answer([t EXCEPT !.FieldFlag = @ # 0,
                           !.Standard = IF @ \in TimecodeStandards THEN @ ELSE "None"]))

LatencySamples(f) == OneOf(f, "LatencyInfo", [Samples |-> << >>]).Samples
GetLatencyTotal(c) ==
    Then(InitGet(c), LAMBDA f :
      Answer(FoldLeft(LAMBDA sum, s : sum + s.Latency, 0, LatencySamples(f))))
GetLatencySampleCount(c) == Then(InitGet(c), LAMBDA f : Answer(Len(LatencySamples(f))))
GetLatencySampleName(c, i) ==
    Then(InitGet(c), LAMBDA f :
      Then(Indexed(LatencySamples(f), i), LAMBDA s : Answer(s.Name)))
GetLatencySampleValue(c, name) ==
    Then(InitGet(c), LAMBDA f :
      Then(FirstWith(LatencySamples(f), "Name", name, "InvalidLatencySampleName"),
           LAMBDA s : Answer(s.Latency)))

GetHardwareFrameNumber(c) ==
    Then(InitGet(c), LAMBDA f :
      Answer(OneOf(f, "HardwareFrameInfo", [HardwareFrame |-> Unspecified]).HardwareFrame))

\* A map has a fixed order, here the one InOrder gives its keys.
FrameRates(f) == OneOf(f, "FrameRateInfo", [FrameRates |-> << >>]).FrameRates
FrameRateNames(f) == InOrder(DOMAIN FrameRates(f))
GetFrameRateCount(c) == Then(InitGet(c), LAMBDA f : Answer(Len(FrameRateNames(f))))
GetFrameRateName(c, i) == Then(InitGet(c), LAMBDA f : Indexed(FrameRateNames(f), i))
GetFrameRateValue(c, name) ==
    Then(InitGet(c), LAMBDA f :
      IF name \in DOMAIN FrameRates(f) THEN Answer(FrameRates(f)[name])
      ELSE Refuse("InvalidFrameRateName"))

------------------------------------------------------------------------------
(* The samples of a device, whose rate is not the frames'.                    *)

\* The ticks a frame stands for: from the first to before the second.
GetFramePeriod(f) ==
    LET first == FramePeriodOf(f) * f.FrameInfo[1].FrameID
    IN  <<first, first + FramePeriodOf(f)>>

\* The index of the first sample at or after a tick.
GetNextSampleIndex(systemTick, sampleTick, period) ==
    IF systemTick < sampleTick THEN 0
    ELSE (systemTick - sampleTick + period - 1) \div period

\* Mutant of GetSamplesInFrame: the whole sample periods of the frame.
PeriodsInFrame(ticks, startTick, period) == (ticks[2] - ticks[1]) \div period

GetSamplesInFrame(ticks, startTick, period) ==
    GetNextSampleIndex(ticks[2], startTick, period)
      - GetNextSampleIndex(ticks[1], startTick, period)

\* The place in a device frame of the requested sample of a system frame, or -1.
SampleIndexInRange(requested, deviceFrame, perDeviceFrame, period, startTick, ticks) ==
    LET start == deviceFrame * perDeviceFrame
        index == requested + GetNextSampleIndex(ticks[1], startTick, period)
    IN  IF index < start \/ start + perDeviceFrame <= index THEN -1 ELSE index - start
==============================================================================
