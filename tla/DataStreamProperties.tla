------------------------ MODULE DataStreamProperties ------------------------
(***************************************************************************)
(* What a caller of the DataStream client may rely on.                     *)
(***************************************************************************)
EXTENDS DataStreamSession

\* The session's packets and frames are those of FrameExchange: encoded into a buffer and
\* decoded again, newer objects and unknown ones included, they say the same, whatever
\* groups of data, filters and reconnections come in between.
Exchange == INSTANCE FrameExchange WITH
              client <- [connected |-> client.connected, cached |-> client.cached],
              sent <- server.sent
ImplementsExchange == Exchange!ExchangeSpec

------------------------------------------------------------------------------
(* Steps                                                                      *)

Fetched == number' # number /\ client'.connected

PoseIn(segments, subject, segment) ==
    {g : g \in UNION {ToSet(s.Segments) : s \in {t \in ToSet(segments) : t.SubjectID = subject}}}
      \cap {g \in UNION {ToSet(s.Segments) : s \in ToSet(segments)} : g.SegmentID = segment}
Rootless(subject) == \A g \in ToSet(subject.Segments) : g.ParentID # NoParent

\* A frame fetched with lightweight segments has, for every subject whose every
\* segment was sent, the poses a frame of full segments would have had, up to the
\* first subject without a root, behind which none are computed.
LightweightAsFull ==
    [][Fetched /\ "LightweightSegment" \in client.on =>
         LET f      == client'.frame
             scene  == Scene(f.FrameInfo[1].FrameID)
             listed == f.SubjectInfo
         IN  \A i \in DOMAIN listed : \A g \in ToSet(listed[i].Segments) :
               LET id   == listed[i].SubjectID
                   made == PoseIn(f.GlobalSegments, id, g.SegmentID)
                   sent == {h.SegmentID : h \in ToSet(listed[i].Segments)}
                             = {h.SegmentID : h \in UNION {ToSet(l.Segments) : l \in
                                  {t \in ToSet(f.LightweightSegments) : t.SubjectID = id}}}
               IN  /\ made \subseteq PoseIn(scene.GlobalSegments, id, g.SegmentID)
                   /\ sent /\ (\A j \in 1..i : ~Rootless(listed[j])) => made # {}]_vars

\* The scene numbers the samples of every component through.
Missing == -1000
Run(count, Get(_)) ==
    [i \in 1..count |-> IF Succeeds(Get(i - 1)) THEN Get(i - 1).v ELSE Missing]
Consecutive(run) == \A i \in 1..(Len(run) - 1) : run[i + 1] = run[i] + 1
Forces(c, p) ==
    LET count == GetForcePlateSubsamples(c, p)
    IN  Run(IF Succeeds(count) THEN count.v ELSE 0, LAMBDA i :
          Then(GetForcePlateVector(c, "ForceFrame", p, i), LAMBDA v : Answer(v[1])))
Volts(c, d, o) ==
    LET count == GetDeviceOutputSubsamples(c, d, "", o.component)
    IN  Run(IF Seen(count) THEN count.v.v ELSE 0, LAMBDA i :
          Then(GetDeviceOutputValue(c, d, "", o.component, i), LAMBDA v :
            IF v.occluded THEN Refuse("NoFrame") ELSE Answer(v.v)))

\* A device's samples of consecutive frames follow each other without a gap or an
\* overlap, though its rate is not the frames' and a device frame may lie in two.
SamplesContinue ==
    [][Fetched =>
         /\ \A p \in PlatesOf(client') : Consecutive(Forces(client, p) \o Forces(client', p))
         /\ \A d \in DevicesOf(client') : \A o \in OutputsOf(client', d) :
              ~o.unit \in {"newton", "newton meter", "meter"}
                => Consecutive(Volts(client, d, o) \o Volts(client', d, o))]_vars
==============================================================================
