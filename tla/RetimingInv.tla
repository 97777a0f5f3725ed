---------------------------- MODULE RetimingInv ----------------------------
(* The inductive invariant behind the answers of the retiming client: what    *)
(* the poses that were read and the ones that were predicted are like, and    *)
(* where the input thread is with the frame it adds.                          *)
EXTENDS RetimingGetters

\* The segments of a pose that were read to their end are where they are in its frame.
TrueSegment(s, g, pose) ==
    /\ pose.segments[g].T = TrueT(s, g, pose.frame, pose.over)
    /\ pose.segments[g].R = TrueR(s, g, pose.frame, pose.over)
    /\ pose.segments[g].T_Rel = TrueTRel(s, g, pose.frame, pose.over)
    /\ pose.segments[g].R_Rel = TrueRRel(s, g, pose.frame, pose.over)

TruePose(s, pose) ==
    \A g \in DOMAIN pose.segments : pose.segments[g].whole => TrueSegment(s, g, pose)

\* The names that a segment may have been read under; without its name a subject has none.
NamesFor(s) == IF s = NoName THEN {} ELSE Segments(s) \cup {NoName}
NamesOf(pose) == {pose.names[i] : i \in DOMAIN pose.names}

\* A pose that was read, of a frame that may have been cut off or replaced under the reading:
\* nothing is known of what has no name.
ReadPose(s, pose) ==
    /\ pose.result = "ESuccess" /\ pose.over = 1
    /\ pose.receipt \in Nat /\ pose.frame \in Nat
    /\ pose.names \in Seq(NamesFor(s))
    /\ DOMAIN pose.segments = NamesOf(pose)
    /\ \A g \in DOMAIN pose.segments :
          /\ pose.segments[g].whole \in BOOLEAN /\ ~pose.segments[g].occluded
          /\ g = NoName => pose.segments[g] = Zero

\* Of a frame that was not replaced, the first of the segments have their names: if there are
\* any, so has the root.
FirstNamed(s, pose) ==
    pose.names # << >> =>
      /\ pose.root = RootOf(s)
      /\ \E n \in 0..Len(SegmentNames[s]) : pose.names = FirstNames(s, n)

\* The poses of a name are two at most.
DataKept ==
    /\ DOMAIN data = DataNames
    /\ \A s \in DataNames :
          /\ \/ data[s] = << >>
             \/ data[s] = <<data[s][1]>>
             \/ data[s] = <<data[s][1], data[s][2]>>
          /\ \A i \in DOMAIN data[s] : ReadPose(s, data[s][i])

\* Where the input thread is: it reads the frame that it stamped.
InputPlace ==
    /\ now \in 0..MaxTime /\ held.receipt \in 0..now /\ held.frame \in Nat
    /\ latest = [number |-> latest.number, shown |-> latest.shown]
    /\ latest.number \in 0..MaxFrames
    /\ DOMAIN latest.shown \subseteq Subjects
    /\ DOMAIN latest.shown # {} => latest.number > 0
    /\ inputThread = "read" /\ ~mixed => held.frame = latest.number

\* Poses are true, and those of a subject come with later and later times of receipt; those
\* without a name may have one time.
DataTrue ==
    \A s \in DataNames : \A i \in DOMAIN data[s] :
        /\ data[s][i].frame \in 1..MaxFrames
        /\ FirstNamed(s, data[s][i])
        /\ TruePose(s, data[s][i])
        /\ data[s][i].receipt <= held.receipt
        /\ inputThread = "read" /\ DOMAIN latest.shown # {} => data[s][i].receipt < held.receipt
        /\ i = 2 => /\ data[s][1].receipt <= data[s][2].receipt
                    /\ s # NoName => data[s][1].receipt < data[s][2].receipt

\* What is predicted is predicted under a name that is known, from poses that were read.
OutputKept ==
    /\ DOMAIN output \subseteq Entries(data)
    /\ \A s \in DOMAIN output : output[s].result = "ESuccess" =>
          /\ DOMAIN output[s].segments \subseteq NamesFor(s)
          /\ \A g \in DOMAIN output[s].segments :
                /\ ~output[s].segments[g].occluded
                /\ g = NoName => ~output[s].segments[g].whole

OutputTrue ==
    \A s \in DOMAIN output : output[s].result = "ESuccess" =>
        /\ output[s].frame \in Int
        /\ s # NoName => output[s].over \in Nat \ {0}
        /\ TruePose(s, output[s])

ClientInv ==
    /\ mixed \in BOOLEAN
    /\ call.at = "update" => call.time \in Nat
    /\ InputPlace /\ DataKept /\ OutputKept
    /\ ~mixed => DataTrue /\ OutputTrue
==============================================================================
