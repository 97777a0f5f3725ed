------------------------- MODULE ViconBridgesProofs -------------------------
(* What the two nodes publish and count, whatever the subjects, the frames    *)
(* and the moments at which they are added.                                   *)
EXTENDS ViconBridgeRetiming, ViconBridge, RetimingProofs

------------------------------------------------------------------------------
(* vicon_bridge_retiming: what it publishes in one callback                   *)

\* What is published in a callback is for its one time, and so is what it may still publish.
TimeInv ==
    /\ node.pc \in {"idle", "update", "count", "segments"}
    /\ node.pc = "update" => published.time = node.time /\ published.poses = {}
    /\ node.pc \in {"count", "segments"} =>
          \A s \in DOMAIN output :
              output[s].result = "ESuccess" => output[s].receipt = published.time
    /\ PublishedTogether

\* Of a single segment the counter is the number of the callbacks that published nothing.
MissedOfOne == publish_specific_segment_ => MissedCounted

\* Of a single segment a callback publishes once, and only its last step does: until then the
\* callback itself is among those that published nothing.
MissedInv ==
    /\ publish_specific_segment_ \in BOOLEAN
    /\ publish_specific_segment_ =>
          /\ callbacks \in 0..MaxCallbacks /\ missed \in 0..callbacks
          /\ retiming_drop_count_ = missed
          /\ node.pc # "count"
          /\ node.pc = "update" => missed > 0
          /\ node.pc = "segments" =>
                /\ node.subjects = << >>
                /\ \/ node.segments = << >>
                   \/ node.segments = <<Target>> /\ published.poses = {} /\ missed > 0

\* What was read while the connection lasted was read to its end, and the node does not connect
\* again: so is all that is predicted while it lasts.
WholePose(s, pose) ==
    DOMAIN pose.segments = Segments(s) /\ \A g \in Segments(s) : pose.segments[g].whole

WholeInv ==
    /\ \A s \in Subjects : \A i \in DOMAIN data[s] : WholePose(s, data[s][i])
    /\ data[NoName] = << >> /\ NoName \notin DOMAIN output
    /\ \A s \in DOMAIN output : output[s].result = "ESuccess" => WholePose(s, output[s])

NodeInv ==
    /\ ClientInv /\ ~mixed
    /\ node.pc = "update" => node.time \in Nat
    /\ connected => WholeInv
    /\ published = [time |-> published.time, poses |-> published.poses]
    /\ PredictionsAgree

------------------------------------------------------------------------------
\* All the poses of an update that succeeded are for the time it was asked for.
LEMMA OutputAt ==
  ASSUME NEW d, NEW t, NEW s \in DOMAIN OutputPoses(d, t),
         OutputPoses(d, t)[s].result = "ESuccess"
  PROVE  OutputPoses(d, t)[s].receipt = t
<1>1. OutputPoses(d, t)[s] \in {NoPose, Predict(Head(d[s]), d[s][Len(d[s])], t)}
  BY DEF OutputPoses
<1>2. NoPose.result # "ESuccess"
  BY DEF NoPose
<1> QED
  BY <1>1, <1>2, Predicts

\* The invariants hold when the node starts.
LEMMA NodeStarts == NodeInit => TimeInv /\ MissedInv
  BY NodeConstants DEF NodeInit, TimeInv, MissedInv, PublishedTogether, Waiting

\* A count in range does not wrap.
LEMMA NotWrapped == ASSUME NEW n \in 0..(SizeT - 1) PROVE Wrapped(n) = n
  BY NodeConstants DEF Wrapped

\* The input thread, the clock and a lost connection leave the predicted poses alone.
LEMMA OthersKeepOutput == (Tick \/ Break \/ InputThread) => UNCHANGED output
  BY DEF Tick, Break, InputThread, InputTop, InputGet, InputStamp, InputRead,
         outputVars

\* What is published of a segment is of a pose of the latest update.
LEMMA PoseAt ==
  ASSUME NEW s, NEW g, NEW p \in PosesOf(s, g)
  PROVE  /\ s \in DOMAIN output
         /\ output[s].result = "ESuccess"
         /\ p.receipt = output[s].receipt
<1> DEFINE pose  == GetSubject(data, output, s)
           trans == GetSegmentGlobalTranslation(s, g)
<1>1. trans.result = "Success" /\ p.receipt = trans.receipt
  BY DEF PosesOf
<1>2. InitGet = "Success"
  BY <1>1, Zenon DEF GetSegmentGlobalTranslation, Predicted, Refuse
<1>3. pose.result = "ESuccess"
  BY <1>1, <1>2 DEF GetSegmentGlobalTranslation, Predicted, Refuse, Adapt
<1>4. trans.receipt = pose.receipt
  BY <1>2, <1>3 DEF GetSegmentGlobalTranslation, Predicted
<1>5. pose = output[s] /\ s \in DOMAIN output
  BY <1>3 DEF GetSubject, Failed
<1> QED
  BY <1>1, <1>3, <1>4, <1>5

\* Every step keeps what is published to one time: the callback's steps one by one, and the
\* others because they leave the predicted poses alone.
LEMMA TimeStep == TimeInv /\ [NodeNext]_<<clientVars, nodeVars>> => TimeInv'
<1> SUFFICES ASSUME TimeInv, [NodeNext]_<<clientVars, nodeVars>> PROVE TimeInv'
  OBVIOUS
<1> USE DEF TimeInv, PublishedTogether
<1>1. CASE UpdateThenAsk
  <2>1. output' = OutputPoses(data, published.time) /\ published' = published
    BY <1>1 DEF UpdateThenAsk, UpdateFrameAtTime
  <2>2. \A s \in DOMAIN output' :
           output'[s].result = "ESuccess" => output'[s].receipt = published'.time
    BY <2>1, OutputAt
  <2>3. node'.pc \in {"idle", "count", "segments"}
    BY <1>1 DEF UpdateThenAsk, Waiting
  <2> QED
    BY <2>1, <2>2, <2>3
<1>2. CASE TimerCallback /\ UNCHANGED clientVars
  BY <1>2 DEF TimerCallback
<1>3. CASE CountSubjects /\ UNCHANGED clientVars
  BY <1>3 DEF CountSubjects, Waiting, clientVars
<1>4. CASE ListSegments /\ UNCHANGED clientVars
  <2>1. node'.pc = "segments" /\ published' = published /\ output' = output
    BY <1>4 DEF ListSegments, clientVars
  <2> QED
    BY <1>4, <2>1 DEF ListSegments
<1>5. CASE PublishSegment /\ UNCHANGED clientVars
  <2>1. node.pc = "segments" /\ node'.pc = "segments" /\ output' = output
    BY <1>5 DEF PublishSegment, clientVars
  <2>2. PICK s, g : \/ published' = published
                    \/ published' = [published EXCEPT !.poses = @ \cup PosesOf(s, g)]
    BY <1>5, Zenon DEF PublishSegment
  <2>3. CASE published' = published
    BY <2>1, <2>3
  <2>4. CASE published' = [published EXCEPT !.poses = @ \cup PosesOf(s, g)]
    <3>1. \A p \in PosesOf(s, g) : p.receipt = published.time
      BY <2>1, PoseAt
    <3> QED
      BY <2>1, <2>4, <3>1
  <2> QED
    BY <2>2, <2>3, <2>4
<1>6. CASE EndCallback /\ UNCHANGED clientVars
  BY <1>6 DEF EndCallback, Waiting, clientVars
<1>7. CASE (Tick \/ Break \/ InputThread) /\ UNCHANGED nodeVars
  <2>1. UNCHANGED output
    BY <1>7, OthersKeepOutput
  <2> QED
    BY <1>7, <2>1 DEF nodeVars
<1>8. CASE UNCHANGED <<clientVars, nodeVars>>
  BY <1>8 DEF clientVars, nodeVars
<1> QED
  BY <1>1, <1>2, <1>3, <1>4, <1>5, <1>6, <1>7, <1>8 DEF NodeNext, Callback

\* Every step keeps the count of a single segment's missed callbacks.
LEMMA MissedStep ==
    TimeInv /\ MissedInv /\ [NodeNext]_<<clientVars, nodeVars>> => MissedInv'
<1> SUFFICES ASSUME TimeInv, MissedInv, [NodeNext]_<<clientVars, nodeVars>> PROVE MissedInv'
  OBVIOUS
<1> USE DEF MissedInv
<1>1. CASE UpdateThenAsk
  <2>1. UNCHANGED <<publish_specific_segment_, retiming_drop_count_, missed, callbacks, published>>
    BY <1>1 DEF UpdateThenAsk
  <2>2. published.poses = {} /\ node.pc = "update"
    BY <1>1 DEF UpdateThenAsk, TimeInv
  <2>3. publish_specific_segment_ =>
          \/ node' = Waiting
          \/ node' = [pc |-> "segments", subjects |-> << >>, segments |-> <<Target>>]
    BY <1>1, Zenon DEF UpdateThenAsk
  <2> QED
    BY <2>1, <2>2, <2>3 DEF Waiting
<1>2. CASE TimerCallback
  <2>1. /\ callbacks < MaxCallbacks /\ callbacks' = callbacks + 1 /\ missed' = missed + 1
        /\ retiming_drop_count_' = Wrapped(retiming_drop_count_ + 1)
        /\ node' = [pc |-> "update", time |-> now] /\ UNCHANGED publish_specific_segment_
    BY <1>2 DEF TimerCallback
  <2>2. publish_specific_segment_ => retiming_drop_count_' = missed'
    <3> SUFFICES ASSUME publish_specific_segment_ PROVE retiming_drop_count_' = missed'
      OBVIOUS
    <3>1. retiming_drop_count_ + 1 \in 0..(SizeT - 1)
      BY <2>1, NodeConstants
    <3> QED
      BY <2>1, <3>1, NotWrapped
  <2> QED
    BY <2>1, <2>2, NodeConstants
<1>3. CASE CountSubjects
  BY <1>3 DEF CountSubjects
<1>4. CASE ListSegments
  <2>1. UNCHANGED publish_specific_segment_
    BY <1>4 DEF ListSegments
  <2>2. ~publish_specific_segment_
    BY <1>4 DEF ListSegments
  <2> QED
    BY <2>1, <2>2
<1>5. CASE PublishSegment
  <2>1. /\ node.pc = "segments" /\ node.segments # << >>
        /\ node' = [node EXCEPT !.segments = Tail(@)]
        /\ UNCHANGED <<publish_specific_segment_, callbacks>>
    BY <1>5 DEF PublishSegment
  <2>2. node'.pc = "segments" /\ node'.subjects = node.subjects
        /\ node'.segments = Tail(node.segments)
    BY <2>1
  <2>3. \/ UNCHANGED <<published, retiming_drop_count_, missed>>
        \/ /\ retiming_drop_count_' = Wrapped(retiming_drop_count_ - 1)
           /\ missed' = IF published.poses = {} THEN missed - 1 ELSE missed
    BY <1>5, Zenon DEF PublishSegment
  <2>4. ASSUME publish_specific_segment_
        PROVE  /\ missed' \in 0..callbacks' /\ retiming_drop_count_' = missed'
               /\ node'.subjects = << >> /\ node'.segments = << >>
    <3>1. /\ published.poses = {} /\ missed > 0
          /\ node.subjects = << >> /\ node.segments = <<Target>>
          /\ callbacks \in 0..MaxCallbacks /\ missed \in 0..callbacks
          /\ retiming_drop_count_ = missed
      BY <2>1, <2>4
    <3>2. Tail(<<Target>>) = << >>
      OBVIOUS
    <3>3. missed - 1 \in 0..callbacks /\ missed - 1 \in 0..(SizeT - 1)
      BY <3>1, NodeConstants
    <3>4. Wrapped(retiming_drop_count_ - 1) = missed - 1
      BY <3>1, <3>3, NotWrapped
    <3> QED
      BY <2>1, <2>2, <2>3, <3>1, <3>2, <3>3, <3>4
  <2> QED
    BY <2>1, <2>2, <2>4
<1>6. CASE EndCallback
  BY <1>6 DEF EndCallback, Waiting
<1>7. CASE UNCHANGED nodeVars
  BY <1>7 DEF nodeVars
<1> QED
  BY <1>1, <1>2, <1>3, <1>4, <1>5, <1>6, <1>7 DEF NodeNext, Callback

------------------------------------------------------------------------------
(* What is published is true of the motion                                    *)

LEMMA NodeInvStarts == ClientInit(TRUE, 0, 0) /\ NodeInit => NodeInv
<1> SUFFICES ASSUME ClientInit(TRUE, 0, 0), NodeInit PROVE NodeInv
  OBVIOUS
<1>1. ClientInv
  <2>1. 0 \in 0..MaxTime /\ 0 \in 0..MaxFrames
    BY ClientConstants
  <2> QED
    BY <2>1, ClientStarts
<1>2. ~mixed /\ WholeInv
  BY DEF ClientInit, WholeInv, DataNames
<1>3. node.pc # "update" /\ published = [time |-> 0, poses |-> {}]
  BY DEF NodeInit, Waiting
<1>4. PredictionsAgree
  BY <1>3 DEF PredictionsAgree
<1> QED
  BY <1>1, <1>2, <1>3, <1>4 DEF NodeInv

\* A frame that is read while the connection lasts is read to its end.
LEMMA ReadKeepsWhole ==
  ASSUME ClientInv, WholeInv, InputRead, connected
  PROVE  WholeInv'
<1>1. DataKept /\ DOMAIN latest.shown \in SUBSET Subjects
  BY DEF ClientInv, InputPlace
<1> DEFINE poses == ReadSubjects(DOMAIN latest.shown)
<1>2. data' = AddData(data, poses, {}) /\ output' = output
  <2>1. AddRead(poses, {}) /\ output' = output
    BY DEF InputRead, outputVars
  <2>2. Cardinality({}) = 0
    BY FS_EmptySet
  <2> HIDE DEF poses
  <2> QED
    BY <2>1, <2>2 DEF AddRead
<1>3. ASSUME NEW s \in DOMAIN poses PROVE WholePose(s, poses[s])
  <2>1. s \in DOMAIN latest.shown
    BY DEF ReadSubjects
  <2>2. /\ DOMAIN poses[s].segments = Segments(s)
        /\ \A g \in Segments(s) : poses[s].segments[g] = GetSegment(s, g, Statics)
    BY <1>1, <2>1, WholeReading
  <2>3. Statics \in 0..Statics
    BY DEF Statics
  <2> HIDE DEF poses
  <2> QED
    BY <2>2, <2>3, SegmentRead DEF WholePose
<1> HIDE DEF poses
<1>4. ASSUME NEW s \in Subjects PROVE \A i \in DOMAIN data'[s] : WholePose(s, data'[s][i])
  <2>1. \A i \in DOMAIN data[s] : WholePose(s, data[s][i])
    BY DEF WholeInv
  <2>2. \/ data'[s] = data[s]
        \/ /\ s \in DOMAIN poses
           /\ \/ data'[s] = <<poses[s]>>
              \/ data[s] = <<data[s][1]>> /\ data'[s] = <<data[s][1], poses[s]>>
              \/ data[s] = <<data[s][1], data[s][2]>> /\ data'[s] = <<data[s][2], poses[s]>>
    <3>1. s \in DataNames /\ s \notin {}
      BY DEF DataNames
    <3>2. /\ \/ data'[s] = data[s]
             \/ /\ s \in DOMAIN poses
                /\ \A g \in DOMAIN poses[s].segments : ~poses[s].segments[g].occluded
                /\ \/ s \in {} /\ data'[s] = <<poses[s], poses[s]>>
                   \/ data[s] = << >> /\ data'[s] = <<poses[s]>>
                   \/ data[s] = <<data[s][1]>> /\ data'[s] = <<data[s][1], poses[s]>>
                   \/ /\ data[s] = <<data[s][1], data[s][2]>>
                      /\ data'[s] = <<data[s][2], poses[s]>>
      BY <1>1, <1>2, <3>1, Added
    <3> QED
      BY <3>1, <3>2, Zenon
  <2>3. CASE data'[s] = data[s]
    BY <2>1, <2>3
  <2>4. CASE s \in DOMAIN poses /\ data'[s] = <<poses[s]>>
    BY <1>3, <2>4
  <2>5. CASE s \in DOMAIN poses /\ data[s] = <<data[s][1]>>
             /\ data'[s] = <<data[s][1], poses[s]>>
    <3>1. 1 \in DOMAIN data[s]
      BY <2>5
    <3>2. WholePose(s, data[s][1]) /\ WholePose(s, poses[s])
      BY <1>3, <2>1, <2>5, <3>1
    <3> QED
      BY <2>5, <3>2
  <2>6. CASE s \in DOMAIN poses /\ data[s] = <<data[s][1], data[s][2]>>
             /\ data'[s] = <<data[s][2], poses[s]>>
    <3>1. 2 \in DOMAIN data[s]
      BY <2>6
    <3>2. WholePose(s, data[s][2]) /\ WholePose(s, poses[s])
      BY <1>3, <2>1, <2>6, <3>1
    <3> QED
      BY <2>6, <3>2
  <2> QED
    BY <2>2, <2>3, <2>4, <2>5, <2>6
<1>5. data'[NoName] = << >>
  <2>1. NoName \notin DOMAIN poses /\ NoName \in DataNames
    BY <1>1, NoNameUnknown DEF poses, ReadSubjects, DataNames
  <2> QED
    BY <1>2, <2>1 DEF AddData, WholeInv
<1> QED
  BY <1>2, <1>4, <1>5 DEF WholeInv

\* A pose that is predicted from whole ones is whole.
LEMMA PredictKeepsWhole ==
  ASSUME DataKept, WholeInv, NEW t, UpdateFrameAtTime(t), UNCHANGED data
  PROVE  WholeInv'
<1>1. DOMAIN output' = Entries(data)
  BY DEF UpdateFrameAtTime, OutputPoses
<1>2. ASSUME NEW s \in DOMAIN output', output'[s].result = "ESuccess"
      PROVE  WholePose(s, output'[s])
  <2> DEFINE p1 == Head(data[s])
             p2 == data[s][Len(data[s])]
             pose == Predict(p1, p2, t)
  <2>1. s \in Subjects /\ s \in DataNames /\ data[s] # << >>
    BY <1>1, <1>2 DEF Entries, DataNames, WholeInv
  <2>2. output'[s] = IF Len(data[s]) >= 2 THEN pose ELSE NoPose
    BY <1>1 DEF UpdateFrameAtTime, OutputPoses
  <2>3. output'[s] = pose /\ pose.result = "ESuccess"
    BY <1>2, <2>2 DEF NoPose
  <2>4. data[s] = <<data[s][1]>> \/ data[s] = <<data[s][1], data[s][2]>>
    BY <2>1 DEF DataKept
  <2>5. Len(<<data[s][1]>>) = 1 /\ Len(<<data[s][1], data[s][2]>>) = 2
    OBVIOUS
  <2>6. p1 = data[s][1] /\ 1 \in DOMAIN data[s] /\ Len(data[s]) \in DOMAIN data[s]
    BY <2>4, <2>5
  <2>7. WholePose(s, p1) /\ WholePose(s, p2)
    BY <2>1, <2>6 DEF WholeInv
  <2> HIDE DEF p1, p2
  <2>8. DOMAIN pose.segments = Segments(s)
    <3>1. DOMAIN pose.segments = DOMAIN p1.segments \cap DOMAIN p2.segments
      BY <2>3, Predicts
    <3> QED
      BY <2>7, <3>1, Zenon DEF WholePose
  <2>9. ASSUME NEW g \in Segments(s) PROVE pose.segments[g].whole
    <3> DEFINE s1 == p1.segments[g]
               s2 == p2.segments[g]
               q  == pose.segments[g]
    <3>1. q = [T        |-> PredictVal(s1.T, p1.receipt, s2.T, p2.receipt, t),
               R        |-> PredictRotation(s1.R, p1.receipt, s2.R, p2.receipt, t),
               T_Rel    |-> PredictVal(s1.T_Rel, p1.receipt, s2.T_Rel, p2.receipt, t),
               R_Rel    |-> PredictRotation(s1.R_Rel, p1.receipt, s2.R_Rel, p2.receipt, t),
               whole    |-> s1.whole /\ s2.whole,
               occluded |-> s1.occluded \/ s2.occluded]
      BY <2>3, <2>8, Predicts
    <3>2. s1.whole /\ s2.whole
      BY <2>7 DEF WholePose
    <3> HIDE DEF q, s1, s2
    <3>3. q.whole <=> s1.whole /\ s2.whole
      BY <3>1
    <3> QED
      BY <3>2, <3>3 DEF q
  <2> HIDE DEF pose
  <2> QED
    BY <2>3, <2>8, <2>9 DEF WholePose
<1>3. NoName \notin DOMAIN output'
  BY <1>1 DEF Entries, WholeInv
<1> QED
  BY <1>2, <1>3 DEF WholeInv

\* What is published of a segment that was read to its end is true.
LEMMA PublishedTrue ==
  ASSUME OutputKept, OutputTrue, WholeInv, NEW s, NEW g, NEW p \in PosesOf(s, g),
         p.segment \in Segments(p.subject)
  PROVE  /\ p.T = TrueT(p.subject, p.segment, p.frame, p.over)
         /\ p.R = TrueR(p.subject, p.segment, p.frame, p.over)
<1> DEFINE trans  == GetSegmentGlobalTranslation(s, g)
           matrix == GetSegmentGlobalRotationMatrix(s, g)
           quat   == GetSegmentGlobalRotationQuaternion(s, g)
<1>1. /\ trans.result = "Success"
      /\ p = [subject |-> s, segment |-> g, R |-> quat.v, T |-> trans.v,
              receipt |-> trans.receipt, frame |-> trans.frame, over |-> trans.over]
  BY DEF PosesOf
<1>2. quat = matrix
  BY DEF GetSegmentGlobalRotationQuaternion, GetSegmentGlobalRotationMatrix
<1> HIDE DEF trans, matrix, quat
<1>3. /\ p.subject = s /\ p.segment = g /\ p.R = matrix.v /\ p.T = trans.v
      /\ p.frame = trans.frame /\ p.over = trans.over
  BY <1>1, <1>2
<1>4. s \in DOMAIN output /\ output[s].result = "ESuccess"
  BY PoseAt
<1>5. ReadWhole(s, g)
  BY <1>3, <1>4 DEF WholeInv, WholePose, ReadWhole
<1>6. /\ trans.v = TrueT(s, g, trans.frame, trans.over)
      /\ matrix.v = TrueR(s, g, trans.frame, trans.over)
  BY <1>1, <1>4, <1>5, PredictedTrue DEF trans, matrix
<1> QED
  BY <1>3, <1>6

\* Every step of the node, of the input thread and of the connection.
LEMMA NodeInvStep == NodeInv /\ [NodeNext]_<<clientVars, nodeVars>> => NodeInv'
<1> SUFFICES ASSUME NodeInv, [NodeNext]_<<clientVars, nodeVars>> PROVE NodeInv'
  OBVIOUS
<1>1. /\ ClientInv /\ ~mixed /\ (connected => WholeInv) /\ PredictionsAgree
      /\ published = [time |-> published.time, poses |-> published.poses]
      /\ DataKept /\ OutputKept /\ OutputTrue
      /\ now \in Nat /\ now \in now..MaxTime
  BY ClientConstants DEF NodeInv, ClientInv, InputPlace
<1>2. CASE UpdateThenAsk
           /\ UNCHANGED <<linkVars, latest, inputVars, outputThread, outputStopped, callVars>>
  <2>1. /\ UNCHANGED <<now, connected, latest, inputThread, held, data, mixed, call>>
        /\ UpdateFrameAtTime(node.time) /\ UNCHANGED published /\ node.time \in Nat
    BY <1>2 DEF UpdateThenAsk, linkVars, inputVars, callVars, NodeInv
  <2>2. ClientInv'
    BY <1>1, <2>1, PredictKeeps DEF ClientInv
  <2>3. connected' => WholeInv'
    BY <1>1, <2>1, PredictKeepsWhole
  <2>4. node'.pc # "update"
    BY <1>2 DEF UpdateThenAsk, Waiting
  <2>5. PredictionsAgree'
    BY <1>1, <2>1 DEF PredictionsAgree
  <2> QED
    BY <1>1, <2>1, <2>2, <2>3, <2>4, <2>5 DEF NodeInv
<1>3. ASSUME UNCHANGED clientVars PROVE ClientInv' /\ ~mixed' /\ (connected' => WholeInv')
  <2>1. UNCHANGED <<now, connected, latest, inputThread, held, data, output, mixed, call>>
    BY <1>3 DEF clientVars
  <2>2. ClientInv'
    BY <1>1, <2>1, Passing DEF ClientInv
  <2>3. connected' => WholeInv'
    BY <1>1, <2>1 DEF WholeInv
  <2> QED
    BY <1>1, <2>1, <2>2, <2>3
<1>4. CASE TimerCallback /\ UNCHANGED clientVars
  <2>1. /\ node' = [pc |-> "update", time |-> now]
        /\ published' = [time |-> now, poses |-> {}]
    BY <1>4 DEF TimerCallback
  <2>2. PredictionsAgree'
    BY <2>1 DEF PredictionsAgree
  <2> QED
    BY <1>1, <1>3, <1>4, <2>1, <2>2 DEF NodeInv
<1>5. CASE (CountSubjects \/ ListSegments \/ EndCallback) /\ UNCHANGED clientVars
  <2>1. UNCHANGED published
    BY <1>5 DEF CountSubjects, ListSegments, EndCallback
  <2>2. node'.pc # "update"
    <3>1. CountSubjects \/ EndCallback => node'.pc # "update"
      BY DEF CountSubjects, EndCallback, Waiting
    <3>2. ListSegments => node'.pc # "update"
      BY DEF ListSegments
    <3> QED
      BY <1>5, <3>1, <3>2
  <2>3. PredictionsAgree'
    BY <1>1, <2>1 DEF PredictionsAgree
  <2> QED
    BY <1>1, <1>3, <1>5, <2>1, <2>2, <2>3 DEF NodeInv
<1>6. CASE PublishSegment /\ UNCHANGED clientVars
  <2>1. node'.pc # "update"
    BY <1>6 DEF PublishSegment
  <2>2. PICK s, g : \/ published' = published
                    \/ /\ PosesOf(s, g) # {}
                       /\ published' = [published EXCEPT !.poses = @ \cup PosesOf(s, g)]
    BY <1>6, Zenon DEF PublishSegment
  <2>3. PosesOf(s, g) # {} => connected
    BY Zenon DEF PosesOf, GetSegmentGlobalTranslation, Predicted, Refuse, InitGet
  <2>4. connected => \A p \in PosesOf(s, g) : p.segment \in Segments(p.subject) =>
           /\ p.T = TrueT(p.subject, p.segment, p.frame, p.over)
           /\ p.R = TrueR(p.subject, p.segment, p.frame, p.over)
    BY <1>1, PublishedTrue
  <2>5. published' = [time |-> published'.time, poses |-> published'.poses]
    BY <1>1, <2>2
  <2>6. PredictionsAgree'
    <3>1. CASE published' = published
      BY <1>1, <3>1 DEF PredictionsAgree
    <3>2. CASE PosesOf(s, g) # {}
               /\ published' = [published EXCEPT !.poses = @ \cup PosesOf(s, g)]
      <4>1. published'.poses = published.poses \cup PosesOf(s, g)
        BY <1>1, <3>2
      <4>2. \A p \in PosesOf(s, g) : p.segment \in Segments(p.subject) =>
               /\ p.T = TrueT(p.subject, p.segment, p.frame, p.over)
               /\ p.R = TrueR(p.subject, p.segment, p.frame, p.over)
        BY <2>3, <2>4, <3>2
      <4> QED
        BY <1>1, <4>1, <4>2 DEF PredictionsAgree
    <3> QED
      BY <2>2, <3>1, <3>2
  <2> QED
    BY <1>3, <1>6, <2>1, <2>5, <2>6 DEF NodeInv
<1>7. CASE (Tick \/ Break \/ InputThread) /\ UNCHANGED nodeVars
  <2>1. ClientInv'
    BY <1>1, <1>7, ThreadsKeep DEF Below
  <2>2. ~mixed'
    BY <1>1, <1>7 DEF Tick, Break, InputThread, InputTop, InputGet, InputStamp, InputRead, callVars
  <2>3. connected' => WholeInv'
    <3>1. CASE InputRead
      <4>1. connected' = connected
        BY <3>1 DEF InputRead, linkVars
      <4> QED
        BY <1>1, <3>1, <4>1, ReadKeepsWhole
    <3>2. CASE Tick \/ InputTop \/ InputGet \/ InputStamp
      <4>1. UNCHANGED <<connected, data, output>>
        BY <3>2 DEF Tick, InputTop, InputGet, InputStamp, linkVars, inputVars, outputVars
      <4> QED
        BY <1>1, <4>1 DEF WholeInv
    <3>3. CASE Break
      BY <3>3 DEF Break
    <3> QED
      BY <1>7, <3>1, <3>2, <3>3 DEF InputThread
  <2>4. node' = node /\ published' = published
    BY <1>7 DEF nodeVars
  <2>5. PredictionsAgree'
    BY <1>1, <2>4 DEF PredictionsAgree
  <2> QED
    BY <2>1, <2>2, <2>3, <2>4, <2>5 DEF NodeInv
<1>8. CASE UNCHANGED <<clientVars, nodeVars>>
  <2>1. node' = node /\ published' = published /\ UNCHANGED clientVars
    BY <1>8 DEF nodeVars
  <2>2. PredictionsAgree'
    BY <1>1, <2>1 DEF PredictionsAgree
  <2> QED
    BY <1>3, <2>1, <2>2 DEF NodeInv
<1> QED
  BY <1>2, <1>4, <1>5, <1>6, <1>7, <1>8 DEF NodeNext, Callback

------------------------------------------------------------------------------
\* All that one callback of the node publishes is for the time it asked for.
THEOREM Together == NodeSpec => []PublishedTogether
<1>1. TimeInv => PublishedTogether
  BY DEF TimeInv
<1> QED
  BY <1>1, NodeStarts, TimeStep, PTL DEF NodeSpec

\* Of a single segment drop_count_ is the number of callbacks that published nothing, and never
\* wraps: a callback is counted before it may be discounted.
THEOREM Missed == NodeSpec => []MissedOfOne
<1>1. MissedInv => MissedOfOne
  BY DEF MissedInv, MissedOfOne, MissedCounted
<1> QED
  BY <1>1, NodeStarts, TimeStep, MissedStep, PTL DEF NodeSpec

\* What the node publishes of a subject's segment is where it was in the frame that the time
\* asked for falls on, whatever frames are added, and whenever the connection is lost.
THEOREM PublishedOnMotion == NodeSpec => []PredictionsAgree
<1>1. NodeInv => PredictionsAgree
  BY DEF NodeInv
<1> QED
  BY <1>1, NodeInvStarts, NodeInvStep, PTL DEF NodeSpec

------------------------------------------------------------------------------
(* vicon_bridge: its counts                                                   *)

\* Counts are numbers, and a callback that has a frame has its number.
CountType ==
    /\ first_frame_ \in BOOLEAN
    /\ first_frame_number_ \in Int /\ last_frame_number_ \in Int
    /\ frame_count_ \in Int /\ drop_count_ \in Int /\ processed \in Int
    /\ callback.pc \in {"idle", "frame", "segments"}
    /\ callback.pc = "idle" => callback = Idle
    /\ callback.pc # "idle" => callback.number \in Int
    /\ callback.pc = "segments" => callback.published \in BOOLEAN

\* The number up to which frames are counted: the one in the callback once it is counted.
CountedTo == IF callback.pc = "segments" THEN callback.number ELSE last_frame_number_

\* Nothing is counted before a transform has been published, and after that frame_count_ and
\* drop_count_ are right up to CountedTo.
CountInv ==
    /\ CountType
    /\ first_frame_ => frame_count_ = 0 /\ drop_count_ = 0 /\ processed = 0
    /\ (first_frame_ /\ callback.pc = "segments") => first_frame_number_ = callback.number
    /\ ~first_frame_ => /\ frame_count_ = CountedTo - first_frame_number_
                        /\ drop_count_ = frame_count_ - processed

\* The counts stand at the beginning.
LEMMA CountInit == BridgeInit => CountInv
  BY DEF BridgeInit, CountInv, CountType, CountedTo, Idle

\* Every step of the callback and of the threads keeps the counts right.
LEMMA CountStep == CountInv /\ [BridgeNext]_bridgeVars => CountInv'
<1> SUFFICES ASSUME CountInv, [BridgeNext]_bridgeVars PROVE CountInv'
  OBVIOUS
<1> USE DEF CountInv, CountType, CountedTo
<1>1. ASSUME NEW number \in 0..MaxFrame, NEW seen \in SUBSET Wanted, TakeFrame(number, seen)
      PROVE CountInv'
  BY <1>1, BridgeConstants DEF TakeFrame, Idle, countVars
<1>2. CASE SkipFrame
  BY <1>2 DEF SkipFrame, SetFirst, Idle
<1>3. CASE CountFrame
  <2>1. /\ callback.pc = "frame" /\ callback.number \in Int
        /\ callback'.pc = "segments" /\ callback'.number = callback.number
        /\ callback'.published \in BOOLEAN
        /\ first_frame_' = first_frame_ /\ last_frame_number_' = last_frame_number_
    BY <1>3 DEF CountFrame
  <2>2. CASE first_frame_
    <3>1. /\ first_frame_number_' = callback.number
          /\ frame_count_' = frame_count_ /\ drop_count_' = drop_count_ /\ processed' = processed
      BY <1>3, <2>2 DEF CountFrame, SetFirst
    <3> QED BY <2>1, <2>2, <3>1
  <2>3. CASE ~first_frame_
    <3>1. /\ first_frame_number_' = first_frame_number_
          /\ frame_count_' = frame_count_ + (callback.number - last_frame_number_)
          /\ drop_count_' = drop_count_ + (callback.number - last_frame_number_ - 1)
          /\ processed' = processed + 1
      BY <1>3, <2>3 DEF CountFrame, SetFirst, Diff
    <3> QED BY <2>1, <2>3, <3>1
  <2> QED BY <2>2, <2>3
<1>4. CASE EndFrame
  BY <1>4 DEF EndFrame, Idle
<1>5. CASE ProcessSegment
  <2>1. /\ callback.pc = "segments" /\ callback'.pc = "segments"
        /\ callback'.number = callback.number /\ callback'.published = callback.published
    BY <1>5 DEF ProcessSegment, AtSegment, NextSegment
  <2> QED
    BY <1>5, <2>1 DEF ProcessSegment, countVars
<1>6. ASSUME NEW c \in Creators, CreateSegmentThread(c) PROVE CountInv'
  BY <1>6 DEF CreateSegmentThread, countVars
<1>7. CASE UNCHANGED bridgeVars
  BY <1>7 DEF bridgeVars
<1> QED
  BY <1>1, <1>2, <1>3, <1>4, <1>5, <1>6, <1>7 DEF BridgeNext, GrabFrame

\* After the first published transform frame_count_ and drop_count_ stay in step with the
\* server's frame numbers.
THEOREM Counted == BridgeSpec => []FramesCounted
<1>1. CountInv => FramesCounted
  BY DEF CountInv, CountType, CountedTo, FramesCounted, Idle
<1> QED
  BY <1>1, CountInit, CountStep, PTL DEF BridgeSpec
==============================================================================
