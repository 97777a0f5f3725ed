------------------------ MODULE ViconBridgeRetiming ------------------------
(***************************************************************************)
(* The node vicon_bridge_retiming.  Its timer callback has the retiming    *)
(* client predict where everything is now and publishes what it predicted: *)
(* the pose of one segment, or of every segment of every subject, while    *)
(* the input thread goes on adding frames and the connection may be lost   *)
(* between any two calls.  init_vicon connects, once; the node never       *)
(* disconnects, and does not connect again.                                *)
(***************************************************************************)
EXTENDS RetimingGetters

CONSTANTS
    Target,         \* target_subject_name_ and target_segment_name_
    SizeT,          \* the range of its counter, a std::size_t
    MaxCallbacks    \* bound: the timer's callbacks

ASSUME NodeConstants == SizeT \in Nat /\ MaxCallbacks \in 0..(SizeT - 1)

VARIABLES
    publish_specific_segment_,
    retiming_drop_count_,   \* its drop_count_
    node,           \* the timer callback
    published,      \* the poses published by the latest callback, and the time it asked for
    callbacks, missed   \* history: the callbacks, and those that published nothing

nodeVars == <<publish_specific_segment_, retiming_drop_count_, node, published, callbacks, missed>>

Waiting == [pc |-> "idle"]
Wrapped(n) == n % SizeT

------------------------------------------------------------------------------
TimerCallback ==
    /\ node = Waiting
    /\ callbacks < MaxCallbacks
    /\ callbacks' = callbacks + 1
    /\ missed' = missed + 1
    /\ retiming_drop_count_' = Wrapped(retiming_drop_count_ + 1)
    /\ node' = [pc |-> "update", time |-> now]
    /\ published' = [time |-> now, poses |-> {}]
    /\ UNCHANGED publish_specific_segment_

\* The time was taken before; if no subject could be predicted the callback returns.
UpdateThenAsk ==
    /\ node.pc = "update"
    /\ UpdateFrameAtTime(node.time)
    /\ node' = IF UpdateResult(output') # "ESuccess" THEN Waiting
               ELSE IF publish_specific_segment_
                    THEN [pc |-> "segments", subjects |-> << >>, segments |-> <<Target>>]
                    ELSE [pc |-> "count"]
    /\ UNCHANGED <<publish_specific_segment_, retiming_drop_count_, published, callbacks, missed>>

CountSubjects ==
    /\ node.pc = "count"
    /\ node' = IF GetSubjectCount.result = "Success"
               THEN [pc |-> "segments", subjects |-> OutputNames(output), segments |-> << >>]
               ELSE Waiting
    /\ UNCHANGED <<publish_specific_segment_, retiming_drop_count_, published, callbacks, missed>>

\* The names of a subject's segments are those of the pose received last.
ListSegments ==
    /\ node.pc = "segments"
    /\ node.segments = << >> /\ node.subjects # << >>
    /\ LET s     == Head(node.subjects)
           count == GetSegmentCount(s)
       IN  node' = [node EXCEPT
             !.subjects = Tail(@),
             !.segments = IF count.result = "Success"
                          THEN [i \in 1..count.v |-> <<s, GetSegmentName(s, i - 1).v>>]
                          ELSE << >>]
    /\ UNCHANGED <<publish_specific_segment_, retiming_drop_count_, published, callbacks, missed>>

\* What is published of a segment, if neither of its two getters fails or finds it occluded.
PosesOf(s, g) ==
    LET quat  == GetSegmentGlobalRotationQuaternion(s, g)
        trans == GetSegmentGlobalTranslation(s, g)
    IN  IF quat.result # "Success" \/ trans.result # "Success" THEN {}
        ELSE IF quat.occluded \/ trans.occluded THEN {}
        ELSE {[subject |-> s, segment |-> g, R |-> quat.v, T |-> trans.v,
               receipt |-> trans.receipt, frame |-> trans.frame, over |-> trans.over]}

PublishSegment ==
    /\ node.pc = "segments"
    /\ node.segments # << >>
    /\ LET poses == PosesOf(Head(node.segments)[1], Head(node.segments)[2])
       IN  IF poses # {}
           THEN /\ published' = [published EXCEPT !.poses = @ \cup poses]
                /\ retiming_drop_count_' = Wrapped(retiming_drop_count_ - 1)
                /\ missed' = IF published.poses = {} THEN missed - 1 ELSE missed
           ELSE UNCHANGED <<published, retiming_drop_count_, missed>>
    /\ node' = [node EXCEPT !.segments = Tail(@)]
    /\ UNCHANGED <<publish_specific_segment_, callbacks>>

EndCallback ==
    /\ node.pc = "segments"
    /\ node.segments = << >> /\ node.subjects = << >>
    /\ node' = Waiting
    /\ UNCHANGED <<publish_specific_segment_, retiming_drop_count_, published, callbacks, missed>>

NodeInit ==
    /\ publish_specific_segment_ \in BOOLEAN
    /\ retiming_drop_count_ = 0
    /\ node = Waiting
    /\ published = [time |-> 0, poses |-> {}]
    /\ callbacks = 0 /\ missed = 0

Callback ==
    \/ UpdateThenAsk /\ UNCHANGED <<linkVars, latest, inputVars, outputThread, outputStopped, callVars>>
    \/ /\ TimerCallback \/ CountSubjects \/ ListSegments \/ PublishSegment \/ EndCallback
       /\ UNCHANGED clientVars

\* A server that falls silent is one whose next frame never comes.
NodeNext ==
    \/ Callback
    \/ (Tick \/ Break \/ InputThread) /\ UNCHANGED nodeVars

NodeSpec == ClientInit(TRUE, 0, 0) /\ NodeInit /\ [][NodeNext]_<<clientVars, nodeVars>>

------------------------------------------------------------------------------
(* Properties                                                                 *)

\* What is published of a segment that the subject has is where it was, and how it was turned,
\* when the server captured the frame that the time asked for falls on: prediction from two
\* frames, in which nothing was occluded, received at uneven times, agrees with a steady motion,
\* and none is published from a frame that was read in part.
PredictionsAgree ==
    \A p \in published.poses : p.segment \in Segments(p.subject) =>
        /\ p.T = TrueT(p.subject, p.segment, p.frame, p.over)
        /\ p.R = TrueR(p.subject, p.segment, p.frame, p.over)

\* All that one callback publishes is for the one time it asked for, whatever frames the input
\* thread adds while the callback goes through the subjects and segments.
PublishedTogether ==
    \A p \in published.poses : p.receipt = published.time

\* "Missed %zu callbacks", the timer callbacks say of retiming_drop_count_ as they begin: as many
\* as have published nothing.  It is so of a single segment, but not where all are published:
\* the counter, raised by one for a callback, is lowered for each pose.
MissedCounted == node = Waiting => retiming_drop_count_ = missed
==============================================================================
