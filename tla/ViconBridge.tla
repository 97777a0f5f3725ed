---------------------------- MODULE ViconBridge ----------------------------
(***************************************************************************)
(* The node vicon_bridge.  A timer callback waits for a frame, counts the  *)
(* frames that were missed since the last, and publishes the pose of each  *)
(* segment.  The publishers of a segment are made the first time it is     *)
(* seen, by a detached thread that holds segments_mutex_ only to insert    *)
(* the entry; the callback gives up on a segment whenever the mutex is     *)
(* taken, and asks for a segment again as long as it finds no entry.       *)
(*                                                                         *)
(* is_ready and the two publishers are written and read with no lock in    *)
(* common.  A build may order the last two writes either way, and a        *)
(* publisher that is used while it is null or is being replaced may end    *)
(* the process.  Markers are published from the same frame and change      *)
(* nothing; parameters and diagnostics are left out.                       *)
(***************************************************************************)
EXTENDS Integers, Sequences

CONSTANTS
    SegmentKeys,   \* "subject/segment" of all there may be, in the order of the frame
    MaxFrame,      \* bound: the highest number of a frame
    Creators       \* bound: the threads that make publishers at one time

ASSUME BridgeConstants == MaxFrame \in Nat

VARIABLES
    mode,                 \* the segments to be published: one or all
    first_frame_, first_frame_number_, last_frame_number_, frame_count_, drop_count_,
    segment_publishers_,  \* the entries of the map
    mutex,                \* who holds segments_mutex_
    creator,              \* of each thread that makes publishers: where it is, and the key
    callback,             \* the timer callback
    bridge,               \* the process runs or is down
    processed,            \* history: the frames processed since the first
    asked                 \* history: the segments a thread was started for

countVars == <<first_frame_, first_frame_number_, last_frame_number_, frame_count_, drop_count_,
               processed>>
bridgeVars == <<mode, first_frame_, first_frame_number_, last_frame_number_, frame_count_,
                drop_count_, segment_publishers_, mutex, creator, callback, bridge, processed,
                asked>>

Keys == {SegmentKeys[i] : i \in DOMAIN SegmentKeys}
Nowhere == [pc |-> "none"]
Idle == [pc |-> "idle"]

------------------------------------------------------------------------------
(* The callback                                                               *)

\* It waits for a frame; of its segments those matter whose transform can be had.
TakeFrame(number, seen) ==
    /\ callback = Idle
    /\ callback' = [pc |-> "frame", number |-> number,
                    todo |-> SelectSeq(SegmentKeys, LAMBDA k : k \in seen)]
    /\ UNCHANGED <<countVars, segment_publishers_, creator, asked>>

Diff == callback.number - last_frame_number_
SetFirst ==
    first_frame_number_' = IF first_frame_ THEN callback.number ELSE first_frame_number_

\* Mutant of SkipFrame: last_frame_number_ follows although nothing was counted.
SkipFrameAndFollow ==
    /\ callback.pc = "frame"
    /\ Diff <= 0
    /\ SetFirst
    /\ callback' = Idle
    /\ last_frame_number_' = callback.number
    /\ UNCHANGED <<first_frame_, frame_count_, drop_count_, processed, segment_publishers_,
                   creator, asked>>

\* A frame that is not new ends the callback.
SkipFrame ==
    /\ callback.pc = "frame"
    /\ Diff <= 0
    /\ SetFirst
    /\ callback' = Idle
    /\ UNCHANGED <<first_frame_, last_frame_number_, frame_count_, drop_count_, processed,
                   segment_publishers_, creator, asked>>

CountFrame ==
    /\ callback.pc = "frame"
    /\ Diff > 0
    /\ SetFirst
    /\ callback' = [pc |-> "segments", number |-> callback.number, todo |-> callback.todo,
                    published |-> callback.todo # << >>]
    /\ IF first_frame_
       THEN UNCHANGED <<frame_count_, drop_count_, processed>>
       ELSE /\ frame_count_' = frame_count_ + Diff
            /\ drop_count_' = drop_count_ + (Diff - 1)
            /\ processed' = processed + 1
    /\ UNCHANGED <<first_frame_, last_frame_number_, segment_publishers_, creator, asked>>

Key == Head(callback.todo)
NextSegment == callback' = [callback EXCEPT !.todo = Tail(@)]
AtSegment == callback.pc = "segments" /\ callback.todo # << >>

\* create_segment: a detached thread.
StartCreator ==
    /\ Key \notin DOMAIN segment_publishers_
    /\ \E c \in Creators :
          /\ creator[c] = Nowhere
          /\ creator' = [creator EXCEPT ![c] = [pc |-> "lock", key |-> Key]]
    /\ asked' = asked \cup {Key}
    /\ UNCHANGED <<segment_publishers_, bridge>>

\* A publisher of k that is null, or that a thread is replacing, may bring the process down.
Unsafe(k) ==
    \E c \in Creators :
        creator[c] # Nowhere /\ creator[c].key = k /\ creator[c].pc \in {"pub", "pose", "late"}

PublishToSegment ==
    /\ Key \in DOMAIN segment_publishers_
    /\ \/ bridge' = bridge
       \/ segment_publishers_[Key].is_ready /\ Unsafe(Key) /\ bridge' = "down"
    /\ UNCHANGED <<segment_publishers_, creator, asked>>

\* The transform is kept for the broadcaster whatever becomes of the publishers.
ProcessSegment ==
    /\ AtSegment
    /\ NextSegment
    /\ \/ mutex # "free" /\ UNCHANGED <<segment_publishers_, creator, asked, bridge>>
       \/ mutex = "free" /\ (StartCreator \/ PublishToSegment)
    /\ UNCHANGED countVars

EndFrame ==
    /\ callback.pc = "segments"
    /\ callback.todo = << >>
    /\ first_frame_' = (first_frame_ /\ ~callback.published)
    /\ last_frame_number_' = callback.number
    /\ callback' = Idle
    /\ UNCHANGED <<first_frame_number_, frame_count_, drop_count_, processed,
                   segment_publishers_, creator, asked>>

------------------------------------------------------------------------------
(* create_segment_thread                                                      *)

Goto(c, pc) == creator' = [creator EXCEPT ![c].pc = pc]
At(c, pc) == creator[c] # Nowhere /\ creator[c].pc = pc
Set(k, field) == segment_publishers_' = [segment_publishers_ EXCEPT ![k] = field]
Entry(c) == segment_publishers_[creator[c].key]

Lock(c) ==
    /\ At(c, "lock")
    /\ mutex = "free"
    /\ mutex' = c
    /\ Goto(c, "insert")
    /\ UNCHANGED segment_publishers_

\* The entry there is, or a new one.
InsertAndUnlock(c) ==
    /\ At(c, "insert")
    /\ LET k == creator[c].key
           new == [pub |-> FALSE, pub_poseMsg |-> FALSE, is_ready |-> FALSE]
       IN  segment_publishers_' =
             [key \in DOMAIN segment_publishers_ \cup {k} |->
                IF key \in DOMAIN segment_publishers_ THEN segment_publishers_[key] ELSE new]
    /\ mutex' = "free"
    /\ Goto(c, "pub")

CreatePub(c) ==
    /\ At(c, "pub")
    /\ Set(creator[c].key, [Entry(c) EXCEPT !.pub = TRUE])
    /\ Goto(c, "pose")
    /\ UNCHANGED mutex

\* Mutant of SetReady: the flag is set on a copy of the entry.
SetReadyOnCopy(c) ==
    /\ At(c, "ready")
    /\ creator' = [creator EXCEPT ![c] = Nowhere]
    /\ UNCHANGED <<segment_publishers_, mutex>>

CreatePubPose(c) ==
    /\ At(c, "pose")
    /\ \/ /\ Set(creator[c].key, [Entry(c) EXCEPT !.pub_poseMsg = TRUE])
          /\ Goto(c, "ready")
       \/ /\ Set(creator[c].key, [Entry(c) EXCEPT !.is_ready = TRUE])
          /\ Goto(c, "late")
    /\ UNCHANGED mutex

SetReady(c) ==
    /\ At(c, "ready")
    /\ Set(creator[c].key, [Entry(c) EXCEPT !.is_ready = TRUE])
    /\ creator' = [creator EXCEPT ![c] = Nowhere]
    /\ UNCHANGED mutex

\* The flag was written before the pose's publisher.
SetLate(c) ==
    /\ At(c, "late")
    /\ Set(creator[c].key, [Entry(c) EXCEPT !.pub_poseMsg = TRUE])
    /\ creator' = [creator EXCEPT ![c] = Nowhere]
    /\ UNCHANGED mutex

CreateSegmentThread(c) ==
    /\ \/ Lock(c) \/ InsertAndUnlock(c) \/ CreatePub(c) \/ CreatePubPose(c)
       \/ SetReady(c) \/ SetLate(c)
    /\ UNCHANGED <<countVars, callback, bridge, asked>>

------------------------------------------------------------------------------
BridgeInit ==
    /\ mode \in {"one", "all"}
    /\ first_frame_ = TRUE /\ first_frame_number_ = 0 /\ last_frame_number_ = 0
    /\ frame_count_ = 0 /\ drop_count_ = 0 /\ processed = 0
    /\ segment_publishers_ = << >>
    /\ mutex = "free"
    /\ creator = [c \in Creators |-> Nowhere]
    /\ callback = Idle
    /\ bridge = "up"
    /\ asked = {}

\* publish_specific_segment_ names the first of the segments here.
Wanted == IF mode = "one" THEN {SegmentKeys[1]} ELSE Keys

\* A server that was started again counts from a lower number.
GrabFrame ==
    \/ /\ \/ \E number \in 0..MaxFrame, seen \in SUBSET Wanted : TakeFrame(number, seen)
          \/ SkipFrame \/ CountFrame \/ EndFrame
       /\ UNCHANGED bridge
    \/ ProcessSegment

BridgeNext ==
    /\ bridge = "up"
    /\ \/ GrabFrame /\ UNCHANGED <<mode, mutex>>
       \/ \E c \in Creators : CreateSegmentThread(c) /\ UNCHANGED mode

\* Threads run on; the mutex is wanted by as many as there are entries to insert, and no more.
BridgeFairness ==
    \A c \in Creators :
        WF_bridgeVars(bridge = "up" /\ CreateSegmentThread(c) /\ UNCHANGED mode)

BridgeSpec == BridgeInit /\ [][BridgeNext]_bridgeVars /\ BridgeFairness

------------------------------------------------------------------------------
(* Properties                                                                 *)

\* Between callbacks, once a transform has been published, frame_count_ is how far the server
\* has come since that frame, and drop_count_ is those of them that were not processed: the
\* two stay in step through frames that come twice, are missed or restart at a lower number.
FramesCounted ==
    (callback = Idle /\ ~first_frame_) =>
        /\ frame_count_ = last_frame_number_ - first_frame_number_
        /\ drop_count_ = frame_count_ - processed

\* A segment whose publishers were asked for gets both of them and is marked ready, in spite
\* of the callback trying the mutex and of a second thread that was started for it; unless a
\* publisher was used while it was written, which ends the process.
SegmentsReady ==
    \A k \in Keys :
        k \in asked ~>
            \/ k \in DOMAIN segment_publishers_
               /\ segment_publishers_[k] =
                    [pub |-> TRUE, pub_poseMsg |-> TRUE, is_ready |-> TRUE]
            \/ bridge = "down"
==============================================================================
