--------------------------- MODULE MCViconBridges ---------------------------
(***************************************************************************)
(* One at a time: vicon_bridge, vicon_bridge_retiming, or an application   *)
(* that makes every call of the retiming client.  Its frames come, but     *)
(* show nothing: no call and no thread waits for what a frame shows.       *)
(***************************************************************************)
EXTENDS ViconBridgeRetiming, ViconBridge

VARIABLE driver

MCSubjectNames == <<"a", "b">>
MCSegmentNames == [a |-> <<"hip", "foot">>, b |-> <<"hip">>]
MCSegmentParents == [a |-> [hip |-> "", foot |-> "hip"], b |-> [hip |-> ""]]
MCTarget == <<"a", "foot">>
MCSegmentKeys == <<"a/hip", "a/foot">>

Drivers == {"bridge", "node", "application"}

Init ==
    /\ driver \in Drivers
    /\ IF driver = "bridge" THEN BridgeInit ELSE BridgeInit /\ mode = "one"
    /\ IF driver = "application" THEN ClientInit(FALSE, 0, MaxFrames)
       ELSE ClientInit(TRUE, 0, 0)
    /\ IF driver = "node" THEN NodeInit ELSE NodeInit /\ publish_specific_segment_

Bridge ==
    /\ driver = "bridge"
    /\ BridgeNext
    /\ UNCHANGED <<clientVars, nodeVars, driver>>

Node ==
    /\ driver = "node"
    /\ NodeNext
    /\ UNCHANGED <<bridgeVars, driver>>

Application ==
    /\ driver = "application"
    /\ ClientNext
    /\ UNCHANGED <<nodeVars, bridgeVars, driver>>

Next == Bridge \/ Node \/ Application

Fairness ==
    /\ \A c \in Creators :
          WF_bridgeVars(driver = "bridge" /\ bridge = "up" /\ CreateSegmentThread(c) /\ UNCHANGED mode)
    /\ WF_clientVars(driver = "application" /\ Tick)
    /\ WF_clientVars(driver = "application" /\ InputThread)
    /\ WF_clientVars(driver = "application" /\ OutputThread)
    /\ WF_clientVars(driver = "application" /\ CallReturns)

Spec ==
    /\ Init
    /\ [][Next]_<<clientVars, nodeVars, bridgeVars, driver>>
    /\ Fairness
==============================================================================
