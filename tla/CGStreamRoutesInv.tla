-------------------------- MODULE CGStreamRoutesInv --------------------------
(***************************************************************************)
(* What the threads of the DataStream client keep among them, and the      *)
(* inductive invariant it rests on.                                        *)
(***************************************************************************)
EXTENDS CGStreamRoutes

Origins == Routes \cup {"none"}
Statics == [version : Int, from : Origins]
Pairs == [frame : Nat, version : Int, static : Statics, from : Origins]
Packets == [frame : Nat, version : Int, static : BOOLEAN]
Connections == [open : BOOLEAN, told : BOOLEAN, streams : BOOLEAN, sent : Int, requests : Nat,
                next : BOOLEAN, shut : BOOLEAN, again : BOOLEAN]

\* The type of each variable; the queue keeps to its size.
TypeOK ==
    /\ frame \in Nat /\ version \in Nat
    /\ connection \in [Routes -> Connections]
    /\ wire \in [Routes -> Seq(Packets)]
    /\ pc \in [Routes -> Running \cup {"done"}]
    /\ changed \in [Routes -> SUBSET {"enums", "filter", "ping"}]
    /\ streaming \in [Routes -> BOOLEAN]
    /\ statics \in [Routes -> Int]
    /\ packet \in [Routes -> Packets]
    /\ connected \in [Routes -> BOOLEAN]
    /\ lastFrameID \in [Routes -> Int]
    /\ lastStatic \in Statics
    /\ hosts \subseteq Routes
    /\ queue \in Seq(Pairs)
    /\ bufferSize \in Nat /\ Len(queue) <= bufferSize
    /\ call \in {"connecting", "idle", "waiting", "clearing", "joining", "ended", "undefined"}
    /\ preFetch \in BOOLEAN
    /\ latest \in [frame : Int, from : Origins]
    /\ events \in Nat

\* One frame comes before another, or is the same frame over the same route.
Before(p, q) == p.frame < q.frame \/ (p.frame = q.frame /\ p.from = q.from)

\* While the system is not rebooted, the caller is handed the frames in their
\* order, and none that another route brought already: OnDynamicObjects compares
\* frame numbers of threads that run at their own pace.
AcceptedInOrder ==
    /\ \A i \in 1..Len(queue) : Before(latest, queue[i])
    /\ \A i, j \in 1..Len(queue) : i < j => Before(queue[i], queue[j])

\* While the system is not rebooted, the last frame queued is the newest there
\* is: neither the bound on the queue nor the comparison of routes makes the
\* client keep an older frame and lose a newer one.
NewestQueued ==
    queue # << >> => \A r \in Routes : lastFrameID[r] <= queue[Len(queue)].frame

\* A frame is paired with the last static objects of any route.  Where they came
\* over the frame's own route they are the ones it was captured with, although
\* a packet repeats them only when they changed and the two are handed over
\* one after the other.
PairedWithOwn(p) == p.static.from = p.from => p.static.version = p.version
OwnStatics == \A i \in 1..Len(queue) : PairedWithOwn(queue[i])

\* A filter is written only together with something else.  The ping that goes
\* with every frame the caller takes is what gets it to the server: while frames
\* are taken, and arrive over a route, no filter stays pending on that route for ever.
FilterPending(r) == "filter" \in changed[r]
FilterWritten ==
    \A r \in Routes :
      []<><<Dispatch>>_vars /\ []<>(pc[r] = "write") => []<>(~FilterPending(r))

\* Disconnect closes the sockets and joins the threads one by one, whatever they are reading,
\* waiting for or handing over.  Only for one that had yet to connect it may wait for ever: that
\* one opens its socket again, which nobody closes any more.  A callback that came to a client
\* half destroyed is excepted, too: what follows is undefined.
DisconnectEnds ==
    <>[](call \in {"clearing", "joining"}) => <>[](\E r \in Routes : connection[r].again)
------------------------------------------------------------------------------
(* The inductive invariant.                                                   *)

\* A host that was not resolved has no thread and no frame.
HostsOnly == \A r \in Routes \ hosts : pc[r] = "done" /\ lastFrameID[r] = NoFrame

\* The frames of the packets under way are in order, between two frames.
Ordered(from, packets, to) ==
    /\ from <= to
    /\ \A i \in 1..Len(packets) :
         /\ from <= packets[i].frame /\ packets[i].frame <= to
         /\ \A j \in 1..Len(packets) : i < j => packets[i].frame <= packets[j].frame

\* The frame a route read last, which it may still have to hand over.
LastRead(r) == IF pc[r] = "dynamic" THEN packet[r].frame ELSE lastFrameID[r]

\* A route's frames are in order on their way from the server to the comparison.
FramesFollow ==
    \A r \in Routes : lastFrameID[r] <= LastRead(r) /\ Ordered(LastRead(r), wire[r], frame)

\* A frame that was accepted is not later than the last of its route.
NotLater(p) == p.from \in hosts /\ p.frame <= lastFrameID[p.from]
QueueFollows ==
    /\ \A i \in 1..Len(queue) : NotLater(queue[i])
    /\ CalledBack => latest = NoPair \/ NotLater(latest)
    /\ ~CalledBack => queue = << >>

\* What a packet leaves out its route has, or is about to have: each packet has
\* static objects or is of the version before it.
VersionBefore(packets, kept, i) == IF i = 1 THEN kept ELSE packets[i - 1].version
LastVersion(packets, kept) == VersionBefore(packets, kept, Len(packets) + 1)
Elided(packets, kept) ==
    \A i \in 1..Len(packets) :
      packets[i].static \/ packets[i].version = VersionBefore(packets, kept, i)

RouteStatics(r) ==
    /\ Elided(wire[r], statics[r])
    /\ connection[r].open => connection[r].sent = LastVersion(wire[r], statics[r])
    /\ pc[r] = "connecting" =>
         /\ wire[r] = << >> /\ statics[r] = -1
         /\ ~connection[r].open /\ connection[r].sent = -1
    /\ pc[r] = "dynamic" => packet[r].version = statics[r]
    /\ lastStatic.from = r => lastStatic.version = statics[r]
StaticsFollow == (~CalledBack => lastStatic = NoStatic) /\ \A r \in Routes : RouteStatics(r)

FrameInv == TypeOK /\ HostsOnly /\ FramesFollow /\ QueueFollows /\ AcceptedInOrder /\ NewestQueued
StaticInv == TypeOK /\ StaticsFollow /\ OwnStatics
==============================================================================
