--------------------------- MODULE CGStreamRoutes ---------------------------
(***************************************************************************)
(* The threads of the DataStream client.  A VCGClient reads one server     *)
(* over several routes at once: a VViconCGStreamClient of each route has a *)
(* thread that writes what was asked for and reads packets, and hands the  *)
(* objects of a packet to the VCGClient in two calls, the static ones and  *)
(* then the dynamic ones.  The VCGClient drops frames it already has from  *)
(* another route and queues the others; a caller's GetFrame waits for one. *)
(*                                                                         *)
(* A step is what runs under one hold of m_ClientMutex or m_Mutex, with    *)
(* the reading before it, which touches what only its thread has.  Of a    *)
(* packet the model keeps the frame's number and the version of the static *)
(* objects that belong to it; what packets hold otherwise is the matter of *)
(* DataStreamSession.  The server and the network are assumptions.         *)
(***************************************************************************)
EXTENDS Integers, Sequences

CONSTANTS
    Routes,          \* the hosts VCGClient::Connect is given
    FirstFrame,      \* the server's frame when the client connects
    MaxFrames,       \* bound: the server's last frame
    MaxWire,         \* bound: packets under way; the server drops what exceeds it
    MaxRequests,     \* bound: requests under way; more are taken for one
    MaxEvents,       \* bound: changes of the static objects, refused and broken routes,
                     \* and the caller's calls other than GetFrame, altogether
    BufferSize,      \* the queue's size when the client connects
    BufferSizes      \* what the caller sets it to

ASSUME ConstantsAssumption ==
    /\ FirstFrame \in Nat /\ MaxFrames \in Nat /\ MaxWire \in Nat
    /\ MaxRequests \in Nat \ {0} /\ MaxEvents \in Nat
    /\ BufferSize \in Nat /\ BufferSizes \subseteq Nat
    /\ Routes # {} /\ "none" \notin Routes

VARIABLES
    \* the server
    frame,         \* the frame it captured last
    version,       \* the number of changes of its static objects
    connection,    \* of each route: what the server knows of it, whether Disconnect has closed
                   \* the socket (shut), and whether the thread opened it again after that
    wire,          \* of each route: the packets sent and not yet read
    \* the client's threads, one a route
    pc,
    changed,       \* m_bEnumsChanged, m_bFilterChanged, m_bPingChanged
    streaming,     \* m_bStreaming
    statics,       \* m_pStaticObjects
    packet,        \* what ReadObjects hands over
    \* VCGClient
    hosts,         \* those of m_pClients, whose names could be resolved
    connected,     \* m_Connected
    lastFrameID,   \* m_LastFrameIDs
    lastStatic,    \* m_pLastStaticObjects
    queue,         \* m_FrameDeque
    bufferSize,    \* m_MaxBufferSize
    \* VClient and its caller
    call, preFetch, latest,
    events

serverVars == <<frame, version>>
threadVars == <<changed, streaming, statics, packet>>
sharedVars == <<connected, lastFrameID, lastStatic, queue>>
callerVars == <<call, preFetch, latest>>
vars == <<frame, version, connection, wire, pc, changed, streaming, statics, packet,
          hosts, connected, lastFrameID, lastStatic, queue, bufferSize, call, preFetch, latest,
          events>>

NoFrame == -1
NoStatic == [version |-> -1, from |-> "none"]
NoPair == [frame |-> NoFrame, from |-> "none"]
NoPacket == [frame |-> 0, version |-> -1, static |-> FALSE]
NoConnection ==
    [open |-> FALSE, told |-> FALSE, streams |-> FALSE, sent |-> -1, requests |-> 0,
     next |-> FALSE, shut |-> FALSE, again |-> FALSE]

Running == {"connecting", "write", "read", "dynamic"}

------------------------------------------------------------------------------
(* The server                                                                 *)

\* A packet repeats the static objects only where they changed on this route.
PacketFor(c, f, v) == [frame |-> f, version |-> v, static |-> c.sent # v]
\* A request is answered with the current frame, sent before or not.
Answered(c) == [c EXCEPT !.requests = @ - 1, !.sent = version]

Event == events < MaxEvents /\ events' = events + 1

Sends(c, w) == c.open /\ c.told /\ Len(w) < MaxWire

\* A streaming route, or one that asked for the next frame, is sent each frame.
Capture ==
    /\ frame < MaxFrames
    /\ frame' = frame + 1
    /\ \/ version' = version /\ UNCHANGED events
       \/ version' = version + 1 /\ Event
    /\ LET sent == {r \in Routes : /\ Sends(connection[r], wire[r])
                                   /\ connection[r].streams \/ connection[r].next}
       IN  /\ wire' = [r \in Routes |->
                         IF r \in sent
                         THEN Append(wire[r], PacketFor(connection[r], frame', version'))
                         ELSE wire[r]]
           /\ connection' = [r \in Routes |->
                               IF r \in sent
                               THEN [connection[r] EXCEPT !.sent = version', !.next = FALSE]
                               ELSE connection[r]]
    /\ UNCHANGED <<hosts, pc, threadVars, sharedVars, bufferSize, callerVars>>

AnswerRequest(r) ==
    /\ Sends(connection[r], wire[r])
    /\ connection[r].requests > 0
    /\ wire' = [wire EXCEPT ![r] = Append(@, PacketFor(connection[r], frame, version))]
    /\ connection' = [connection EXCEPT ![r] = Answered(connection[r])]
    /\ UNCHANGED <<hosts, serverVars, pc, threadVars, sharedVars, bufferSize, callerVars,
                   events>>

\* The connection breaks; what has arrived can still be read.
Break(r) ==
    /\ connection[r].open /\ Event
    /\ connection' = [connection EXCEPT ![r] = [NoConnection EXCEPT !.shut = connection[r].shut]]
    /\ UNCHANGED <<hosts, serverVars, wire, pc, threadVars, sharedVars, bufferSize,
                   callerVars>>

------------------------------------------------------------------------------
(* ClientThread                                                               *)

Usable(r) == connection[r].open

\* A route holds the callbacks weakly. They go with the VCGClient, but after what they use.
CalledBack == call \notin {"clearing", "joining", "ended", "undefined"}

\* A callback on what is destroyed already is undefined behaviour: the threads stop here, and
\* of what becomes of the process nothing is said.
CallBack ==
    /\ call' = IF call = "clearing" THEN "undefined" ELSE call
    /\ UNCHANGED <<preFetch, latest>>

OnDisconnect(r) ==
    /\ pc' = [pc EXCEPT ![r] = "done"]
    /\ connected' = [connected EXCEPT ![r] = FALSE]
    /\ CallBack

\* The flags of a thread that ended are read by nobody, and left out.
Flag(flag) == [r \in Routes |-> IF pc[r] = "done" THEN {} ELSE changed[r] \cup {flag}]

\* The object types of the server are read before anything is written; if they
\* do not arrive, the first WriteObjects fails in place of ReadObjectEnums.  A
\* socket that was closed before the thread connects is opened again.
ThreadConnects(r) ==
    /\ pc[r] = "connecting"
    /\ pc' = [pc EXCEPT ![r] = "write"]
    /\ connection' = [connection EXCEPT ![r].open = TRUE, ![r].again = connection[r].shut]
    /\ connected' = [connected EXCEPT ![r] = CalledBack]
    /\ CallBack
    /\ UNCHANGED <<hosts, serverVars, wire, threadVars, lastFrameID, lastStatic, queue,
                   bufferSize, events>>

\* A refused connection ends the thread without OnDisconnect, and so does one
\* that Disconnect closes as it is made.
ThreadRefused(r) ==
    /\ pc[r] = "connecting"
    /\ (connection[r].shut /\ UNCHANGED events) \/ Event
    /\ pc' = [pc EXCEPT ![r] = "done"]
    /\ changed' = [changed EXCEPT ![r] = {}]
    /\ UNCHANGED <<hosts, serverVars, connection, wire, streaming, statics, packet, sharedVars,
                   bufferSize, callerVars>>

\* A changed filter goes out with the other changes, but not by itself.
WriteObjects(r) ==
    /\ pc[r] = "write"
    /\ \/ /\ changed[r] \cap {"enums", "ping"} = {}
          /\ pc' = [pc EXCEPT ![r] = "read"]
          /\ UNCHANGED <<hosts, serverVars, connection, wire, threadVars, sharedVars,
                         bufferSize, callerVars, events>>
       \/ /\ changed[r] \cap {"enums", "ping"} # {}
          /\ changed' = [changed EXCEPT ![r] = {}]
          /\ \/ /\ Usable(r)
                /\ pc' = [pc EXCEPT ![r] = "read"]
                /\ connection' = [connection EXCEPT ![r].told = @ \/ "enums" \in changed[r]]
                /\ UNCHANGED <<connected, callerVars>>
             \/ /\ ~Usable(r)
                /\ OnDisconnect(r)
                /\ UNCHANGED connection
          /\ UNCHANGED <<hosts, serverVars, wire, streaming, statics, packet, lastFrameID,
                         lastStatic, queue, bufferSize, events>>

------------------------------------------------------------------------------
(* VCGClient                                                                  *)

\* Mutant of IsNew: the frame is compared with those of its own route.
IsNewOnRoute(r, f) == lastFrameID[r] < f

\* With one route every frame is taken.  With several, a frame must be later than
\* the last of every other route, and than 0 where there was none.
IsNew(r, f) ==
    \/ hosts = {r}
    \/ f > 0 /\ \A s \in hosts \ {r} : lastFrameID[s] < f

\* Mutant of Trim: the newest frames are thrown away.
TrimNewest(q, n) == IF Len(q) > n THEN SubSeq(q, 1, n) ELSE q

\* Mutant of Trim: one frame more is kept.
TrimAboveSize(q, n) == IF Len(q) > n + 1 THEN SubSeq(q, Len(q) - n + 1, Len(q)) ELSE q

\* The oldest frames go where there are more than the size.
Trim(q, n) == IF Len(q) > n THEN SubSeq(q, Len(q) - n + 1, Len(q)) ELSE q

\* A frame is paired with whatever static objects came last, over any route.
OnDynamicObjects(r, p) ==
    LET pair == [frame |-> p.frame, version |-> p.version, static |-> lastStatic, from |-> r]
    IN  /\ IF CalledBack
           THEN /\ lastFrameID' = [lastFrameID EXCEPT ![r] = p.frame]
                /\ queue' = IF IsNew(r, p.frame) THEN Trim(Append(queue, pair), bufferSize)
                                                ELSE queue
           ELSE UNCHANGED <<lastFrameID, queue>>
        /\ CallBack

OnStaticObjects(r, v) ==
    /\ lastStatic' = IF CalledBack THEN [version |-> v, from |-> r] ELSE lastStatic
    /\ CallBack

\* Mutant of ReadStaticObjects: the static objects of a packet are not kept.
ReadStaticObjectsKeepingNone(r) ==
    /\ pc[r] = "read" /\ wire[r] # << >> /\ Head(wire[r]).static
    /\ wire' = [wire EXCEPT ![r] = Tail(@)]
    /\ packet' = [packet EXCEPT ![r] = Head(wire[r])]
    /\ OnStaticObjects(r, statics[r])
    /\ pc' = [pc EXCEPT ![r] = "dynamic"]
    /\ UNCHANGED <<hosts, serverVars, connection, changed, streaming, statics, connected,
                   lastFrameID, queue, bufferSize, events>>

\* ReadObjects, of a packet with static objects: they are kept, and handed over first.
ReadStaticObjects(r) ==
    /\ pc[r] = "read" /\ wire[r] # << >> /\ Head(wire[r]).static
    /\ wire' = [wire EXCEPT ![r] = Tail(@)]
    /\ packet' = [packet EXCEPT ![r] = Head(wire[r])]
    /\ statics' = [statics EXCEPT ![r] = Head(wire[r]).version]
    /\ OnStaticObjects(r, Head(wire[r]).version)
    /\ pc' = [pc EXCEPT ![r] = "dynamic"]
    /\ UNCHANGED <<hosts, serverVars, connection, changed, streaming, connected, lastFrameID,
                   queue, bufferSize, events>>

\* The dynamic objects of that packet, after another hold of m_ClientMutex.
HandDynamicObjects(r) ==
    /\ pc[r] = "dynamic"
    /\ OnDynamicObjects(r, packet[r])
    /\ packet' = [packet EXCEPT ![r] = NoPacket]
    /\ pc' = [pc EXCEPT ![r] = "write"]
    /\ UNCHANGED <<hosts, serverVars, connection, wire, changed, streaming, statics, connected,
                   lastStatic, bufferSize, events>>

\* ReadObjects, of a packet that repeats no static objects.
ReadDynamicObjects(r) ==
    /\ pc[r] = "read" /\ wire[r] # << >> /\ ~Head(wire[r]).static
    /\ wire' = [wire EXCEPT ![r] = Tail(@)]
    /\ OnDynamicObjects(r, Head(wire[r]))
    /\ pc' = [pc EXCEPT ![r] = "write"]
    /\ UNCHANGED <<hosts, serverVars, connection, threadVars, connected, lastStatic,
                   bufferSize, events>>

\* ReadObjects, with nothing left to read and no connection.
ReadFails(r) ==
    /\ pc[r] = "read" /\ wire[r] = << >> /\ ~Usable(r)
    /\ OnDisconnect(r)
    /\ changed' = [changed EXCEPT ![r] = {}]
    /\ UNCHANGED <<hosts, serverVars, connection, wire, streaming, statics, packet,
                   lastFrameID, lastStatic, queue, bufferSize, events>>

IsConnected == \E r \in Routes : connected[r]

------------------------------------------------------------------------------
(* VClient: the caller's calls, one after another                             *)

\* VClient::Connect returns once one of the routes is connected.
ConnectReturns ==
    /\ call = "connecting" /\ IsConnected
    /\ call' = "idle"
    /\ UNCHANGED <<hosts, serverVars, connection, wire, pc, threadVars, sharedVars, bufferSize,
                   preFetch, latest, events>>

\* ~VCGClient: what the callbacks use goes first, m_NewFramesCondition, the frames, the static
\* objects, the mutex and what is known of the routes, then the callbacks, and then the
\* routes, one by one.
Destroy ==
    /\ call' = "clearing"
    /\ connected' = [r \in Routes |-> FALSE]
    /\ lastFrameID' = [r \in Routes |-> NoFrame]
    /\ lastStatic' = NoStatic
    /\ queue' = << >>
    /\ UNCHANGED <<hosts, serverVars, connection, wire, pc, threadVars, bufferSize, preFetch,
                   latest, events>>

DestroyCallbacks ==
    /\ call = "clearing"
    /\ call' = "joining"
    /\ UNCHANGED <<hosts, serverVars, connection, wire, pc, threadVars, sharedVars, bufferSize,
                   preFetch, latest, events>>

\* After the connection timeout the caller lets go of the client.
ConnectTimesOut == call = "connecting" /\ ~IsConnected /\ Destroy

Call == call = "idle" /\ IsConnected /\ Event

\* SetStreaming: a route whose state already is the one asked for is not told,
\* and what is written before the connection stands is lost.
ToldStreaming(b) ==
    [r \in Routes |-> IF connection[r].open /\ streaming[r] # b
                      THEN [connection[r] EXCEPT !.streams = b] ELSE connection[r]]
RequestsNext(c) == [r \in Routes |-> IF c[r].open THEN [c[r] EXCEPT !.next = TRUE] ELSE c[r]]

SetStreamMode ==
    /\ Call
    /\ \E mode \in {"ServerPush", "ClientPull", "ClientPullPreFetch"} :
         LET push == mode = "ServerPush"
             told == ToldStreaming(push)
         IN  /\ streaming' = [r \in Routes |-> push]
             /\ preFetch' = (mode = "ClientPullPreFetch")
             /\ connection' = IF preFetch' THEN RequestsNext(told) ELSE told
             /\ queue' = IF preFetch' THEN << >> ELSE queue
    /\ UNCHANGED <<hosts, serverVars, wire, pc, changed, statics, packet, connected,
                   lastFrameID, lastStatic, bufferSize, call, latest>>

SetBufferSize ==
    /\ Call
    /\ \E n \in BufferSizes : bufferSize' = n /\ queue' = Trim(queue, n)
    /\ UNCHANGED <<hosts, serverVars, connection, wire, pc, threadVars, connected, lastFrameID,
                   lastStatic, callerVars>>

\* SetRequestTypes does the same with m_bEnumsChanged; DataStreamSession has it.
SetFilter ==
    /\ Call
    /\ changed' = Flag("filter")
    /\ UNCHANGED <<hosts, serverVars, connection, wire, pc, streaming, statics, packet,
                   sharedVars, bufferSize, callerVars>>

\* RequestFrame, which does nothing on a streaming route.
GetFrame ==
    /\ call = "idle" /\ IsConnected
    /\ call' = "waiting"
    /\ connection' = [r \in Routes |->
                        IF preFetch \/ streaming[r] \/ ~connection[r].open
                             \/ connection[r].requests = MaxRequests
                        THEN connection[r]
                        ELSE [connection[r] EXCEPT !.requests = @ + 1]]
    /\ UNCHANGED <<hosts, serverVars, wire, pc, threadVars, sharedVars, bufferSize, preFetch,
                   latest, events>>

\* In pre-fetch mode the frame after this one is asked for.
AfterFetch == connection' = IF preFetch THEN RequestsNext(connection) ELSE connection

\* Mutant of Dispatch: no ping is sent.
DispatchInSilence ==
    /\ call = "waiting" /\ queue # << >>
    /\ call' = "idle"
    /\ latest' = [frame |-> Head(queue).frame, from |-> Head(queue).from]
    /\ queue' = Tail(queue)
    /\ AfterFetch
    /\ UNCHANGED <<hosts, serverVars, wire, pc, threadVars, connected, lastFrameID, lastStatic,
                   bufferSize, preFetch, events>>

\* WaitFrame takes the oldest frame, which becomes the latest, and a ping is sent.
Dispatch ==
    /\ call = "waiting" /\ queue # << >>
    /\ call' = "idle"
    /\ latest' = [frame |-> Head(queue).frame, from |-> Head(queue).from]
    /\ queue' = Tail(queue)
    /\ changed' = Flag("ping")
    /\ AfterFetch
    /\ UNCHANGED <<hosts, serverVars, wire, pc, streaming, statics, packet, connected,
                   lastFrameID, lastStatic, bufferSize, preFetch, events>>

\* A second has passed: GetFrame answers NoFrame, though a frame came as it woke.
WaitTimesOut ==
    /\ call = "waiting"
    /\ call' = "idle"
    /\ AfterFetch
    /\ UNCHANGED <<hosts, serverVars, wire, pc, threadVars, sharedVars, bufferSize, preFetch,
                   latest, events>>

Disconnect == call = "idle" /\ IsConnected /\ Destroy

\* Of a route: its socket has not been closed, and the routes before are joined.
ToClose(r) ==
    /\ call = "joining" /\ ~connection[r].shut
    /\ \A s \in Routes : connection[s].shut => pc[s] = "done"

\* Mutant of CloseRoute: the thread is joined with its socket open.
CloseRouteLeavingOpen(r) ==
    /\ ToClose(r)
    /\ connection' = [connection EXCEPT ![r].shut = TRUE]
    /\ UNCHANGED <<hosts, serverVars, wire, pc, threadVars, sharedVars, bufferSize, callerVars,
                   events>>

\* VViconCGStreamClient::Disconnect closes the socket, then joins the thread.
CloseRoute(r) ==
    /\ ToClose(r)
    /\ connection' = [connection EXCEPT ![r] = [NoConnection EXCEPT !.shut = TRUE]]
    /\ wire' = [wire EXCEPT ![r] = << >>]
    /\ UNCHANGED <<hosts, serverVars, pc, threadVars, sharedVars, bufferSize, callerVars,
                   events>>

Joined ==
    /\ call = "joining"
    /\ \A r \in Routes : connection[r].shut /\ pc[r] = "done"
    /\ call' = "ended"
    /\ UNCHANGED <<hosts, serverVars, connection, wire, pc, threadVars, sharedVars, bufferSize,
                   preFetch, latest, events>>

------------------------------------------------------------------------------
Init ==
    /\ frame = FirstFrame /\ version = 0
    /\ connection = [r \in Routes |-> NoConnection]
    /\ wire = [r \in Routes |-> << >>]
    /\ hosts \in SUBSET Routes \ {{}}
    /\ pc = [r \in Routes |-> IF r \in hosts THEN "connecting" ELSE "done"]
    /\ changed = [r \in Routes |-> IF r \in hosts THEN {"enums"} ELSE {}]
    /\ streaming = [r \in Routes |-> FALSE]
    /\ statics = [r \in Routes |-> -1]
    /\ packet = [r \in Routes |-> NoPacket]
    /\ connected = [r \in Routes |-> FALSE]
    /\ lastFrameID = [r \in Routes |-> NoFrame]
    /\ lastStatic = NoStatic
    /\ queue = << >>
    /\ bufferSize = BufferSize
    /\ call = "connecting" /\ preFetch = FALSE /\ latest = NoPair
    /\ events = 0

Thread(r) ==
    /\ call # "undefined"
    /\ \/ ThreadConnects(r) \/ ThreadRefused(r) \/ WriteObjects(r) \/ ReadStaticObjects(r)
       \/ HandDynamicObjects(r) \/ ReadDynamicObjects(r) \/ ReadFails(r)
Server ==
    /\ call # "undefined"
    /\ Capture \/ (\E r \in Routes : AnswerRequest(r) \/ Break(r))
Returns ==
    \/ Dispatch \/ WaitTimesOut \/ DestroyCallbacks \/ (\E r \in Routes : CloseRoute(r))
    \/ Joined
Caller ==
    \/ ConnectReturns \/ ConnectTimesOut \/ SetStreamMode \/ SetBufferSize \/ SetFilter
    \/ GetFrame \/ Disconnect \/ Returns

Next == Server \/ (\E r \in Routes : Thread(r)) \/ Caller

\* The threads run, and a call the caller made comes to an end: WaitFrame has its
\* timeout, and join returns when a thread is done.
Fairness == WF_vars(Returns) /\ \A r \in Routes : WF_vars(Thread(r))

Spec == Init /\ [][Next]_vars /\ Fairness
==============================================================================
