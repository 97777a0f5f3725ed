------------------------- MODULE CGStreamRoutesProofs -------------------------
(***************************************************************************)
(* Proofs about the threads of the DataStream client, for any routes and   *)
(* any bounds.                                                             *)
(***************************************************************************)
EXTENDS CGStreamRoutesInv, TLAPS

\* The trimmed queue ends like the queue, is no longer than it and keeps to the size.
LEMMA TrimSuffix ==
    ASSUME NEW S, NEW q \in Seq(S), NEW n \in Nat
    PROVE  /\ Trim(q, n) \in Seq(S)
           /\ Len(Trim(q, n)) <= n
           /\ Len(Trim(q, n)) <= Len(q)
           /\ \A i \in 1..Len(Trim(q, n)) : Trim(q, n)[i] = q[i + (Len(q) - Len(Trim(q, n)))]
<1>1. CASE Len(q) <= n
  <2>1. Trim(q, n) = q /\ Len(q) - Len(q) = 0
    BY <1>1 DEF Trim
  <2>2. \A i \in 1..Len(q) : i + 0 = i
    OBVIOUS
  <2> QED BY <1>1, <2>1, <2>2
<1>2. CASE Len(q) > n
  <2>1. Len(q) - n + 1 \in 1..(Len(q) + 1) /\ Len(q) \in Nat
    BY <1>2
  <2>2. Trim(q, n) = SubSeq(q, Len(q) - n + 1, Len(q))
    BY <1>2 DEF Trim
  <2>3. Len(Trim(q, n)) = n /\ Trim(q, n) \in Seq(S)
    BY <2>1, <2>2
  <2>4. ASSUME NEW i \in 1..n PROVE Trim(q, n)[i] = q[i + (Len(q) - n)]
    BY <2>1, <2>2
  <2> QED BY <1>2, <2>3, <2>4
<1> QED BY <1>1, <1>2

\* A thread that calls back leaves the caller where it is, or calls back too late.
LEMMA CallsBack ==
    ASSUME TypeOK, CallBack
    PROVE  /\ call' \in {"connecting", "idle", "waiting", "clearing", "joining", "ended", "undefined"}
           /\ preFetch' = preFetch /\ latest' = latest
           /\ CalledBack' = CalledBack
  BY DEF CallBack, TypeOK, CalledBack

\* The server's part of a connection keeps its type.
LEMMA ConnectionFields ==
    ASSUME NEW c \in Connections
    PROVE  /\ NoConnection \in Connections
           /\ \A b \in BOOLEAN : /\ [c EXCEPT !.open = b] \in Connections
                                /\ [c EXCEPT !.told = b] \in Connections
                                /\ [c EXCEPT !.streams = b] \in Connections
                                /\ [c EXCEPT !.next = b] \in Connections
                                /\ [c EXCEPT !.shut = b] \in Connections
                                /\ [NoConnection EXCEPT !.shut = c.shut] \in Connections
                                /\ [c EXCEPT !.open = b, !.again = c.shut] \in Connections
           /\ \A n \in Int : [c EXCEPT !.sent = n, !.next = FALSE] \in Connections
           /\ [c EXCEPT !.requests = @ + 1] \in Connections
           /\ \A n \in Int : c.requests > 0 =>
                [c EXCEPT !.requests = @ - 1, !.sent = n] \in Connections
<1>1. NoConnection \in Connections
  BY DEF NoConnection, Connections
<1>2. ASSUME NEW b \in BOOLEAN
      PROVE  /\ [c EXCEPT !.open = b] \in Connections /\ [c EXCEPT !.told = b] \in Connections
             /\ [c EXCEPT !.streams = b] \in Connections
             /\ [c EXCEPT !.next = b] \in Connections /\ [c EXCEPT !.shut = b] \in Connections
             /\ [NoConnection EXCEPT !.shut = c.shut] \in Connections
             /\ [c EXCEPT !.open = b, !.again = c.shut] \in Connections
  BY <1>1 DEF Connections
<1>3. ASSUME NEW n \in Int PROVE [c EXCEPT !.sent = n, !.next = FALSE] \in Connections
  BY DEF Connections
<1>4. c.requests \in Nat /\ c.requests + 1 \in Nat
  BY DEF Connections
<1>5. [c EXCEPT !.requests = @ + 1] \in Connections
  BY <1>4 DEF Connections
<1>6. ASSUME NEW n \in Int, c.requests > 0
      PROVE  [c EXCEPT !.requests = @ - 1, !.sent = n] \in Connections
  <2>1. c.requests - 1 \in Nat
    BY <1>4, <1>6
  <2> QED BY <2>1 DEF Connections
<1> QED BY <1>1, <1>2, <1>3, <1>5, <1>6

\* So do the connections that are told to stream, or asked for the next frame.
LEMMA ConnectionTypes ==
    ASSUME TypeOK
    PROVE  /\ NoConnection \in Connections
           /\ [NoConnection EXCEPT !.shut = TRUE] \in Connections
           /\ \A b \in BOOLEAN : ToldStreaming(b) \in [Routes -> Connections]
           /\ \A c \in [Routes -> Connections] : RequestsNext(c) \in [Routes -> Connections]
<1>1. NoConnection \in Connections
  BY DEF NoConnection, Connections
<1>2. [NoConnection EXCEPT !.shut = TRUE] \in Connections
  BY <1>1, ConnectionFields
<1>3. ASSUME NEW b \in BOOLEAN PROVE ToldStreaming(b) \in [Routes -> Connections]
  BY ConnectionFields DEF TypeOK, ToldStreaming
<1>4. ASSUME NEW c \in [Routes -> Connections] PROVE RequestsNext(c) \in [Routes -> Connections]
  BY ConnectionFields DEF RequestsNext
<1> QED BY <1>1, <1>2, <1>3, <1>4

\* Every step keeps the types.
LEMMA TypeStep == TypeOK /\ [Next]_vars => TypeOK'
<1> SUFFICES ASSUME TypeOK, [Next]_vars PROVE TypeOK'
  OBVIOUS
<1>1. CASE Capture
  <2>1. PICK sent \in SUBSET Routes :
          /\ wire' = [r \in Routes |-> IF r \in sent
                        THEN Append(wire[r], PacketFor(connection[r], frame', version'))
                        ELSE wire[r]]
          /\ connection' = [r \in Routes |-> IF r \in sent
                        THEN [connection[r] EXCEPT !.sent = version', !.next = FALSE]
                        ELSE connection[r]]
    BY <1>1 DEF Capture
  <2>2. frame' \in Nat /\ version' \in Nat /\ events' \in Nat
    <3>1. frame' = frame + 1 /\ frame \in Nat /\ version \in Nat /\ events \in Nat
      BY <1>1 DEF Capture, TypeOK
    <3>2. version' = version \/ version' = version + 1
      BY <1>1 DEF Capture
    <3>3. events' = events \/ events' = events + 1
      BY <1>1 DEF Capture, Event
    <3> QED BY <3>1, <3>2, <3>3
  <2>3. wire' \in [Routes -> Seq(Packets)]
    <3>1. ASSUME NEW r \in Routes
          PROVE  PacketFor(connection[r], frame', version') \in Packets
      BY <2>2 DEF PacketFor, Packets
    <3>2. ASSUME NEW r \in Routes
          PROVE  /\ wire[r] \in Seq(Packets)
                 /\ Append(wire[r], PacketFor(connection[r], frame', version')) \in Seq(Packets)
      BY <3>1 DEF TypeOK
    <3> QED BY <2>1, <3>2
  <2>4. connection' \in [Routes -> Connections]
    <3>1. ASSUME NEW r \in Routes
          PROVE  /\ connection[r] \in Connections
                 /\ [connection[r] EXCEPT !.sent = version', !.next = FALSE] \in Connections
      <4>1. connection[r] \in Connections /\ version' \in Int
        BY <2>2 DEF TypeOK
      <4> QED BY <4>1, ConnectionFields
    <3> QED BY <2>1, <3>1
  <2> QED BY <1>1, <2>2, <2>3, <2>4 DEF Capture, TypeOK, threadVars, sharedVars, callerVars
<1>2. ASSUME NEW r \in Routes, AnswerRequest(r) PROVE TypeOK'
  <2>1. PacketFor(connection[r], frame, version) \in Packets
    BY DEF PacketFor, Packets, TypeOK
  <2>2. wire' \in [Routes -> Seq(Packets)]
    BY <1>2, <2>1 DEF AnswerRequest, TypeOK
  <2>3. connection' \in [Routes -> Connections]
    <3>1. /\ connection[r] \in Connections /\ connection[r].requests > 0
          /\ version \in Int
      BY <1>2 DEF AnswerRequest, TypeOK
    <3>2. Answered(connection[r]) \in Connections
      BY <3>1, ConnectionFields DEF Answered
    <3> QED BY <1>2, <3>2 DEF AnswerRequest, TypeOK
  <2> QED BY <1>2, <2>2, <2>3
          DEF AnswerRequest, TypeOK, serverVars, threadVars, sharedVars, callerVars
<1>3. ASSUME NEW r \in Routes, Break(r) PROVE TypeOK'
  <2>1. connection' \in [Routes -> Connections]
    <3>1. connection[r] \in Connections
      BY DEF TypeOK
    <3>2. [NoConnection EXCEPT !.shut = connection[r].shut] \in Connections
      BY <3>1, ConnectionFields
    <3> QED BY <1>3, <3>2 DEF Break, TypeOK
  <2>2. events' \in Nat
    BY <1>3 DEF Break, Event, TypeOK
  <2> QED BY <1>3, <2>1, <2>2
          DEF Break, TypeOK, serverVars, threadVars, sharedVars, callerVars
<1>4. ASSUME NEW r \in Routes, ThreadConnects(r) PROVE TypeOK'
  <2>1. connection' \in [Routes -> Connections]
    <3>1. connection[r] \in Connections
      BY DEF TypeOK
    <3>2. [connection[r] EXCEPT !.open = TRUE, !.again = connection[r].shut] \in Connections
      BY <3>1, ConnectionFields
    <3> QED BY <1>4, <3>2 DEF ThreadConnects, TypeOK
  <2>2. connected' \in [Routes -> BOOLEAN] /\ pc' \in [Routes -> Running \cup {"done"}]
    BY <1>4 DEF ThreadConnects, TypeOK, CalledBack, Running
  <2>3. CallBack
    BY <1>4 DEF ThreadConnects
  <2> QED BY <1>4, <2>1, <2>2, <2>3, CallsBack
          DEF ThreadConnects, TypeOK, serverVars, threadVars
<1>5. ASSUME NEW r \in Routes, ThreadRefused(r) PROVE TypeOK'
  BY <1>5 DEF ThreadRefused, Event, TypeOK, serverVars, sharedVars, callerVars
<1>6. ASSUME NEW r \in Routes, WriteObjects(r) PROVE TypeOK'
  <2>1. connection' \in [Routes -> Connections]
    <3>1. \A b \in BOOLEAN : [connection EXCEPT ![r].told = b] \in [Routes -> Connections]
      BY ConnectionFields DEF TypeOK
    <3>2. connection[r].told \in BOOLEAN
      BY DEF TypeOK, Connections
    <3>3. \/ connection' = connection
          \/ connection' = [connection EXCEPT ![r].told = @ \/ "enums" \in changed[r]]
      BY <1>6 DEF WriteObjects
    <3>4. (connection[r].told \/ "enums" \in changed[r]) \in BOOLEAN
      BY <3>2
    <3> QED BY <3>1, <3>3, <3>4 DEF TypeOK
  <2>2. pc' \in [Routes -> Running \cup {"done"}]
    <3>1. pc' = [pc EXCEPT ![r] = "read"] \/ pc' = [pc EXCEPT ![r] = "done"]
      BY <1>6 DEF WriteObjects, OnDisconnect
    <3> QED BY <3>1 DEF TypeOK, Running
  <2>3. connected' \in [Routes -> BOOLEAN]
    BY <1>6 DEF WriteObjects, OnDisconnect, TypeOK, sharedVars
  <2>4. changed' \in [Routes -> SUBSET {"enums", "filter", "ping"}]
    BY <1>6 DEF WriteObjects, TypeOK, threadVars
  <2>5. CallBack \/ UNCHANGED callerVars
    BY <1>6 DEF WriteObjects, OnDisconnect
  <2>6. call' \in {"connecting", "idle", "waiting", "clearing", "joining", "ended", "undefined"}
        /\ preFetch' = preFetch /\ latest' = latest
    BY <2>5, CallsBack DEF callerVars, TypeOK
  <2>7. UNCHANGED <<hosts, serverVars, wire, streaming, statics, packet, lastFrameID,
                    lastStatic, queue, bufferSize, events>>
    BY <1>6 DEF WriteObjects, threadVars, sharedVars
  <2> QED BY <2>1, <2>2, <2>3, <2>4, <2>6, <2>7 DEF TypeOK, serverVars
<1>7. ASSUME NEW r \in Routes, ReadStaticObjects(r) PROVE TypeOK'
  <2>1. Head(wire[r]) \in Packets /\ Tail(wire[r]) \in Seq(Packets)
    BY <1>7 DEF ReadStaticObjects, TypeOK
  <2>2. lastStatic' \in Statics
    BY <1>7, <2>1 DEF ReadStaticObjects, OnStaticObjects, TypeOK, Statics, Origins, Packets
  <2>3. statics' \in [Routes -> Int] /\ packet' \in [Routes -> Packets]
        /\ wire' \in [Routes -> Seq(Packets)]
    BY <1>7, <2>1 DEF ReadStaticObjects, TypeOK, Packets
  <2>4. CallBack
    BY <1>7 DEF ReadStaticObjects, OnStaticObjects
  <2> QED BY <1>7, <2>2, <2>3, <2>4, CallsBack
          DEF ReadStaticObjects, TypeOK, Running, serverVars
<1>8. ASSUME NEW r \in Routes, NEW p \in Packets, OnDynamicObjects(r, p),
             UNCHANGED <<lastStatic, bufferSize>>
      PROVE  /\ lastFrameID' \in [Routes -> Int]
             /\ queue' \in Seq(Pairs) /\ Len(queue') <= bufferSize'
             /\ CallBack
  <2> DEFINE pair == [frame |-> p.frame, version |-> p.version, static |-> lastStatic,
                      from |-> r]
  <2>1. pair \in Pairs
    BY DEF Packets, Pairs, TypeOK, Origins
  <2>2. Append(queue, pair) \in Seq(Pairs)
    BY <2>1 DEF TypeOK
  <2>3. /\ Trim(Append(queue, pair), bufferSize) \in Seq(Pairs)
        /\ Len(Trim(Append(queue, pair), bufferSize)) <= bufferSize
    <3>1. bufferSize \in Nat
      BY DEF TypeOK
    <3> QED BY ONLY <3>1, <2>2, TrimSuffix
  <2>4. lastFrameID' \in [Routes -> Int]
    BY <1>8 DEF OnDynamicObjects, TypeOK, Packets
  <2>5. queue' = queue \/ queue' = Trim(Append(queue, pair), bufferSize)
    BY <1>8 DEF OnDynamicObjects
  <2>6. CallBack
    BY <1>8 DEF OnDynamicObjects
  <2> QED BY <1>8, <2>3, <2>4, <2>5, <2>6 DEF TypeOK
<1>9. ASSUME NEW r \in Routes, HandDynamicObjects(r) PROVE TypeOK'
  <2>1. packet[r] \in Packets /\ NoPacket \in Packets
    BY DEF TypeOK, NoPacket, Packets
  <2>2. packet' \in [Routes -> Packets]
    BY <1>9, <2>1 DEF HandDynamicObjects, TypeOK
  <2>3. OnDynamicObjects(r, packet[r]) /\ UNCHANGED <<lastStatic, bufferSize>>
    BY <1>9 DEF HandDynamicObjects
  <2> QED BY <1>8, <1>9, <2>1, <2>2, <2>3, CallsBack
          DEF HandDynamicObjects, TypeOK, Running, serverVars
<1>10. ASSUME NEW r \in Routes, ReadDynamicObjects(r) PROVE TypeOK'
  <2>1. Head(wire[r]) \in Packets /\ Tail(wire[r]) \in Seq(Packets)
    BY <1>10 DEF ReadDynamicObjects, TypeOK
  <2>2. wire' \in [Routes -> Seq(Packets)]
    BY <1>10, <2>1 DEF ReadDynamicObjects, TypeOK
  <2>3. OnDynamicObjects(r, Head(wire[r])) /\ UNCHANGED <<lastStatic, bufferSize>>
    BY <1>10 DEF ReadDynamicObjects
  <2> QED BY <1>8, <1>10, <2>1, <2>2, <2>3, CallsBack
          DEF ReadDynamicObjects, TypeOK, Running, serverVars, threadVars
<1>11. ASSUME NEW r \in Routes, ReadFails(r) PROVE TypeOK'
  <2>1. CallBack
    BY <1>11 DEF ReadFails, OnDisconnect
  <2> QED BY <1>11, <2>1, CallsBack DEF ReadFails, OnDisconnect, TypeOK, serverVars
<1>12. CASE ConnectReturns \/ WaitTimesOut \/ DestroyCallbacks \/ Joined
  <2>1. connection' \in [Routes -> Connections]
    BY <1>12, ConnectionTypes
       DEF ConnectReturns, WaitTimesOut, AfterFetch, DestroyCallbacks, Joined, TypeOK
  <2> QED BY <1>12, <2>1
          DEF ConnectReturns, WaitTimesOut, DestroyCallbacks, Joined, TypeOK, serverVars,
              threadVars, sharedVars
<1>13. CASE ConnectTimesOut \/ Disconnect
  <2>1. Destroy
    BY <1>13 DEF ConnectTimesOut, Disconnect
  <2>2. NoStatic \in Statics /\ << >> \in Seq(Pairs) /\ NoFrame \in Int
    BY DEF NoStatic, Statics, Origins, NoFrame
  <2> QED BY <2>1, <2>2 DEF Destroy, TypeOK, serverVars, threadVars
<1>14. CASE SetStreamMode
  <2>1. PICK mode \in {"ServerPush", "ClientPull", "ClientPullPreFetch"} :
          LET told == ToldStreaming(mode = "ServerPush")
          IN  /\ streaming' = [r \in Routes |-> mode = "ServerPush"]
              /\ preFetch' = (mode = "ClientPullPreFetch")
              /\ connection' = IF preFetch' THEN RequestsNext(told) ELSE told
              /\ queue' = IF preFetch' THEN << >> ELSE queue
    BY <1>14 DEF SetStreamMode
  <2>2. ToldStreaming(mode = "ServerPush") \in [Routes -> Connections]
    BY ConnectionTypes
  <2>3. connection' \in [Routes -> Connections]
    BY <2>1, <2>2, ConnectionTypes
  <2>4. queue' \in Seq(Pairs) /\ Len(queue') <= bufferSize
    BY <2>1 DEF TypeOK
  <2>5. streaming' \in [Routes -> BOOLEAN] /\ preFetch' \in BOOLEAN
    BY <2>1
  <2> QED BY <1>14, <2>3, <2>4, <2>5 DEF SetStreamMode, Call, Event, TypeOK, serverVars
<1>0. CASE SetBufferSize
  <2>1. PICK n \in BufferSizes : bufferSize' = n /\ queue' = Trim(queue, n)
    BY <1>0 DEF SetBufferSize
  <2>2. n \in Nat /\ queue \in Seq(Pairs)
    BY ConstantsAssumption DEF TypeOK
  <2>3. queue' \in Seq(Pairs) /\ Len(queue') <= bufferSize' /\ bufferSize' \in Nat
    BY <2>1, <2>2, TrimSuffix
  <2> QED BY <1>0, <2>3
          DEF SetBufferSize, Call, Event, TypeOK, serverVars, threadVars, callerVars
<1>16. CASE SetFilter
  <2>1. changed' \in [Routes -> SUBSET {"enums", "filter", "ping"}]
    BY <1>16 DEF SetFilter, Flag, TypeOK
  <2> QED BY <1>16, <2>1
          DEF SetFilter, Call, Event, TypeOK, serverVars, sharedVars, callerVars
<1>17. CASE GetFrame
  <2>1. connection' \in [Routes -> Connections]
    BY <1>17, ConnectionFields DEF GetFrame, TypeOK
  <2> QED BY <1>17, <2>1 DEF GetFrame, TypeOK, serverVars, threadVars, sharedVars
<1>18. CASE Dispatch
  <2>1. connection' \in [Routes -> Connections]
    BY <1>18, ConnectionTypes DEF Dispatch, AfterFetch, TypeOK
  <2>2. changed' \in [Routes -> SUBSET {"enums", "filter", "ping"}]
    BY <1>18 DEF Dispatch, Flag, TypeOK
  <2>3. Head(queue) \in Pairs /\ Tail(queue) \in Seq(Pairs) /\ Len(Tail(queue)) <= bufferSize
    BY <1>18 DEF Dispatch, TypeOK
  <2>4. latest' \in [frame : Int, from : Origins]
    BY <1>18, <2>3 DEF Dispatch, Pairs
  <2> QED BY <1>18, <2>1, <2>2, <2>3, <2>4 DEF Dispatch, TypeOK, serverVars
<1>19. ASSUME NEW r \in Routes, CloseRoute(r) PROVE TypeOK'
  BY <1>19, ConnectionTypes
     DEF CloseRoute, TypeOK, serverVars, threadVars, sharedVars, callerVars
<1>20. CASE UNCHANGED vars
  BY <1>20 DEF vars, TypeOK
<1> QED
  BY <1>1, <1>2, <1>3, <1>4, <1>5, <1>6, <1>7, <1>9, <1>10, <1>11, <1>12, <1>13, <1>14, <1>0,
     <1>16, <1>17, <1>18, <1>19, <1>20
     DEF Next, Server, Thread, Caller, Returns

\* The types hold initially.
LEMMA TypeInit == Init => TypeOK
<1> SUFFICES ASSUME Init PROVE TypeOK
  OBVIOUS
<1>1. NoConnection \in Connections /\ NoPacket \in Packets /\ NoStatic \in Statics
  BY DEF NoConnection, Connections, NoPacket, Packets, NoStatic, Statics, Origins
<1>2. NoPair \in [frame : Int, from : Origins] /\ NoFrame \in Int
  BY DEF NoPair, NoFrame, Origins
<1>3. pc \in [Routes -> Running \cup {"done"}]
  BY DEF Init, Running
<1>4. changed \in [Routes -> SUBSET {"enums", "filter", "ping"}]
  BY DEF Init
<1>5. bufferSize \in Nat /\ queue \in Seq(Pairs) /\ Len(queue) <= bufferSize
  BY ConstantsAssumption DEF Init
<1>6. frame \in Nat
  BY ConstantsAssumption DEF Init
<1>7. hosts \subseteq Routes /\ connection \in [Routes -> Connections]
      /\ wire \in [Routes -> Seq(Packets)] /\ packet \in [Routes -> Packets]
  BY <1>1 DEF Init
<1>8. /\ version \in Nat /\ events \in Nat /\ lastStatic \in Statics
      /\ latest \in [frame : Int, from : Origins]
      /\ lastFrameID \in [Routes -> Int] /\ statics \in [Routes -> Int]
      /\ connected \in [Routes -> BOOLEAN] /\ streaming \in [Routes -> BOOLEAN]
      /\ call = "connecting"
  BY <1>1, <1>2 DEF Init
<1>9. preFetch \in BOOLEAN
  BY DEF Init
<1> QED BY <1>3, <1>4, <1>5, <1>6, <1>7, <1>8, <1>9 DEF TypeOK

\* The variables keep their types, and the queue its size.
THEOREM TypeInvariant == Spec => []TypeOK
BY TypeInit, TypeStep, PTL DEF Spec

------------------------------------------------------------------------------
(* The order of frames.                                                       *)

\* A packet's frame is a number.
LEMMA PacketFrames ==
    ASSUME NEW w \in Seq(Packets)
    PROVE  \A i \in 1..Len(w) : w[i].frame \in Nat
<1>1. \A i \in 1..Len(w) : w[i] \in Packets
  OBVIOUS
<1> QED BY <1>1 DEF Packets

\* Packets in order are so within wider limits, and none are in order.
LEMMA OrderedWithin ==
    ASSUME NEW f \in Int, NEW w \in Seq(Packets), NEW g \in Int, Ordered(f, w, g),
           NEW e \in Int, e <= f, NEW h \in Int, g <= h
    PROVE  Ordered(e, w, h) /\ Ordered(e, << >>, h)
BY PacketFrames DEF Ordered

\* Packets stay in order as one is sent.
LEMMA OrderedSent ==
    ASSUME NEW f \in Int, NEW w \in Seq(Packets), NEW g \in Int, Ordered(f, w, g),
           NEW p \in Packets, g <= p.frame
    PROVE  Ordered(f, Append(w, p), p.frame)
<1>1. p.frame \in Int /\ f <= p.frame
  BY DEF Packets, Ordered
<1>2. /\ Len(Append(w, p)) = Len(w) + 1
      /\ \A i \in 1..Len(w) : Append(w, p)[i] = w[i]
      /\ Append(w, p)[Len(w) + 1] = p
  OBVIOUS
<1>3. \A i \in 1..(Len(w) + 1) : i \in 1..Len(w) \/ i = Len(w) + 1
  OBVIOUS
<1> QED BY <1>1, <1>2, <1>3, PacketFrames DEF Ordered

\* They stay in order as one is read.
LEMMA OrderedRead ==
    ASSUME NEW f \in Int, NEW w \in Seq(Packets), NEW g \in Int, Ordered(f, w, g), w # << >>
    PROVE  /\ Head(w).frame \in Nat
           /\ f <= Head(w).frame
           /\ Ordered(Head(w).frame, Tail(w), g)
<1>1. Head(w) = w[1] /\ 1 \in 1..Len(w) /\ Len(Tail(w)) = Len(w) - 1
  OBVIOUS
<1>2. \A i \in 1..Len(Tail(w)) : Tail(w)[i] = w[i + 1] /\ i + 1 \in 1..Len(w) /\ 1 < i + 1
  OBVIOUS
<1> QED BY <1>1, <1>2, PacketFrames DEF Ordered

\* Of any two steps of a route the later one brings the later frame.
LEMMA FramesStep == TypeOK /\ TypeOK' /\ FramesFollow /\ [Next]_vars => FramesFollow'
<1> SUFFICES ASSUME TypeOK, TypeOK', FramesFollow, [Next]_vars PROVE FramesFollow'
  OBVIOUS
<1>1. ASSUME NEW r \in Routes
      PROVE  /\ wire[r] \in Seq(Packets) /\ wire'[r] \in Seq(Packets)
             /\ lastFrameID[r] \in Int /\ lastFrameID'[r] \in Int
             /\ packet[r].frame \in Int /\ LastRead(r) \in Int
             /\ frame \in Int /\ frame' \in Int
             /\ lastFrameID[r] <= LastRead(r) /\ Ordered(LastRead(r), wire[r], frame)
  BY DEF TypeOK, Packets, LastRead, FramesFollow
<1>2. ASSUME UNCHANGED <<frame, wire, packet, lastFrameID>>,
             \A r \in Routes : pc'[r] = "dynamic" <=> pc[r] = "dynamic"
      PROVE  FramesFollow'
  BY <1>2 DEF FramesFollow, LastRead
<1>3. CASE Capture
  <2>1. frame' = frame + 1 /\ UNCHANGED <<pc, packet, lastFrameID>>
    BY <1>3 DEF Capture, threadVars, sharedVars
  <2>2. ASSUME NEW r \in Routes
        PROVE  LastRead(r)' = LastRead(r) /\ Ordered(LastRead(r), wire'[r], frame')
    <3>1. LastRead(r)' = LastRead(r)
      BY <2>1 DEF LastRead
    <3>2. \/ wire'[r] = wire[r]
          \/ wire'[r] = Append(wire[r], PacketFor(connection[r], frame', version'))
      BY <1>3 DEF Capture
    <3>3. /\ PacketFor(connection[r], frame', version') \in Packets
          /\ PacketFor(connection[r], frame', version').frame = frame'
      BY DEF PacketFor, Packets, TypeOK
    <3>4. frame <= frame'
      BY <2>1, <1>1
    <3>5. wire[r] \in Seq(Packets) /\ LastRead(r) \in Int /\ frame \in Int /\ frame' \in Int
          /\ LastRead(r) <= LastRead(r) /\ Ordered(LastRead(r), wire[r], frame)
      BY <1>1
    <3> QED BY <3>1, <3>2, <3>3, <3>4, <3>5, OrderedSent, OrderedWithin
  <2> QED BY <1>1, <2>1, <2>2 DEF FramesFollow
<1>4. ASSUME NEW r \in Routes, AnswerRequest(r) PROVE FramesFollow'
  <2>1. UNCHANGED <<frame, pc, packet, lastFrameID>>
    BY <1>4 DEF AnswerRequest, serverVars, threadVars, sharedVars
  <2>2. /\ PacketFor(connection[r], frame, version) \in Packets
        /\ PacketFor(connection[r], frame, version).frame = frame
    BY DEF PacketFor, Packets, TypeOK
  <2>3. wire' = [wire EXCEPT ![r] = Append(@, PacketFor(connection[r], frame, version))]
    BY <1>4 DEF AnswerRequest
  <2>4. Ordered(LastRead(r), wire'[r], frame)
    <3>1. wire'[r] = Append(wire[r], PacketFor(connection[r], frame, version))
      BY <2>3 DEF TypeOK
    <3>2. wire[r] \in Seq(Packets) /\ LastRead(r) \in Int /\ frame \in Int /\ frame <= frame
          /\ Ordered(LastRead(r), wire[r], frame)
      BY <1>1
    <3> QED BY <2>2, <3>1, <3>2, OrderedSent
  <2>5. ASSUME NEW s \in Routes
        PROVE  LastRead(s)' = LastRead(s) /\ Ordered(LastRead(s), wire'[s], frame')
    <3>1. s # r => wire'[s] = wire[s]
      BY <2>3 DEF TypeOK
    <3> QED BY <1>1, <2>1, <2>4, <3>1 DEF LastRead
  <2> QED BY <1>1, <2>1, <2>5 DEF FramesFollow
<1>5. ASSUME NEW r \in Routes, Thread(r), ~ReadStaticObjects(r), ~HandDynamicObjects(r),
             ~ReadDynamicObjects(r)
      PROVE  FramesFollow'
  <2>1. ThreadConnects(r) \/ ThreadRefused(r) \/ WriteObjects(r) \/ ReadFails(r)
    BY <1>5 DEF Thread
  <2>2. UNCHANGED <<frame, wire, packet, lastFrameID>>
    BY <2>1 DEF ThreadConnects, ThreadRefused, WriteObjects, ReadFails, serverVars, threadVars,
                sharedVars
  <2>3. /\ pc[r] # "dynamic"
        /\ \E c \in Running \cup {"done"} : c # "dynamic" /\ pc' = [pc EXCEPT ![r] = c]
    BY <2>1 DEF ThreadConnects, ThreadRefused, WriteObjects, ReadFails, OnDisconnect, Running
  <2>4. \A s \in Routes : pc'[s] = "dynamic" <=> pc[s] = "dynamic"
    BY <2>3 DEF TypeOK
  <2> QED BY <1>2, <2>2, <2>4
<1>6. ASSUME NEW r \in Routes,
             wire[r] # << >>, wire' = [wire EXCEPT ![r] = Tail(@)], frame' = frame,
             \A s \in Routes \ {r} : LastRead(s)' = LastRead(s) /\ lastFrameID'[s] = lastFrameID[s],
             LastRead(r)' = Head(wire[r]).frame, lastFrameID'[r] <= LastRead(r)'
      PROVE  FramesFollow'
  <2>1. wire'[r] = Tail(wire[r]) /\ \A s \in Routes \ {r} : wire'[s] = wire[s]
    BY <1>6 DEF TypeOK
  <2>2. Ordered(LastRead(r)', wire'[r], frame')
    <3>1. wire[r] \in Seq(Packets) /\ LastRead(r) \in Int /\ frame \in Int
          /\ Ordered(LastRead(r), wire[r], frame)
      BY <1>1
    <3>2. Ordered(Head(wire[r]).frame, Tail(wire[r]), frame)
      BY <1>6, <3>1, OrderedRead
    <3> QED BY <1>6, <2>1, <3>2
  <2> QED BY <1>1, <1>6, <2>1, <2>2 DEF FramesFollow
<1>7. ASSUME NEW r \in Routes, ReadStaticObjects(r) PROVE FramesFollow'
  <2>1. /\ wire[r] # << >> /\ wire' = [wire EXCEPT ![r] = Tail(@)] /\ frame' = frame
        /\ lastFrameID' = lastFrameID
    BY <1>7 DEF ReadStaticObjects, serverVars
  <2>2. pc[r] = "read" /\ pc' = [pc EXCEPT ![r] = "dynamic"]
        /\ packet' = [packet EXCEPT ![r] = Head(wire[r])]
    BY <1>7 DEF ReadStaticObjects
  <2>3. LastRead(r)' = Head(wire[r]).frame /\ LastRead(r) = lastFrameID[r]
    BY <2>2 DEF LastRead, TypeOK
  <2>4. ASSUME NEW s \in Routes \ {r}
        PROVE  LastRead(s)' = LastRead(s) /\ lastFrameID'[s] = lastFrameID[s]
    BY <2>1, <2>2 DEF LastRead, TypeOK
  <2>5. lastFrameID'[r] <= LastRead(r)'
    <3>1. wire[r] \in Seq(Packets) /\ LastRead(r) \in Int /\ frame \in Int
          /\ Ordered(LastRead(r), wire[r], frame)
      BY <1>1
    <3> QED BY <2>1, <2>3, <3>1, OrderedRead
  <2> QED BY <1>6, <2>1, <2>3, <2>4, <2>5
<1>8. ASSUME NEW r \in Routes, HandDynamicObjects(r) PROVE FramesFollow'
  <2>1. UNCHANGED <<frame, wire>> /\ pc[r] = "dynamic" /\ pc' = [pc EXCEPT ![r] = "write"]
        /\ packet' = [packet EXCEPT ![r] = NoPacket]
    BY <1>8 DEF HandDynamicObjects, serverVars
  <2>2. lastFrameID' = lastFrameID \/ lastFrameID' = [lastFrameID EXCEPT ![r] = packet[r].frame]
    BY <1>8 DEF HandDynamicObjects, OnDynamicObjects
  <2>3. LastRead(r) = packet[r].frame /\ LastRead(r)' = lastFrameID'[r]
        /\ lastFrameID'[r] <= LastRead(r)
    BY <1>1, <2>1, <2>2 DEF LastRead, TypeOK
  <2>4. ASSUME NEW s \in Routes \ {r}
        PROVE  LastRead(s)' = LastRead(s) /\ lastFrameID'[s] = lastFrameID[s]
    BY <2>1, <2>2 DEF LastRead, TypeOK
  <2>5. Ordered(LastRead(r)', wire[r], frame) /\ lastFrameID'[r] <= LastRead(r)'
    <3>1. wire[r] \in Seq(Packets) /\ LastRead(r) \in Int /\ frame \in Int /\ frame <= frame
          /\ Ordered(LastRead(r), wire[r], frame) /\ LastRead(r)' \in Int
          /\ LastRead(r)' <= LastRead(r) /\ lastFrameID'[r] <= LastRead(r)'
      BY <1>1, <2>3
    <3> QED BY <3>1, OrderedWithin
  <2> QED BY <1>1, <2>1, <2>4, <2>5 DEF FramesFollow
<1>9. ASSUME NEW r \in Routes, ReadDynamicObjects(r) PROVE FramesFollow'
  <2>1. /\ wire[r] # << >> /\ wire' = [wire EXCEPT ![r] = Tail(@)] /\ frame' = frame
        /\ pc[r] = "read" /\ pc' = [pc EXCEPT ![r] = "write"] /\ packet' = packet
    BY <1>9 DEF ReadDynamicObjects, serverVars, threadVars
  <2>2. \/ lastFrameID' = lastFrameID
        \/ lastFrameID' = [lastFrameID EXCEPT ![r] = Head(wire[r]).frame]
    BY <1>9 DEF ReadDynamicObjects, OnDynamicObjects
  <2>3. LastRead(r) = lastFrameID[r] /\ LastRead(r)' = lastFrameID'[r]
    BY <2>1 DEF LastRead, TypeOK
  <2>4. ASSUME NEW s \in Routes \ {r}
        PROVE  LastRead(s)' = LastRead(s) /\ lastFrameID'[s] = lastFrameID[s]
    BY <2>1, <2>2 DEF LastRead, TypeOK
  <2>5. /\ lastFrameID[r] <= Head(wire[r]).frame
        /\ Ordered(Head(wire[r]).frame, Tail(wire[r]), frame)
    <3>1. wire[r] \in Seq(Packets) /\ LastRead(r) \in Int /\ frame \in Int
          /\ Ordered(LastRead(r), wire[r], frame)
      BY <1>1
    <3> QED BY <2>1, <2>3, <3>1, OrderedRead
  <2>6. wire'[r] = Tail(wire[r]) /\ \A s \in Routes \ {r} : wire'[s] = wire[s]
    BY <2>1 DEF TypeOK
  <2>7. Head(wire[r]).frame \in Int
    <3>1. wire[r] \in Seq(Packets) /\ LastRead(r) \in Int /\ frame \in Int
          /\ Ordered(LastRead(r), wire[r], frame)
      BY <1>1
    <3>2. Head(wire[r]).frame \in Nat
      BY <2>1, <3>1, OrderedRead
    <3> QED BY <3>2
  <2>8. Ordered(LastRead(r)', wire'[r], frame')
    <3>1. lastFrameID'[r] = lastFrameID[r] \/ lastFrameID'[r] = Head(wire[r]).frame
      BY <2>2 DEF TypeOK
    <3>2. Ordered(lastFrameID'[r], Tail(wire[r]), frame)
      <4>1. /\ Tail(wire[r]) \in Seq(Packets) /\ frame \in Int /\ frame <= frame
            /\ lastFrameID'[r] \in Int /\ lastFrameID'[r] <= Head(wire[r]).frame
        BY <1>1, <2>1, <2>5, <2>7, <3>1
      <4> QED BY <2>5, <2>7, <4>1, OrderedWithin
    <3> QED BY <2>1, <2>3, <2>6, <3>2
  <2>9. lastFrameID'[r] <= LastRead(r)'
    BY <1>1, <2>3
  <2> QED BY <1>1, <2>1, <2>4, <2>6, <2>8, <2>9 DEF FramesFollow
<1>10. CASE ConnectTimesOut \/ Disconnect
  <2>1. Destroy
    BY <1>10 DEF ConnectTimesOut, Disconnect
  <2>2. UNCHANGED <<frame, wire, pc, packet>>
        /\ lastFrameID' = [r \in Routes |-> NoFrame]
    BY <2>1 DEF Destroy, serverVars, threadVars
  <2>3. ASSUME NEW r \in Routes
        PROVE  lastFrameID'[r] <= LastRead(r)' /\ Ordered(LastRead(r)', wire'[r], frame')
    <3>1. CASE pc[r] = "dynamic"
      <4>1. LastRead(r)' = LastRead(r) /\ lastFrameID'[r] = -1 /\ 0 <= LastRead(r)
        BY <2>2, <3>1 DEF LastRead, NoFrame, TypeOK, Packets
      <4> QED BY <1>1, <2>2, <4>1
    <3>2. CASE pc[r] # "dynamic"
      <4>1. LastRead(r)' = -1 /\ lastFrameID'[r] = -1
        BY <2>2, <3>2 DEF LastRead, NoFrame
      <4>2. \A i \in 1..Len(wire[r]) : 0 <= wire[r][i].frame /\ wire[r][i].frame \in Int
        BY <1>1, PacketFrames
      <4>3. 0 <= frame
        BY DEF TypeOK
      <4> QED BY <1>1, <2>2, <4>1, <4>2, <4>3 DEF Ordered
    <3> QED BY <3>1, <3>2
  <2> QED BY <2>3 DEF FramesFollow
<1>11. ASSUME NEW r \in Routes, CloseRoute(r) PROVE FramesFollow'
  <2>1. UNCHANGED <<frame, pc, packet, lastFrameID>> /\ wire' = [wire EXCEPT ![r] = << >>]
    BY <1>11 DEF CloseRoute, serverVars, threadVars, sharedVars
  <2>2. ASSUME NEW s \in Routes
        PROVE  LastRead(s)' = LastRead(s) /\ Ordered(LastRead(s), wire'[s], frame)
    <3>1. wire'[s] = wire[s] \/ wire'[s] = << >>
      BY <2>1 DEF TypeOK
    <3>2. LastRead(s)' = LastRead(s)
      BY <2>1 DEF LastRead
    <3>3. wire[s] \in Seq(Packets) /\ LastRead(s) \in Int /\ frame \in Int /\ frame <= frame
          /\ LastRead(s) <= LastRead(s) /\ Ordered(LastRead(s), wire[s], frame)
      BY <1>1
    <3> QED BY <3>1, <3>2, <3>3, OrderedWithin
  <2> QED BY <1>1, <2>1, <2>2 DEF FramesFollow
<1>12. ASSUME NEW r \in Routes, Break(r) PROVE FramesFollow'
  BY <1>2, <1>12 DEF Break, serverVars, threadVars, sharedVars
<1>13. CASE \/ ConnectReturns \/ SetStreamMode \/ SetBufferSize \/ SetFilter \/ GetFrame
            \/ Dispatch \/ WaitTimesOut \/ DestroyCallbacks \/ Joined \/ UNCHANGED vars
  <2>1. UNCHANGED <<frame, wire, packet, lastFrameID, pc>>
    BY <1>13 DEF ConnectReturns, SetStreamMode, SetBufferSize, SetFilter, GetFrame, Dispatch,
                 WaitTimesOut, DestroyCallbacks, Joined, vars, serverVars, threadVars, sharedVars
  <2> QED BY <1>2, <2>1
<1> QED
  BY <1>3, <1>4, <1>5, <1>7, <1>8, <1>9, <1>10, <1>11, <1>12, <1>13
     DEF Next, Server, Caller, Returns

\* The frames of the queue are those the comparison let through: each is no later
\* than the last of its route, they are in order, after the one taken last, and the
\* last one is as late as any.
Good(q, last, taken) ==
    /\ \A i \in 1..Len(q) : /\ q[i].from \in hosts /\ q[i].frame <= last[q[i].from]
                           /\ Before(taken, q[i])
                           /\ \A j \in 1..Len(q) : i < j => Before(q[i], q[j])
    /\ q # << >> => \A r \in Routes : last[r] <= q[Len(q)].frame

\* What is left of the queue once the oldest frames are gone is as good.
LEMMA GoodSuffix ==
    ASSUME NEW q \in Seq(Pairs), NEW s \in Seq(Pairs), NEW last, NEW taken, Good(q, last, taken),
           Len(s) <= Len(q), \A i \in 1..Len(s) : s[i] = q[i + (Len(q) - Len(s))]
    PROVE  Good(s, last, taken)
<1> DEFINE k == Len(q) - Len(s)
<1>1. k \in Nat /\ Len(s) \in Nat /\ Len(q) = Len(s) + k
  OBVIOUS
<1>2. \A i \in 1..Len(s) : i + k \in 1..Len(q) /\ s[i] = q[i + k]
  BY <1>1
<1>3. \A i, j \in 1..Len(s) : i < j => i + k < j + k
  BY <1>1
<1>4. ASSUME s # << >> PROVE q # << >> /\ s[Len(s)] = q[Len(q)]
  <2>1. Len(s) \in 1..Len(s)
    BY <1>4
  <2> QED BY <1>1, <1>2, <2>1
<1> HIDE DEF k
<1> QED BY <1>2, <1>3, <1>4 DEF Good

\* An accepted frame is good at the end of the queue.
LEMMA GoodAppend ==
    ASSUME NEW q \in Seq(Pairs), NEW last \in [Routes -> Int], NEW r \in hosts,
           hosts \subseteq Routes, NEW p \in Pairs, p.from = r, last[r] <= p.frame,
           \A s \in hosts \ {r} : last[s] < p.frame, \A s \in Routes \ hosts : last[s] = NoFrame,
           NEW taken \in [frame : Int, from : Origins],
           taken = NoPair \/ (taken.from \in hosts /\ taken.frame <= last[taken.from]),
           Good(q, last, taken)
    PROVE  Good(Append(q, p), [last EXCEPT ![r] = p.frame], taken)
<1> DEFINE last2 == [last EXCEPT ![r] = p.frame]
<1> DEFINE q2 == Append(q, p)
<1>1. p.frame \in Nat /\ taken.frame \in Int
  BY DEF Pairs
<1>2. last2 \in [Routes -> Int] /\ last2[r] = p.frame
      /\ \A s \in Routes \ {r} : last2[s] = last[s]
  BY <1>1
<1>3. q2 \in Seq(Pairs) /\ Len(q2) = Len(q) + 1 /\ q2[Len(q) + 1] = p
      /\ \A i \in 1..Len(q) : q2[i] = q[i] /\ q[i] \in Pairs
  OBVIOUS
<1>4. \A i \in 1..(Len(q) + 1) : i \in 1..Len(q) \/ i = Len(q) + 1
  OBVIOUS
<1>5. ASSUME NEW x \in Origins, NEW f \in Int, x \in hosts, f <= last[x]
      PROVE  f < p.frame \/ (f = p.frame /\ x = r)
  BY <1>1, <1>5
<1>6. Before(taken, p)
  <2>1. CASE taken = NoPair
    BY <1>1, <2>1 DEF Before, NoPair, NoFrame
  <2>2. CASE taken # NoPair
    BY <1>1, <1>5, <2>2 DEF Before
  <2> QED BY <2>1, <2>2
<1>7. ASSUME NEW i \in 1..Len(q)
      PROVE  /\ q[i].from \in hosts /\ q[i].frame <= last2[q[i].from]
             /\ Before(taken, q[i]) /\ Before(q[i], p)
  <2>1. q[i].frame \in Int /\ q[i].from \in Origins
    BY <1>3 DEF Pairs
  <2>2. q[i].from \in hosts /\ q[i].frame <= last[q[i].from] /\ Before(taken, q[i])
    BY DEF Good
  <2>3. q[i].frame < p.frame \/ (q[i].frame = p.frame /\ q[i].from = r)
    BY <1>5, <2>1, <2>2
  <2>4. q[i].frame <= last2[q[i].from]
    BY <1>1, <1>2, <2>1, <2>2, <2>3
  <2> QED BY <2>2, <2>3, <2>4 DEF Before
<1>8. ASSUME NEW s \in Routes PROVE last2[s] <= p.frame
  <2>1. s = r \/ s \in hosts \ {r} \/ s \in Routes \ hosts
    OBVIOUS
  <2>2. s = r => last2[s] = p.frame
    BY <1>2
  <2>3. s \in hosts \ {r} => last2[s] = last[s] /\ last[s] < p.frame
    BY <1>2
  <2>4. s \in Routes \ hosts => last2[s] = -1
    BY <1>2 DEF NoFrame
  <2>5. last[s] \in Int
    OBVIOUS
  <2> QED BY <1>1, <2>1, <2>2, <2>3, <2>4, <2>5
<1>9. ASSUME NEW i \in 1..Len(q2)
      PROVE  /\ q2[i].from \in hosts /\ q2[i].frame <= last2[q2[i].from] /\ Before(taken, q2[i])
             /\ \A j \in 1..Len(q2) : i < j => Before(q2[i], q2[j])
  <2>1. CASE i = Len(q) + 1
    <3>1. q2[i] = p /\ ~\E j \in 1..Len(q2) : i < j
      BY <1>3, <2>1
    <3> QED BY <1>1, <1>2, <1>6, <3>1
  <2>2. CASE i \in 1..Len(q)
    <3>1. q2[i] = q[i]
      BY <1>3, <2>2
    <3>2. ASSUME NEW j \in 1..Len(q2), i < j PROVE Before(q2[i], q2[j])
      <4>1. CASE j = Len(q) + 1
        BY <1>3, <1>7, <2>2, <3>1, <4>1
      <4>2. CASE j \in 1..Len(q)
        BY <1>3, <2>2, <3>1, <3>2, <4>2 DEF Good
      <4> QED BY <1>3, <1>4, <4>1, <4>2
    <3> QED BY <1>7, <2>2, <3>1, <3>2
  <2> QED BY <1>3, <1>4, <2>1, <2>2
<1>10. q2[Len(q2)] = p
  BY <1>3
<1> HIDE DEF q2, last2
<1>11. Good(q2, last2, taken)
  BY <1>8, <1>9, <1>10 DEF Good
<1> QED BY <1>11 DEF q2, last2

\* A frame the comparison rejects leaves the queue good: another route has brought
\* one as late.
LEMMA GoodReject ==
    ASSUME NEW q \in Seq(Pairs), NEW last \in [Routes -> Int], NEW r \in Routes, NEW f \in Nat,
           hosts \subseteq Routes, last[r] <= f,
           f <= 0 \/ \E s \in hosts \ {r} : f <= last[s],
           NEW taken, Good(q, last, taken)
    PROVE  Good(q, [last EXCEPT ![r] = f], taken)
<1> DEFINE last2 == [last EXCEPT ![r] = f]
<1>1. last2 \in [Routes -> Int] /\ last2[r] = f /\ \A s \in Routes \ {r} : last2[s] = last[s]
  OBVIOUS
<1>2. ASSUME NEW i \in 1..Len(q) PROVE q[i].frame \in Nat /\ q[i].frame <= last2[q[i].from]
  <2>1. q[i] \in Pairs
    OBVIOUS
  <2>2. q[i].frame \in Nat /\ q[i].from \in hosts /\ q[i].frame <= last[q[i].from]
    BY <2>1 DEF Good, Pairs
  <2> QED BY <1>1, <2>2
<1>3. ASSUME q # << >>, NEW s \in Routes PROVE last2[s] <= q[Len(q)].frame
  <2>1. Len(q) \in 1..Len(q)
    BY <1>3
  <2>2. q[Len(q)].frame \in Nat /\ \A t \in Routes : last[t] <= q[Len(q)].frame
    BY <1>2, <1>3, <2>1 DEF Good
  <2>3. f <= q[Len(q)].frame
    BY <2>2
  <2> QED BY <1>1, <2>2, <2>3
<1> HIDE DEF last2
<1> QED BY <1>2, <1>3 DEF Good, last2

\* The part of the invariant that is about the queue.
QueueInv == QueueFollows /\ AcceptedInOrder /\ NewestQueued

\* The order of a frame after the one before it is kept by every step.
LEMMA QueueStep ==
    TypeOK /\ TypeOK' /\ HostsOnly /\ FramesFollow /\ QueueInv /\ [Next]_vars
      => HostsOnly' /\ QueueInv'
<1> SUFFICES ASSUME TypeOK, TypeOK', HostsOnly, FramesFollow, QueueInv, [Next]_vars
             PROVE  HostsOnly' /\ QueueInv'
  OBVIOUS
<1>1. /\ Good(queue, lastFrameID, latest)
      /\ CalledBack => latest = NoPair \/ NotLater(latest)
      /\ ~CalledBack => queue = << >>
  BY DEF QueueInv, QueueFollows, AcceptedInOrder, NewestQueued, Good, NotLater
<1>2. /\ queue \in Seq(Pairs) /\ lastFrameID \in [Routes -> Int] /\ hosts \subseteq Routes
      /\ latest \in [frame : Int, from : Origins] /\ bufferSize \in Nat
  BY DEF TypeOK
<1>0. ASSUME Good(queue, lastFrameID, latest)',
              (CalledBack => latest = NoPair \/ NotLater(latest))',
              (~CalledBack => queue = << >>)'
       PROVE  QueueInv'
  BY <1>0 DEF QueueInv, QueueFollows, AcceptedInOrder, NewestQueued, Good, NotLater
<1>3. hosts' = hosts
  BY DEF Next, Server, Thread, Caller, Returns, Capture, AnswerRequest, Break, ThreadConnects,
         ThreadRefused, WriteObjects, ReadStaticObjects, HandDynamicObjects, ReadDynamicObjects,
         ReadFails, ConnectReturns, ConnectTimesOut, Destroy, SetStreamMode, SetBufferSize,
         SetFilter, GetFrame, Disconnect, Dispatch, WaitTimesOut, DestroyCallbacks, CloseRoute,
         Joined, vars
<1>4. ASSUME NEW q \in Seq(Pairs), queue' = q, Good(q, lastFrameID, latest),
             lastFrameID' = lastFrameID, latest' = latest, CalledBack' = CalledBack,
             ~CalledBack => q = << >>
      PROVE  QueueInv'
  <2>1. Good(queue, lastFrameID, latest)'
    BY <1>3, <1>4 DEF Good
  <2>2. (CalledBack => latest = NoPair \/ NotLater(latest))'
    BY <1>1, <1>3, <1>4 DEF NotLater
  <2>3. (~CalledBack => queue = << >>)'
    BY <1>4
  <2> QED BY <2>1, <2>2, <2>3, <1>0
<1>5. ASSUME UNCHANGED <<queue, lastFrameID, latest>>, CalledBack' = CalledBack PROVE QueueInv'
  BY <1>1, <1>2, <1>4, <1>5
<1>6. ASSUME NEW r \in hosts, NEW p \in Packets, OnDynamicObjects(r, p), lastFrameID[r] <= p.frame,
             UNCHANGED <<latest, lastStatic, bufferSize>>, CalledBack' = CalledBack
      PROVE  QueueInv'
  <2>1. CASE ~CalledBack
    BY <1>5, <1>6, <2>1 DEF OnDynamicObjects
  <2>2. CASE CalledBack
    <3> DEFINE pair == [frame |-> p.frame, version |-> p.version, static |-> lastStatic,
                        from |-> r]
    <3>1. pair \in Pairs /\ pair.frame = p.frame /\ pair.from = r /\ p.frame \in Nat
      BY <1>2 DEF Packets, Pairs, TypeOK, Origins
    <3>2. lastFrameID' = [lastFrameID EXCEPT ![r] = p.frame]
      BY <1>6, <2>2 DEF OnDynamicObjects
    <3>3. CalledBack' /\ latest' = latest
      BY <1>6, <2>2
    <3>4. latest = NoPair \/ (latest.from \in hosts /\ latest.frame <= lastFrameID[latest.from])
      BY <1>1, <2>2 DEF NotLater
    <3>5. (latest = NoPair \/ NotLater(latest))'
      <4>1. latest.frame \in Int
        BY <1>2
      <4> QED BY <1>2, <1>3, <1>6, <3>1, <3>2, <3>3, <3>4, <4>1 DEF NotLater
    <3>6. CASE IsNew(r, p.frame)
      <4>1. /\ \A s \in hosts \ {r} : lastFrameID[s] < pair.frame
            /\ \A s \in Routes \ hosts : lastFrameID[s] = NoFrame
        BY <3>1, <3>6 DEF IsNew, HostsOnly
      <4>2. Good(Append(queue, pair), [lastFrameID EXCEPT ![r] = pair.frame], latest)
        BY <1>1, <1>2, <1>6, <3>1, <3>4, <4>1, GoodAppend
      <4> DEFINE q2 == Append(queue, pair)
      <4>3. q2 \in Seq(Pairs)
        BY <1>2, <3>1
      <4>4. queue' = Trim(q2, bufferSize)
        BY <1>6, <2>2, <3>6 DEF OnDynamicObjects
      <4> HIDE DEF q2
      <4>5. /\ queue' \in Seq(Pairs) /\ Len(queue') <= Len(q2)
            /\ \A i \in 1..Len(queue') : queue'[i] = q2[i + (Len(q2) - Len(queue'))]
        BY <1>2, <4>3, <4>4, TrimSuffix
      <4>6. Good(q2, lastFrameID', latest)
        BY <3>1, <3>2, <4>2 DEF q2
      <4>7. Good(queue', lastFrameID', latest)
        BY <4>3, <4>5, <4>6, GoodSuffix
      <4>8. Good(queue, lastFrameID, latest)'
        BY <1>3, <3>3, <4>7 DEF Good
      <4> QED BY <3>3, <3>5, <4>8, <1>0
    <3>7. CASE ~IsNew(r, p.frame)
      <4>1. p.frame <= 0 \/ \E s \in hosts \ {r} : p.frame <= lastFrameID[s]
        BY <1>2, <3>1, <3>7 DEF IsNew
      <4>2. Good(queue, lastFrameID', latest)
        BY <1>1, <1>2, <1>6, <3>1, <3>2, <4>1, GoodReject
      <4>3. queue' = queue
        BY <1>6, <2>2, <3>7 DEF OnDynamicObjects
      <4>4. Good(queue, lastFrameID, latest)'
        BY <1>3, <3>3, <4>2, <4>3 DEF Good
      <4> QED BY <3>3, <3>5, <4>4, <1>0
    <3> QED BY <3>6, <3>7
  <2> QED BY <2>1, <2>2
<1>7. ASSUME \A r \in Routes \ hosts : pc'[r] = pc[r] /\ lastFrameID'[r] = lastFrameID[r]
      PROVE  HostsOnly'
  BY <1>3, <1>7 DEF HostsOnly
<1>8. ASSUME NEW r \in Routes, Thread(r) PROVE HostsOnly' /\ QueueInv' /\ r \in hosts
  <2>1. pc[r] # "done"
    BY <1>8 DEF Thread, ThreadConnects, ThreadRefused, WriteObjects, ReadStaticObjects,
                HandDynamicObjects, ReadDynamicObjects, ReadFails
  <2>2. r \in hosts
    BY <2>1 DEF HostsOnly
  <2>3. \A s \in Routes \ {r} : pc'[s] = pc[s]
    BY <1>8 DEF Thread, ThreadConnects, ThreadRefused, WriteObjects, ReadStaticObjects,
                HandDynamicObjects, ReadDynamicObjects, ReadFails, OnDisconnect, TypeOK
  <2>4. \A s \in Routes \ {r} : lastFrameID'[s] = lastFrameID[s]
    <3>1. \/ \E p : OnDynamicObjects(r, p)
          \/ lastFrameID' = lastFrameID
      BY <1>8 DEF Thread, ThreadConnects, ThreadRefused, WriteObjects, ReadStaticObjects,
                  HandDynamicObjects, ReadDynamicObjects, ReadFails, sharedVars
    <3>2. ASSUME NEW p, OnDynamicObjects(r, p)
          PROVE  \A s \in Routes \ {r} : lastFrameID'[s] = lastFrameID[s]
      <4>1. lastFrameID' = [lastFrameID EXCEPT ![r] = p.frame] \/ lastFrameID' = lastFrameID
        BY <3>2 DEF OnDynamicObjects
      <4> QED BY <1>2, <4>1
    <3> QED BY <3>1, <3>2
  <2>5. HostsOnly'
    BY <1>7, <2>2, <2>3, <2>4
  <2>6. UNCHANGED <<latest, bufferSize>> /\ CalledBack' = CalledBack
    <3>1. bufferSize' = bufferSize
      BY <1>8 DEF Thread, ThreadConnects, ThreadRefused, WriteObjects, ReadStaticObjects,
                  HandDynamicObjects, ReadDynamicObjects, ReadFails
    <3>2. CallBack \/ UNCHANGED <<call, latest>>
      BY <1>8 DEF Thread, ThreadConnects, ThreadRefused, WriteObjects, ReadStaticObjects,
                  HandDynamicObjects, ReadDynamicObjects, ReadFails, callerVars, OnDisconnect,
                  OnStaticObjects, OnDynamicObjects
    <3>3. CASE CallBack
      BY <3>1, <3>3, CallsBack
    <3>4. CASE UNCHANGED <<call, latest>>
      BY <3>1, <3>4 DEF CalledBack
    <3> QED BY <3>2, <3>3, <3>4
  <2>7. CASE HandDynamicObjects(r)
    <3>1. /\ OnDynamicObjects(r, packet[r]) /\ packet[r] \in Packets
          /\ lastStatic' = lastStatic /\ pc[r] = "dynamic"
      BY <2>7 DEF HandDynamicObjects, TypeOK
    <3>2. lastFrameID[r] <= packet[r].frame
      BY <3>1 DEF FramesFollow, LastRead
    <3> QED BY <1>6, <2>2, <2>5, <2>6, <3>1, <3>2
  <2>8. CASE ReadDynamicObjects(r)
    <3>1. /\ OnDynamicObjects(r, Head(wire[r])) /\ lastStatic' = lastStatic
          /\ pc[r] = "read" /\ wire[r] # << >>
      BY <2>8 DEF ReadDynamicObjects
    <3>2. /\ wire[r] \in Seq(Packets) /\ lastFrameID[r] \in Int /\ frame \in Int
          /\ Ordered(lastFrameID[r], wire[r], frame)
      <4>1. LastRead(r) = lastFrameID[r]
        BY <3>1 DEF LastRead
      <4>2. Ordered(lastFrameID[r], wire[r], frame)
        BY <4>1 DEF FramesFollow
      <4>3. wire[r] \in Seq(Packets) /\ lastFrameID[r] \in Int /\ frame \in Int
        BY DEF TypeOK
      <4> QED BY <4>2, <4>3
    <3>3. lastFrameID[r] <= Head(wire[r]).frame
      BY <3>1, <3>2, OrderedRead
    <3>4. Head(wire[r]) \in Packets
      BY <3>1, <3>2, OrderedRead
    <3> QED BY <1>6, <2>2, <2>5, <2>6, <3>1, <3>3, <3>4
  <2>9. CASE ~HandDynamicObjects(r) /\ ~ReadDynamicObjects(r)
    <3>1. UNCHANGED <<queue, lastFrameID>>
      BY <1>8, <2>9 DEF Thread, ThreadConnects, ThreadRefused, WriteObjects, ReadStaticObjects,
                        ReadFails, sharedVars
    <3> QED BY <1>5, <2>2, <2>5, <2>6, <3>1
  <2> QED BY <2>7, <2>8, <2>9
<1>9. CASE Server
  <2>1. UNCHANGED <<queue, lastFrameID, latest, pc, call>>
    BY <1>9 DEF Server, Capture, AnswerRequest, Break, sharedVars, callerVars
  <2> QED BY <1>5, <1>7, <2>1 DEF CalledBack
<1>10. CASE \/ ConnectReturns \/ DestroyCallbacks \/ SetFilter \/ GetFrame \/ WaitTimesOut \/ Joined
            \/ (\E r \in Routes : CloseRoute(r)) \/ UNCHANGED vars
  <2>1. UNCHANGED <<queue, lastFrameID, latest, pc>> /\ CalledBack' = CalledBack
    BY <1>10 DEF ConnectReturns, DestroyCallbacks, SetFilter, Call, GetFrame, WaitTimesOut, Joined, CloseRoute, vars,
                 sharedVars, callerVars, CalledBack
  <2> QED BY <1>5, <1>7, <2>1
<1>11. CASE SetStreamMode
  <2>1. /\ queue' = << >> \/ queue' = queue
        /\ UNCHANGED <<lastFrameID, latest, pc, call>>
    BY <1>11 DEF SetStreamMode
  <2>2. << >> \in Seq(Pairs) /\ Good(<< >>, lastFrameID, latest)
    BY DEF Good
  <2> QED BY <1>1, <1>2, <1>4, <1>7, <2>1, <2>2 DEF CalledBack
<1>12. CASE SetBufferSize
  <2>1. PICK n \in BufferSizes : queue' = Trim(queue, n)
    BY <1>12 DEF SetBufferSize
  <2>2. UNCHANGED <<lastFrameID, latest, pc, call>> /\ call = "idle" /\ n \in Nat
    BY <1>12, ConstantsAssumption DEF SetBufferSize, Call, callerVars
  <2>3. /\ queue' \in Seq(Pairs) /\ Len(queue') <= Len(queue)
        /\ \A i \in 1..Len(queue') : queue'[i] = queue[i + (Len(queue) - Len(queue'))]
    BY <1>2, <2>1, <2>2, TrimSuffix
  <2>4. Good(queue', lastFrameID, latest)
    BY <1>1, <1>2, <2>3, GoodSuffix
  <2> QED BY <1>4, <1>7, <2>2, <2>3, <2>4 DEF CalledBack
<1>13. CASE Dispatch
  <2>1. /\ queue # << >> /\ queue' = Tail(queue) /\ CalledBack /\ CalledBack'
        /\ latest' = [frame |-> Head(queue).frame, from |-> Head(queue).from]
        /\ UNCHANGED <<lastFrameID, pc>>
    BY <1>13 DEF Dispatch, CalledBack
  <2>2. Head(queue) = queue[1] /\ 1 \in 1..Len(queue) /\ Len(Tail(queue)) = Len(queue) - 1
    BY <1>2, <2>1
  <2>3. \A i \in 1..Len(Tail(queue)) :
          Tail(queue)[i] = queue[i + 1] /\ i + 1 \in 1..Len(queue) /\ 1 < i + 1
    BY <1>2, <2>1
  <2>4. Good(Tail(queue), lastFrameID, latest)
    <3>1. Len(queue) - Len(Tail(queue)) = 1 /\ Tail(queue) \in Seq(Pairs)
          /\ Len(Tail(queue)) <= Len(queue)
      BY <1>2, <2>1, <2>2
    <3>2. \A i \in 1..Len(Tail(queue)) :
            Tail(queue)[i] = queue[i + (Len(queue) - Len(Tail(queue)))]
      BY <2>3, <3>1
    <3> QED BY <1>1, <1>2, <3>1, <3>2, GoodSuffix
  <2>5. \A i \in 1..Len(Tail(queue)) : Before(latest', Tail(queue)[i])
    BY <1>1, <2>1, <2>2, <2>3 DEF Good, Before
  <2>6. Good(queue, lastFrameID, latest)'
    BY <1>3, <2>1, <2>4, <2>5 DEF Good
  <2>7. NotLater(latest)'
    BY <1>1, <1>3, <2>1, <2>2 DEF Good, NotLater
  <2> QED BY <1>7, <2>1, <2>6, <2>7, <1>0
<1>14. CASE ConnectTimesOut \/ Disconnect
  <2>1. Destroy
    BY <1>14 DEF ConnectTimesOut, Disconnect
  <2>2. /\ queue' = << >> /\ ~CalledBack' /\ pc' = pc
        /\ lastFrameID' = [r \in Routes |-> NoFrame]
    BY <2>1 DEF Destroy, CalledBack
  <2>3. Good(queue, lastFrameID, latest)'
    BY <2>2 DEF Good
  <2>4. HostsOnly'
    BY <1>3, <2>2 DEF HostsOnly
  <2> QED BY <2>2, <2>3, <2>4, <1>0
<1> QED
  BY <1>8, <1>9, <1>10, <1>11, <1>12, <1>13, <1>14 DEF Next, Caller, Returns

\* The invariant on frames holds initially and is kept.
LEMMA FrameInvariant == Spec => [](TypeOK /\ HostsOnly /\ FramesFollow /\ QueueInv)
<1> DEFINE Inv == TypeOK /\ HostsOnly /\ FramesFollow /\ QueueInv
<1>1. Init => Inv
  <2> SUFFICES ASSUME Init PROVE Inv
    OBVIOUS
  <2>1. TypeOK
    BY TypeInit
  <2>2. HostsOnly
    BY DEF Init, HostsOnly
  <2>3. FramesFollow
    <3>1. \A r \in Routes : LastRead(r) = -1 /\ lastFrameID[r] = -1 /\ wire[r] = << >>
      BY DEF Init, LastRead, NoFrame
    <3>2. frame \in Nat
      BY <2>1 DEF TypeOK
    <3>3. ASSUME NEW r \in Routes
          PROVE  lastFrameID[r] <= LastRead(r) /\ Ordered(LastRead(r), wire[r], frame)
      <4>1. LastRead(r) = -1 /\ lastFrameID[r] = -1 /\ wire[r] = << >>
        BY <3>1
      <4>2. \A i \in 1..Len(wire[r]) : FALSE
        BY <4>1
      <4>3. -1 <= frame /\ -1 <= -1
        BY <3>2
      <4> QED BY <4>1, <4>2, <4>3 DEF Ordered
    <3> QED BY <3>3 DEF FramesFollow
  <2>4. QueueInv
    BY DEF Init, QueueInv, QueueFollows, AcceptedInOrder, NewestQueued
  <2> QED BY <2>1, <2>2, <2>3, <2>4
<1>2. Inv /\ [Next]_vars => Inv'
  BY TypeStep, FramesStep, QueueStep
<1> HIDE DEF Inv
<1>3. Spec => []Inv
  BY <1>1, <1>2, PTL DEF Spec
<1> QED BY <1>3 DEF Inv

\* The caller is handed the frames in their order, and no frame of two routes.
THEOREM InOrder == Spec => []AcceptedInOrder
<1>1. QueueInv => AcceptedInOrder
  BY DEF QueueInv
<1> QED BY <1>1, FrameInvariant, PTL

\* The queue keeps the newest frame.
THEOREM Newest == Spec => []NewestQueued
<1>1. QueueInv => NewestQueued
  BY DEF QueueInv
<1> QED BY <1>1, FrameInvariant, PTL

\* What a packet is made of.
LEMMA PacketForIs ==
    ASSUME NEW c, NEW f \in Nat, NEW v \in Int
    PROVE  /\ PacketFor(c, f, v) \in Packets /\ PacketFor(c, f, v).version = v
           /\ PacketFor(c, f, v).static \/ v = c.sent
<1>1. PacketFor(c, f, v) = [frame |-> f, version |-> v, static |-> c.sent # v]
  BY DEF PacketFor
<1>2. CASE c.sent = v
  <2>1. PacketFor(c, f, v) = [frame |-> f, version |-> v, static |-> FALSE]
    BY <1>1, <1>2
  <2> QED BY <1>2, <2>1 DEF Packets
<1>3. CASE c.sent # v
  <2>1. PacketFor(c, f, v) = [frame |-> f, version |-> v, static |-> TRUE]
    BY <1>1, <1>3
  <2> QED BY <2>1 DEF Packets
<1> QED BY <1>2, <1>3

\* A packet sent leaves out what the packet before it had.
LEMMA ElidedSent ==
    ASSUME NEW w \in Seq(Packets), NEW k \in Int, NEW p \in Packets, Elided(w, k),
           p.static \/ p.version = LastVersion(w, k)
    PROVE  Elided(Append(w, p), k) /\ LastVersion(Append(w, p), k) = p.version
<1> DEFINE w2 == Append(w, p)
<1>1. /\ Len(w) \in Nat /\ Len(w2) = Len(w) + 1 /\ w2[Len(w) + 1] = p
      /\ \A i \in 1..Len(w) : w2[i] = w[i]
  OBVIOUS
<1>2. ASSUME NEW i \in 1..(Len(w) + 1) PROVE VersionBefore(w2, k, i) = VersionBefore(w, k, i)
  <2>1. i # 1 => i - 1 \in 1..Len(w)
    BY <1>1
  <2> QED BY <1>1, <2>1 DEF VersionBefore
<1>3. ASSUME NEW i \in 1..(Len(w) + 1)
      PROVE  w2[i].static \/ w2[i].version = VersionBefore(w2, k, i)
  <2>1. CASE i = Len(w) + 1
    BY <1>1, <1>2, <2>1 DEF LastVersion
  <2>2. CASE i # Len(w) + 1
    <3>1. i \in 1..Len(w)
      BY <1>1, <2>2
    <3> QED BY <1>1, <1>2, <3>1 DEF Elided
  <2> QED BY <2>1, <2>2
<1>4. VersionBefore(w2, k, Len(w2) + 1) = p.version
  <2>1. Len(w2) + 1 # 1 /\ Len(w2) + 1 - 1 = Len(w) + 1
    BY <1>1
  <2> QED BY <1>1, <2>1 DEF VersionBefore
<1> HIDE DEF w2
<1>5. Elided(w2, k) /\ LastVersion(w2, k) = p.version
  BY <1>1, <1>3, <1>4 DEF Elided, LastVersion
<1> QED BY <1>5 DEF w2

\* The packet that is read leaves out what its route has.
LEMMA ElidedRead ==
    ASSUME NEW w \in Seq(Packets), NEW k \in Int, w # << >>, Elided(w, k)
    PROVE  /\ Head(w) \in Packets
           /\ Head(w).static \/ Head(w).version = k
           /\ Elided(Tail(w), Head(w).version)
           /\ LastVersion(Tail(w), Head(w).version) = LastVersion(w, k)
<1> DEFINE t == Tail(w)
<1>1. /\ Head(w) = w[1] /\ 1 \in 1..Len(w) /\ Len(w) \in Nat
      /\ t \in Seq(Packets) /\ Len(t) \in Nat /\ Len(w) = Len(t) + 1
      /\ \A i \in 1..Len(t) : t[i] = w[i + 1]
  OBVIOUS
<1>2. Head(w) \in Packets
  BY <1>1
<1>3. Head(w).static \/ Head(w).version = k
  BY <1>1 DEF Elided, VersionBefore
<1>4. ASSUME NEW i \in 1..(Len(t) + 1)
      PROVE  VersionBefore(t, w[1].version, i) = VersionBefore(w, k, i + 1)
  <2>1. i + 1 # 1 /\ i + 1 - 1 = i
    BY <1>1
  <2>2. VersionBefore(w, k, i + 1) = w[i].version
    BY <2>1 DEF VersionBefore
  <2>3. CASE i = 1
    BY <2>2, <2>3 DEF VersionBefore
  <2>4. CASE i # 1
    <3>1. i - 1 \in 1..Len(t) /\ i - 1 + 1 = i
      BY <1>1, <2>4
    <3>2. t[i - 1] = w[i]
      BY <1>1, <3>1
    <3> QED BY <2>2, <2>4, <3>2 DEF VersionBefore
  <2> QED BY <2>3, <2>4
<1>5. Elided(t, w[1].version)
  <2>1. ASSUME NEW i \in 1..Len(t)
        PROVE  t[i].static \/ t[i].version = VersionBefore(t, w[1].version, i)
    <3>1. i \in 1..(Len(t) + 1) /\ i + 1 \in 1..Len(w)
      BY <1>1
    <3>2. w[i + 1].static \/ w[i + 1].version = VersionBefore(w, k, i + 1)
      BY <3>1 DEF Elided
    <3> QED BY <1>1, <1>4, <3>1, <3>2
  <2> QED BY <2>1 DEF Elided
<1>6. LastVersion(t, w[1].version) = LastVersion(w, k)
  <2>1. Len(t) + 1 \in 1..(Len(t) + 1) /\ Len(t) + 1 + 1 = Len(w) + 1
    BY <1>1
  <2> QED BY <1>4, <2>1 DEF LastVersion
<1> HIDE DEF t
<1> QED BY <1>1, <1>2, <1>3, <1>5, <1>6 DEF t

\* The packets of a route leave out what the route has, whatever is done.
LEMMA StaticsStep == TypeOK /\ TypeOK' /\ StaticsFollow /\ [Next]_vars => StaticsFollow'
<1> SUFFICES ASSUME TypeOK, TypeOK', StaticsFollow, [Next]_vars PROVE StaticsFollow'
  OBVIOUS
<1>1. ASSUME NEW r \in Routes
      PROVE  /\ wire[r] \in Seq(Packets) /\ statics[r] \in Int /\ connection[r] \in Connections
             /\ packet[r] \in Packets /\ RouteStatics(r)
  BY DEF TypeOK, StaticsFollow
<1>2. \A r \in Routes : NoStatic.from # r
  BY ConstantsAssumption DEF NoStatic
<1>3. ASSUME NEW r \in Routes, wire'[r] = wire[r], statics'[r] = statics[r],
             pc'[r] = "dynamic" => pc[r] = "dynamic" /\ packet'[r] = packet[r],
             pc'[r] = "connecting" => pc[r] = "connecting",
             \/ connection'[r].sent = connection[r].sent /\ connection'[r].open = connection[r].open
             \/ connection'[r].sent = -1 /\ ~connection'[r].open,
             lastStatic' = lastStatic \/ lastStatic' = NoStatic
      PROVE  RouteStatics(r)'
  <2>1. Elided(wire[r], statics[r])'
    BY <1>1, <1>3 DEF RouteStatics, Elided, VersionBefore
  <2>2. (connection[r].open => connection[r].sent = LastVersion(wire[r], statics[r]))'
    <3>1. ASSUME connection'[r].open
          PROVE  connection[r].open /\ connection'[r].sent = connection[r].sent
      BY <1>3, <3>1
    <3>2. LastVersion(wire[r], statics[r])' = LastVersion(wire[r], statics[r])
      BY <1>3 DEF LastVersion, VersionBefore
    <3> QED BY <1>1, <3>1, <3>2 DEF RouteStatics
  <2>3. (pc[r] = "connecting" => wire[r] = << >> /\ statics[r] = -1
                                  /\ ~connection[r].open /\ connection[r].sent = -1)'
    BY <1>1, <1>3 DEF RouteStatics
  <2>4. (pc[r] = "dynamic" => packet[r].version = statics[r])'
    BY <1>1, <1>3 DEF RouteStatics
  <2>5. (lastStatic.from = r => lastStatic.version = statics[r])'
    BY <1>1, <1>2, <1>3 DEF RouteStatics
  <2> QED BY <2>1, <2>2, <2>3, <2>4, <2>5 DEF RouteStatics
<1>4. ASSUME \A r \in Routes : RouteStatics(r)', ~CalledBack' => lastStatic' = NoStatic
      PROVE  StaticsFollow'
  BY <1>4 DEF StaticsFollow
<1>5. ~CalledBack => lastStatic = NoStatic
  BY DEF StaticsFollow
<1>6. ASSUME NEW r \in Routes, connection[r].open, connection'[r].open,
             NEW p \in Packets, wire'[r] = Append(wire[r], p),
             p.static \/ p.version = connection[r].sent, connection'[r].sent = p.version,
             UNCHANGED <<statics, pc, packet, lastStatic>>
      PROVE  RouteStatics(r)'
  <2>1. /\ Elided(wire[r], statics[r]) /\ wire[r] \in Seq(Packets) /\ statics[r] \in Int
        /\ connection[r].sent = LastVersion(wire[r], statics[r]) /\ pc[r] # "connecting"
    BY <1>1, <1>6 DEF RouteStatics
  <2>2. p.static \/ p.version = LastVersion(wire[r], statics[r])
    BY <1>6, <2>1
  <2>3. /\ Elided(Append(wire[r], p), statics[r])
        /\ LastVersion(Append(wire[r], p), statics[r]) = p.version
    BY <2>1, <2>2, ElidedSent
  <2>4. Elided(wire[r], statics[r])'
    BY <1>6, <2>3 DEF Elided, VersionBefore
  <2>5. (connection[r].open => connection[r].sent = LastVersion(wire[r], statics[r]))'
    BY <1>6, <2>3 DEF LastVersion, VersionBefore
  <2>6. pc'[r] # "connecting"
    BY <1>6, <2>1
  <2>7. (pc[r] = "dynamic" => packet[r].version = statics[r])'
        /\ (lastStatic.from = r => lastStatic.version = statics[r])'
    BY <1>1, <1>6 DEF RouteStatics
  <2> QED BY <2>4, <2>5, <2>6, <2>7 DEF RouteStatics
<1>7. CASE Capture
  <2>1. UNCHANGED <<statics, pc, packet, lastStatic, call>>
    BY <1>7 DEF Capture, threadVars, sharedVars, callerVars
  <2>2. ASSUME NEW r \in Routes PROVE RouteStatics(r)'
    <3>1. CASE wire'[r] = wire[r] /\ connection'[r] = connection[r]
      BY <1>3, <2>1, <3>1
    <3>2. CASE ~(wire'[r] = wire[r] /\ connection'[r] = connection[r])
      <4>1. /\ Sends(connection[r], wire[r])
            /\ wire'[r] = Append(wire[r], PacketFor(connection[r], frame', version'))
            /\ connection'[r] = [connection[r] EXCEPT !.sent = version', !.next = FALSE]
        BY <1>7, <3>2 DEF Capture
      <4>2. /\ connection[r].open /\ connection'[r].open /\ connection'[r].sent = version'
        BY <1>1, <4>1 DEF Sends, Connections
      <4>3. /\ PacketFor(connection[r], frame', version') \in Packets
            /\ PacketFor(connection[r], frame', version').version = version'
            /\ \/ PacketFor(connection[r], frame', version').static
               \/ version' = connection[r].sent
        <5>1. frame' \in Nat /\ version' \in Int
          BY DEF TypeOK
        <5> QED BY <5>1, PacketForIs
      <4> QED BY <1>6, <2>1, <4>1, <4>2, <4>3
    <3> QED BY <3>1, <3>2
  <2> QED BY <1>4, <1>5, <2>1, <2>2 DEF CalledBack
<1>8. ASSUME NEW r \in Routes, AnswerRequest(r) PROVE StaticsFollow'
  <2>1. UNCHANGED <<statics, pc, packet, lastStatic, call>>
    BY <1>8 DEF AnswerRequest, threadVars, sharedVars, callerVars
  <2>2. /\ wire' = [wire EXCEPT ![r] = Append(@, PacketFor(connection[r], frame, version))]
        /\ connection' = [connection EXCEPT ![r] = Answered(connection[r])]
        /\ Sends(connection[r], wire[r])
    BY <1>8 DEF AnswerRequest
  <2>3. ASSUME NEW s \in Routes, s # r PROVE RouteStatics(s)'
    <3>1. wire'[s] = wire[s] /\ connection'[s] = connection[s]
      BY <2>2, <2>3 DEF TypeOK
    <3> QED BY <1>3, <2>1, <3>1
  <2>4. RouteStatics(r)'
    <3>1. /\ wire'[r] = Append(wire[r], PacketFor(connection[r], frame, version))
          /\ connection'[r] = Answered(connection[r])
      BY <2>2 DEF TypeOK
    <3>2. connection[r].open /\ connection'[r].open /\ connection'[r].sent = version
      <4>1. connection[r].open
        BY <2>2 DEF Sends
      <4>2. connection[r] \in Connections
        BY <1>1
      <4>3. /\ Answered(connection[r]).open = connection[r].open
            /\ Answered(connection[r]).sent = version
        BY <4>2 DEF Connections, Answered
      <4> QED BY <3>1, <4>1, <4>3
    <3>3. /\ PacketFor(connection[r], frame, version) \in Packets
          /\ PacketFor(connection[r], frame, version).version = version
          /\ \/ PacketFor(connection[r], frame, version).static
             \/ version = connection[r].sent
      <4>1. frame \in Nat /\ version \in Int
        BY DEF TypeOK
      <4> QED BY <4>1, PacketForIs
    <3> QED BY <1>6, <2>1, <3>1, <3>2, <3>3
  <2> QED BY <1>4, <1>5, <2>1, <2>3, <2>4 DEF CalledBack
<1>9. ASSUME NEW r \in Routes, ReadStaticObjects(r) \/ ReadDynamicObjects(r)
      PROVE  StaticsFollow'
  <2> DEFINE p == Head(wire[r])
  <2>1. /\ wire' = [wire EXCEPT ![r] = Tail(@)] /\ wire[r] # << >>
        /\ connection' = connection /\ CallBack
        /\ \A s \in Routes \ {r} : pc'[s] = pc[s] /\ packet'[s] = packet[s]
                                   /\ statics'[s] = statics[s] /\ wire'[s] = wire[s]
    BY <1>9 DEF ReadStaticObjects, ReadDynamicObjects, OnStaticObjects, OnDynamicObjects,
                threadVars, TypeOK
  <2>2. /\ wire[r] \in Seq(Packets) /\ statics[r] \in Int /\ Elided(wire[r], statics[r])
        /\ connection[r].open => connection[r].sent = LastVersion(wire[r], statics[r])
    BY <1>1 DEF RouteStatics
  <2>3. /\ p \in Packets /\ (p.static \/ p.version = statics[r])
        /\ Elided(Tail(wire[r]), p.version)
        /\ LastVersion(Tail(wire[r]), p.version) = LastVersion(wire[r], statics[r])
    BY <2>1, <2>2, ElidedRead
  <2>4. wire'[r] = Tail(wire[r])
    BY <2>1 DEF TypeOK
  <2>5. /\ statics'[r] = p.version
        /\ pc'[r] # "connecting" /\ (pc'[r] = "dynamic" => packet'[r] = p)
        /\ lastStatic' # lastStatic =>
             CalledBack /\ lastStatic' = [version |-> p.version, from |-> r]
        /\ lastStatic' = lastStatic /\ lastStatic.from = r => statics[r] = p.version \/ ~CalledBack
    <3>1. CASE ReadStaticObjects(r)
      <4>1. statics'[r] = p.version /\ pc'[r] = "dynamic" /\ packet'[r] = p
        BY <3>1 DEF ReadStaticObjects, TypeOK
      <4>2. lastStatic' = IF CalledBack THEN [version |-> p.version, from |-> r] ELSE lastStatic
        BY <3>1 DEF ReadStaticObjects, OnStaticObjects
      <4>3. CASE ~CalledBack
        BY <4>1, <4>2, <4>3
      <4>4. CASE CalledBack
        <5>1. lastStatic' = [version |-> p.version, from |-> r]
          BY <4>2, <4>4
        <5>2. lastStatic.from = r => lastStatic.version = statics[r]
          BY <1>1 DEF RouteStatics
        <5>3. ASSUME lastStatic' = lastStatic, lastStatic.from = r PROVE statics[r] = p.version
          BY <5>1, <5>2, <5>3
        <5> QED BY <4>1, <4>4, <5>1, <5>3
      <4> QED BY <4>3, <4>4
    <3>2. CASE ReadDynamicObjects(r)
      BY <2>3, <3>2 DEF ReadDynamicObjects, threadVars, TypeOK
    <3> QED BY <1>9, <3>1, <3>2
  <2> HIDE DEF p
  <2>6. RouteStatics(r)'
    <3>1. Elided(wire[r], statics[r])'
      BY <2>3, <2>4, <2>5 DEF Elided, VersionBefore
    <3>2. (connection[r].open => connection[r].sent = LastVersion(wire[r], statics[r]))'
      BY <2>1, <2>2, <2>3, <2>4, <2>5 DEF LastVersion, VersionBefore
    <3>3. (lastStatic.from = r => lastStatic.version = statics[r])'
      BY <1>1, <1>2, <1>5, <2>5 DEF RouteStatics
    <3> QED BY <2>5, <3>1, <3>2, <3>3 DEF RouteStatics
  <2>7. ASSUME NEW s \in Routes, s # r PROVE RouteStatics(s)'
    <3>1. lastStatic' = lastStatic \/ lastStatic'.from = r
      BY <2>5
    <3>2. /\ Elided(wire[s], statics[s])'
          /\ (connection[s].open => connection[s].sent = LastVersion(wire[s], statics[s]))'
      BY <1>1, <2>1, <2>7 DEF RouteStatics, Elided, LastVersion, VersionBefore
    <3>3. /\ (pc[s] = "connecting" => wire[s] = << >> /\ statics[s] = -1
                                        /\ ~connection[s].open /\ connection[s].sent = -1)'
          /\ (pc[s] = "dynamic" => packet[s].version = statics[s])'
      BY <1>1, <2>1, <2>7 DEF RouteStatics
    <3>4. (lastStatic.from = s => lastStatic.version = statics[s])'
      BY <1>1, <2>1, <2>7, <3>1 DEF RouteStatics
    <3> QED BY <3>2, <3>3, <3>4 DEF RouteStatics
  <2>8. ~CalledBack' => lastStatic' = NoStatic
    BY <1>5, <2>1, <2>5, CallsBack
  <2> QED BY <1>4, <2>6, <2>7, <2>8
<1>10. ASSUME NEW r \in Routes, ThreadConnects(r) PROVE StaticsFollow'
  <2>1. UNCHANGED <<wire, statics, packet, lastStatic>> /\ CallBack
    BY <1>10 DEF ThreadConnects, threadVars
  <2>2. /\ pc[r] = "connecting" /\ pc' = [pc EXCEPT ![r] = "write"]
        /\ connection' = [connection EXCEPT ![r].open = TRUE, ![r].again = connection[r].shut]
    BY <1>10 DEF ThreadConnects
  <2>3. ASSUME NEW s \in Routes, s # r PROVE RouteStatics(s)'
    <3>1. pc'[s] = pc[s] /\ connection'[s] = connection[s]
      BY <2>2, <2>3 DEF TypeOK
    <3> QED BY <1>3, <2>1, <3>1
  <2>4. RouteStatics(r)'
    <3>1. pc'[r] = "write" /\ connection'[r].sent = connection[r].sent
      <4>1. connection'[r] = [connection[r] EXCEPT !.open = TRUE, !.again = connection[r].shut]
        BY <2>2 DEF TypeOK
      <4>2. connection[r] \in Connections
        BY DEF TypeOK
      <4>3. pc'[r] = "write"
        BY <2>2 DEF TypeOK
      <4> QED BY <4>1, <4>2, <4>3 DEF Connections
    <3>2. wire[r] = << >> /\ statics[r] = -1 /\ connection[r].sent = -1
      BY <1>1, <2>2 DEF RouteStatics
    <3>3. Elided(wire[r], statics[r])'
      BY <2>1, <3>2 DEF Elided
    <3>4. LastVersion(wire[r], statics[r])' = -1
      BY <2>1, <3>2 DEF LastVersion, VersionBefore
    <3>5. (lastStatic.from = r => lastStatic.version = statics[r])'
      BY <1>1, <2>1 DEF RouteStatics
    <3> QED BY <3>1, <3>2, <3>3, <3>4, <3>5 DEF RouteStatics
  <2> QED BY <1>4, <1>5, <2>1, <2>3, <2>4, CallsBack
<1>11. ASSUME NEW r \in Routes, ThreadRefused(r) \/ WriteObjects(r) \/ HandDynamicObjects(r)
                               \/ ReadFails(r)
       PROVE  StaticsFollow'
  <2>1. UNCHANGED <<wire, statics, lastStatic>> /\ CalledBack' = CalledBack
    <3>1. UNCHANGED <<wire, statics, lastStatic>>
      BY <1>11 DEF ThreadRefused, WriteObjects, HandDynamicObjects, ReadFails, threadVars,
                   sharedVars
    <3>2. CallBack \/ call' = call
      BY <1>11 DEF ThreadRefused, WriteObjects, HandDynamicObjects, ReadFails, OnDisconnect,
                   OnDynamicObjects, callerVars
    <3>3. CASE CallBack
      BY <3>1, <3>3, CallsBack
    <3>4. CASE call' = call
      BY <3>1, <3>4 DEF CalledBack
    <3> QED BY <3>2, <3>3, <3>4
  <2>2. ASSUME NEW s \in Routes
        PROVE  /\ connection'[s].sent = connection[s].sent
               /\ connection'[s].open = connection[s].open
               /\ pc'[s] = "dynamic" => pc[s] = "dynamic" /\ packet'[s] = packet[s]
               /\ pc'[s] = "connecting" => pc[s] = "connecting"
    <3>1. CASE ThreadRefused(r)
      BY <3>1 DEF ThreadRefused, TypeOK
    <3>2. CASE WriteObjects(r)
      <4>1. packet' = packet /\ pc'[r] \in {"read", "done"} /\ (s # r => pc'[s] = pc[s])
        BY <3>2 DEF WriteObjects, OnDisconnect, threadVars, TypeOK
      <4>2. connection' = connection
            \/ connection' = [connection EXCEPT ![r].told = @ \/ "enums" \in changed[r]]
        BY <3>2 DEF WriteObjects
      <4>3. /\ connection'[s].sent = connection[s].sent
            /\ connection'[s].open = connection[s].open
        <5>1. connection' = connection
              \/ \E b : connection' = [connection EXCEPT ![r].told = b]
          BY <4>2
        <5>2. ASSUME NEW b, connection' = [connection EXCEPT ![r].told = b]
              PROVE  /\ connection'[s].sent = connection[s].sent
                     /\ connection'[s].open = connection[s].open
          <6>1. connection \in [Routes -> Connections]
            BY DEF TypeOK
          <6>2. connection'[s] = connection[s] \/ connection'[s] = [connection[s] EXCEPT !.told = b]
            BY <5>2, <6>1
          <6>3. connection[s] \in Connections
            BY <6>1
          <6> QED BY <6>2, <6>3 DEF Connections
        <5> QED BY <5>1, <5>2
      <4> QED BY <4>1, <4>3
    <3>3. CASE HandDynamicObjects(r)
      BY <3>3 DEF HandDynamicObjects, TypeOK
    <3>4. CASE ReadFails(r)
      BY <3>4 DEF ReadFails, OnDisconnect, TypeOK
    <3> QED BY <1>11, <3>1, <3>2, <3>3, <3>4
  <2>3. ASSUME NEW s \in Routes PROVE RouteStatics(s)'
    BY <1>3, <2>1, <2>2
  <2> QED BY <1>4, <1>5, <2>1, <2>3
<1>12. ASSUME NEW r \in Routes, Break(r) \/ CloseRoute(r) PROVE StaticsFollow'
  <2>1. UNCHANGED <<statics, packet, pc, lastStatic, call>>
    BY <1>12 DEF Break, CloseRoute, threadVars, sharedVars, callerVars
  <2>2. ASSUME NEW s \in Routes, s # r PROVE RouteStatics(s)'
    <3>1. wire'[s] = wire[s] /\ connection'[s] = connection[s]
      BY <1>12, <2>2 DEF Break, CloseRoute, TypeOK
    <3> QED BY <1>3, <2>1, <3>1
  <2>3. RouteStatics(r)'
    <3>1. ~connection'[r].open /\ connection'[r].sent = -1
      <4>1. \E b : connection' = [connection EXCEPT ![r] = [NoConnection EXCEPT !.shut = b]]
        BY <1>12 DEF Break, CloseRoute
      <4>2. PICK b : connection' = [connection EXCEPT ![r] = [NoConnection EXCEPT !.shut = b]]
        BY <4>1
      <4>3. connection'[r] = [NoConnection EXCEPT !.shut = b]
        BY <4>2 DEF TypeOK
      <4> QED BY <4>3 DEF NoConnection
    <3>2. wire'[r] = wire[r] \/ wire'[r] = << >>
      BY <1>12 DEF Break, CloseRoute, TypeOK
    <3>3. Elided(wire[r], statics[r])'
      BY <1>1, <2>1, <3>2 DEF RouteStatics, Elided, VersionBefore
    <3>4. /\ (pc[r] = "connecting" => wire[r] = << >> /\ statics[r] = -1)'
          /\ (pc[r] = "dynamic" => packet[r].version = statics[r])'
          /\ (lastStatic.from = r => lastStatic.version = statics[r])'
      BY <1>1, <2>1, <3>2 DEF RouteStatics
    <3> QED BY <3>1, <3>3, <3>4 DEF RouteStatics
  <2> QED BY <1>4, <1>5, <2>1, <2>2, <2>3 DEF CalledBack
<1>13. CASE SetStreamMode \/ GetFrame \/ Dispatch \/ WaitTimesOut
  <2>1. UNCHANGED <<wire, statics, packet, lastStatic, pc>> /\ CalledBack' = CalledBack
    BY <1>13 DEF SetStreamMode, GetFrame, Dispatch, WaitTimesOut, threadVars, sharedVars, CalledBack
  <2>2. ASSUME NEW c \in [Routes -> Connections], NEW r \in Routes
        PROVE  /\ RequestsNext(c)[r].sent = c[r].sent /\ RequestsNext(c)[r].open = c[r].open
    BY DEF RequestsNext, Connections
  <2>3. ASSUME NEW r \in Routes, NEW b \in BOOLEAN
        PROVE  /\ ToldStreaming(b)[r].sent = connection[r].sent
               /\ ToldStreaming(b)[r].open = connection[r].open
               /\ ToldStreaming(b) \in [Routes -> Connections]
    BY <1>1 DEF ToldStreaming, Connections
  <2>4. connection \in [Routes -> Connections]
    BY DEF TypeOK
  <2>5. ASSUME NEW r \in Routes
        PROVE  connection'[r].sent = connection[r].sent /\ connection'[r].open = connection[r].open
    <3>1. CASE SetStreamMode
      <4>1. PICK b \in BOOLEAN : connection' = ToldStreaming(b)
                                 \/ connection' = RequestsNext(ToldStreaming(b))
        BY <3>1 DEF SetStreamMode
      <4>2. ToldStreaming(b) \in [Routes -> Connections]
        BY <2>3
      <4> QED BY <2>2, <2>3, <4>1, <4>2
    <3>2. CASE GetFrame
      BY <1>1, <3>2 DEF GetFrame, Connections
    <3>3. CASE Dispatch \/ WaitTimesOut
      <4>1. connection' = connection \/ connection' = RequestsNext(connection)
        BY <3>3 DEF Dispatch, WaitTimesOut, AfterFetch
      <4> QED BY <2>2, <2>4, <4>1
    <3> QED BY <1>13, <3>1, <3>2, <3>3
  <2>6. ASSUME NEW r \in Routes PROVE RouteStatics(r)'
    BY <1>3, <2>1, <2>5
  <2> QED BY <1>4, <1>5, <2>1, <2>6
<1>14. CASE \/ ConnectReturns \/ SetBufferSize \/ SetFilter \/ DestroyCallbacks \/ Joined
            \/ UNCHANGED vars
  <2>1. UNCHANGED <<wire, statics, packet, connection, lastStatic, pc>> /\ CalledBack' = CalledBack
    BY <1>14 DEF ConnectReturns, SetBufferSize, SetFilter, DestroyCallbacks, Call, Joined, vars,
                 threadVars, sharedVars, callerVars, CalledBack
  <2>2. ASSUME NEW r \in Routes PROVE RouteStatics(r)'
    BY <1>3, <2>1
  <2> QED BY <1>4, <1>5, <2>1, <2>2
<1>15. CASE ConnectTimesOut \/ Disconnect
  <2>1. UNCHANGED <<wire, statics, packet, connection, pc>> /\ lastStatic' = NoStatic
    BY <1>15 DEF ConnectTimesOut, Disconnect, Destroy, threadVars
  <2>2. ASSUME NEW r \in Routes PROVE RouteStatics(r)'
    BY <1>3, <2>1
  <2> QED BY <1>4, <2>1, <2>2
<1> QED
  BY <1>7, <1>8, <1>9, <1>10, <1>11, <1>12, <1>13, <1>14, <1>15
     DEF Next, Server, Thread, Caller, Returns

\* A frame that is queued is paired with its own route's static objects, or another's.
LEMMA PairsStep ==
    TypeOK /\ TypeOK' /\ StaticsFollow /\ OwnStatics /\ [Next]_vars => OwnStatics'
<1> SUFFICES ASSUME TypeOK, TypeOK', StaticsFollow, OwnStatics, [Next]_vars PROVE OwnStatics'
  OBVIOUS
<1>1. queue \in Seq(Pairs) /\ bufferSize \in Nat
  BY DEF TypeOK
<1>2. ASSUME NEW q \in Seq(Pairs), \A i \in 1..Len(q) : PairedWithOwn(q[i]),
             NEW n \in Nat, queue' = Trim(q, n)
      PROVE  OwnStatics'
  <2>1. Len(Trim(q, n)) \in Nat /\ Len(q) \in Nat
    BY TrimSuffix
  <2>2. ASSUME NEW i \in 1..Len(Trim(q, n)) PROVE PairedWithOwn(Trim(q, n)[i])
    <3>1. i + (Len(q) - Len(Trim(q, n))) \in 1..Len(q)
          /\ Trim(q, n)[i] = q[i + (Len(q) - Len(Trim(q, n)))]
      BY <2>1, TrimSuffix
    <3> QED BY <1>2, <3>1
  <2> QED BY <1>2, <2>2 DEF OwnStatics
<1>3. ASSUME NEW r \in Routes, NEW p \in Packets, OnDynamicObjects(r, p), p.version = statics[r]
      PROVE  OwnStatics'
  <2> DEFINE pair == [frame |-> p.frame, version |-> p.version, static |-> lastStatic, from |-> r]
  <2>1. queue' = queue \/ queue' = Trim(Append(queue, pair), bufferSize)
    BY <1>3 DEF OnDynamicObjects
  <2>2. pair \in Pairs
    BY DEF Packets, Pairs, TypeOK, Origins
  <2>3. PairedWithOwn(pair)
    <3>1. RouteStatics(r)
      BY DEF StaticsFollow
    <3> QED BY <1>3, <3>1 DEF PairedWithOwn, RouteStatics
  <2> HIDE DEF pair
  <2>4. /\ Append(queue, pair) \in Seq(Pairs) /\ Len(Append(queue, pair)) = Len(queue) + 1
        /\ \A i \in 1..(Len(queue) + 1) :
             \/ i \in 1..Len(queue) /\ Append(queue, pair)[i] = queue[i]
             \/ Append(queue, pair)[i] = pair
    BY <1>1, <2>2
  <2>5. \A i \in 1..Len(Append(queue, pair)) : PairedWithOwn(Append(queue, pair)[i])
    BY <2>3, <2>4 DEF OwnStatics
  <2>6. CASE queue' = queue
    BY <2>6 DEF OwnStatics
  <2>7. CASE queue' = Trim(Append(queue, pair), bufferSize)
    BY <1>1, <1>2, <2>4, <2>5, <2>7
  <2> QED BY <2>1, <2>6, <2>7
<1>4. CASE queue' = queue
  BY <1>4 DEF OwnStatics
<1>5. CASE queue' = << >>
  BY <1>5 DEF OwnStatics
<1>6. ASSUME NEW r \in Routes, HandDynamicObjects(r) PROVE OwnStatics'
  <2>1. OnDynamicObjects(r, packet[r]) /\ packet[r] \in Packets /\ pc[r] = "dynamic"
    BY <1>6 DEF HandDynamicObjects, TypeOK
  <2>2. packet[r].version = statics[r]
    BY <2>1 DEF StaticsFollow, RouteStatics
  <2> QED BY <1>3, <2>1, <2>2
<1>7. ASSUME NEW r \in Routes, ReadDynamicObjects(r) PROVE OwnStatics'
  <2>1. OnDynamicObjects(r, Head(wire[r])) /\ wire[r] # << >> /\ ~Head(wire[r]).static
    BY <1>7 DEF ReadDynamicObjects
  <2>2. wire[r] \in Seq(Packets) /\ statics[r] \in Int /\ Elided(wire[r], statics[r])
    BY DEF StaticsFollow, RouteStatics, TypeOK
  <2>3. Head(wire[r]) \in Packets /\ Head(wire[r]).version = statics[r]
    BY <2>1, <2>2, ElidedRead
  <2> QED BY <1>3, <2>1, <2>3
<1>8. CASE SetBufferSize
  <2>1. PICK n \in BufferSizes : queue' = Trim(queue, n)
    BY <1>8 DEF SetBufferSize
  <2>2. n \in Nat /\ \A i \in 1..Len(queue) : PairedWithOwn(queue[i])
    BY ConstantsAssumption DEF OwnStatics
  <2> QED BY <1>1, <1>2, <2>1, <2>2
<1>9. CASE Dispatch
  <2>1. queue # << >> /\ queue' = Tail(queue)
    BY <1>9 DEF Dispatch
  <2>2. /\ Len(Tail(queue)) = Len(queue) - 1
        /\ \A i \in 1..Len(Tail(queue)) : i + 1 \in 1..Len(queue) /\ Tail(queue)[i] = queue[i + 1]
    BY <1>1, <2>1
  <2> QED BY <2>1, <2>2 DEF OwnStatics
<1>10. \/ \E r \in Routes : HandDynamicObjects(r) \/ ReadDynamicObjects(r)
       \/ SetBufferSize \/ Dispatch \/ queue' = queue \/ queue' = << >>
  BY DEF Next, Server, Thread, Caller, Returns, Capture, AnswerRequest, Break, ThreadConnects,
         ThreadRefused, WriteObjects, ReadStaticObjects, ReadFails, ConnectReturns,
         ConnectTimesOut, Destroy, SetStreamMode, SetFilter, GetFrame, Disconnect, WaitTimesOut,
         DestroyCallbacks, CloseRoute, Joined, vars, sharedVars
<1> QED BY <1>4, <1>5, <1>6, <1>7, <1>8, <1>9, <1>10

\* A frame and the static objects of its route belong together.
THEOREM OwnStaticsKept == Spec => []OwnStatics
<1> DEFINE Inv == TypeOK /\ StaticsFollow /\ OwnStatics
<1>1. Init => Inv
  <2> SUFFICES ASSUME Init PROVE Inv
    OBVIOUS
  <2>1. TypeOK
    BY TypeInit
  <2>2. ASSUME NEW r \in Routes PROVE RouteStatics(r)
    <3>1. /\ wire[r] = << >> /\ statics[r] = -1 /\ connection[r] = NoConnection
          /\ pc[r] # "dynamic" /\ lastStatic.from # r
      BY ConstantsAssumption DEF Init, NoStatic
    <3>2. ~connection[r].open /\ connection[r].sent = -1
      BY <3>1 DEF NoConnection
    <3> QED BY <3>1, <3>2 DEF RouteStatics, Elided
  <2>3. StaticsFollow /\ OwnStatics
    BY <2>2 DEF Init, StaticsFollow, OwnStatics
  <2> QED BY <2>1, <2>3
<1>2. Inv /\ [Next]_vars => Inv'
  BY TypeStep, StaticsStep, PairsStep
<1>3. Inv => OwnStatics
  OBVIOUS
<1> HIDE DEF Inv
<1> QED BY <1>1, <1>2, <1>3, PTL DEF Spec
==============================================================================
