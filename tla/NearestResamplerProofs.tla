----------------------- MODULE NearestResamplerProofs -----------------------
(***************************************************************************)
(* Proofs about NearestResampler, for any topics, eps, bag and disorder:   *)
(* master frames are never lost; in an ordered bag picks are nearest,      *)
(* discards are justified and the buffers reach back at most two eps.      *)
(***************************************************************************)
EXTENDS NearestResamplerInv, SequenceTheorems, TLAPS

\* Stamps and parameters are naturals.
LEMMA StampType == Stamps \subseteq Nat /\ Eps \in Nat /\ Skew \in Nat /\ Master \in Topics
BY ResamplerAssumption DEF ResamplerAssumption, Stamps, Topics

\* What the state holds, spelled out for arithmetic.
LEMMA StateType ==
  ASSUME TypeOK
  PROVE  /\ latest \in Nat
         /\ \A t \in Topics :
              /\ buffers[t] \in Seq(Stamps) /\ Len(buffers[t]) \in Nat
              /\ seen[t] \in Seq(Stamps) /\ Len(seen[t]) \in Nat
              /\ \A i \in 1..Len(buffers[t]) : buffers[t][i] \in Nat
              /\ \A i \in 1..Len(seen[t]) : seen[t][i] \in Nat
<1>1. ASSUME NEW t \in Topics
      PROVE  /\ buffers[t] \in Seq(Stamps) /\ Len(buffers[t]) \in Nat
             /\ seen[t] \in Seq(Stamps) /\ Len(seen[t]) \in Nat
             /\ \A i \in 1..Len(buffers[t]) : buffers[t][i] \in Nat
             /\ \A i \in 1..Len(seen[t]) : seen[t][i] \in Nat
  <2>1. buffers[t] \in Seq(Stamps) /\ seen[t] \in Seq(Stamps)
    BY DEF TypeOK
  <2>2. QED
    BY <2>1, StampType, ElementOfSeq, LenProperties
<1>2. QED
  BY <1>1, StampType DEF TypeOK

\* A read appends one stamp to the topic's buffer and history.
LEMMA ReadEffect ==
  ASSUME TypeOK, NEW t \in Topics, NEW ts \in Stamps, Read(t, ts)
  PROVE  /\ buffers' \in [Topics -> Seq(Stamps)] /\ seen' \in [Topics -> Seq(Stamps)]
         /\ latest' \in Stamps /\ latest <= latest' /\ ts <= latest'
         /\ latest' = latest \/ latest' = ts
         /\ ts \in Nat /\ latest' \in Nat /\ latest <= ts + Skew
         /\ \A u \in Topics \ {t} : buffers'[u] = buffers[u] /\ seen'[u] = seen[u]
         /\ buffers'[t] = Append(buffers[t], ts)
         /\ seen'[t] = Append(seen[t], ts)
         /\ Len(buffers'[t]) = Len(buffers[t]) + 1
         /\ Len(seen'[t]) = Len(seen[t]) + 1
         /\ \A i \in 1..Len(buffers[t]) : buffers'[t][i] = buffers[t][i]
         /\ \A i \in 1..Len(seen[t]) : seen'[t][i] = seen[t][i]
         /\ buffers'[t][Len(buffers[t]) + 1] = ts
         /\ seen'[t][Len(seen[t]) + 1] = ts
<1>1. /\ buffers[t] \in Seq(Stamps) /\ seen[t] \in Seq(Stamps)
      /\ buffers' = [buffers EXCEPT ![t] = Append(buffers[t], ts)]
      /\ seen' = [seen EXCEPT ![t] = Append(seen[t], ts)]
  BY DEF TypeOK, Read
<1>2. /\ buffers'[t] = Append(buffers[t], ts)
      /\ seen'[t] = Append(seen[t], ts)
  BY <1>1 DEF TypeOK
<1>3. /\ latest' = (IF latest < ts THEN ts ELSE latest)
      /\ latest \in Nat /\ ts \in Nat /\ latest \in Stamps /\ latest <= ts + Skew
  BY StateType, StampType DEF Read, TypeOK
<1>4. /\ latest' \in Stamps /\ latest <= latest' /\ ts <= latest' /\ latest' \in Nat
      /\ latest' = latest \/ latest' = ts
  BY <1>3
<1>5. QED
  BY <1>1, <1>2, <1>3, <1>4, AppendProperties DEF TypeOK

\* Appending to the second of two sequences appends to both together.
LEMMA AppendToConcat ==
  ASSUME NEW S, NEW h \in Seq(S), NEW b \in Seq(S), NEW x \in S
  PROVE  h \o Append(b, x) = Append(h \o b, x)
<1>1. /\ Append(b, x) = b \o <<x>> /\ <<x>> \in Seq(S)
      /\ h \o b \in Seq(S)
      /\ Append(h \o b, x) = (h \o b) \o <<x>>
  BY AppendIsConcat, ConcatProperties
<1>2. QED
  BY <1>1, ConcatAssociative

\* Moving the head of one sequence to the end of another keeps what they make.
LEMMA MoveHead ==
  ASSUME NEW S, NEW h \in Seq(S), NEW b \in Seq(S), b # <<>>
  PROVE  Append(h, Head(b)) \o Tail(b) = h \o b
<1> DEFINE front == Append(h, Head(b))
           rest  == Tail(b)
<1>1. /\ Len(h) \in Nat /\ Len(b) \in Nat \ {0}
      /\ Head(b) \in S /\ Head(b) = b[1]
      /\ rest \in Seq(S) /\ Len(rest) = Len(b) - 1
      /\ \A i \in 1..Len(rest) : rest[i] = b[i + 1]
  BY HeadTailProperties, EmptySeq, LenProperties
<1>2. /\ front \in Seq(S) /\ Len(front) = Len(h) + 1
      /\ \A i \in 1..Len(h) : front[i] = h[i]
      /\ front[Len(h) + 1] = Head(b)
  BY <1>1, AppendProperties
<1> HIDE DEF front, rest
<1>3. /\ front \o rest \in Seq(S) /\ Len(front \o rest) = Len(front) + Len(rest)
      /\ \A i \in 1..(Len(front) + Len(rest)) :
           (front \o rest)[i] = IF i <= Len(front) THEN front[i] ELSE rest[i - Len(front)]
  BY <1>1, <1>2, ConcatProperties
<1>4. /\ h \o b \in Seq(S) /\ Len(h \o b) = Len(h) + Len(b)
      /\ \A i \in 1..(Len(h) + Len(b)) :
           (h \o b)[i] = IF i <= Len(h) THEN h[i] ELSE b[i - Len(h)]
  BY ConcatProperties
<1> DEFINE x == front \o rest
           y == h \o b
<1> HIDE DEF x, y
<1>5. Len(x) = Len(y)
  BY <1>1, <1>2, <1>3, <1>4 DEF x, y
<1>6. ASSUME NEW i \in 1..Len(x) PROVE x[i] = y[i]
  <2>1. i \in 1..(Len(front) + Len(rest)) /\ i \in 1..(Len(h) + Len(b)) /\ i \in Nat
    BY <1>1, <1>2, <1>3, <1>4, <1>5 DEF x, y
  <2>2. CASE i <= Len(h)
    BY <1>1, <1>2, <1>3, <1>4, <2>1, <2>2 DEF x, y
  <2>3. CASE i = Len(h) + 1
    BY <1>1, <1>2, <1>3, <1>4, <2>1, <2>3 DEF x, y
  <2>4. CASE i > Len(h) + 1
    <3>1. /\ i - Len(front) \in 1..Len(rest)
          /\ (i - Len(front)) + 1 = i - Len(h)
      BY <1>1, <1>2, <2>1, <2>4
    <3>2. x[i] = rest[i - Len(front)]
      BY <1>2, <1>3, <2>1, <2>4 DEF x
    <3>3. y[i] = b[i - Len(h)]
      BY <1>1, <1>4, <2>1, <2>4 DEF y
    <3>4. QED
      BY <1>1, <3>1, <3>2, <3>3
  <2>5. QED
    BY <1>1, <2>1, <2>2, <2>3, <2>4
<1>7. QED
  BY <1>3, <1>4, <1>5, <1>6, SeqEqual DEF x, y, front, rest

\* Deciding a frame removes the head of the master's buffer.
LEMMA PopEffect ==
  ASSUME TypeOK, Ready, PopMaster
  PROVE  /\ buffers' \in [Topics -> Seq(Stamps)]
         /\ handled' \in Seq(Stamps)
         /\ handled' \o buffers'[Master] = handled \o buffers[Master]
         /\ \A u \in Topics \ {Master} : buffers'[u] = buffers[u]
         /\ Len(buffers[Master]) \in Nat \ {0}
         /\ Len(buffers'[Master]) = Len(buffers[Master]) - 1
         /\ \A i \in 1..Len(buffers'[Master]) : buffers'[Master][i] = buffers[Master][i + 1]
         /\ Head(buffers[Master]) = buffers[Master][1]
         /\ Head(buffers[Master]) \in Stamps
<1> DEFINE b == buffers[Master]
<1>1. /\ b \in Seq(Stamps) /\ b # <<>> /\ handled \in Seq(Stamps)
      /\ buffers' = [buffers EXCEPT ![Master] = Tail(b)]
      /\ handled' = Append(handled, Head(b))
  BY StampType DEF TypeOK, Ready, PopMaster
<1>2. buffers'[Master] = Tail(b)
  BY <1>1, StampType DEF TypeOK
<1>3. /\ Len(b) \in Nat \ {0} /\ Head(b) \in Stamps /\ Tail(b) \in Seq(Stamps)
      /\ Len(Tail(b)) = Len(b) - 1
      /\ \A i \in 1..Len(Tail(b)) : Tail(b)[i] = b[i + 1]
      /\ Head(b) = b[1]
  BY <1>1, HeadTailProperties, EmptySeq, LenProperties
<1>4. Append(handled, Head(b)) \o Tail(b) = handled \o b
  BY <1>1, MoveHead
<1>5. handled' \in Seq(Stamps)
  BY <1>1, <1>3, AppendProperties
<1>6. handled' \o buffers'[Master] = handled \o b
  BY <1>1, <1>2, <1>4
<1>7. buffers' \in [Topics -> Seq(Stamps)] /\ \A u \in Topics \ {Master} : buffers'[u] = buffers[u]
  BY <1>1, <1>3, StampType DEF TypeOK
<1>8. QED
  BY <1>2, <1>3, <1>5, <1>6, <1>7

\* Eviction cuts off the stale front of every buffer.
LEMMA EvictEffect ==
  ASSUME TypeOK, EvictStale
  PROVE  \E cut \in [Topics -> Nat] :
           /\ buffers' \in [Topics -> Seq(Stamps)]
           /\ \A t \in Topics :
                /\ cut[t] <= Len(buffers[t])
                /\ buffers'[t] = SubSeq(buffers[t], cut[t] + 1, Len(buffers[t]))
                /\ Len(buffers'[t]) = Len(buffers[t]) - cut[t]
                /\ \A i \in 1..Len(buffers'[t]) : buffers'[t][i] = buffers[t][cut[t] + i]
                /\ \A i \in 1..cut[t] : buffers[t][i] < latest - 2 * Eps
                /\ cut[t] < Len(buffers[t]) => ~(buffers[t][cut[t] + 1] < latest - 2 * Eps)
<1>1. PICK cut \in [Topics -> 0..MaxReads] :
        /\ \A t \in Topics :
             /\ cut[t] <= Len(buffers[t])
             /\ \A i \in 1..cut[t] : buffers[t][i] < latest - 2 * Eps
             /\ cut[t] < Len(buffers[t]) => ~(buffers[t][cut[t] + 1] < latest - 2 * Eps)
        /\ buffers' = [t \in Topics |-> SubSeq(buffers[t], cut[t] + 1, Len(buffers[t]))]
  BY DEF EvictStale, EvictBefore
<1>2. cut \in [Topics -> Nat]
  BY <1>1, ResamplerAssumption DEF ResamplerAssumption
<1>3. ASSUME NEW t \in Topics
      PROVE  /\ buffers'[t] \in Seq(Stamps)
             /\ buffers'[t] = SubSeq(buffers[t], cut[t] + 1, Len(buffers[t]))
             /\ Len(buffers'[t]) = Len(buffers[t]) - cut[t]
             /\ \A i \in 1..Len(buffers'[t]) : buffers'[t][i] = buffers[t][cut[t] + i]
  <2>1. /\ buffers[t] \in Seq(Stamps) /\ cut[t] \in Nat /\ cut[t] <= Len(buffers[t])
        /\ Len(buffers[t]) \in Nat
    BY <1>1, <1>2, StateType
  <2>2. buffers'[t] = SubSeq(buffers[t], cut[t] + 1, Len(buffers[t]))
    BY <1>1
  <2>3. \A i \in (cut[t] + 1)..Len(buffers[t]) : buffers[t][i] \in Stamps
    BY <2>1, ElementOfSeq
  <2> DEFINE s == buffers[t]
             m == cut[t] + 1
             n == Len(buffers[t])
  <2>4. m \in Int /\ n \in Int /\ \A i \in m..n : s[i] \in Stamps
    BY <2>1, <2>3
  <2> HIDE DEF s, m, n
  <2>5. /\ SubSeq(s, m, n) \in Seq(Stamps)
        /\ Len(SubSeq(s, m, n)) = IF m <= n THEN n - m + 1 ELSE 0
        /\ \A i \in 1..(n - m + 1) : SubSeq(s, m, n)[i] = s[m + i - 1]
    BY <2>4, SubSeqProperties
  <2>6. Len(buffers'[t]) = Len(buffers[t]) - cut[t]
    BY <2>1, <2>2, <2>5 DEF s, m, n
  <2>7. ASSUME NEW i \in 1..Len(buffers'[t]) PROVE buffers'[t][i] = buffers[t][cut[t] + i]
    <3>1. i \in 1..(n - m + 1) /\ m + i - 1 = cut[t] + i
      BY <2>1, <2>6 DEF m, n
    <3>2. QED
      BY <3>1, <2>2, <2>5 DEF s, m, n
  <2>8. QED
    BY <2>2, <2>5, <2>6, <2>7 DEF s, m, n
<1>4. buffers' \in [Topics -> Seq(Stamps)]
  BY <1>1, <1>3
<1>5. QED
  BY <1>1, <1>2, <1>3, <1>4

-----------------------------------------------------------------------------
\* The initial state satisfies the invariant.
LEMMA InitIInv == Init => IInv
<1> SUFFICES ASSUME Init PROVE IInv
  OBVIOUS
<1>1. TypeOK
  BY ResamplerAssumption, EmptySeq DEF Init, TypeOK, Stamps, ResamplerAssumption
<1>2. /\ \A t \in Topics : buffers[t] = <<>> /\ seen[t] = <<>>
      /\ handled = <<>> /\ frames = {} /\ drops = {} /\ pc = "read" /\ latest = 0
      /\ Master \in Topics /\ Others \subseteq Topics
  BY DEF Init, Topics
<1>3. \A t \in Topics : Len(buffers[t]) = 0 /\ Len(seen[t]) = 0
  BY <1>2
<1>4. NoMasterLost
  <2>1. <<>> \o <<>> = <<>>
    BY EmptySeq, ConcatEmptySeq
  <2>2. QED
    BY <1>2, <2>1 DEF NoMasterLost
<1>5. PendingIsRecent /\ SeenByNow
  BY <1>2, <1>3 DEF PendingIsRecent, SeenByNow
<1>6. Ordered
  BY <1>2, <1>3 DEF Ordered, BuffersSorted, BuffersSeen, WindowKept, CandidatesKept,
     DecisionsSettled, PicksNearest, DropsJustified, BoundedWindow
<1>7. QED
  BY <1>1, <1>4, <1>5, <1>6 DEF IInv

\* Every step keeps the types.
LEMMA TypeStep == TypeOK /\ [Next]_vars => TypeOK'
<1> SUFFICES ASSUME TypeOK, [Next]_vars PROVE TypeOK'
  OBVIOUS
<1>1. ASSUME NEW t \in Topics, NEW ts \in Stamps, Read(t, ts) PROVE TypeOK'
  <2>1. buffers' \in [Topics -> Seq(Stamps)] /\ seen' \in [Topics -> Seq(Stamps)] /\ latest' \in Stamps
    BY <1>1, ReadEffect
  <2>2. QED
    BY <1>1, <2>1 DEF TypeOK, Read
<1>2. CASE ExportFrame
  <2>1. Ready /\ PopMaster
    BY <1>2 DEF ExportFrame
  <2>2. /\ buffers' \in [Topics -> Seq(Stamps)] /\ handled' \in Seq(Stamps)
        /\ Head(buffers[Master]) \in Stamps
    BY <2>1, PopEffect
  <2>3. PICK at \in [Others -> 1..MaxReads] :
          /\ \A t \in Others : at[t] <= Len(buffers[t])
          /\ frames' = frames \cup
               {[master |-> Head(buffers[Master]), pick |-> [t \in Others |-> buffers[t][at[t]]]]}
    BY <1>2 DEF ExportFrame
  <2>4. ASSUME NEW t \in Others PROVE buffers[t][at[t]] \in Stamps
    <3>1. t \in Topics /\ at[t] \in 1..Len(buffers[t])
      BY <2>3, StateType, ResamplerAssumption DEF Topics, ResamplerAssumption
    <3>2. QED
      BY <3>1, ElementOfSeq DEF TypeOK
  <2>5. frames' \subseteq [master : Stamps, pick : [Others -> Stamps]]
    <3> DEFINE pick == [t \in Others |-> buffers[t][at[t]]]
    <3>1. pick \in [Others -> Stamps]
      BY <2>4
    <3> HIDE DEF pick
    <3>2. frames' = frames \cup {[master |-> Head(buffers[Master]), pick |-> pick]}
      BY <2>3 DEF pick
    <3>3. QED
      BY <2>2, <3>1, <3>2 DEF TypeOK
  <2>6. QED
    BY <1>2, <2>2, <2>5 DEF TypeOK, ExportFrame
<1>3. CASE DropFrame
  <2>1. Ready /\ PopMaster
    BY <1>3 DEF DropFrame
  <2>2. /\ buffers' \in [Topics -> Seq(Stamps)] /\ handled' \in Seq(Stamps)
        /\ Head(buffers[Master]) \in Stamps
    BY <2>1, PopEffect
  <2>3. QED
    BY <1>3, <2>2 DEF TypeOK, DropFrame
<1>4. CASE EvictStale
  <2>1. buffers' \in [Topics -> Seq(Stamps)]
    BY <1>4, EvictEffect
  <2>2. QED
    BY <1>4, <2>1 DEF TypeOK, EvictStale, EvictBefore
<1>5. CASE EndOfBag \/ EndDrain \/ EndFlush
  BY <1>5 DEF TypeOK, EndOfBag, EndDrain, EndFlush
<1>6. CASE UNCHANGED vars
  BY <1>6 DEF TypeOK, vars
<1>7. QED
  BY <1>1, <1>2, <1>3, <1>4, <1>5, <1>6 DEF Next, Done

\* No master frame is lost, and none is evicted, however the bag is ordered.
LEMMA MasterStep ==
  ASSUME TypeOK, NoMasterLost, PendingIsRecent, SeenByNow, [Next]_vars
  PROVE  NoMasterLost' /\ PendingIsRecent' /\ SeenByNow'
<1> USE StampType
<1>1. ASSUME NEW t \in Topics, NEW ts \in Stamps, Read(t, ts)
      PROVE  NoMasterLost' /\ PendingIsRecent' /\ SeenByNow'
  <2> USE <1>1, ReadEffect, StateType
  <2>1. PendingIsRecent'
    BY DEF Read, PendingIsRecent
  <2>2. SeenByNow'
    <3>1. ASSUME NEW u \in Topics, NEW i \in 1..Len(seen'[u]) PROVE seen'[u][i] <= latest'
      <4>1. /\ latest \in Nat /\ latest' \in Nat /\ latest <= latest'
            /\ Len(seen[u]) \in Nat /\ \A j \in 1..Len(seen[u]) : seen[u][j] \in Nat
            /\ \A j \in 1..Len(seen[u]) : seen[u][j] <= latest
        BY DEF SeenByNow
      <4>2. CASE u # t
        <5>1. seen'[u] = seen[u]
          BY <4>2
        <5>2. QED
          BY <3>1, <4>1, <5>1
      <4>3. CASE u = t /\ i <= Len(seen[t])
        <5>1. i \in 1..Len(seen[u]) /\ seen'[u][i] = seen[u][i]
          BY <3>1, <4>3
        <5>2. QED
          BY <4>1, <5>1
      <4>4. CASE u = t /\ i = Len(seen[t]) + 1
        BY <3>1, <4>4
      <4>5. QED
        BY <3>1, <4>1, <4>2, <4>3, <4>4
    <3>2. QED
      BY <3>1 DEF SeenByNow
  <2>3. handled' \o buffers'[Master] = seen'[Master]
    <3>1. CASE t # Master
      BY <3>1 DEF NoMasterLost, Read
    <3>2. CASE t = Master
      <4>1. handled \in Seq(Stamps) /\ buffers[Master] \in Seq(Stamps) /\ handled' = handled
        BY DEF TypeOK, Read
      <4>2. handled \o Append(buffers[Master], ts) = Append(handled \o buffers[Master], ts)
        BY ONLY <4>1, ts \in Stamps, AppendToConcat
      <4>3. QED
        BY <3>2, <4>1, <4>2 DEF NoMasterLost
    <3>3. QED
      BY <3>1, <3>2
  <2>4. QED
    BY <2>1, <2>2, <2>3 DEF NoMasterLost, Read
<1>2. ASSUME ExportFrame \/ DropFrame
      PROVE  NoMasterLost' /\ PendingIsRecent' /\ SeenByNow'
  <2>1. Ready /\ PopMaster /\ UNCHANGED <<pc, latest, seen>>
    BY <1>2 DEF ExportFrame, DropFrame
  <2>2. handled' \o buffers'[Master] = handled \o buffers[Master]
    BY <2>1, PopEffect
  <2>3. pc \in {"flush", "drain"}
    BY <2>1 DEF Ready
  <2>4. QED
    BY <2>1, <2>2, <2>3 DEF NoMasterLost, PendingIsRecent, SeenByNow
<1>3. CASE EndDrain
  <2>1. buffers[Master] # <<>> => Head(buffers[Master]) \in Nat
    BY HeadTailProperties DEF TypeOK
  <2>2. PendingIsRecent'
    BY <1>3, <2>1, StateType DEF EndDrain, Ready, PendingIsRecent
  <2>3. QED
    BY <1>3, <2>2 DEF EndDrain, NoMasterLost, SeenByNow
<1>4. CASE EvictStale
  <2>1. PICK cut \in [Topics -> Nat] :
          \A t \in Topics :
            /\ cut[t] <= Len(buffers[t])
            /\ buffers'[t] = SubSeq(buffers[t], cut[t] + 1, Len(buffers[t]))
            /\ \A i \in 1..cut[t] : buffers[t][i] < latest - 2 * Eps
    BY <1>4, EvictEffect
  <2>2. cut[Master] = 0
    <3>1. SUFFICES ASSUME cut[Master] # 0 PROVE FALSE
      OBVIOUS
    <3>2. /\ 1 \in 1..cut[Master] /\ 1 \in 1..Len(buffers[Master])
          /\ buffers[Master] \in Seq(Stamps) /\ buffers[Master] # <<>>
      BY <2>1, <3>1, StateType, EmptySeq
    <3>3. Head(buffers[Master]) = buffers[Master][1] /\ buffers[Master][1] \in Nat
      BY <3>2, StateType
    <3>4. buffers[Master][1] < latest - 2 * Eps /\ buffers[Master][1] + Eps > latest
      BY <1>4, <2>1, <3>2, <3>3 DEF PendingIsRecent, EvictStale, EvictBefore
    <3>5. QED
      BY <3>3, <3>4, StateType
  <2>3. buffers'[Master] = buffers[Master]
    <3>1. buffers'[Master] = SubSeq(buffers[Master], cut[Master] + 1, Len(buffers[Master]))
      BY <2>1
    <3>2. cut[Master] + 1 = 1 /\ buffers[Master] \in Seq(Stamps)
      BY <2>2, StateType
    <3>3. QED
      BY <3>1, <3>2, SubSeqFull
  <2>4. QED
    BY <1>4, <2>3 DEF EvictStale, EvictBefore, NoMasterLost, PendingIsRecent, SeenByNow
<1>5. CASE EndOfBag
  BY <1>5 DEF EndOfBag, NoMasterLost, PendingIsRecent, SeenByNow
<1>6. CASE EndFlush
  <2>1. buffers[Master] = <<>>
    BY <1>6 DEF EndFlush, Ready
  <2>2. handled = seen[Master]
    BY <2>1, ConcatEmptySeq DEF NoMasterLost, TypeOK
  <2>3. QED
    BY <1>6, <2>2 DEF EndFlush, NoMasterLost, PendingIsRecent, SeenByNow
<1>7. CASE UNCHANGED vars
  BY <1>7 DEF vars, NoMasterLost, PendingIsRecent, SeenByNow
<1>8. QED
  BY <1>1, <1>2, <1>3, <1>4, <1>5, <1>6, <1>7 DEF Next, Done

-----------------------------------------------------------------------------
(* The rest is about a bag in stamp order: Skew = 0. *)

\* A message read in stamp order can still be picked by every pending frame,
\* and is at least eps away from every decided one.
LEMMA OrderedRead ==
  ASSUME TypeOK, SeenByNow, Ordered, Skew = 0,
         NEW t \in Topics, NEW ts \in Stamps, Read(t, ts)
  PROVE  Ordered'
<1> DEFINE n == Len(buffers[t])
           k == Len(seen[t])
<1>1. /\ latest \in Nat /\ ts \in Nat /\ latest <= ts /\ latest' = ts /\ Eps \in Nat
      /\ pc = "read" /\ pc' = "drain" /\ frames' = frames /\ drops' = drops
  BY ReadEffect, StateType, StampType DEF Read
<1>2. \A u \in Topics :
        /\ Len(buffers[u]) \in Nat /\ Len(seen[u]) \in Nat
        /\ \A i \in 1..Len(buffers[u]) : buffers[u][i] \in Nat
        /\ \A i \in 1..Len(seen[u]) : seen[u][i] \in Nat /\ seen[u][i] <= latest
  BY StateType DEF SeenByNow
<1>3. /\ \A u \in Topics \ {t} : buffers'[u] = buffers[u] /\ seen'[u] = seen[u]
      /\ Len(buffers'[t]) = n + 1 /\ Len(seen'[t]) = k + 1
      /\ \A i \in 1..n : buffers'[t][i] = buffers[t][i]
      /\ \A i \in 1..k : seen'[t][i] = seen[t][i]
      /\ buffers'[t][n + 1] = ts /\ seen'[t][k + 1] = ts
  BY ReadEffect
<1>4. /\ \A u \in Topics : \A i \in 1..Len(buffers'[u]) :
           \/ i \in 1..Len(buffers[u]) /\ buffers'[u][i] = buffers[u][i]
           \/ u = t /\ i = Len(buffers[u]) + 1 /\ buffers'[u][i] = ts
      /\ \A u \in Topics : \A i \in 1..Len(seen'[u]) :
           \/ i \in 1..Len(seen[u]) /\ seen'[u][i] = seen[u][i]
           \/ u = t /\ i = Len(seen[u]) + 1 /\ seen'[u][i] = ts
  <2>1. ASSUME NEW u \in Topics, NEW i \in 1..Len(buffers'[u])
        PROVE  \/ i \in 1..Len(buffers[u]) /\ buffers'[u][i] = buffers[u][i]
               \/ u = t /\ i = Len(buffers[u]) + 1 /\ buffers'[u][i] = ts
    <3>1. CASE u = t
      BY <1>2, <1>3, <2>1, <3>1
    <3>2. CASE u # t
      BY <1>3, <2>1, <3>2
    <3>3. QED
      BY <3>1, <3>2
  <2>2. ASSUME NEW u \in Topics, NEW i \in 1..Len(seen'[u])
        PROVE  \/ i \in 1..Len(seen[u]) /\ seen'[u][i] = seen[u][i]
               \/ u = t /\ i = Len(seen[u]) + 1 /\ seen'[u][i] = ts
    <3>1. CASE u = t
      BY <1>2, <1>3, <2>2, <3>1
    <3>2. CASE u # t
      BY <1>3, <2>2, <3>2
    <3>3. QED
      BY <3>1, <3>2
  <2>3. QED
    BY <2>1, <2>2
<1>5. \A u \in Topics : /\ Len(buffers[u]) <= Len(buffers'[u])
                        /\ Len(seen[u]) <= Len(seen'[u])
                        /\ Len(buffers'[u]) \in Nat /\ Len(seen'[u]) \in Nat
                        /\ \A i \in 1..Len(buffers[u]) : buffers'[u][i] = buffers[u][i]
                        /\ \A i \in 1..Len(seen[u]) : seen'[u][i] = seen[u][i]
  <2>1. ASSUME NEW u \in Topics
        PROVE  /\ Len(buffers[u]) <= Len(buffers'[u])
               /\ Len(seen[u]) <= Len(seen'[u])
               /\ Len(buffers'[u]) \in Nat /\ Len(seen'[u]) \in Nat
               /\ \A i \in 1..Len(buffers[u]) : buffers'[u][i] = buffers[u][i]
               /\ \A i \in 1..Len(seen[u]) : seen'[u][i] = seen[u][i]
    <3>1. CASE u = t
      BY <1>2, <1>3, <3>1
    <3>2. CASE u # t
      BY <1>2, <1>3, <3>2
    <3>3. QED
      BY <3>1, <3>2
  <2>2. QED
    BY <2>1
<1>6. \A u \in Topics : \A x : Buffered(u, x) => \E i \in 1..Len(buffers'[u]) : buffers'[u][i] = x
  BY <1>2, <1>5 DEF Buffered
<1>7. \A u \in Topics : \A x : Saw(u, x) => \E i \in 1..Len(seen'[u]) : seen'[u][i] = x
  <2>1. ASSUME NEW u \in Topics, NEW i \in 1..Len(seen[u])
        PROVE  i \in 1..Len(seen'[u]) /\ seen'[u][i] = seen[u][i]
    BY <1>2, <1>5, <2>1
  <2>2. QED
    BY <2>1 DEF Saw
<1>8. Others \subseteq Topics
  BY DEF Topics
<1>9. \A u \in Topics : \A i \in 1..Len(buffers[u]) : buffers[u][i] <= latest
  BY <1>2 DEF Ordered, BuffersSeen, Saw
<1>10. BuffersSorted'
  <2>1. ASSUME NEW u \in Topics, NEW i \in 1..Len(buffers'[u]), NEW j \in 1..Len(buffers'[u]), i < j
        PROVE  buffers'[u][i] <= buffers'[u][j]
    <3>1. CASE j \in 1..Len(buffers[u])
      <4>1. i \in 1..Len(buffers[u])
        BY <1>2, <1>5, <2>1, <3>1
      <4>2. buffers[u][i] <= buffers[u][j]
        BY <2>1, <3>1, <4>1 DEF Ordered, BuffersSorted
      <4>3. QED
        BY <1>5, <3>1, <4>1, <4>2
    <3>2. CASE u = t /\ j = Len(buffers[u]) + 1
      <4>1. i \in 1..Len(buffers[u])
        BY <1>2, <1>5, <2>1, <3>2
      <4>2. buffers'[u][i] = buffers[u][i] /\ buffers[u][i] <= latest
        BY <1>5, <1>9, <4>1
      <4>3. buffers'[u][j] = ts
        BY <1>3, <3>2
      <4>4. buffers[u][i] \in Nat /\ latest \in Nat /\ ts \in Nat
        BY <1>1, <1>2, <4>1
      <4>5. QED
        BY <1>1, <4>2, <4>3, <4>4
    <3>3. QED
      BY <1>4, <2>1, <3>1, <3>2
  <2>2. QED
    BY <2>1 DEF BuffersSorted
<1>11. BuffersSeen'
  <2>1. ASSUME NEW u \in Topics, NEW i \in 1..Len(buffers'[u])
        PROVE  \E j \in 1..Len(seen'[u]) : seen'[u][j] = buffers'[u][i]
    <3>1. CASE i \in 1..Len(buffers[u])
      BY <1>5, <1>7, <3>1 DEF Ordered, BuffersSeen
    <3>2. CASE u = t /\ buffers'[u][i] = ts
      BY <1>2, <1>3, <3>2
    <3>3. QED
      BY <1>4, <2>1, <3>1, <3>2
  <2>2. QED
    BY <2>1 DEF BuffersSeen, Saw
<1>12. WindowKept'
  <2>1. ASSUME NEW u \in Others, NEW i \in 1..Len(seen'[u]), seen'[u][i] >= latest' - 2 * Eps
        PROVE  \E j \in 1..Len(buffers'[u]) : buffers'[u][j] = seen'[u][i]
    <3>1. CASE i \in 1..Len(seen[u]) /\ seen'[u][i] = seen[u][i]
      <4>1. seen[u][i] >= latest - 2 * Eps
        BY <1>1, <1>2, <1>8, <2>1, <3>1
      <4>2. Buffered(u, seen[u][i])
        BY <3>1, <4>1 DEF Ordered, WindowKept
      <4>3. QED
        BY <1>6, <1>8, <3>1, <4>2
    <3>2. CASE u = t /\ seen'[u][i] = ts
      BY <1>2, <1>3, <3>2
    <3>3. QED
      BY <1>4, <1>8, <2>1, <3>1, <3>2
  <2>2. QED
    BY <2>1 DEF WindowKept, Buffered
<1>13. CandidatesKept'
  <2>1. ASSUME NEW p \in 1..Len(buffers'[Master]), NEW u \in Others, NEW i \in 1..Len(seen'[u]),
               seen'[u][i] >= buffers'[Master][p] - Eps
        PROVE  \E j \in 1..Len(buffers'[u]) : buffers'[u][j] = seen'[u][i]
    <3>1. CASE i \in 1..Len(seen[u]) /\ seen'[u][i] = seen[u][i]
      <4>1. CASE p \in 1..Len(buffers[Master])
        <5>1. buffers'[Master][p] = buffers[Master][p]
          BY <1>5, <4>1, StampType
        <5>2. Buffered(u, seen[u][i])
          BY <2>1, <3>1, <4>1, <5>1 DEF Ordered, CandidatesKept
        <5>3. QED
          BY <1>6, <1>8, <3>1, <5>2
      <4>2. CASE buffers'[Master][p] = ts
        <5>1. seen[u][i] >= latest - 2 * Eps
          BY <1>1, <1>2, <1>8, <2>1, <3>1, <4>2
        <5>2. Buffered(u, seen[u][i])
          BY <3>1, <5>1 DEF Ordered, WindowKept
        <5>3. QED
          BY <1>6, <1>8, <3>1, <5>2
      <4>3. QED
        BY <1>4, <2>1, <4>1, <4>2, StampType
    <3>2. CASE u = t /\ seen'[u][i] = ts
      BY <1>2, <1>3, <3>2
    <3>3. QED
      BY <1>4, <1>8, <2>1, <3>1, <3>2
  <2>2. QED
    BY <2>1 DEF CandidatesKept, Buffered
<1>14. /\ \A f \in frames : f.master \in Nat /\ f.master + Eps <= latest
       /\ \A d \in drops : d.master \in Nat /\ d.master + Eps <= latest
  <2>1. ASSUME NEW f \in frames PROVE f.master \in Nat /\ f.master + Eps <= latest
    <3>1. f \in [master : Stamps, pick : [Others -> Stamps]]
      BY DEF TypeOK
    <3>2. QED
      BY <1>1, <3>1, StampType DEF Ordered, DecisionsSettled, Settled
  <2>2. ASSUME NEW d \in drops PROVE d.master \in Nat /\ d.master + Eps <= latest
    <3>1. d \in [master : Stamps, missing : SUBSET Others]
      BY DEF TypeOK
    <3>2. QED
      BY <1>1, <3>1, StampType DEF Ordered, DecisionsSettled, Settled
  <2>3. QED
    BY <2>1, <2>2
<1>15. DecisionsSettled'
  BY <1>1, <1>14 DEF DecisionsSettled, Settled
<1>16. PicksNearest'
  <2>1. ASSUME NEW f \in frames, NEW u \in Others
        PROVE  /\ \E i \in 1..Len(seen'[u]) : seen'[u][i] = f.pick[u]
               /\ Within(f.pick[u], f.master)
               /\ \A i \in 1..Len(seen'[u]) :
                    Dist(f.pick[u], f.master) <= Dist(seen'[u][i], f.master)
    <3>1. /\ Saw(u, f.pick[u]) /\ Within(f.pick[u], f.master)
          /\ \A i \in 1..Len(seen[u]) : Dist(f.pick[u], f.master) <= Dist(seen[u][i], f.master)
      BY DEF Ordered, PicksNearest, Saw
    <3>2. f.pick[u] \in Nat
      <4>1. f \in [master : Stamps, pick : [Others -> Stamps]]
        BY DEF TypeOK
      <4>2. QED
        BY <4>1, StampType
    <3>3. Dist(f.pick[u], f.master) <= Dist(ts, f.master)
      BY <1>1, <1>14, <2>1, <3>1, <3>2 DEF Dist, Within
    <3>4. QED
      BY <1>4, <1>7, <1>8, <3>1, <3>3
  <2>2. QED
    BY <1>1, <2>1 DEF PicksNearest
<1>17. DropsJustified'
  <2>1. ASSUME NEW d \in drops, NEW u \in d.missing, NEW i \in 1..Len(seen'[u])
        PROVE  Dist(seen'[u][i], d.master) >= Eps
    <3>1. u \in Others /\ \A j \in 1..Len(seen[u]) : Dist(seen[u][j], d.master) >= Eps
      BY DEF Ordered, DropsJustified, TypeOK
    <3>2. Dist(ts, d.master) >= Eps
      BY <1>1, <1>14, <2>1 DEF Dist
    <3>3. QED
      BY <1>4, <1>8, <2>1, <3>1, <3>2
  <2>2. QED
    BY <1>1, <2>1 DEF DropsJustified
<1>18. BoundedWindow'
  BY <1>1 DEF BoundedWindow
<1>19. QED
  BY <1>10, <1>11, <1>12, <1>13, <1>15, <1>16, <1>17, <1>18 DEF Ordered

\* A pending frame's own candidates are all still buffered, so deciding it
\* from the buffers is deciding it from the bag.
LEMMA OrderedDecide ==
  ASSUME TypeOK, Ordered, ExportFrame \/ DropFrame
  PROVE  Ordered'
<1> DEFINE m == Head(buffers[Master])
<1>1. /\ Ready /\ PopMaster
      /\ pc' = pc /\ latest' = latest /\ seen' = seen /\ pc \in {"flush", "drain"}
  BY DEF ExportFrame, DropFrame, Ready
<1>2. /\ \A u \in Topics \ {Master} : buffers'[u] = buffers[u]
      /\ Len(buffers[Master]) \in Nat \ {0}
      /\ Len(buffers'[Master]) = Len(buffers[Master]) - 1
      /\ \A i \in 1..Len(buffers'[Master]) : buffers'[Master][i] = buffers[Master][i + 1]
      /\ m = buffers[Master][1] /\ m \in Stamps
  BY <1>1, PopEffect
<1>3. /\ latest \in Nat /\ Eps \in Nat /\ m \in Nat /\ Master \in Topics
      /\ Others \subseteq Topics \ {Master}
      /\ \A u \in Topics :
           /\ \A i \in 1..Len(buffers[u]) : buffers[u][i] \in Nat
           /\ \A i \in 1..Len(seen[u]) : seen[u][i] \in Nat
  BY <1>2, StateType, StampType, ResamplerAssumption DEF Topics, ResamplerAssumption
<1>4. Settled(m)
  BY <1>1 DEF Ready, Settled
<1>5. \A u \in Others : \A i \in 1..Len(seen[u]) :
        Within(seen[u][i], m) => \E j \in 1..Len(buffers[u]) : buffers[u][j] = seen[u][i]
  <2>1. ASSUME NEW u \in Others, NEW i \in 1..Len(seen[u]), Within(seen[u][i], m)
        PROVE  \E j \in 1..Len(buffers[u]) : buffers[u][j] = seen[u][i]
    <3>1. seen[u][i] \in Nat
      BY <1>3
    <3>2. seen[u][i] >= buffers[Master][1] - Eps
      BY <1>2, <1>3, <2>1, <3>1 DEF Within, Dist
    <3>3. 1 \in 1..Len(buffers[Master])
      BY <1>2
    <3>4. Buffered(u, seen[u][i])
      BY <3>2, <3>3 DEF Ordered, CandidatesKept
    <3>5. QED
      BY <3>4 DEF Buffered
  <2>2. QED
    BY <2>1
<1>6. BuffersSorted'
  <2>1. ASSUME NEW u \in Topics, NEW i \in 1..Len(buffers'[u]), NEW j \in 1..Len(buffers'[u]), i < j
        PROVE  buffers'[u][i] <= buffers'[u][j]
    <3>1. CASE u = Master
      <4>1. /\ i + 1 \in 1..Len(buffers[Master]) /\ j + 1 \in 1..Len(buffers[Master])
            /\ i + 1 < j + 1
        BY <1>2, <2>1, <3>1
      <4>2. buffers[Master][i + 1] <= buffers[Master][j + 1]
        BY <1>3, <4>1 DEF Ordered, BuffersSorted
      <4>3. QED
        BY <1>2, <3>1, <4>2
    <3>2. CASE u # Master
      BY <1>2, <2>1, <3>2 DEF Ordered, BuffersSorted
    <3>3. QED
      BY <3>1, <3>2
  <2>2. QED
    BY <2>1 DEF BuffersSorted
<1>7. BuffersSeen'
  <2>1. ASSUME NEW u \in Topics, NEW i \in 1..Len(buffers'[u])
        PROVE  \E j \in 1..Len(seen[u]) : seen[u][j] = buffers'[u][i]
    <3>1. CASE u = Master
      <4>1. i + 1 \in 1..Len(buffers[Master])
        BY <1>2, <2>1, <3>1
      <4>2. QED
        BY <1>2, <1>3, <3>1, <4>1 DEF Ordered, BuffersSeen, Saw
    <3>2. CASE u # Master
      BY <1>2, <2>1, <3>2 DEF Ordered, BuffersSeen, Saw
    <3>3. QED
      BY <3>1, <3>2
  <2>2. QED
    BY <1>1, <2>1 DEF BuffersSeen, Saw
<1>8. \A u \in Others : \A x : Buffered(u, x) => \E j \in 1..Len(buffers'[u]) : buffers'[u][j] = x
  <2>1. \A u \in Others : buffers'[u] = buffers[u]
    BY <1>2, <1>3
  <2>2. QED
    BY <2>1 DEF Buffered
<1>9. WindowKept'
  <2>1. \A u \in Others : \A i \in 1..Len(seen[u]) : seen[u][i] >= latest - 2 * Eps =>
          \E j \in 1..Len(buffers'[u]) : buffers'[u][j] = seen[u][i]
    BY <1>8 DEF Ordered, WindowKept
  <2>2. QED
    BY <1>1, <2>1 DEF WindowKept, Buffered
<1>10. CandidatesKept'
  <2>1. ASSUME NEW p \in 1..Len(buffers'[Master]), NEW u \in Others, NEW i \in 1..Len(seen[u]),
               seen[u][i] >= buffers'[Master][p] - Eps
        PROVE  \E j \in 1..Len(buffers'[u]) : buffers'[u][j] = seen[u][i]
    <3>1. p + 1 \in 1..Len(buffers[Master]) /\ buffers'[Master][p] = buffers[Master][p + 1]
      BY <1>2, <2>1
    <3>2. Buffered(u, seen[u][i])
      BY <2>1, <3>1 DEF Ordered, CandidatesKept
    <3>3. QED
      BY <1>8, <3>2
  <2>2. QED
    BY <1>1, <2>1 DEF CandidatesKept, Buffered
<1>11. BoundedWindow'
  BY <1>1 DEF BoundedWindow
<1>12. CASE ExportFrame
  <2>1. PICK at \in [Others -> 1..MaxReads] :
          /\ \A t \in Others : at[t] <= Len(buffers[t]) /\ IsNearest(t, m, at[t])
          /\ frames' = frames \cup
               {[master |-> m, pick |-> [t \in Others |-> buffers[t][at[t]]]]}
    BY <1>12 DEF ExportFrame
  <2>2. drops' = drops
    BY <1>12 DEF ExportFrame
  <2> DEFINE new == [master |-> m, pick |-> [t \in Others |-> buffers[t][at[t]]]]
  <2>3. ASSUME NEW u \in Others
        PROVE  /\ \E i \in 1..Len(seen[u]) : seen[u][i] = buffers[u][at[u]]
               /\ Within(buffers[u][at[u]], m)
               /\ \A i \in 1..Len(seen[u]) : Dist(buffers[u][at[u]], m) <= Dist(seen[u][i], m)
    <3>1. u \in Topics /\ at[u] \in 1..Len(buffers[u])
      BY <1>3, <2>1, StateType, ResamplerAssumption DEF ResamplerAssumption
    <3>2. Within(buffers[u][at[u]], m)
      BY <2>1 DEF IsNearest
    <3>3. \A j \in 1..Len(buffers[u]) : Dist(buffers[u][at[u]], m) <= Dist(buffers[u][j], m)
      BY <2>1 DEF IsNearest
    <3>4. ASSUME NEW i \in 1..Len(seen[u])
          PROVE  Dist(buffers[u][at[u]], m) <= Dist(seen[u][i], m)
      <4>1. CASE Within(seen[u][i], m)
        BY <1>5, <3>3, <4>1
      <4>2. CASE ~Within(seen[u][i], m)
        <5>1. buffers[u][at[u]] \in Nat /\ seen[u][i] \in Nat
          BY <1>3, <3>1
        <5>2. Dist(buffers[u][at[u]], m) \in Nat /\ Dist(seen[u][i], m) \in Nat
          BY <1>3, <5>1 DEF Dist
        <5>3. QED
          BY <1>3, <3>2, <4>2, <5>2 DEF Within
      <4>3. QED
        BY <4>1, <4>2
    <3>5. \E i \in 1..Len(seen[u]) : seen[u][i] = buffers[u][at[u]]
      BY <3>1 DEF Ordered, BuffersSeen, Saw
    <3>6. QED
      BY <3>2, <3>4, <3>5
  <2>4. new.master = m /\ \A u \in Others : new.pick[u] = buffers[u][at[u]]
    OBVIOUS
  <2>5. ASSUME NEW f \in frames'
        PROVE  /\ Settled(f.master)
               /\ \A u \in Others :
                    /\ \E i \in 1..Len(seen[u]) : seen[u][i] = f.pick[u]
                    /\ Within(f.pick[u], f.master)
                    /\ \A i \in 1..Len(seen[u]) :
                         Dist(f.pick[u], f.master) <= Dist(seen[u][i], f.master)
    <3>1. CASE f \in frames
      BY <3>1 DEF Ordered, PicksNearest, DecisionsSettled
    <3>2. CASE f = new
      <4> HIDE DEF new
      <4>1. QED
        BY <1>4, <2>3, <2>4, <3>2
    <3>3. QED
      BY <2>1, <2>5, <3>1, <3>2
  <2>6. PicksNearest'
    BY <1>1, <2>5 DEF PicksNearest
  <2>7. DecisionsSettled'
    <3>1. \A f \in frames' : pc' \in {"flush", "done"} \/ f.master + Eps <= latest'
      BY <1>1, <2>5 DEF Settled
    <3>2. \A d \in drops' : pc' \in {"flush", "done"} \/ d.master + Eps <= latest'
      BY <1>1, <2>2 DEF Ordered, DecisionsSettled, Settled
    <3>3. QED
      BY <3>1, <3>2 DEF DecisionsSettled, Settled
  <2>8. DropsJustified'
    BY <1>1, <2>2 DEF Ordered, DropsJustified
  <2>9. QED
    BY <1>6, <1>7, <1>9, <1>10, <1>11, <2>6, <2>7, <2>8 DEF Ordered
<1>13. CASE DropFrame
  <2> DEFINE missing == {t \in Others : ~HasCandidate(t, m)}
  <2>1. drops' = drops \cup {[master |-> m, missing |-> missing]} /\ frames' = frames
    BY <1>13 DEF DropFrame
  <2>2. ASSUME NEW u \in missing, NEW i \in 1..Len(seen[u])
        PROVE  Dist(seen[u][i], m) >= Eps
    <3>1. u \in Others /\ ~HasCandidate(u, m)
      BY <2>2
    <3>2. ~Within(seen[u][i], m)
      BY <1>5, <3>1 DEF HasCandidate
    <3>3. seen[u][i] \in Nat
      BY <1>3, <3>1
    <3>4. QED
      BY <1>3, <3>2, <3>3 DEF Within, Dist
  <2>3. ASSUME NEW d \in drops'
        PROVE  /\ Settled(d.master)
               /\ \A t \in d.missing : \A i \in 1..Len(seen[t]) : Dist(seen[t][i], d.master) >= Eps
    <3>1. CASE d \in drops
      BY <3>1 DEF Ordered, DropsJustified, DecisionsSettled
    <3>2. CASE d = [master |-> m, missing |-> missing]
      <4>1. d.master = m /\ d.missing = missing
        BY <3>2
      <4> HIDE DEF missing
      <4>2. QED
        BY <1>4, <2>2, <4>1
    <3>3. QED
      BY <2>1, <2>3, <3>1, <3>2
  <2>4. DropsJustified'
    BY <1>1, <2>3 DEF DropsJustified
  <2>5. DecisionsSettled'
    <3>1. \A d \in drops' : pc' \in {"flush", "done"} \/ d.master + Eps <= latest'
      BY <1>1, <2>3 DEF Settled
    <3>2. \A f \in frames' : pc' \in {"flush", "done"} \/ f.master + Eps <= latest'
      BY <1>1, <2>1 DEF Ordered, DecisionsSettled, Settled
    <3>3. QED
      BY <3>1, <3>2 DEF DecisionsSettled, Settled
  <2>6. PicksNearest'
    BY <1>1, <2>1 DEF Ordered, PicksNearest
  <2>7. QED
    BY <1>6, <1>7, <1>9, <1>10, <1>11, <2>4, <2>5, <2>6 DEF Ordered
<1>14. QED
  BY <1>12, <1>13

\* Eviction forgets only what is more than two eps behind, which no frame that
\* is still pending can pick.
LEMMA OrderedEvict ==
  ASSUME TypeOK, PendingIsRecent, Ordered, EvictStale
  PROVE  Ordered'
<1>0. PICK cut \in [Topics -> Nat] :
        /\ buffers' \in [Topics -> Seq(Stamps)]
        /\ \A t \in Topics :
          /\ cut[t] <= Len(buffers[t])
          /\ buffers'[t] = SubSeq(buffers[t], cut[t] + 1, Len(buffers[t]))
          /\ Len(buffers'[t]) = Len(buffers[t]) - cut[t]
          /\ \A i \in 1..Len(buffers'[t]) : buffers'[t][i] = buffers[t][cut[t] + i]
          /\ \A i \in 1..cut[t] : buffers[t][i] < latest - 2 * Eps
          /\ cut[t] < Len(buffers[t]) => ~(buffers[t][cut[t] + 1] < latest - 2 * Eps)
  BY EvictEffect
<1>1. \A t \in Topics :
        /\ cut[t] <= Len(buffers[t])
        /\ Len(buffers'[t]) = Len(buffers[t]) - cut[t]
        /\ \A i \in 1..Len(buffers'[t]) : buffers'[t][i] = buffers[t][cut[t] + i]
        /\ \A i \in 1..cut[t] : buffers[t][i] < latest - 2 * Eps
        /\ cut[t] < Len(buffers[t]) => ~(buffers[t][cut[t] + 1] < latest - 2 * Eps)
  BY <1>0
<1>2. /\ pc = "evict" /\ pc' = "read" /\ latest' = latest /\ frames' = frames
      /\ drops' = drops /\ seen' = seen
  BY DEF EvictStale, EvictBefore
<1>3. /\ latest \in Nat /\ Eps \in Nat /\ Master \in Topics /\ Others \subseteq Topics
      /\ \A u \in Topics :
           /\ Len(buffers[u]) \in Nat /\ cut[u] \in Nat
           /\ \A i \in 1..Len(buffers[u]) : buffers[u][i] \in Nat
           /\ \A i \in 1..Len(seen[u]) : seen[u][i] \in Nat
  BY <1>0, StateType, StampType DEF Topics
<1>4. \A u \in Topics : \A i \in 1..Len(buffers'[u]) :
        /\ cut[u] + i \in 1..Len(buffers[u])
        /\ cut[u] + 1 \in 1..Len(buffers[u])
        /\ buffers'[u][i] = buffers[u][cut[u] + i]
  BY <1>1, <1>3
<1>5. ASSUME NEW u \in Topics, NEW x \in Nat, Buffered(u, x), x >= latest - 2 * Eps
      PROVE  \E j \in 1..Len(buffers'[u]) : buffers'[u][j] = x
  <2>1. PICK i \in 1..Len(buffers[u]) : buffers[u][i] = x
    BY <1>5 DEF Buffered
  <2>2. ~(i \in 1..cut[u])
    BY <1>1, <1>3, <1>5, <2>1
  <2>3. i - cut[u] \in 1..Len(buffers'[u]) /\ cut[u] + (i - cut[u]) = i
    BY <1>1, <1>3, <2>1, <2>2
  <2>4. buffers'[u][i - cut[u]] = x
    BY <1>1, <2>1, <2>3
  <2>5. QED
    BY <2>3, <2>4
<1>6. BuffersSorted'
  <2>1. ASSUME NEW u \in Topics, NEW i \in 1..Len(buffers'[u]), NEW j \in 1..Len(buffers'[u]), i < j
        PROVE  buffers'[u][i] <= buffers'[u][j]
    <3>1. cut[u] + i < cut[u] + j
      BY <1>3, <2>1
    <3>2. buffers[u][cut[u] + i] <= buffers[u][cut[u] + j]
      BY <1>4, <3>1 DEF Ordered, BuffersSorted
    <3>3. QED
      BY <1>4, <3>2
  <2>2. QED
    BY <2>1 DEF BuffersSorted
<1>7. BuffersSeen'
  <2>1. \A u \in Topics : \A i \in 1..Len(buffers'[u]) :
          \E j \in 1..Len(seen[u]) : seen[u][j] = buffers'[u][i]
    <3>1. \A u \in Topics : \A k \in 1..Len(buffers[u]) :
            \E j \in 1..Len(seen[u]) : seen[u][j] = buffers[u][k]
      BY DEF Ordered, BuffersSeen, Saw
    <3>2. ASSUME NEW u \in Topics, NEW i \in 1..Len(buffers'[u])
          PROVE  \E j \in 1..Len(seen[u]) : seen[u][j] = buffers'[u][i]
      <4>1. PICK k \in 1..Len(buffers[u]) : buffers'[u][i] = buffers[u][k]
        BY <1>4
      <4>2. QED
        BY <3>1, <4>1
    <3>3. QED
      BY <3>2
  <2>2. QED
    BY <1>2, <2>1 DEF BuffersSeen, Saw
<1>8. WindowKept'
  <2>1. ASSUME NEW u \in Others, NEW i \in 1..Len(seen[u]), seen[u][i] >= latest - 2 * Eps
        PROVE  \E j \in 1..Len(buffers'[u]) : buffers'[u][j] = seen[u][i]
    BY <1>3, <1>5, <2>1 DEF Ordered, WindowKept
  <2>2. QED
    BY <1>2, <2>1 DEF WindowKept, Buffered
<1>9. CandidatesKept'
  <2>1. ASSUME NEW p \in 1..Len(buffers'[Master]), NEW u \in Others, NEW i \in 1..Len(seen[u]),
               seen[u][i] >= buffers'[Master][p] - Eps
        PROVE  \E j \in 1..Len(buffers'[u]) : buffers'[u][j] = seen[u][i]
    <3> DEFINE q == cut[Master] + p
    <3>1. q \in 1..Len(buffers[Master]) /\ buffers'[Master][p] = buffers[Master][q]
      BY <1>3, <1>4
    <3> HIDE DEF q
    <3>2. /\ 1 \in 1..Len(buffers[Master]) /\ buffers[Master] # <<>>
          /\ Head(buffers[Master]) = buffers[Master][1]
      BY <1>3, <3>1, StateType, EmptySeq
    <3>3. buffers[Master][1] + Eps > latest
      BY <1>2, <3>2 DEF PendingIsRecent
    <3>4. buffers[Master][1] <= buffers[Master][q]
      <4>1. CASE q = 1
        BY <1>3, <3>2, <4>1
      <4>2. CASE q # 1
        BY <1>3, <3>1, <3>2, <4>2 DEF Ordered, BuffersSorted
      <4>3. QED
        BY <4>1, <4>2
    <3>5. /\ seen[u][i] \in Nat
          /\ buffers[Master][1] \in Nat /\ buffers[Master][q] \in Nat
      BY <1>3, <3>1, <3>2
    <3>6. seen[u][i] >= latest - 2 * Eps
      <4>1. seen[u][i] >= buffers[Master][q] - Eps
        BY <2>1, <3>1
      <4>2. latest \in Nat /\ Eps \in Nat
        BY <1>3
      <4>3. QED
        BY <3>3, <3>4, <3>5, <4>1, <4>2
    <3>7. Buffered(u, seen[u][i])
      BY <3>6 DEF Ordered, WindowKept
    <3>8. QED
      BY <1>3, <1>5, <3>5, <3>6, <3>7
  <2>2. QED
    BY <1>2, <2>1 DEF CandidatesKept, Buffered
<1>10. DecisionsSettled'
  BY <1>2 DEF Ordered, DecisionsSettled, Settled
<1>11. PicksNearest' /\ DropsJustified'
  BY <1>2 DEF Ordered, PicksNearest, DropsJustified
<1>12. BoundedWindow'
  <2>1. ASSUME NEW u \in Topics, NEW i \in 1..Len(buffers'[u])
        PROVE  buffers'[u][i] >= latest - 2 * Eps
    <3>1. cut[u] < Len(buffers[u]) /\ cut[u] + 1 \in 1..Len(buffers[u])
      BY <1>3, <1>4
    <3>2. buffers[u][cut[u] + 1] \in Nat /\ buffers[u][cut[u] + i] \in Nat
      BY <1>3, <1>4, <3>1
    <3>3. buffers[u][cut[u] + 1] >= latest - 2 * Eps
      BY <1>1, <1>3, <3>1, <3>2
    <3>4. buffers[u][cut[u] + 1] <= buffers[u][cut[u] + i]
      <4>1. CASE i = 1
        BY <3>2, <4>1
      <4>2. CASE i # 1
        <5>1. cut[u] + 1 < cut[u] + i
          BY <1>3, <4>2
        <5>2. QED
          BY <1>4, <3>1, <5>1 DEF Ordered, BuffersSorted
      <4>3. QED
        BY <4>1, <4>2
    <3>5. buffers[u][cut[u] + i] >= latest - 2 * Eps
      <4>1. latest \in Nat /\ Eps \in Nat
        BY <1>3
      <4>2. QED
        BY <3>2, <3>3, <3>4, <4>1
    <3>6. QED
      BY <1>4, <3>5
  <2>2. QED
    BY <1>2, <2>1 DEF BoundedWindow
<1>13. QED
  BY <1>6, <1>7, <1>8, <1>9, <1>10, <1>11, <1>12 DEF Ordered

\* Steps that only move on to the next loop keep everything.
LEMMA OrderedMove ==
  ASSUME Ordered, EndOfBag \/ EndDrain \/ EndFlush \/ UNCHANGED vars
  PROVE  Ordered'
<1>1. /\ UNCHANGED <<buffers, latest, frames, drops, seen>>
      /\ pc \in {"flush", "done"} => pc' \in {"flush", "done"}
      /\ pc' = "read" => pc = "read"
  BY DEF EndOfBag, EndDrain, EndFlush, vars
<1>2. BuffersSorted' /\ BuffersSeen' /\ WindowKept' /\ CandidatesKept'
  BY <1>1 DEF Ordered, BuffersSorted, BuffersSeen, WindowKept, CandidatesKept, Saw, Buffered
<1>3. DecisionsSettled' /\ PicksNearest' /\ DropsJustified' /\ BoundedWindow'
  BY <1>1 DEF Ordered, DecisionsSettled, Settled, PicksNearest, DropsJustified, BoundedWindow
<1>4. QED
  BY <1>2, <1>3 DEF Ordered

-----------------------------------------------------------------------------
\* IInv is an invariant of the resampler, for every topic set, eps, disorder
\* and length of the bag.
THEOREM Invariance == Spec => []IInv
<1>1. IInv /\ [Next]_vars => IInv'
  <2> SUFFICES ASSUME IInv, [Next]_vars PROVE IInv'
    OBVIOUS
  <2>1. TypeOK' /\ NoMasterLost' /\ PendingIsRecent' /\ SeenByNow'
    BY TypeStep, MasterStep DEF IInv
  <2>2. ASSUME Skew = 0 PROVE Ordered'
    BY <2>2, OrderedRead, OrderedDecide, OrderedEvict, OrderedMove DEF IInv, Next, Done
  <2>3. QED
    BY <2>1, <2>2 DEF IInv
<1>2. QED
  BY InitIInv, <1>1, PTL DEF Spec

\* The types of the resampler's state hold for any bag (_process_nearest_association).
THEOREM TypeCorrect == Spec => []TypeOK
BY Invariance, PTL DEF IInv

\* However late messages are read, eviction (exporter.py, expire_before) takes no
\* master message: each is decided once, in reading order.
THEOREM MasterKept == Spec => []NoMasterLost
BY Invariance, PTL DEF IInv

\* In a bag in stamp order an exported frame holds, for every topic, the nearest
\* message of the whole bag, and it is within eps of the master's stamp.
THEOREM NearestPicked == ASSUME Skew = 0 PROVE Spec => []PicksNearest
<1>1. IInv => PicksNearest
  BY DEF IInv, Ordered
<1>2. QED
  BY Invariance, <1>1, PTL

\* In such a bag a discarded frame had a topic with no message of the whole bag
\* nearer than eps.
THEOREM DiscardJustified == ASSUME Skew = 0 PROVE Spec => []DropsJustified
<1>1. IInv => DropsJustified
  BY DEF IInv, Ordered
<1>2. QED
  BY Invariance, <1>1, PTL

\* In such a bag the buffers reach back at most two eps when the next message
\* is read.
THEOREM WindowBounded == ASSUME Skew = 0 PROVE Spec => []BoundedWindow
<1>1. IInv => BoundedWindow
  BY DEF IInv, Ordered
<1>2. QED
  BY Invariance, <1>1, PTL
=============================================================================
