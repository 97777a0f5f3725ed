------------------------- MODULE FrameExchangeProofs -------------------------
(* The frame is the one that was sent, whatever objects a server may have. *)
EXTENDS FrameExchange, TLAPS

\* A function from the given types.
Objects(f, types) == f = [t \in types |-> f[t]]
NoneOrOne(seq, types) == seq = << >> \/ (seq = <<seq[1]>> /\ Objects(seq[1], types))

\* As long as a connection lasts, what it decoded last is the frame fetched last, and what
\* the server sent last is what that frame was meant to be.
ExchangeInv ==
    /\ NoneOrOne(link.static, StaticTypes) /\ NoneOrOne(link.dynamic, DynamicTypes)
    /\ packet.lapsed \subseteq {t \in StaticTypes : packet.wanted[t] = << >>}
    /\ client.connected /\ sent = << >> => link = NoLink
    /\ client.connected /\ sent # << >> =>
         /\ sent = <<packet.wanted>>
         /\ link.dynamic # << >>
         /\ client.cached = ReadFramePair(link.static, link.dynamic)
    /\ FrameAsSent

\* No type is both.
LEMMA Apart == StaticTypes \cap DynamicTypes = {} /\ AlwaysSent \subseteq DynamicTypes
  BY DEF StaticTypes, DynamicTypes, AlwaysSent

\* What a packet brings of one kind, and what becomes of it.
LEMMA Completion ==
  ASSUME NEW p, NEW types, NEW copied, NEW before, NEW made,
         DOMAIN p.read = ObjectTypes, types \in {StaticTypes, DynamicTypes},
         NoneOrOne(before, types), made = Completed(Handed(p), types, copied, before)
  PROVE  /\ NoneOrOne(made, types)
         /\ made = << >> <=> (\A t \in types : p.read[t] = << >>)
         /\ made # << >> =>
              \A t \in types :
                made[1][t] = IF before # << >> /\ t \in copied /\ t \in p.elided
                             THEN before[1][t] ELSE p.read[t]
<1> DEFINE read == Handed(p)
           now  == [t \in types |-> p.read[t]]
           kept == [t \in types |-> IF t \in copied /\ t \in p.elided THEN before[1][t] ELSE now[t]]
<1>1. types \subseteq ObjectTypes
  BY DEF ObjectTypes
<1>2. (read.seen \cap types = {}) = (\A t \in types : p.read[t] = << >>)
  BY <1>1 DEF Handed
<1>3. Restrict(read.objects, types) = now
  BY DEF Handed, Restrict
<1>4. CopyObjects(read.contents, copied, before[1], now) = kept
  BY DEF CopyObjects, Handed
<1>5. Completed(read, types, copied, before) =
        IF read.seen \cap types = {} THEN << >> ELSE IF before = << >> THEN <<now>> ELSE <<kept>>
  BY <1>3, <1>4 DEF Completed
<1>6. Objects(now, types) /\ Objects(kept, types)
  BY DEF Objects
<1>7. CASE read.seen \cap types = {}
  BY <1>2, <1>5, <1>7 DEF NoneOrOne
<1>8. CASE read.seen \cap types # {} /\ before = << >>
  <2>1. made = <<now>>
    BY <1>5, <1>8
  <2>2. NoneOrOne(made, types) /\ made # << >> /\ made[1] = now
    BY <1>6, <2>1 DEF NoneOrOne
  <2> QED
    BY <1>2, <1>8, <2>1, <2>2
<1>9. CASE read.seen \cap types # {} /\ before # << >>
  <2>1. made = <<kept>>
    BY <1>5, <1>9
  <2>2. NoneOrOne(made, types) /\ made # << >> /\ made[1] = kept
    BY <1>6, <2>1 DEF NoneOrOne
  <2> QED
    BY <1>2, <1>9, <2>1, <2>2
<1> QED
  BY <1>7, <1>8, <1>9

\* What of a packet the frame is made of afterwards, type by type.
LEMMA FetchedParts ==
  ASSUME ExchangeInv, Fetch
  PROVE  /\ NoneOrOne(link'.static, StaticTypes) /\ NoneOrOne(link'.dynamic, DynamicTypes)
         /\ link'.dynamic # << >>
         /\ \A t \in DynamicTypes :
              link'.dynamic[1][t] = IF t \in packet'.elided THEN client.cached[t] ELSE packet'.read[t]
         /\ \A t \in StaticTypes :
              (IF link'.static = << >> THEN << >> ELSE link'.static[1][t])
                = IF \E u \in StaticTypes : packet'.read[u] # << >>
                  THEN IF t \in packet'.elided THEN client.cached[t] ELSE packet'.read[t]
                  ELSE IF link.static = << >> THEN << >> ELSE link.static[1][t]
<1> DEFINE p       == packet'
           static  == Completed(Handed(p), StaticTypes, CopiedStaticTypes, link.static)
           dynamic == Completed(Handed(p), DynamicTypes, CopiedDynamicTypes, link.dynamic)
<1>1. DOMAIN p.read = ObjectTypes /\ p.read.FrameInfo # << >>
  BY DEF Fetch, MayCome
<1>2. /\ link'.static = IF static = << >> THEN link.static ELSE static
      /\ link'.dynamic = dynamic
  BY DEF Fetch
<1>3. /\ NoneOrOne(static, StaticTypes)
      /\ static = << >> <=> (\A t \in StaticTypes : p.read[t] = << >>)
      /\ static # << >> =>
           \A t \in StaticTypes :
             static[1][t] = IF link.static # << >> /\ t \in CopiedStaticTypes /\ t \in p.elided
                            THEN link.static[1][t] ELSE p.read[t]
  <2>1. NoneOrOne(link.static, StaticTypes)
    BY DEF ExchangeInv
  <2>2. static = Completed(Handed(p), StaticTypes, CopiedStaticTypes, link.static)
    OBVIOUS
  <2> HIDE DEF p, static
  <2> QED
    BY <1>1, <2>1, <2>2, Completion
<1>4. /\ NoneOrOne(dynamic, DynamicTypes)
      /\ dynamic = << >> <=> (\A t \in DynamicTypes : p.read[t] = << >>)
      /\ dynamic # << >> =>
           \A t \in DynamicTypes :
             dynamic[1][t] = IF link.dynamic # << >> /\ t \in CopiedDynamicTypes /\ t \in p.elided
                             THEN link.dynamic[1][t] ELSE p.read[t]
  <2>1. NoneOrOne(link.dynamic, DynamicTypes)
    BY DEF ExchangeInv
  <2>2. dynamic = Completed(Handed(p), DynamicTypes, CopiedDynamicTypes, link.dynamic)
    OBVIOUS
  <2> HIDE DEF p, dynamic
  <2> QED
    BY <1>1, <2>1, <2>2, Completion
<1> HIDE DEF static, dynamic
<1>5. dynamic # << >>
  BY <1>1, <1>4 DEF DynamicTypes
<1>6. ASSUME NEW t \in ObjectTypes, t \in p.elided
      PROVE  /\ p.read[t] = << >> /\ t \notin AlwaysSent /\ link.dynamic # << >>
             /\ client.cached = ReadFramePair(link.static, link.dynamic)
  BY <1>6 DEF Fetch, MayCome, ExchangeInv
<1>7. ASSUME NEW t \in DynamicTypes
      PROVE  dynamic[1][t] = IF t \in p.elided THEN client.cached[t] ELSE p.read[t]
  <2>1. t \in p.elided => t \in CopiedDynamicTypes /\ client.cached[t] = link.dynamic[1][t]
    BY <1>6, <1>7 DEF CopiedDynamicTypes, AlwaysSent, ObjectTypes, ReadFramePair
  <2> QED
    BY <1>4, <1>5, <1>6, <2>1 DEF ObjectTypes
<1>8. ASSUME NEW t \in StaticTypes, static # << >>
      PROVE  static[1][t] = IF t \in p.elided THEN client.cached[t] ELSE p.read[t]
  <2>1. t \in ObjectTypes /\ t \notin DynamicTypes
    BY Apart, <1>8 DEF ObjectTypes
  <2>2. t \in p.elided => client.cached[t] = IF link.static = << >> THEN << >> ELSE link.static[1][t]
    BY <1>6, <2>1 DEF ReadFramePair
  <2> QED
    BY <1>3, <1>6, <1>8, <2>1, <2>2 DEF CopiedStaticTypes
<1>9. NoneOrOne(link'.static, StaticTypes)
  BY <1>2, <1>3 DEF ExchangeInv
<1>10. ASSUME NEW t \in StaticTypes
       PROVE  (IF link'.static = << >> THEN << >> ELSE link'.static[1][t])
                = IF \E u \in StaticTypes : p.read[u] # << >>
                  THEN IF t \in p.elided THEN client.cached[t] ELSE p.read[t]
                  ELSE IF link.static = << >> THEN << >> ELSE link.static[1][t]
  BY <1>2, <1>3, <1>8
<1> QED
  BY <1>2, <1>4, <1>5, <1>7, <1>9, <1>10

\* A type that was garbled or lapsed is so still, if what is left of it was left out.
LEMMA FetchInvariant == ExchangeInv /\ Fetch => ExchangeInv'
<1> SUFFICES ASSUME ExchangeInv, Fetch PROVE ExchangeInv'
  OBVIOUS
<1> DEFINE p == packet'
           fresh == \E u \in StaticTypes : p.read[u] # << >>
<1>1. /\ p.garbled = p.older \cup (packet.garbled \cap Kept(link, p.elided, p.read))
      /\ p.lapsed = {t \in StaticTypes \cap Kept(link, p.elided, p.read) :
                       p.wanted[t] = << >> /\ (t \in p.elided => t \in packet.lapsed)}
  BY DEF Fetch, PacketRead
<1>2. /\ sent' = <<p.wanted>> /\ client'.connected
      /\ client'.cached = ReadFramePair(link'.static, link'.dynamic)
  BY DEF Fetch, Client
<1>3. ASSUME NEW t \in ObjectTypes \ (p.garbled \cup p.lapsed), t \in p.elided
      PROVE  client.cached[t] = p.wanted[t]
  <2>1. t \in Kept(link, p.elided, p.read)
    BY <1>3 DEF Kept
  <2>2. t \notin packet.garbled
    BY <1>1, <1>3, <2>1
  <2>3. client.connected /\ sent # << >> /\ sent[1][t] = p.wanted[t]
    BY <1>3 DEF Fetch, MayCome
  <2>4. packet.wanted[t] = p.wanted[t]
    BY <2>3 DEF ExchangeInv
  <2>5. t \notin packet.lapsed
    BY <1>1, <1>3, <2>1, <2>4 DEF ExchangeInv
  <2> QED
    BY <2>2, <2>4, <2>5 DEF ExchangeInv, FrameAsSent
<1>4. ASSUME NEW t \in ObjectTypes \ (p.garbled \cup p.lapsed), t \notin p.elided
      PROVE  p.read[t] = p.wanted[t]
  BY <1>1, <1>4 DEF Fetch, MayCome
<1>5. ASSUME NEW t \in ObjectTypes \ (p.garbled \cup p.lapsed)
      PROVE  client'.cached[t] = p.wanted[t]
  <2>1. CASE t \in DynamicTypes
    BY <1>2, <1>3, <1>4, <2>1, FetchedParts DEF ReadFramePair
  <2>2. CASE t \in StaticTypes
    <3>1. client'.cached[t] = IF link'.static = << >> THEN << >> ELSE link'.static[1][t]
      BY <1>2, <2>2, Apart DEF ReadFramePair
    <3>2. CASE fresh
      BY <1>3, <1>4, <2>2, <3>1, <3>2, FetchedParts
    <3>3. CASE ~fresh /\ t \in p.elided
      <4>1. client.cached = ReadFramePair(link.static, link.dynamic)
        BY <3>3 DEF Fetch, MayCome, ExchangeInv
      <4>2. client.cached[t] = IF link.static = << >> THEN << >> ELSE link.static[1][t]
        BY <2>2, <4>1, Apart DEF ReadFramePair
      <4> QED
        BY <1>3, <2>2, <3>1, <3>3, <4>2, FetchedParts
    <3>4. CASE ~fresh /\ t \notin p.elided
      <4>1. p.wanted[t] = << >>
        BY <1>4, <2>2, <3>4
      <4>2. link.static = << >>
        BY <1>1, <2>2, <3>4, <4>1 DEF Kept
      <4> QED
        BY <2>2, <3>1, <3>4, <4>1, <4>2, FetchedParts
    <3> QED
      BY <3>2, <3>3, <3>4
  <2> QED
    BY <2>1, <2>2 DEF ObjectTypes
<1>6. FrameAsSent'
  BY <1>5 DEF FrameAsSent
<1>7. p.lapsed \subseteq {t \in StaticTypes : p.wanted[t] = << >>}
  BY <1>1
<1> QED
  BY <1>2, <1>6, <1>7, FetchedParts DEF ExchangeInv

\* The frame the session holds is the one the server meant to send, whatever was left out
\* of the packets as unchanged, in whichever of them, and after whichever reconnections,
\* for the types no older server garbled and the static ones it still has objects of
\* (ViconCGStreamClient.cpp, CopyObjects and the end of ReadObjects).
THEOREM FramesAsSent == ExchangeSpec => []FrameAsSent
<1>1. ExchangeInit => ExchangeInv
  BY DEF ExchangeInit, Client, ExchangeInv, FrameAsSent, NoLink, NoPacket, NoFrameYet, NoObjects,
         NoneOrOne
<1>2. ExchangeInv /\ [ExchangeNext]_exchangeVars => ExchangeInv'
  <2> SUFFICES ASSUME ExchangeInv, [ExchangeNext]_exchangeVars PROVE ExchangeInv'
    OBVIOUS
  <2>1. CASE Open
    BY <2>1 DEF Open, Client, ExchangeInv, FrameAsSent, NoLink, NoneOrOne
  <2>2. CASE Close
    BY <2>2 DEF Close, Client, ExchangeInv, FrameAsSent
  <2>3. CASE Fetch
    BY <2>3, FetchInvariant
  <2>4. CASE UNCHANGED exchangeVars
    BY <2>4 DEF exchangeVars, ExchangeInv, FrameAsSent
  <2> QED
    BY <2>1, <2>2, <2>3, <2>4 DEF ExchangeNext
<1>3. ExchangeInv => FrameAsSent
  BY DEF ExchangeInv
<1> QED
  BY <1>1, <1>2, <1>3, PTL DEF ExchangeSpec
==============================================================================
