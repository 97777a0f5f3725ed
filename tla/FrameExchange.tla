---------------------------- MODULE FrameExchange ----------------------------
(***************************************************************************)
(* What a connection to a server of any version makes of its packets,      *)
(* without the cells they travel in: the packets leave out what has not    *)
(* changed, and every frame is completed from the objects decoded last.    *)
(*                                                                         *)
(* The abstract specification of DataStreamSession, with no bounds and for *)
(* any objects a server may have.                                          *)
(***************************************************************************)
EXTENDS FrameMeant

VARIABLES
    link,      \* the objects the connection decoded last
    sent       \* all objects of the server's frame before, once there is one

exchangeVars == <<client, link, sent, packet>>

\* Of the client, no more than this.
Client(connected, cached) == [connected |-> connected, cached |-> cached]

\* A server leaves out, as unchanged, only what its frame before had too; numbers its
\* frames; and if it is older than the client, what is read of its objects of some types
\* is no matter what, but these objects garble nothing else.
MayCome(p) ==
    /\ DOMAIN p.wanted = ObjectTypes /\ DOMAIN p.read = ObjectTypes
    /\ p.elided \subseteq
         {t \in ObjectTypes \ AlwaysSent : sent # << >> /\ sent[1][t] = p.wanted[t]}
    /\ p.older \subseteq ObjectTypes \ p.elided
    /\ \A t \in ObjectTypes :
         CASE t \in p.elided -> p.read[t] = << >>
           [] t \in p.older  -> p.read[t] # << >>
           [] OTHER          -> p.read[t] = p.wanted[t]
    /\ p.read.FrameInfo # << >>

\* What ReadObjects hands on of a packet: its objects, and what it said of those left out.
Handed(p) ==
    [objects |-> p.read, seen |-> {t \in ObjectTypes : p.read[t] # << >>},
     contents |-> <<[EnumsUnchanged |-> p.elided]>>]

------------------------------------------------------------------------------
ExchangeInit ==
    /\ client = Client(FALSE, NoFrameYet)
    /\ link = NoLink
    /\ sent = << >>
    /\ packet = NoPacket

\* A connection starts from nothing; the frame of the one before stays.
Open ==
    /\ ~client.connected
    /\ client' = Client(TRUE, client.cached)
    /\ link' = NoLink
    /\ sent' = << >>
    /\ UNCHANGED packet

\* The caller disconnects, or a packet cannot be read.
Close ==
    /\ client.connected
    /\ client' = Client(FALSE, client.cached)
    /\ UNCHANGED <<link, packet>>

\* A packet comes, and its frame is taken.
Fetch ==
    /\ client.connected
    /\ MayCome(packet')
    /\ sent' = <<packet'.wanted>>
    /\ LET read   == Handed(packet')
           static == Completed(read, StaticTypes, CopiedStaticTypes, link.static)
       IN  link' = [static  |-> IF static = << >> THEN link.static ELSE static,
                    dynamic |-> Completed(read, DynamicTypes, CopiedDynamicTypes, link.dynamic)]
    /\ client' = Client(TRUE, ReadFramePair(link'.static, link'.dynamic))
    /\ packet' = PacketRead(packet, link, packet'.wanted, packet'.elided, packet'.older,
                            packet'.read)

ExchangeNext == Open \/ Close \/ Fetch
ExchangeSpec == ExchangeInit /\ [][ExchangeNext]_exchangeVars

==============================================================================
