----------------------------- MODULE FrameMeant -----------------------------
(***************************************************************************)
(* The frame the client fetched last, and the one it was meant to be.      *)
(***************************************************************************)
EXTENDS CGStreamObjects

VARIABLES
    client,    \* VClient, with the filter it keeps; cached is the frame fetched last
    packet     \* what the packet read last was meant to say, and what of it does not

\* Whatever packets leave out as unchanged, and whatever of their objects is of an older
\* version, the frame is the one the server meant, but for the types that are garbled by
\* objects of their own, until the server sends such objects again, and for static types
\* the server has nothing of any more: if no static object came with the packet that had
\* nothing to say of them, the objects of before stay.
FrameAsSent ==
    \A t \in ObjectTypes \ (packet.garbled \cup packet.lapsed) :
      client.cached[t] = packet.wanted[t]
=============================================================================
