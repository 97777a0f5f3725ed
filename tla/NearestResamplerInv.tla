------------------------ MODULE NearestResamplerInv ------------------------
(***************************************************************************)
(* The inductive invariant of NearestResampler. The part that depends on  *)
(* the order of the bag (Ordered) is claimed for Skew = 0 only.            *)
(***************************************************************************)
EXTENDS NearestResampler

Saw(t, ts)      == \E i \in 1..Len(seen[t]) : seen[t][i] = ts
Buffered(t, ts) == \E i \in 1..Len(buffers[t]) : buffers[t][i] = ts

\* A master frame that is still pending when stale messages are evicted is
\* too recent to be stale.
PendingIsRecent ==
  pc = "evict" /\ buffers[Master] # <<>> => Head(buffers[Master]) + Eps > latest

SeenByNow == \A t \in Topics : \A i \in 1..Len(seen[t]) : seen[t][i] <= latest

BuffersSorted ==
  \A t \in Topics : \A i, j \in 1..Len(buffers[t]) :
    i < j => buffers[t][i] <= buffers[t][j]

BuffersSeen == \A t \in Topics : \A i \in 1..Len(buffers[t]) : Saw(t, buffers[t][i])

\* Nothing younger than two eps has been forgotten ...
WindowKept ==
  \A t \in Others : \A i \in 1..Len(seen[t]) :
    seen[t][i] >= latest - 2 * Eps => Buffered(t, seen[t][i])

\* ... and nothing that a pending master frame could still pick.
CandidatesKept ==
  \A k \in 1..Len(buffers[Master]) : \A t \in Others : \A i \in 1..Len(seen[t]) :
    seen[t][i] >= buffers[Master][k] - Eps => Buffered(t, seen[t][i])

\* A decision is final: what is read later is at least eps away.
Settled(m) == pc \in {"flush", "done"} \/ m + Eps <= latest

DecisionsSettled ==
  /\ \A f \in frames : Settled(f.master)
  /\ \A d \in drops : Settled(d.master)

Ordered ==
  /\ BuffersSorted
  /\ BuffersSeen
  /\ WindowKept
  /\ CandidatesKept
  /\ DecisionsSettled
  /\ PicksNearest
  /\ DropsJustified
  /\ BoundedWindow

IInv ==
  /\ TypeOK
  /\ NoMasterLost
  /\ PendingIsRecent
  /\ SeenByNow
  /\ Skew = 0 => Ordered
=============================================================================
