-------------------------- MODULE NearestResampler --------------------------
(***************************************************************************)
(* Exporter._process_nearest_association: the streaming resampler that     *)
(* aligns every configured topic to the master topic (/tf). It reads the   *)
(* bag once, buffers stamps, decides a master frame when the data seen     *)
(* reaches the frame's stamp plus discard_eps, and forgets buffered        *)
(* messages more than two eps behind the newest stamp.                     *)
(*                                                                         *)
(* A message is its stamp (get_time_from_msg, nanoseconds in the code).    *)
(* The loops of the code are steps: pc says in which one it is.            *)
(***************************************************************************)
EXTENDS Integers, Sequences

CONSTANTS
  Others,     \* the configured topics besides the master
  Master,     \* the master topic
  Eps,        \* discard_eps_ns
  Skew,       \* how far behind the newest stamp a message may be read
  MaxStamp,   \* bound: the largest stamp
  MaxReads    \* bound: messages of a topic in the bag

ASSUME ResamplerAssumption ==
  /\ Master \notin Others
  /\ Eps \in Nat /\ Skew \in Nat /\ MaxStamp \in Nat /\ MaxReads \in Nat

Topics == Others \cup {Master}
Stamps == 0..MaxStamp

VARIABLES
  pc,        \* "read", "drain", "evict", "flush" or "done"
  buffers,   \* per topic, the buffered stamps in reading order
  latest,    \* latest_ts_seen
  frames,    \* frames exported: the master stamp and the stamp picked per topic
  drops,     \* frames discarded: the master stamp and the unmatched topics
  handled,   \* history: the decided master stamps, in order
  seen       \* history: per topic, the stamps read, in order

vars == <<pc, buffers, latest, frames, drops, handled, seen>>

Init ==
  /\ pc = "read"
  /\ buffers = [t \in Topics |-> <<>>]
  /\ latest = 0
  /\ frames = {}
  /\ drops = {}
  /\ handled = <<>>
  /\ seen = [t \in Topics |-> <<>>]

-----------------------------------------------------------------------------
Dist(a, b) == IF a < b THEN b - a ELSE a - b

Within(ts, m) == Dist(ts, m) <= Eps

\* One message of a configured topic; the bag may hold it up to Skew late.
Read(t, ts) ==
  /\ pc = "read"
  /\ Len(seen[t]) < MaxReads
  /\ latest <= ts + Skew
  /\ latest' = IF latest < ts THEN ts ELSE latest
  /\ buffers' = [buffers EXCEPT ![t] = Append(@, ts)]
  /\ seen' = [seen EXCEPT ![t] = Append(@, ts)]
  /\ pc' = "drain"
  /\ UNCHANGED <<frames, drops, handled>>

EndOfBag ==
  /\ pc = "read"
  /\ pc' = "flush"
  /\ UNCHANGED <<buffers, latest, frames, drops, handled, seen>>

\* Mutant of Ready: a frame does not wait for data after it.
ReadyAtOnce ==
  /\ buffers[Master] # <<>>
  /\ pc \in {"flush", "drain"}

\* The first buffered master frame may be decided.
Ready ==
  /\ buffers[Master] # <<>>
  /\ \/ pc = "flush"
     \/ pc = "drain" /\ Head(buffers[Master]) + Eps <= latest

HasCandidate(t, m) == \E i \in 1..Len(buffers[t]) : Within(buffers[t][i], m)

\* Mutant of IsNearest: any candidate will do.
IsCandidate(t, m, i) == Within(buffers[t][i], m)

\* min over the candidates by distance: the first of the nearest ones.
IsNearest(t, m, i) ==
  /\ Within(buffers[t][i], m)
  /\ \A j \in 1..Len(buffers[t]) :
       /\ Dist(buffers[t][i], m) <= Dist(buffers[t][j], m)
       /\ j < i => Dist(buffers[t][i], m) < Dist(buffers[t][j], m)

PopMaster ==
  /\ buffers' = [buffers EXCEPT ![Master] = Tail(@)]
  /\ handled' = Append(handled, Head(buffers[Master]))

ExportFrame ==
  /\ Ready
  /\ \E at \in [Others -> 1..MaxReads] :
       /\ \A t \in Others : at[t] <= Len(buffers[t]) /\ IsNearest(t, Head(buffers[Master]), at[t])
       /\ frames' = frames \cup
            {[master |-> Head(buffers[Master]), pick |-> [t \in Others |-> buffers[t][at[t]]]]}
  /\ PopMaster
  /\ UNCHANGED <<pc, latest, drops, seen>>

DropFrame ==
  /\ Ready
  /\ LET missing == {t \in Others : ~HasCandidate(t, Head(buffers[Master]))} IN
       /\ missing # {}
       /\ drops' = drops \cup {[master |-> Head(buffers[Master]), missing |-> missing]}
  /\ PopMaster
  /\ UNCHANGED <<pc, latest, frames, seen>>

EndDrain ==
  /\ pc = "drain"
  /\ ~Ready
  /\ pc' = "evict"
  /\ UNCHANGED <<buffers, latest, frames, drops, handled, seen>>

\* Every buffer loses its leading messages older than expire_before.
EvictBefore(expire) ==
  /\ pc = "evict"
  /\ \E cut \in [Topics -> 0..MaxReads] :
       /\ \A t \in Topics :
            /\ cut[t] <= Len(buffers[t])
            /\ \A i \in 1..cut[t] : buffers[t][i] < expire
            /\ cut[t] < Len(buffers[t]) => ~(buffers[t][cut[t] + 1] < expire)
       /\ buffers' = [t \in Topics |-> SubSeq(buffers[t], cut[t] + 1, Len(buffers[t]))]
  /\ pc' = "read"
  /\ UNCHANGED <<latest, frames, drops, handled, seen>>

\* Mutants of EvictStale: a window of no eps, or of three.
EvictOldest == EvictBefore(latest)
EvictTooLate == EvictBefore(latest - 3 * Eps)

EvictStale == EvictBefore(latest - 2 * Eps)

EndFlush ==
  /\ pc = "flush"
  /\ ~Ready
  /\ pc' = "done"
  /\ UNCHANGED <<buffers, latest, frames, drops, handled, seen>>

Done == pc = "done" /\ UNCHANGED vars

Next ==
  \/ \E t \in Topics, ts \in Stamps : Read(t, ts)
  \/ EndOfBag
  \/ ExportFrame
  \/ DropFrame
  \/ EndDrain
  \/ EvictStale
  \/ EndFlush
  \/ Done

Spec == Init /\ [][Next]_vars

-----------------------------------------------------------------------------
TypeOK ==
  /\ pc \in {"read", "drain", "evict", "flush", "done"}
  /\ buffers \in [Topics -> Seq(Stamps)]
  /\ latest \in Stamps
  /\ frames \subseteq [master : Stamps, pick : [Others -> Stamps]]
  /\ drops \subseteq [master : Stamps, missing : SUBSET Others]
  /\ handled \in Seq(Stamps)
  /\ seen \in [Topics -> Seq(Stamps)]

\* Whatever the order of the stamps, a master message is decided once and in
\* reading order: eviction, which runs over the master's buffer too, takes
\* none, and after the final flush none is left.
NoMasterLost ==
  /\ handled \o buffers[Master] = seen[Master]
  /\ pc = "done" => handled = seen[Master]

\* In a bag read in stamp order, an exported frame holds for every topic a
\* message within eps of the master's stamp and none of the topic's messages
\* in the whole bag is nearer, although the resampler decided with a bounded
\* look-ahead and had forgotten older messages.
PicksNearest ==
  \A f \in frames, t \in Others :
    /\ \E i \in 1..Len(seen[t]) : seen[t][i] = f.pick[t]
    /\ Within(f.pick[t], f.master)
    /\ \A i \in 1..Len(seen[t]) : Dist(f.pick[t], f.master) <= Dist(seen[t][i], f.master)

\* In such a bag a frame is discarded only for a topic that has no message
\* nearer than eps in the whole bag.
DropsJustified ==
  \A d \in drops : \A t \in d.missing :
    \A i \in 1..Len(seen[t]) : Dist(seen[t][i], d.master) >= Eps

\* In such a bag, between two reads, no buffer reaches further back than two
\* eps: memory is bounded by the rate of the topics and not by the bag.
BoundedWindow ==
  pc = "read" =>
    \A t \in Topics : \A i \in 1..Len(buffers[t]) : buffers[t][i] >= latest - 2 * Eps

\* What the docstring of _drain_nearest_frames says: a frame waits for data
\* beyond master_ts + eps, which avoids premature drops. The code decides at
\* equality, before a message stamped exactly master_ts + eps may be read.
NoPrematureDrop ==
  \A d \in drops : \A t \in d.missing :
    \A i \in 1..Len(seen[t]) : ~Within(seen[t][i], d.master)
=============================================================================
