-------------------------- MODULE MCRetimingClient --------------------------
(***************************************************************************)
(* An application that makes every call of the retiming client.            *)
(***************************************************************************)
EXTENDS RetimingInv

MCSubjectNames == <<"a", "b">>
MCSegmentNames == [a |-> <<"hip", "foot">>, b |-> << >>]
MCSegmentParents == [a |-> [hip |-> "", foot |-> "hip"], b |-> << >>]

\* A server that falls silent only takes steps away from its client: no call is answered or
\* predicted otherwise.  What it does to calls that wait is seen with the bridges.
AlwaysSends == sending \/ now = 0
==============================================================================
