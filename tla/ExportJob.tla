------------------------------ MODULE ExportJob ------------------------------
(***************************************************************************)
(* What one call of Exporter.run promises its caller: records of a bag     *)
(* are written to files, each at most once and each file in bag order;     *)
(* the call returns only when everything was written or a fault was        *)
(* posted; it raises only after a fault; nothing is written after it.      *)
(* Queues, processes and sentinels do not exist at this level.             *)
(***************************************************************************)
EXTENDS Naturals, Sequences

CONSTANT Records        \* what a bag is made of: [topic, file]

VARIABLES
  plan,      \* the records to export, in bag order
  written,   \* positions of plan whose record is in its file
  fault,     \* an exception or a user abort was posted
  outcome    \* "running", "returned", "raised" or "interrupted"

vars == <<plan, written, fault, outcome>>

Positions == 1..Len(plan)

EarlierInFile(p) == {q \in 1..(p - 1) : plan[q].file = plan[p].file}

Init ==
  /\ plan \in Seq(Records)
  /\ written = {}
  /\ fault = FALSE
  /\ outcome = "running"

Write(p) ==
  /\ outcome = "running"
  /\ p \notin written
  /\ EarlierInFile(p) \subseteq written
  /\ written' = written \cup {p}
  /\ UNCHANGED <<plan, fault, outcome>>

PostFault ==
  /\ fault' = TRUE
  /\ UNCHANGED <<plan, written, outcome>>

Return ==
  /\ outcome = "running"
  /\ fault \/ written = Positions
  /\ outcome' = "returned"
  /\ UNCHANGED <<plan, written, fault>>

Raise ==
  /\ outcome = "running"
  /\ fault
  /\ outcome' = "raised"
  /\ UNCHANGED <<plan, written, fault>>

Interrupt ==
  /\ outcome = "running"
  /\ outcome' = "interrupted"
  /\ UNCHANGED <<plan, written, fault>>

Next ==
  \/ \E p \in Positions : Write(p)
  \/ PostFault
  \/ Return
  \/ Raise
  \/ Interrupt

Spec == Init /\ [][Next]_vars
=============================================================================
