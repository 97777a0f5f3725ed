----------------------- MODULE SingleFileOutputProofs -----------------------
(* Proofs about SingleFileOutput, for any formats, runs and records. *)
EXTENDS SingleFileOutput, SequenceTheorems, TLAPS

\* The records of a run are a sequence; one more record extends it by one.
LEMMA RecordsType ==
  ASSUME NEW n \in Nat, NEW k \in Nat
  PROVE  /\ Records(n, k) \in Seq(Nat \X Nat)
         /\ Len(Records(n, k)) = k
         /\ DOMAIN Records(n, k) = 1..k
         /\ \A i \in 1..k : Records(n, k)[i] = <<n, i>>
<1>1. \A i \in 1..k : <<n, i>> \in Nat \X Nat
  OBVIOUS
<1>2. Records(n, k) \in [1..k -> Nat \X Nat]
  BY <1>1 DEF Records
<1>3. Records(n, k) \in Seq(Nat \X Nat)
  BY <1>2, SeqDef
<1>4. DOMAIN Records(n, k) = 1..k /\ \A i \in 1..k : Records(n, k)[i] = <<n, i>>
  BY DEF Records
<1>5. Len(Records(n, k)) = k
  BY <1>3, <1>4, LenProperties
<1>6. QED
  BY <1>3, <1>4, <1>5

\* One more record of a run extends its records.
LEMMA RecordsAppend ==
  ASSUME NEW n \in Nat, NEW k \in Nat
  PROVE  Append(Records(n, k), <<n, k + 1>>) = Records(n, k + 1)
<1> DEFINE a == Append(Records(n, k), <<n, k + 1>>)
           b == Records(n, k + 1)
<1>1. <<n, k + 1>> \in Nat \X Nat
  OBVIOUS
<1>2. /\ Records(n, k) \in Seq(Nat \X Nat) /\ Len(Records(n, k)) = k
      /\ \A i \in 1..k : Records(n, k)[i] = <<n, i>>
  BY RecordsType
<1>3. /\ a \in Seq(Nat \X Nat) /\ Len(a) = k + 1
      /\ \A i \in 1..k : a[i] = <<n, i>>
      /\ a[k + 1] = <<n, k + 1>>
  <2> HIDE DEF b
  <2> DEFINE r == Records(n, k)
  <2>1. /\ r \in Seq(Nat \X Nat) /\ Len(r) = k
        /\ \A i \in 1..k : r[i] = <<n, i>>
    BY <1>2
  <2> HIDE DEF r
  <2> DEFINE e == <<n, k + 1>>
  <2>2. e \in Nat \X Nat
    BY <1>1
  <2> HIDE DEF e
  <2>3. /\ Append(r, e) \in Seq(Nat \X Nat) /\ Len(Append(r, e)) = k + 1
        /\ \A i \in 1..k : Append(r, e)[i] = r[i]
        /\ Append(r, e)[k + 1] = e
    BY <2>1, <2>2, AppendProperties
  <2>4. QED
    BY <2>1, <2>3 DEF r, e
<1>4. /\ b \in Seq(Nat \X Nat) /\ Len(b) = k + 1
      /\ \A i \in 1..(k + 1) : b[i] = <<n, i>>
  <2>1. k + 1 \in Nat
    OBVIOUS
  <2>2. QED
    BY <2>1, RecordsType
<1>5. a = b
  <2> HIDE DEF a, b
  <2>1. \A i \in 1..(k + 1) : a[i] = b[i]
    <3>1. ASSUME NEW i \in 1..(k + 1) PROVE a[i] = b[i]
      <4>1. CASE i \in 1..k
        BY <1>3, <1>4, <4>1
      <4>2. CASE i = k + 1
        BY <1>3, <1>4, <4>2
      <4>3. QED
        BY <4>1, <4>2
    <3>2. QED
      BY <3>1
  <2>2. QED
    BY <1>3, <1>4, <2>1, SeqEqual
<1>6. QED
  BY <1>5

\* A file started over holds no record.
LEMMA RecordsNone == ASSUME NEW n \in Nat PROVE Records(n, 0) = <<>>
<1>1. Records(n, 0) \in Seq(Nat \X Nat) /\ Len(Records(n, 0)) = 0
  BY RecordsType
<1>2. QED
  BY <1>1, EmptySeq

-----------------------------------------------------------------------------
\* Opening for the next task leaves the records of the run written so far.
LEMMA OpenFile ==
  ASSUME OutputInv, Open
  PROVE  file' = [recs |-> Records(run, written), end |-> Emptied.end]
<1>1. CASE Fresh
  <2>1. file' = Emptied
    BY <1>1 DEF Open
  <2>2. written = 0
    BY <1>1 DEF Fresh, Open, OutputInv, CallShape, OutputTypeOK
  <2>3. QED
    BY <2>1, <2>2, RecordsNone DEF Emptied, OutputInv, OutputTypeOK
<1>2. CASE ~Fresh
  <2>1. written > 0
    BY <1>2 DEF Fresh, Open, OutputInv, CallShape, OutputTypeOK
  <2>2. file = [recs |-> Records(run, written), end |-> "closed"]
    BY <2>1 DEF Open, OutputInv, WholeBetweenCalls
  <2>3. file' \in Reopened
    BY <1>2 DEF Open
  <2>4. QED
    BY <2>2, <2>3 DEF Reopened, Emptied
<1>3. QED
  BY <1>1, <1>2

\* The record under way is the next one of the run.
LEMMA ExtendedRecords ==
  ASSUME OutputTypeOK, file.recs = Records(run, written)
  PROVE  Extended = Records(run, written + 1)
<1>1. run \in Nat /\ written \in Nat
  BY DEF OutputTypeOK
<1>2. Append(Records(run, written), <<run, written + 1>>) = Records(run, written + 1)
  BY <1>1, RecordsAppend
<1>3. QED
  BY <1>2 DEF Extended

\* A completed call leaves one record more in a closed file.
LEMMA CloseFile ==
  ASSUME OutputInv, Close
  PROVE  file' = [recs |-> Records(run, written + 1), end |-> "closed"]
<1>1. file = [recs |-> Records(run, written), end |-> Emptied.end]
  BY DEF OutputInv, CallShape, Close
<1>2. file.recs = Records(run, written) /\ file.end # "torn"
  BY <1>1 DEF Emptied
<1>3. Extended = Records(run, written + 1)
  BY <1>2, ExtendedRecords DEF OutputInv
<1>4. QED
  BY <1>2, <1>3 DEF Close

\* A worker that stops leaves the records it had, or in a call one more.
LEMMA LeftoverFile ==
  ASSUME OutputInv, status = "running", NEW f \in Leftovers
  PROVE  /\ f \in [recs : Seq(Nat \X Nat), end : {"closed", "open", "torn", "absent"}]
         /\ \/ f.recs = file.recs
            \/ worker = "opened" /\ written < queued /\ f.recs = Records(run, written + 1)
         /\ worker = "opened" => file.recs = Records(run, written)
         /\ worker # "opened" => f = file
<1>1. CASE worker # "opened"
  BY <1>1 DEF Leftovers, OutputInv, OutputTypeOK
<1>2. CASE worker = "opened"
  <2>1. file.recs = Records(run, written) /\ written < queued
    BY <1>2 DEF OutputInv, CallShape
  <2>2. Extended = Records(run, written + 1)
    BY <2>1, ExtendedRecords DEF OutputInv
  <2>3. run \in Nat /\ written + 1 \in Nat
    BY DEF OutputInv, OutputTypeOK
  <2>4. Records(run, written + 1) \in Seq(Nat \X Nat)
    BY <2>3, RecordsType
  <2>5. /\ file \in [recs : Seq(Nat \X Nat), end : {"closed", "open", "torn", "absent"}]
        /\ file = [recs |-> Records(run, written), end |-> file.end]
    BY <1>2, <2>1 DEF OutputInv, OutputTypeOK
  <2>6. \/ f = file
        \/ f = [recs |-> file.recs, end |-> "torn"]
        \/ f = [recs |-> Extended, end |-> "closed"]
        \/ f = [recs |-> Extended, end |-> "open"]
    BY <1>2, <2>5 DEF Leftovers
  <2>7. QED
    BY <1>2, <2>1, <2>2, <2>4, <2>5, <2>6
<1>3. QED
  BY <1>1, <1>2

-----------------------------------------------------------------------------
\* The invariant holds at first.
LEMMA InvInit == OutputInit => OutputInv
<1> SUFFICES ASSUME OutputInit PROVE OutputInv
  OBVIOUS
<1>1. file.recs = Records(0, 0)
  BY RecordsNone DEF OutputInit
<1>2. OneRun
  <2>1. 0 \in 0..run /\ 0 \in 0..MaxRecords
    BY OutputAssumption DEF OutputInit
  <2>2. QED
    BY <1>1, <2>1 DEF OneRun
<1>3. OutputTypeOK
  <2>1. <<>> \in Seq(Nat \X Nat)
    BY EmptySeq
  <2>2. file \in [recs : Seq(Nat \X Nat), end : {"closed", "open", "torn", "absent"}]
    BY <2>1 DEF OutputInit
  <2>3. tracked \in [{"exporter", "producer"} -> BOOLEAN]
    BY DEF OutputInit
  <2>4. started \in BOOLEAN /\ failed \in BOOLEAN
    BY DEF OutputInit
  <2>5. run \in Nat /\ queued \in Nat /\ written \in 0..queued
    BY DEF OutputInit
  <2>6. /\ fmt \in Formats
        /\ status \in {"off", "running", "returned", "raised"}
        /\ worker \in {"idle", "opened", "exited", "dead"}
    BY DEF OutputInit
  <2>7. QED
    BY <2>2, <2>3, <2>4, <2>5, <2>6 DEF OutputTypeOK
<1>4. QED
  BY <1>2, <1>3, OutputAssumption
     DEF OutputInit, OutputInv, CallShape, WholeBetweenCalls, RecordsKept

\* A new run keeps the file of the one before.
LEMMA InvStart == OutputInv /\ StartRun => OutputInv'
<1> SUFFICES ASSUME OutputInv, StartRun PROVE OutputInv'
  OBVIOUS
<1>1. OutputTypeOK'
  <2>1. tracked' \in [{"exporter", "producer"} -> BOOLEAN]
    BY DEF StartRun, OutputInv, OutputTypeOK
  <2>2. UNCHANGED <<fmt, file>> /\ run' \in Nat
    BY DEF StartRun, OutputInv, OutputTypeOK
  <2>3. /\ status' = "running" /\ worker' = "idle" /\ started' = FALSE
        /\ queued' = 0 /\ written' = 0 /\ failed' = FALSE
    BY DEF StartRun
  <2>4. started' \in BOOLEAN /\ failed' \in BOOLEAN
    BY <2>3
  <2>5. queued' \in Nat /\ written' \in 0..queued'
    BY <2>3
  <2>6. QED
    BY <2>1, <2>2, <2>3, <2>4, <2>5 DEF OutputInv, OutputTypeOK
<1>2. OneRun'
  <2>1. file' = file /\ run \in Nat /\ run' = run + 1
    BY DEF StartRun, OutputInv, OutputTypeOK
  <2>2. PICK n \in 0..run, k \in 0..MaxRecords : file.recs = Records(n, k)
    BY DEF OutputInv, OneRun
  <2>3. n \in 0..run' /\ file'.recs = Records(n, k)
    BY <2>1, <2>2
  <2>4. QED
    BY <2>3 DEF OneRun, Records
<1>3. CallShape' /\ WholeBetweenCalls' /\ RecordsKept'
  BY OutputAssumption
     DEF StartRun, OutputInv, OutputTypeOK, CallShape, WholeBetweenCalls, RecordsKept
<1>4. QED
  BY <1>1, <1>2, <1>3 DEF OutputInv

\* Opening and cutting the file.
LEMMA InvOpen == OutputInv /\ Open => OutputInv'
<1> SUFFICES ASSUME OutputInv, Open PROVE OutputInv'
  OBVIOUS
<1>1. file' = [recs |-> Records(run, written), end |-> Emptied.end]
  BY OpenFile
<1>2. /\ run \in Nat /\ written \in Nat /\ queued \in Nat /\ written < queued
      /\ queued <= MaxRecords /\ MaxRecords \in Nat
  BY OutputAssumption DEF OutputInv, OutputTypeOK, CallShape, Open
<1>3. Emptied.end \in {"open", "closed"} /\ Emptied'.end = Emptied.end
  BY DEF Emptied, Open
<1>4. file' \in [recs : Seq(Nat \X Nat), end : {"closed", "open", "torn", "absent"}]
  BY <1>1, <1>2, <1>3, RecordsType
<1>5. /\ worker' = "opened" /\ status' = "running" /\ started' \in BOOLEAN
      /\ UNCHANGED <<fmt, run, status, queued, written, failed, tracked>>
  BY DEF Open, OutputInv, OutputTypeOK
<1>6. OutputTypeOK'
  BY <1>4, <1>5 DEF OutputInv, OutputTypeOK
<1>7. file'.recs = Records(run', written')
  BY <1>1, <1>5 DEF Records
<1>8. OneRun' /\ RecordsKept'
  BY <1>2, <1>5, <1>7 DEF OneRun, RecordsKept, Records
<1>9. CallShape'
  <2>1. file' = [recs |-> Records(run, written), end |-> Emptied.end]'
    BY <1>1, <1>3, <1>5 DEF Records
  <2>2. fmt' = "json" => started'
    BY DEF Open
  <2>3. queued' <= MaxRecords /\ ~tracked'["exporter"] /\ written' < queued'
    BY <1>2, <1>5 DEF OutputInv, CallShape
  <2>4. QED
    BY <1>5, <2>1, <2>2, <2>3 DEF CallShape
<1>10. QED
  BY <1>5, <1>6, <1>8, <1>9 DEF OutputInv, WholeBetweenCalls

\* Writing the record.
LEMMA InvClose == OutputInv /\ Close => OutputInv'
<1> SUFFICES ASSUME OutputInv, Close PROVE OutputInv'
  OBVIOUS
<1>1. file' = [recs |-> Records(run, written + 1), end |-> "closed"]
  BY CloseFile
<1>2. /\ run \in Nat /\ written \in Nat /\ queued \in Nat /\ written < queued
      /\ queued <= MaxRecords /\ MaxRecords \in Nat
  BY OutputAssumption DEF OutputInv, OutputTypeOK, CallShape, Close
<1>3. file' \in [recs : Seq(Nat \X Nat), end : {"closed", "open", "torn", "absent"}]
  BY <1>1, <1>2, RecordsType
<1>4. /\ worker' = "idle" /\ status' = "running" /\ written' = written + 1
      /\ UNCHANGED <<fmt, run, status, started, queued, failed, tracked>>
  BY DEF Close
<1>5. OutputTypeOK'
  BY <1>2, <1>3, <1>4 DEF OutputInv, OutputTypeOK
<1>6. file' = [recs |-> Records(run', written'), end |-> "closed"]
  BY <1>1, <1>4
<1>7. OneRun' /\ RecordsKept'
  BY <1>2, <1>4, <1>6 DEF OneRun, RecordsKept, Records
<1>8. fmt = "json" => started
  BY DEF OutputInv, CallShape, Close
<1>9. CallShape'
  <2>1. fmt' = "json" => (started' <=> written' > 0)
    BY <1>2, <1>4, <1>8
  <2>2. queued' <= MaxRecords /\ ~tracked'["exporter"]
    BY <1>2, <1>4 DEF OutputInv, CallShape
  <2>3. QED
    BY <1>4, <2>1, <2>2 DEF CallShape
<1>10. QED
  BY <1>4, <1>5, <1>6, <1>7, <1>9 DEF OutputInv, WholeBetweenCalls, Records

\* A worker that fails or is terminated.
LEMMA InvStop ==
  ASSUME OutputInv, Fail \/ Abort
  PROVE  OutputInv'
<1>1. status = "running" /\ file' \in Leftovers /\ worker' = "dead"
  BY DEF Fail, Abort
<1>2. /\ run \in Nat /\ written \in Nat /\ queued \in Nat
      /\ queued <= MaxRecords /\ MaxRecords \in Nat
  BY OutputAssumption DEF OutputInv, OutputTypeOK, CallShape
<1>3. UNCHANGED <<fmt, run, started, queued, written, tracked>>
  BY DEF Fail, Abort
<1>4. /\ file' \in [recs : Seq(Nat \X Nat), end : {"closed", "open", "torn", "absent"}]
      /\ \/ file'.recs = file.recs
         \/ worker = "opened" /\ written < queued /\ file'.recs = Records(run, written + 1)
  BY <1>1, LeftoverFile
<1>5. OutputTypeOK'
  BY <1>1, <1>3, <1>4 DEF Fail, Abort, OutputInv, OutputTypeOK
<1>6. OneRun' /\ RecordsKept'
  <2>1. CASE file'.recs = file.recs
    BY <1>3, <2>1 DEF OutputInv, OneRun, RecordsKept, Records
  <2>2. CASE written < queued /\ file'.recs = Records(run, written + 1)
    <3>1. written + 1 \in 0..MaxRecords /\ run \in 0..run
      BY <1>2, <2>2
    <3>2. QED
      BY <1>3, <2>2, <3>1 DEF OneRun, RecordsKept, Records
  <2>3. QED
    BY <1>4, <2>1, <2>2
<1>7. CallShape'
  BY <1>1, <1>3 DEF OutputInv, CallShape, Fail, Abort
<1>8. QED
  BY <1>1, <1>5, <1>6, <1>7 DEF OutputInv, WholeBetweenCalls

\* Steps that leave the file alone; finalization finds nothing to close.
LEMMA InvRest ==
  ASSUME OutputInv, Enqueue \/ Exit \/ Return \/ UNCHANGED outputVars
  PROVE  OutputInv'
<1>1. UNCHANGED <<file, run, written, fmt>>
  BY DEF Enqueue, Exit, Return, Finalized, outputVars, OutputInv, CallShape
<1>2. OutputTypeOK'
  <2>1. CASE Enqueue
    BY <2>1 DEF Enqueue, OutputInv, OutputTypeOK
  <2>2. CASE Exit \/ Return \/ UNCHANGED outputVars
    BY <1>1, <2>2 DEF Exit, Return, outputVars, OutputInv, OutputTypeOK
  <2>3. QED
    BY <2>1, <2>2
<1>3. OneRun' /\ RecordsKept'
  BY <1>1 DEF OutputInv, OneRun, RecordsKept, Records
<1>4. WholeBetweenCalls'
  BY <1>1 DEF OutputInv, WholeBetweenCalls, Records, Enqueue, Exit, Return, outputVars
<1>5. CallShape'
  <2>1. CASE Enqueue
    BY <2>1, OutputAssumption DEF Enqueue, OutputInv, OutputTypeOK, CallShape, Records, Emptied
  <2>2. CASE Exit
    BY <2>2 DEF Exit, OutputInv, OutputTypeOK, CallShape
  <2>3. CASE Return
    BY <1>1, <2>3 DEF Return, OutputInv, OutputTypeOK, CallShape, WholeBetweenCalls, Records
  <2>4. CASE UNCHANGED outputVars
    BY <2>4 DEF outputVars, OutputInv, CallShape, Records, Emptied
  <2>5. QED
    BY <2>1, <2>2, <2>3, <2>4
<1>6. QED
  BY <1>2, <1>3, <1>4, <1>5 DEF OutputInv

\* Every step of the specification.
LEMMA InvNext == OutputInv /\ [OutputNext]_outputVars => OutputInv'
<1> SUFFICES ASSUME OutputInv, [OutputNext]_outputVars PROVE OutputInv'
  OBVIOUS
<1>1. CASE Open \/ Close \/ StartRun
  BY <1>1, InvStart, InvOpen, InvClose
<1>2. CASE Fail \/ Abort
  BY <1>2, InvStop
<1>3. CASE Enqueue \/ Exit \/ Return \/ UNCHANGED outputVars
  BY <1>3, InvRest
<1>4. QED
  BY <1>1, <1>2, <1>3 DEF OutputNext, Over

\* The inductive invariant: how many records the file holds follows from where
\* the worker is in its call, and the exporter's own set of paths stays empty.
THEOREM Invariance == OutputSpec => []OutputInv
<1>1. OutputInit => OutputInv
  BY InvInit
<1>2. OutputInv /\ [OutputNext]_outputVars => OutputInv'
  BY InvNext
<1>3. QED
  BY <1>1, <1>2, PTL DEF OutputSpec

\* Between two export calls the file is whole, for any number of runs.
THEOREM WholeFiles == OutputSpec => []WholeBetweenCalls
<1>1. OutputInv => WholeBetweenCalls
  BY DEF OutputInv
<1>2. QED
  BY <1>1, Invariance, PTL

\* No history of failures, terminations and runs mixes two runs in a file.
THEOREM RunsNotMixed == OutputSpec => []OneRun
<1>1. OutputInv => OneRun
  BY DEF OutputInv
<1>2. QED
  BY <1>1, Invariance, PTL

\* A stop at any point cuts at most the record under way.
THEOREM CompletedKept == OutputSpec => []RecordsKept
<1>1. OutputInv => RecordsKept
  BY DEF OutputInv
<1>2. QED
  BY <1>1, Invariance, PTL

\* A run without failed calls leaves every message of the topic in its file.
THEOREM CompleteFile == OutputSpec => []ReturnedComplete
<1>1. OutputInv => ReturnedComplete
  <2>1. SUFFICES ASSUME OutputInv, status = "returned", ~failed, queued > 0
                 PROVE  file = [recs |-> Records(run, queued), end |-> "closed"]
    BY DEF ReturnedComplete
  <2>2. worker = "exited" /\ written = queued
    BY <2>1 DEF OutputInv, CallShape
  <2>3. file = [recs |-> Records(run, written), end |-> "closed"]
    BY <2>1, <2>2 DEF OutputInv, CallShape
  <2>4. QED
    BY <2>2, <2>3
<1>2. QED
  BY <1>1, Invariance, PTL
=============================================================================
