-------------------------- MODULE SingleFileOutput --------------------------
(***************************************************************************)
(* One output of a SINGLE_FILE routine (export_generic_single_file) over   *)
(* several runs of the exporter: the sequential worker that owns the file  *)
(* opens it, cuts it and writes a record, and may fail or be terminated    *)
(* between these steps. JSON is kept a closed object by _append_json_record *)
(* and a set of paths private to the worker process; YAML and CSV go by    *)
(* the index of the message. At the end run calls                          *)
(* _finalize_json_single_files.                                            *)
(*                                                                         *)
(* A file is the sequence of whole records in it, <<run, number>> each,    *)
(* and how it ends: "closed" (it loads as a whole), "open" (a JSON object  *)
(* without its brace), "torn" (part of a record) or "absent".              *)
(***************************************************************************)
EXTENDS Naturals, Sequences

CONSTANTS
  Formats,     \* among "json", "yaml", "csv"
  MaxRuns,     \* bound: runs that write to the path
  MaxRecords   \* bound: messages of the topic in a run

ASSUME OutputAssumption ==
  /\ Formats \subseteq {"json", "yaml", "csv"}
  /\ MaxRuns \in Nat /\ MaxRecords \in Nat

VARIABLES
  fmt,       \* the format of the topic
  file,      \* the file on disk
  run,       \* runs started
  status,    \* of the exporter: "off", "running", "returned" or "raised"
  worker,    \* the worker process: "idle", "opened", "exited" or "dead"
  started,   \* the path is in its _json_started_paths
  queued,    \* messages of the topic the producer enqueued in this run
  written,   \* export calls that returned in this run
  failed,    \* an export call raised in this run
  tracked    \* whose _single_file_json_paths holds the path

outputVars == <<fmt, file, run, status, worker, started, queued, written, failed, tracked>>

OutputInit ==
  /\ fmt \in Formats
  /\ file = [recs |-> <<>>, end |-> "absent"]
  /\ run = 0
  /\ status = "off"
  /\ worker = "exited"
  /\ started = FALSE
  /\ queued = 0
  /\ written = 0
  /\ failed = FALSE
  /\ tracked = [p \in {"exporter", "producer"} |-> FALSE]

-----------------------------------------------------------------------------
\* Mutant of StartRun: the started paths outlive the worker process.
StartRunKeepsPaths ==
  /\ status # "running" /\ run < MaxRuns
  /\ run' = run + 1
  /\ status' = "running"
  /\ worker' = "idle"
  /\ queued' = 0 /\ written' = 0 /\ failed' = FALSE
  /\ tracked' = [tracked EXCEPT !["producer"] = tracked["exporter"]]
  /\ UNCHANGED <<fmt, file, started>>

\* run forks a producer and workers: each starts with the exporter's memory.
StartRun ==
  /\ status # "running" /\ run < MaxRuns
  /\ run' = run + 1
  /\ status' = "running"
  /\ worker' = "idle"
  /\ started' = FALSE
  /\ queued' = 0 /\ written' = 0 /\ failed' = FALSE
  /\ tracked' = [tracked EXCEPT !["producer"] = tracked["exporter"]]
  /\ UNCHANGED <<fmt, file>>

\* _enqueue_export_task, in the producer's process.
Enqueue ==
  /\ status = "running" /\ worker # "exited"
  /\ queued < MaxRecords
  /\ queued' = queued + 1
  /\ tracked' = [tracked EXCEPT !["producer"] = @ \/ fmt = "json"]
  /\ UNCHANGED <<fmt, file, run, status, worker, started, written, failed>>

\* Mutant of Fresh: the first write is the one that finds no file.
FreshIfAbsent == file.end = "absent"

\* The call starts the file over: the process has not begun this JSON file,
\* or the message has index 0.
Fresh == IF fmt = "json" THEN ~started ELSE written = 0

Emptied == [recs |-> <<>>, end |-> IF fmt = "json" THEN "open" ELSE "closed"]

\* A file that is continued. JSON is cut at the last brace near its end; a
\* file that is not closed loses the end of its last record or, when no brace
\* is found, everything.
Reopened ==
  IF fmt # "json" THEN {file}
  ELSE IF file.end = "closed" THEN {[file EXCEPT !.end = "open"]}
  ELSE {Emptied, [recs |-> SubSeq(file.recs, 1, Len(file.recs) - 1), end |-> "torn"]}

\* Mutant of Open: every call opens with "w".
OpenAfresh ==
  /\ status = "running" /\ worker = "idle"
  /\ written < queued
  /\ worker' = "opened"
  /\ started' = (started \/ fmt = "json")
  /\ file' = Emptied
  /\ UNCHANGED <<fmt, run, status, queued, written, failed, tracked>>

\* The next task: open the file and cut it.
Open ==
  /\ status = "running" /\ worker = "idle"
  /\ written < queued
  /\ worker' = "opened"
  /\ started' = (started \/ fmt = "json")
  /\ file' \in IF Fresh THEN {Emptied} ELSE Reopened
  /\ UNCHANGED <<fmt, run, status, queued, written, failed, tracked>>

Extended == Append(file.recs, <<run, written + 1>>)

\* Mutant of Close: the brace follows the record with index max_index only.
CloseIfLast ==
  /\ status = "running" /\ worker = "opened"
  /\ file' = [recs |-> Extended,
              end |-> IF fmt = "json" /\ written + 1 < MaxRecords THEN "open" ELSE "closed"]
  /\ worker' = "idle"
  /\ written' = written + 1
  /\ UNCHANGED <<fmt, run, status, started, queued, failed, tracked>>

\* Write the record with what closes it; closing the file flushes it.
Close ==
  /\ status = "running" /\ worker = "opened"
  /\ file' = [recs |-> Extended, end |-> IF file.end = "torn" THEN "torn" ELSE "closed"]
  /\ worker' = "idle"
  /\ written' = written + 1
  /\ UNCHANGED <<fmt, run, status, started, queued, failed, tracked>>

\* What a worker that stops now leaves: the record was not flushed, in part,
\* without the brace, or as a whole.
Leftovers ==
  IF worker # "opened" THEN {file}
  ELSE {file, [file EXCEPT !.end = "torn"], [recs |-> Extended, end |-> "closed"]} \cup
       IF fmt = "json" THEN {[recs |-> Extended, end |-> "open"]} ELSE {}

\* The worker's call raises: it posts the exception and leaves.
Fail ==
  /\ status = "running"
  /\ \/ worker = "opened"
     \/ worker = "idle" /\ written < queued
  /\ worker' = "dead"
  /\ failed' = TRUE
  /\ file' \in Leftovers
  /\ UNCHANGED <<fmt, run, status, started, queued, written, tracked>>

\* The worker takes its sentinel, which follows all tasks of the topic.
Exit ==
  /\ status = "running" /\ worker = "idle"
  /\ written = queued
  /\ worker' = "exited"
  /\ UNCHANGED <<fmt, file, run, status, started, queued, written, failed, tracked>>

\* run sees an exception of some process or ^C and terminates the worker.
Abort ==
  /\ status = "running"
  /\ status' = "raised"
  /\ worker' = "dead"
  /\ file' \in Leftovers
  /\ UNCHANGED <<fmt, run, started, queued, written, failed, tracked>>

\* _finalize_json_single_files: a tracked file that does not end in a brace
\* gets one. The last whole record also ends in a brace.
Finalized ==
  IF tracked["exporter"] /\ file.end \in {"open", "torn"}
  THEN {file, [file EXCEPT !.end = IF @ = "open" THEN "closed" ELSE "torn"]}
  ELSE {file}

\* Every process is dead and run has seen no exception, which it may have
\* missed (ExportPipeline, FailureIsRaised).
Return ==
  /\ status = "running"
  /\ worker \in {"exited", "dead"}
  /\ status' = "returned"
  /\ file' \in Finalized
  /\ UNCHANGED <<fmt, run, worker, started, queued, written, failed, tracked>>

Over == run = MaxRuns /\ status # "running" /\ UNCHANGED outputVars

OutputNext ==
  \/ StartRun
  \/ Enqueue
  \/ Open
  \/ Close
  \/ Fail
  \/ Exit
  \/ Abort
  \/ Return
  \/ Over

OutputSpec == OutputInit /\ [][OutputNext]_outputVars

-----------------------------------------------------------------------------
OutputTypeOK ==
  /\ fmt \in Formats
  /\ file \in [recs : Seq(Nat \X Nat), end : {"closed", "open", "torn", "absent"}]
  /\ run \in Nat
  /\ status \in {"off", "running", "returned", "raised"}
  /\ worker \in {"idle", "opened", "exited", "dead"}
  /\ started \in BOOLEAN
  /\ queued \in Nat
  /\ written \in 0..queued
  /\ failed \in BOOLEAN
  /\ tracked \in [{"exporter", "producer"} -> BOOLEAN]

\* The first k records of run n.
Records(n, k) == [i \in 1..k |-> <<n, i>>]

\* Whatever an earlier run left behind, between two export calls the file is
\* complete and holds the records of this run, all and no others (the comment
\* on single-file JSON in export_generic_single_file).
WholeBetweenCalls ==
  status = "running" /\ worker \in {"idle", "exited"} /\ written > 0 =>
    file = [recs |-> Records(run, written), end |-> "closed"]

\* Failures, terminations and runs in any order never mix two runs in a file:
\* its whole records are the first ones of a single run, without a gap.
OneRun == \E n \in 0..run, k \in 0..MaxRecords : file.recs = Records(n, k)

\* A failure or termination at any point of a call keeps every record written
\* by the completed calls of the run; at most the one under way is cut.
RecordsKept ==
  written > 0 => \E k \in {written, written + 1} : file.recs = Records(run, k)

\* A run that returns without a failed call leaves a file that loads and has
\* every message of the topic, finalization included.
ReturnedComplete ==
  status = "returned" /\ ~failed /\ queued > 0 =>
    file = [recs |-> Records(run, queued), end |-> "closed"]

\* What the docstring of _append_json_record says: an export interrupted at
\* any point leaves a loadable object. Between the cut and the write it leaves
\* an object without its brace.
InterruptedLoadable ==
  status \in {"returned", "raised"} => file.end \in {"closed", "absent"}

\* What PATCHES.md says of finalization: single-file JSON outputs are tracked
\* for it. The producer tracks them in its own process; run's set stays empty.
FinalizeSeesOutputs ==
  status = "returned" /\ ~failed /\ fmt = "json" /\ queued > 0 => tracked["exporter"]

\* The inductive invariant.
CallShape ==
  /\ fmt = "json" /\ status = "running" /\ worker = "idle" => (started <=> written > 0)
  /\ status = "running" /\ worker = "opened" =>
       /\ written < queued
       /\ file = [recs |-> Records(run, written), end |-> Emptied.end]
       /\ fmt = "json" => started
  /\ status = "returned" /\ ~failed => worker = "exited"
  /\ status \in {"running", "returned"} /\ worker = "exited" => written = queued
  /\ status = "returned" /\ worker = "exited" /\ written > 0 =>
       file = [recs |-> Records(run, written), end |-> "closed"]
  /\ status = "running" /\ worker = "dead" => failed
  /\ queued <= MaxRecords
  /\ ~tracked["exporter"]

OutputInv == OutputTypeOK /\ CallShape /\ WholeBetweenCalls /\ OneRun /\ RecordsKept
=============================================================================
