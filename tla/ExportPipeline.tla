--------------------------- MODULE ExportPipeline ---------------------------
(***************************************************************************)
(* The multiprocessing core of ros2_unbag, Exporter.run: one producer      *)
(* process turns bag messages into export tasks, a pool of workers serves  *)
(* the parallel queue, one dedicated worker serves the queue of every      *)
(* SINGLE_FILE topic and falls back to the parallel queue when its own is  *)
(* closed, a monitor thread counts progress tokens and the calling thread  *)
(* polls the exception queue.                                              *)
(*                                                                         *)
(* A task is the position in the bag (plan) of the message it exports; 0   *)
(* is the None that closes a queue. mp.Queue is a FIFO with a capacity:    *)
(* parallel_q and the per-topic queues have one writer, the producer, and  *)
(* a process that ends by itself first flushes what it put.                *)
(***************************************************************************)
EXTENDS Naturals, Sequences, FiniteSets

CONSTANTS
  Multi,        \* topics exported by a MULTI_FILE routine
  Single,       \* topics exported by a SINGLE_FILE routine (sequential_topics)
  Names,        \* paths the naming template of a MULTI_FILE topic can yield
  ParWorkers,   \* the workers of the pool (num_parallel_workers of them)
  Pool,         \* the name of parallel_q
  QueueSize,    \* maxsize of every task queue
  MaxTasks      \* bound: messages in the bag

\* __init__ refuses a constant name for a MULTI_FILE topic and a varying one
\* for a SINGLE_FILE topic, whose file is named here by the topic itself.
ASSUME PipelineAssumption ==
  /\ IsFiniteSet(ParWorkers) /\ ParWorkers # {}
  /\ Multi \cap Single = {} /\ Names \cap Single = {}
  /\ ParWorkers \cap Single = {} /\ Pool \notin Single
  /\ QueueSize \in Nat \ {0}
  /\ MaxTasks \in Nat

Workers == ParWorkers \cup Single   \* a sequential worker is named by its topic
Queues  == Single \cup {Pool}

Messages == [topic : Multi, file : Names]
              \cup {[topic |-> t, file |-> t] : t \in Single}

Plans == UNION {[1..n -> Messages] : n \in 0..MaxTasks}

None == 0

VARIABLES
  plan,        \* the messages of the configured topics, in reading order
  cursor,      \* the producer's next message
  producer,    \* "produce", "pool", "topics" (sending sentinels) or "dead"
  poolSent,    \* sentinels put for the pool so far
  unsignalled, \* sequential topics whose pair of sentinels is not complete
  signalling,  \* the topic between the two puts of its pair, or Pool
  queue,       \* the task queues
  worker,      \* "get", "busy", "exit" or "dead", for each worker
  source,      \* the queue each worker reads
  held,        \* the task each worker processes, or None
  written,     \* tasks whose export handler returned
  exceptions,  \* exception_queue: who posted
  main,        \* where the thread that called run is
  progress,    \* progress_queue: 1 for a token, None for the end
  done,        \* what the monitor has counted
  monitor,     \* "counting" or "dead"
  aborted      \* abort_export was called

prodVars == <<cursor, producer, poolSent, unsignalled, signalling>>
workVars == <<worker, source, held>>
monVars  == <<progress, done, monitor>>
vars == <<plan, prodVars, queue, workVars, written, exceptions, main, monVars,
          aborted>>

-----------------------------------------------------------------------------
Files == Names \cup Single

TypeOK ==
  /\ plan \in Plans
  /\ cursor \in 1..(Len(plan) + 1)
  /\ producer \in {"produce", "pool", "topics", "dead"}
  /\ poolSent \in Nat
  /\ unsignalled \subseteq Single
  /\ signalling \in Queues
  /\ queue \in [Queues -> Seq(0..Len(plan))]
  /\ worker \in [Workers -> {"get", "busy", "exit", "dead"}]
  /\ source \in [Workers -> Queues]
  /\ held \in [Workers -> 0..Len(plan)]
  /\ written \subseteq 1..Len(plan)
  /\ exceptions \in Seq({"producer", "worker", "user"})
  /\ main \in {"poll", "alive", "terminate", "interrupt", "finish", "join",
               "returned", "raised", "interrupted"}
  /\ progress \in Seq({1, None})
  /\ done \in Nat
  /\ monitor \in {"counting", "dead"}
  /\ aborted \in BOOLEAN

Init ==
  /\ plan \in Plans
  /\ cursor = 1
  /\ producer = "produce"
  /\ poolSent = 0
  /\ unsignalled = Single
  /\ signalling = Pool
  /\ queue = [q \in Queues |-> <<>>]
  /\ worker = [w \in Workers |-> "get"]
  /\ source = [w \in Workers |-> IF w \in Single THEN w ELSE Pool]
  /\ held = [w \in Workers |-> None]
  /\ written = {}
  /\ exceptions = <<>>
  /\ main = "poll"
  /\ progress = <<>>
  /\ done = 0
  /\ monitor = "counting"
  /\ aborted = FALSE

-----------------------------------------------------------------------------
(* The producer process. *)

\* put blocks while the queue holds maxsize items.
Put(q, item) ==
  /\ Len(queue[q]) < QueueSize
  /\ queue' = [queue EXCEPT ![q] = Append(@, item)]

\* Mutant of Route: every task goes to the pool.
RouteToPool(m) == Pool

Route(m) == IF m.topic \in Single THEN m.topic ELSE Pool

EnqueuedFiles == {plan[p].file : p \in 1..(cursor - 1)}

\* Mutant of Overwrites: the check is missing.
NeverOverwrites(m) == FALSE

\* A MULTI_FILE topic whose name did not change would overwrite a file.
Overwrites(m) == m.topic \in Multi /\ m.file \in EnqueuedFiles

EnqueueTask ==
  /\ producer = "produce"
  /\ cursor <= Len(plan)
  /\ ~Overwrites(plan[cursor])
  /\ Put(Route(plan[cursor]), cursor)
  /\ cursor' = cursor + 1
  /\ UNCHANGED <<plan, producer, poolSent, unsignalled, signalling, workVars,
                 written, exceptions, main, monVars, aborted>>

EndOfBag ==
  /\ producer = "produce"
  /\ cursor = Len(plan) + 1
  /\ producer' = "pool"
  /\ UNCHANGED <<plan, cursor, poolSent, unsignalled, signalling, queue,
                 workVars, written, exceptions, main, monVars, aborted>>

\* The overwrite check, or (any time) reading or building a task, raises: post
\* and go on to close the queues.
ProducerFails ==
  /\ producer = "produce"
  /\ exceptions' = Append(exceptions, "producer")
  /\ producer' = "pool"
  /\ UNCHANGED <<plan, cursor, poolSent, unsignalled, signalling, queue,
                 workVars, written, main, monVars, aborted>>

OverwriteRaises ==
  /\ cursor <= Len(plan)
  /\ Overwrites(plan[cursor])
  /\ ProducerFails

SignalPool ==
  /\ producer = "pool"
  /\ poolSent < Cardinality(ParWorkers)
  /\ Put(Pool, None)
  /\ poolSent' = poolSent + 1
  /\ UNCHANGED <<plan, cursor, producer, unsignalled, signalling, workVars,
                 written, exceptions, main, monVars, aborted>>

PoolSignalled ==
  /\ producer = "pool"
  /\ poolSent = Cardinality(ParWorkers)
  /\ producer' = "topics"
  /\ UNCHANGED <<plan, cursor, poolSent, unsignalled, signalling, queue,
                 workVars, written, exceptions, main, monVars, aborted>>

\* Mutant of SignalFallback: no sentinel for the worker that joins the pool.
SkipFallback(t) ==
  /\ producer = "topics"
  /\ signalling = Pool
  /\ t \in unsignalled
  /\ signalling' = t
  /\ UNCHANGED <<plan, cursor, producer, poolSent, unsignalled, queue, workVars,
                 written, exceptions, main, monVars, aborted>>

\* For each sequential topic, first one more sentinel for the pool queue ...
SignalFallback(t) ==
  /\ producer = "topics"
  /\ signalling = Pool
  /\ t \in unsignalled
  /\ Put(Pool, None)
  /\ signalling' = t
  /\ UNCHANGED <<plan, cursor, producer, poolSent, unsignalled, workVars,
                 written, exceptions, main, monVars, aborted>>

\* ... then the one that closes the topic's own queue.
SignalTopic ==
  /\ producer = "topics"
  /\ signalling # Pool
  /\ Put(signalling, None)
  /\ unsignalled' = unsignalled \ {signalling}
  /\ signalling' = Pool
  /\ UNCHANGED <<plan, cursor, producer, poolSent, workVars, written,
                 exceptions, main, monVars, aborted>>

ProducerExits ==
  /\ producer = "topics"
  /\ signalling = Pool
  /\ unsignalled = {}
  /\ producer' = "dead"
  /\ UNCHANGED <<plan, cursor, poolSent, unsignalled, signalling, queue,
                 workVars, written, exceptions, main, monVars, aborted>>

Produce ==
  \/ EnqueueTask
  \/ EndOfBag
  \/ OverwriteRaises
  \/ SignalPool
  \/ PoolSignalled
  \/ \E t \in Single : SignalFallback(t)
  \/ SignalTopic
  \/ ProducerExits

-----------------------------------------------------------------------------
(* The workers. *)

Get(w, item) ==
  /\ worker[w] = "get"
  /\ queue[source[w]] # <<>>
  /\ Head(queue[source[w]]) = item
  /\ queue' = [queue EXCEPT ![source[w]] = Tail(@)]

TakeTask(w) ==
  \E p \in 1..Len(plan) :
    /\ Get(w, p)
    /\ held' = [held EXCEPT ![w] = p]
    /\ worker' = [worker EXCEPT ![w] = "busy"]
    /\ UNCHANGED <<plan, prodVars, source, written, exceptions, main, monVars,
                   aborted>>

\* A closed queue: a sequential worker joins the pool, a pool worker ends.
FallBack(w) ==
  /\ source[w] # Pool
  /\ Get(w, None)
  /\ source' = [source EXCEPT ![w] = Pool]
  /\ UNCHANGED <<plan, prodVars, worker, held, written, exceptions, main,
                 monVars, aborted>>

TakeSentinel(w) ==
  /\ source[w] = Pool
  /\ Get(w, None)
  /\ worker' = [worker EXCEPT ![w] = "exit"]
  /\ UNCHANGED <<plan, prodVars, source, held, written, exceptions, main,
                 monVars, aborted>>

\* Processors and the export handler succeed.
Export(w) ==
  /\ worker[w] = "busy"
  /\ written' = written \cup {held[w]}
  /\ progress' = Append(progress, 1)
  /\ held' = [held EXCEPT ![w] = None]
  /\ worker' = [worker EXCEPT ![w] = "get"]
  /\ UNCHANGED <<plan, prodVars, queue, source, exceptions, main, done,
                 monitor, aborted>>

\* Mutants of ExportRaises: the worker goes on with the next task; the worker
\* leaves without posting.
ExportRaisesAndGoesOn(w) ==
  /\ worker[w] = "busy"
  /\ exceptions' = Append(exceptions, "worker")
  /\ held' = [held EXCEPT ![w] = None]
  /\ worker' = [worker EXCEPT ![w] = "get"]
  /\ UNCHANGED <<plan, prodVars, queue, source, written, main, monVars,
                 aborted>>

ExportRaisesSilently(w) ==
  /\ worker[w] = "busy"
  /\ held' = [held EXCEPT ![w] = None]
  /\ worker' = [worker EXCEPT ![w] = "exit"]
  /\ UNCHANGED <<plan, prodVars, queue, source, written, exceptions, main,
                 monVars, aborted>>

\* One of them raises: post and leave the loop.
ExportRaises(w) ==
  /\ worker[w] = "busy"
  /\ exceptions' = Append(exceptions, "worker")
  /\ held' = [held EXCEPT ![w] = None]
  /\ worker' = [worker EXCEPT ![w] = "exit"]
  /\ UNCHANGED <<plan, prodVars, queue, source, written, main, monVars,
                 aborted>>

WorkerExits(w) ==
  /\ worker[w] = "exit"
  /\ worker' = [worker EXCEPT ![w] = "dead"]
  /\ UNCHANGED <<plan, prodVars, queue, source, held, written, exceptions,
                 main, monVars, aborted>>

Work(w) ==
  \/ TakeTask(w)
  \/ FallBack(w)
  \/ TakeSentinel(w)
  \/ Export(w)
  \/ WorkerExits(w)

-----------------------------------------------------------------------------
(* The thread that called run. *)

AllDead == producer = "dead" /\ \A w \in Workers : worker[w] = "dead"

PollEmpty ==
  /\ main = "poll"
  /\ exceptions = <<>>
  /\ main' = "alive"
  /\ UNCHANGED <<plan, prodVars, queue, workVars, written, exceptions,
                 monVars, aborted>>

PollException ==
  /\ main = "poll"
  /\ exceptions # <<>>
  /\ exceptions' = Tail(exceptions)
  /\ main' = "terminate"
  /\ UNCHANGED <<plan, prodVars, queue, workVars, written, monVars, aborted>>

\* Mutant of CheckAlive: only the producer is tested.
CheckProducerAlive ==
  /\ main = "alive"
  /\ main' = IF producer = "dead" THEN "finish" ELSE "poll"
  /\ UNCHANGED <<plan, prodVars, queue, workVars, written, exceptions,
                 monVars, aborted>>

\* Death is final, so testing the processes one by one is testing them at once.
CheckAlive ==
  /\ main = "alive"
  /\ main' = IF AllDead THEN "finish" ELSE "poll"
  /\ UNCHANGED <<plan, prodVars, queue, workVars, written, exceptions,
                 monVars, aborted>>

KeyboardInterrupt ==
  /\ main \in {"poll", "alive"}
  /\ main' = "interrupt"
  /\ UNCHANGED <<plan, prodVars, queue, workVars, written, exceptions,
                 monVars, aborted>>

\* terminate() is SIGTERM: the processes run on until it reaches them.
KillProducer ==
  /\ main \in {"terminate", "interrupt"}
  /\ producer # "dead"
  /\ producer' = "dead"
  /\ UNCHANGED <<plan, cursor, poolSent, unsignalled, signalling, queue,
                 workVars, written, exceptions, main, monVars, aborted>>

KillWorker(w) ==
  /\ main \in {"terminate", "interrupt"}
  /\ worker[w] # "dead"
  /\ worker' = [worker EXCEPT ![w] = "dead"]
  /\ held' = [held EXCEPT ![w] = None]
  /\ UNCHANGED <<plan, prodVars, queue, source, written, exceptions, main,
                 monVars, aborted>>

\* Mutant of JoinKilled: the killed processes are not joined.
RaiseAtOnce ==
  /\ main \in {"terminate", "interrupt"}
  /\ main' = IF main = "terminate" THEN "raised" ELSE "interrupted"
  /\ UNCHANGED <<plan, prodVars, queue, workVars, written, exceptions,
                 monVars, aborted>>

JoinKilled ==
  /\ main \in {"terminate", "interrupt"}
  /\ AllDead
  /\ main' = IF main = "terminate" THEN "raised" ELSE "interrupted"
  /\ UNCHANGED <<plan, prodVars, queue, workVars, written, exceptions,
                 monVars, aborted>>

\* _finalize_json_single_files changes nothing: _single_file_json_paths was
\* filled in the forked producer, the set of this process is empty.
Finish ==
  /\ main = "finish"
  /\ progress' = Append(progress, None)
  /\ main' = "join"
  /\ UNCHANGED <<plan, prodVars, queue, workVars, written, exceptions, done,
                 monitor, aborted>>

\* Mutant of JoinMonitor: the monitor is not joined.
ReturnAtOnce ==
  /\ main = "join"
  /\ main' = "returned"
  /\ UNCHANGED <<plan, prodVars, queue, workVars, written, exceptions,
                 monVars, aborted>>

JoinMonitor ==
  /\ main = "join"
  /\ monitor = "dead"
  /\ main' = "returned"
  /\ UNCHANGED <<plan, prodVars, queue, workVars, written, exceptions,
                 monVars, aborted>>

Main ==
  \/ PollEmpty
  \/ PollException
  \/ CheckAlive
  \/ JoinKilled
  \/ Finish
  \/ JoinMonitor

Kill == KillProducer \/ \E w \in Workers : KillWorker(w)

-----------------------------------------------------------------------------
(* The monitor thread and the user's thread. *)

CountToken ==
  /\ monitor = "counting"
  /\ progress # <<>>
  /\ progress' = Tail(progress)
  /\ IF Head(progress) = None
       THEN monitor' = "dead" /\ UNCHANGED done
       ELSE done' = done + 1 /\ UNCHANGED monitor
  /\ UNCHANGED <<plan, prodVars, queue, workVars, written, exceptions, main,
                 aborted>>

AbortExport ==
  /\ ~aborted
  /\ aborted' = TRUE
  /\ exceptions' = Append(exceptions, "user")
  /\ UNCHANGED <<plan, prodVars, queue, workVars, written, main, monVars>>

RunOver == main \in {"returned", "raised", "interrupted"}

\* After run nothing has to happen any more.
Over == RunOver /\ UNCHANGED vars

Next ==
  \/ Produce
  \/ ProducerFails
  \/ \E w \in Workers : Work(w) \/ ExportRaises(w)
  \/ Main
  \/ KeyboardInterrupt
  \/ Kill
  \/ CountToken
  \/ AbortExport
  \/ Over

Spec == Init /\ [][Next]_vars

\* The operating system schedules every process and thread and delivers
\* signals; handlers return. Nothing forces an exception, an abort or ^C.
Fairness ==
  /\ WF_vars(Produce)
  /\ \A w \in Workers : WF_vars(Work(w))
  /\ WF_vars(Main)
  /\ WF_vars(Kill)
  /\ WF_vars(CountToken)

FairSpec == Spec /\ Fairness

-----------------------------------------------------------------------------
(* What the pipeline is for. *)

\* No two workers work on one file at a time, and a SINGLE_FILE topic is only
\* ever processed by its dedicated worker: the append in default.py seeks back
\* in the file and keeps per-process state, which is safe only then.
FileOwner ==
  \A w \in Workers : worker[w] = "busy" =>
    /\ plan[held[w]].topic \in Single => plan[held[w]].topic = w
    /\ \A v \in Workers \ {w} :
         worker[v] = "busy" => plan[held[v]].file # plan[held[w]].file

\* Every file holds a gapless prefix of its records in bag order, whatever
\* failed, was aborted or was killed.
FileOrder ==
  \A p \in written : \A q \in 1..(p - 1) :
    plan[q].file = plan[p].file => q \in written

\* When run returns and the exception queue is empty, every message was
\* exported: no task stayed behind a sentinel, in a queue or with a worker.
NormalReturnIsComplete ==
  main = "returned" /\ exceptions = <<>> => written = 1..Len(plan)

\* When run returns, the progress callback has seen every export.
MonitorCountsAll == main = "returned" => done = Cardinality(written)

\* Once run is over, however it ended, no process of it writes any more.
NoWriteAfterRun == [][RunOver => written' = written]_vars

\* run always ends, for every capacity of the queues: no worker waits for a
\* sentinel that is not coming and the producer is not stuck behind a queue
\* that nobody reads, unless an exception is there to end it.
Termination == <>RunOver

\* The contract of run that ExportJob states.
Job == INSTANCE ExportJob WITH
  Records <- Messages,
  outcome <- IF RunOver THEN main ELSE "running",
  fault   <- exceptions # <<>> \/ main \in {"terminate", "raised"}

ImplementsJob == Job!Spec

\* What the docstring of run says: RuntimeError if an exception occurs in a
\* worker or the producer. The code tests the queue and the processes at
\* different times, so the last one to fail may die in between.
FailureIsRaised ==
  main = "returned" =>
    \A i \in 1..Len(exceptions) : exceptions[i] = "user"
=============================================================================
