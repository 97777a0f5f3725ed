-------------------------- MODULE ExportPipelineInv --------------------------
(***************************************************************************)
(* The inductive invariant of ExportPipeline: where every task is between  *)
(* the producer's put and its file, and what a closed queue implies.       *)
(***************************************************************************)
EXTENDS ExportPipeline

\* An exception or an abort waits to be raised, or ended the run.
Trouble ==
  \/ exceptions # <<>>
  \/ main \in {"terminate", "interrupt", "raised", "interrupted"}

InQueue(p, q) == \E i \in 1..Len(queue[q]) : queue[q][i] = p

\* A queue holds tasks of its own topics in bag order, then only sentinels.
ItemShape(q, i) ==
  /\ queue[q][i] # None =>
       queue[q][i] < cursor /\ Route(plan[queue[q][i]]) = q
  /\ queue[q][i] = None => producer # "produce"
  /\ \A j \in 1..Len(queue[q]) :
       i < j /\ queue[q][j] # None => 0 < queue[q][i] /\ queue[q][i] < queue[q][j]

QueueShape == \A q \in Queues : \A i \in 1..Len(queue[q]) : ItemShape(q, i)

\* A worker reads its own queue or the pool's, and works on a task of the
\* queue it reads.
WorkerShape ==
  \A w \in Workers :
    /\ source[w] \in {w, Pool}
    /\ worker[w] = "busy" =>
         /\ held[w] \in 1..(cursor - 1)
         /\ Route(plan[held[w]]) = source[w]

\* A task is in one place: a queue, a worker's hands or its file.
OnePlace ==
  /\ written \subseteq 1..(cursor - 1)
  /\ \A q \in Queues : \A p \in 1..Len(plan) : InQueue(p, q) =>
       /\ p \notin written
       /\ \A w \in Workers : worker[w] = "busy" => held[w] # p
  /\ \A w \in Workers : worker[w] = "busy" =>
       /\ held[w] \notin written
       /\ \A v \in Workers : worker[v] = "busy" /\ held[v] = held[w] => v = w

\* The overwrite check keeps the files of MULTI_FILE topics apart.
FilesApart ==
  \A p, r \in 1..(cursor - 1) :
    plan[p].topic \in Multi /\ plan[r].file = plan[p].file => r = p

\* While the worker of a sequential topic runs, every earlier task of the
\* topic is written, in its hands or queued behind them.
SequentialOrder ==
  \A t \in Single :
    /\ worker[t] \in {"get", "busy"} =>
         \A p \in 1..(cursor - 1) : plan[p].topic = t =>
           \/ p \in written
           \/ worker[t] = "busy" /\ held[t] = p
           \/ InQueue(p, t)
    /\ worker[t] = "busy" /\ source[t] = t =>
         \A p \in 1..Len(plan) : InQueue(p, t) => held[t] < p

\* Who passed a sentinel left no task in the queue it closed.
Closed ==
  /\ \A t \in Single : source[t] = Pool =>
       /\ producer # "produce"
       /\ \A p \in 1..Len(plan) : ~InQueue(p, t)
  /\ ~Trouble => \A w \in Workers : worker[w] \in {"exit", "dead"} =>
       /\ source[w] = Pool
       /\ producer # "produce"
       /\ \A p \in 1..Len(plan) : ~InQueue(p, Pool)

\* Without trouble nothing the producer enqueued is lost, and it enqueues all.
Accounted ==
  ~Trouble =>
    /\ producer # "produce" => cursor = Len(plan) + 1
    /\ \A p \in 1..(cursor - 1) :
         \/ p \in written
         \/ \E w \in Workers : worker[w] = "busy" /\ held[w] = p
         \/ InQueue(p, Route(plan[p]))

MainWaits == main \in {"finish", "join", "returned", "raised", "interrupted"} => AllDead

\* Every export is counted or has its token in progress_queue, behind which only
\* the end can stand; the monitor dies of the end, when nothing stands before it.
Ended == main \in {"join", "returned"}
TokensAccounted ==
  /\ \A i \in 1..Len(progress) : progress[i] = None => Ended /\ i = Len(progress)
  /\ monitor = "dead" => Ended /\ progress = <<>>
  /\ main = "returned" => monitor = "dead"
  /\ Ended /\ monitor = "counting" => progress # <<>> /\ progress[Len(progress)] = None
  /\ IF Ended /\ monitor = "counting"
       THEN done + Len(progress) = Cardinality(written) + 1
       ELSE done + Len(progress) = Cardinality(written)

IInv ==
  /\ TypeOK
  /\ QueueShape
  /\ WorkerShape
  /\ OnePlace
  /\ FilesApart
  /\ SequentialOrder
  /\ FileOrder
  /\ Closed
  /\ Accounted
  /\ MainWaits
  /\ TokensAccounted
=============================================================================
