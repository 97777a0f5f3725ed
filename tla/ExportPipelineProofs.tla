------------------------ MODULE ExportPipelineProofs ------------------------
(***************************************************************************)
(* Proofs about ExportPipeline, for any topics, pool size, queue capacity  *)
(* and bag: the inductive invariant, and what follows from it.             *)
(***************************************************************************)
EXTENDS ExportPipelineInv, SequenceTheorems, FiniteSetTheorems, TLAPS

USE DEF None

\* A bag is a sequence of messages.
LEMMA PlanType ==
  ASSUME plan \in Plans
  PROVE  /\ plan \in Seq(Messages)
         /\ Len(plan) \in Nat
         /\ \A p \in 1..Len(plan) : plan[p] \in Messages
<1>1. PICK n \in 0..MaxTasks : plan \in [1..n -> Messages]
  BY DEF Plans
<1>2. n \in Nat
  BY <1>1, PipelineAssumption DEF PipelineAssumption
<1>3. plan \in Seq(Messages)
  BY <1>1, <1>2, SeqDef
<1>4. Len(plan) = n
  BY <1>1, <1>2, <1>3
<1>5. QED
  BY <1>1, <1>2, <1>3, <1>4

\* A task goes to the queue of its topic, or to the pool's.
LEMMA RouteType ==
  ASSUME plan \in Plans, NEW p \in 1..Len(plan)
  PROVE  /\ Route(plan[p]) \in Queues
         /\ plan[p].topic \in Multi => Route(plan[p]) = Pool /\ plan[p].file \in Names
         /\ plan[p].topic \in Single =>
              Route(plan[p]) = plan[p].topic /\ plan[p].file = plan[p].topic
         /\ plan[p].topic \in Multi \/ plan[p].topic \in Single
<1>1. plan[p] \in Messages
  BY PlanType
<1>2. QED
  BY <1>1, PipelineAssumption DEF PipelineAssumption, Messages, Route, Queues

\* What put does to the queues.
LEMMA PutEffect ==
  ASSUME TypeOK, NEW q \in Queues, NEW item \in 0..Len(plan), Put(q, item)
  PROVE  /\ queue' \in [Queues -> Seq(0..Len(plan))]
         /\ \A r \in Queues \ {q} : queue'[r] = queue[r]
         /\ Len(queue[q]) \in Nat
         /\ Len(queue'[q]) = Len(queue[q]) + 1
         /\ \A i \in 1..Len(queue[q]) : queue'[q][i] = queue[q][i]
         /\ queue'[q][Len(queue[q]) + 1] = item
<1>1. /\ queue[q] \in Seq(0..Len(plan))
      /\ queue' = [queue EXCEPT ![q] = Append(queue[q], item)]
  BY DEF TypeOK, Put
<1>2. queue'[q] = Append(queue[q], item)
  BY <1>1 DEF TypeOK
<1>3. QED
  BY <1>1, <1>2, AppendProperties DEF TypeOK

\* What get does to the queues: the first item leaves.
LEMMA GetEffect ==
  ASSUME TypeOK, NEW w \in Workers, NEW item, Get(w, item)
  PROVE  /\ queue' \in [Queues -> Seq(0..Len(plan))]
         /\ \A r \in Queues \ {source[w]} : queue'[r] = queue[r]
         /\ source[w] \in Queues
         /\ Len(queue[source[w]]) \in Nat \ {0}
         /\ Len(queue'[source[w]]) = Len(queue[source[w]]) - 1
         /\ \A i \in 1..Len(queue'[source[w]]) :
              queue'[source[w]][i] = queue[source[w]][i + 1]
         /\ queue[source[w]][1] = item
<1> DEFINE q == source[w]
<1>1. /\ q \in Queues
      /\ queue[q] \in Seq(0..Len(plan))
      /\ queue[q] # <<>>
      /\ Head(queue[q]) = item
      /\ queue' = [queue EXCEPT ![q] = Tail(queue[q])]
  BY DEF TypeOK, Get
<1>2. queue'[q] = Tail(queue[q])
  BY <1>1 DEF TypeOK
<1>3. QED
  BY <1>1, <1>2, HeadTailProperties, EmptySeq, LenProperties DEF TypeOK

-----------------------------------------------------------------------------
\* Type correctness.
LEMMA TypeInit == Init => TypeOK
<1> SUFFICES ASSUME Init PROVE TypeOK
  OBVIOUS
<1>1. Len(plan) \in Nat
  BY PlanType DEF Init
<1>2. queue \in [Queues -> Seq(0..Len(plan))]
  BY DEF Init
<1>3. source \in [Workers -> Queues]
  BY DEF Init, Queues
<1>4. worker \in [Workers -> {"get", "busy", "exit", "dead"}]
  BY DEF Init
<1>5. held \in [Workers -> 0..Len(plan)]
  BY <1>1 DEF Init
<1>6. exceptions \in Seq({"producer", "worker", "user"}) /\ progress \in Seq({1, None})
  BY DEF Init
<1>7. QED
  <2>1. /\ plan \in Plans
        /\ cursor \in 1..(Len(plan) + 1)
        /\ signalling \in Queues
        /\ unsignalled \subseteq Single
        /\ written \subseteq 1..Len(plan)
    BY <1>1 DEF Init, Queues
  <2>2. /\ producer \in {"produce", "pool", "topics", "dead"}
        /\ main \in {"poll", "alive", "terminate", "interrupt", "finish", "join",
                     "returned", "raised", "interrupted"}
        /\ monitor \in {"counting", "dead"}
        /\ poolSent \in Nat /\ done \in Nat /\ aborted \in BOOLEAN
    BY DEF Init
  <2>3. QED
    BY <1>2, <1>3, <1>4, <1>5, <1>6, <2>1, <2>2 DEF TypeOK

LEMMA TypeStep == TypeOK /\ WorkerShape /\ [Next]_vars => TypeOK'
<1> SUFFICES ASSUME TypeOK, WorkerShape, [Next]_vars PROVE TypeOK'
  OBVIOUS
<1> USE PlanType DEF TypeOK
<1>a. Pool \in Queues /\ Single \subseteq Queues /\ Single \subseteq Workers
  BY DEF Queues, Workers
<1>1. CASE EnqueueTask
  <2>1. Route(plan[cursor]) \in Queues /\ cursor \in 0..Len(plan)
    BY <1>1, RouteType DEF EnqueueTask
  <2>2. queue' \in [Queues -> Seq(0..Len(plan))]
    BY <1>1, <2>1, PutEffect DEF EnqueueTask
  <2>3. QED
    BY <1>1, <2>2 DEF EnqueueTask, workVars, monVars
<1>2. CASE EndOfBag
  BY <1>2 DEF EndOfBag, workVars, monVars
<1>3. CASE ProducerFails
  BY <1>3, AppendProperties DEF ProducerFails, workVars, monVars
<1>4. CASE SignalPool
  <2>1. queue' \in [Queues -> Seq(0..Len(plan))]
    BY <1>4, <1>a, PutEffect DEF SignalPool
  <2>2. QED
    BY <1>4, <2>1 DEF SignalPool, workVars, monVars
<1>5. CASE PoolSignalled
  BY <1>5 DEF PoolSignalled, workVars, monVars
<1>6. ASSUME NEW t \in Single, SignalFallback(t) PROVE TypeOK'
  <2>1. queue' \in [Queues -> Seq(0..Len(plan))]
    BY <1>6, <1>a, PutEffect DEF SignalFallback
  <2>2. QED
    BY <1>6, <1>a, <2>1 DEF SignalFallback, workVars, monVars
<1>7. CASE SignalTopic
  <2>1. queue' \in [Queues -> Seq(0..Len(plan))]
    BY <1>7, <1>a, PutEffect DEF SignalTopic
  <2>2. QED
    BY <1>7, <1>a, <2>1 DEF SignalTopic, workVars, monVars
<1>8. CASE ProducerExits
  BY <1>8 DEF ProducerExits, workVars, monVars
<1>9. ASSUME NEW w \in Workers, TakeTask(w) PROVE TypeOK'
  <2>1. PICK p \in 1..Len(plan) : Get(w, p) /\ held' = [held EXCEPT ![w] = p]
    BY <1>9 DEF TakeTask
  <2>2. queue' \in [Queues -> Seq(0..Len(plan))]
    BY <2>1, GetEffect
  <2>3. QED
    BY <1>9, <2>1, <2>2 DEF TakeTask, prodVars, monVars
<1>10. ASSUME NEW w \in Workers, FallBack(w) \/ TakeSentinel(w) PROVE TypeOK'
  <2>1. Get(w, None)
    BY <1>10 DEF FallBack, TakeSentinel
  <2>2. queue' \in [Queues -> Seq(0..Len(plan))]
    BY <2>1, GetEffect
  <2>3. CASE FallBack(w)
    BY <2>3, <1>a, <2>2 DEF FallBack, prodVars, monVars
  <2>4. CASE TakeSentinel(w)
    BY <2>4, <2>2 DEF TakeSentinel, prodVars, monVars
  <2>5. QED
    BY <1>10, <2>3, <2>4
<1>11. ASSUME NEW w \in Workers, Export(w) PROVE TypeOK'
  <2>1. progress' \in Seq({1, None})
    BY <1>11, AppendProperties DEF Export
  <2>2. held[w] \in 1..Len(plan)
    BY <1>11 DEF Export, WorkerShape
  <2>3. QED
    <3>1. written' \subseteq 1..Len(plan')
      BY <1>11, <2>2 DEF Export
    <3>2. held' \in [Workers -> 0..Len(plan')]
      BY <1>11 DEF Export
    <3>3. worker' \in [Workers -> {"get", "busy", "exit", "dead"}]
      BY <1>11 DEF Export
    <3>4. progress' \in Seq({1, None})
      BY <2>1
    <3>5. UNCHANGED <<plan, prodVars, queue, source, exceptions, main, done, monitor, aborted>>
      BY <1>11 DEF Export
    <3>6. QED
      BY <3>1, <3>2, <3>3, <3>4, <3>5 DEF prodVars
<1>12. ASSUME NEW w \in Workers, ExportRaises(w) PROVE TypeOK'
  <2>1. exceptions' \in Seq({"producer", "worker", "user"})
    BY <1>12, AppendProperties DEF ExportRaises
  <2>2. held' \in [Workers -> 0..Len(plan')]
    BY <1>12 DEF ExportRaises
  <2>3. worker' \in [Workers -> {"get", "busy", "exit", "dead"}]
    BY <1>12 DEF ExportRaises
  <2>4. UNCHANGED <<plan, prodVars, queue, source, written, main, monVars, aborted>>
    BY <1>12 DEF ExportRaises
  <2>5. QED
    BY <2>1, <2>2, <2>3, <2>4 DEF prodVars, monVars
<1>13. ASSUME NEW w \in Workers, WorkerExits(w) PROVE TypeOK'
  BY <1>13 DEF WorkerExits, prodVars, monVars
<1>14. CASE PollEmpty \/ CheckAlive \/ KeyboardInterrupt \/ JoinKilled \/ JoinMonitor
  BY <1>14 DEF PollEmpty, CheckAlive, KeyboardInterrupt, JoinKilled, JoinMonitor,
     prodVars, workVars, monVars
<1>15. CASE PollException
  BY <1>15, HeadTailProperties DEF PollException, prodVars, workVars, monVars
<1>16. CASE Finish
  BY <1>16, AppendProperties DEF Finish, prodVars, workVars
<1>17. CASE KillProducer
  BY <1>17 DEF KillProducer, workVars, monVars
<1>18. ASSUME NEW w \in Workers, KillWorker(w) PROVE TypeOK'
  BY <1>18 DEF KillWorker, prodVars, monVars
<1>19. CASE CountToken
  BY <1>19, HeadTailProperties DEF CountToken, prodVars, workVars
<1>20. CASE AbortExport
  BY <1>20, AppendProperties DEF AbortExport, prodVars, workVars, monVars
<1>21. CASE UNCHANGED vars
  BY <1>21 DEF vars, prodVars, workVars, monVars
<1>22. QED
  BY <1>1, <1>2, <1>3, <1>4, <1>5, <1>6, <1>7, <1>8, <1>9, <1>10, <1>11,
     <1>12, <1>13, <1>14, <1>15, <1>16, <1>17, <1>18, <1>19, <1>20, <1>21
  DEF Next, Produce, OverwriteRaises, Work, Main, Kill, Over

-----------------------------------------------------------------------------
\* A sentinel enters a queue.
PutNone(q) ==
  /\ producer # "produce"
  /\ Put(q, None)
  /\ UNCHANGED <<plan, cursor, producer, workVars, written, exceptions, main>>

\* No task moves.
Quiet ==
  /\ UNCHANGED <<plan, cursor, queue, workVars, written>>
  /\ producer' = producer \/ producer' # "produce"

\* The kinds of steps that the places of the tasks depend on.
LEMMA StepKinds ==
  ASSUME TypeOK, [Next]_vars
  PROVE  \/ EnqueueTask
         \/ \E q \in Queues : PutNone(q)
         \/ \E w \in Workers : TakeTask(w)
         \/ \E w \in Workers : FallBack(w)
         \/ \E w \in Workers : TakeSentinel(w)
         \/ \E w \in Workers : Export(w)
         \/ \E w \in Workers : ExportRaises(w)
         \/ \E w \in Workers : WorkerExits(w)
         \/ \E w \in Workers : KillWorker(w)
         \/ Quiet
<1>1. Pool \in Queues /\ Single \subseteq Queues
  BY DEF Queues
<1>2. CASE SignalPool
  BY <1>1, <1>2 DEF SignalPool, PutNone, monVars
<1>3. ASSUME NEW t \in Single, SignalFallback(t) PROVE PutNone(Pool)
  BY <1>3 DEF SignalFallback, PutNone
<1>4. CASE SignalTopic
  <2>1. PutNone(signalling)
    BY <1>4 DEF SignalTopic, PutNone
  <2>2. signalling \in Queues
    BY DEF TypeOK
  <2>3. QED
    BY <2>1, <2>2
<1>5. CASE EndOfBag \/ ProducerFails \/ PoolSignalled \/ ProducerExits \/ KillProducer
  BY <1>5 DEF EndOfBag, ProducerFails, PoolSignalled, ProducerExits, KillProducer, Quiet
<1>6. CASE PollEmpty \/ PollException \/ CheckAlive \/ KeyboardInterrupt \/ JoinKilled
  BY <1>6 DEF PollEmpty, PollException, CheckAlive, KeyboardInterrupt, JoinKilled,
     prodVars, Quiet
<1>7. CASE Finish \/ JoinMonitor \/ CountToken \/ AbortExport \/ UNCHANGED vars
  BY <1>7 DEF Finish, JoinMonitor, CountToken, AbortExport, vars, prodVars, Quiet
<1>8. QED
  BY <1>1, <1>2, <1>3, <1>4, <1>5, <1>6, <1>7
  DEF Next, Produce, OverwriteRaises, Work, Main, Kill, Over

\* Trouble does not go away.
LEMMA TroubleStays ==
  ASSUME TypeOK, [Next]_vars, Trouble
  PROVE  Trouble'
<1> USE DEF Trouble
<1>1. CASE Produce \/ ProducerFails
  BY <1>1, AppendProperties DEF Produce, EnqueueTask, EndOfBag, OverwriteRaises,
     ProducerFails, SignalPool, PoolSignalled, SignalFallback, SignalTopic,
     ProducerExits, TypeOK
<1>2. ASSUME NEW w \in Workers, Work(w) \/ ExportRaises(w) PROVE Trouble'
  BY <1>2, AppendProperties DEF Work, TakeTask, FallBack, TakeSentinel, Export,
     WorkerExits, ExportRaises, TypeOK
<1>3. CASE Main
  BY <1>3 DEF Main, PollEmpty, PollException, CheckAlive, JoinKilled, Finish, JoinMonitor
<1>4. CASE KeyboardInterrupt \/ CountToken \/ AbortExport \/ Over \/ UNCHANGED vars
  BY <1>4, AppendProperties DEF KeyboardInterrupt, CountToken, AbortExport, Over, vars, TypeOK
<1>5. CASE Kill
  BY <1>5 DEF Kill, KillProducer, KillWorker
<1>6. QED
  BY <1>1, <1>2, <1>3, <1>4, <1>5 DEF Next

-----------------------------------------------------------------------------
\* Initially every queue is empty, nobody holds a task and nobody has exited.
LEMMA IInvInit == Init => IInv
<1> SUFFICES ASSUME Init PROVE IInv
  OBVIOUS
<1>1. TypeOK
  BY TypeInit
<1>2. \A q \in Queues : queue[q] = <<>> /\ Len(queue[q]) = 0
  BY DEF Init
<1>3. \A w \in Workers : worker[w] = "get" /\ source[w] = IF w \in Single THEN w ELSE Pool
  BY DEF Init
<1>4. Single \subseteq Workers /\ Single \subseteq Queues /\ Pool \in Queues /\ Pool \notin Single
  BY PipelineAssumption DEF PipelineAssumption, Workers, Queues
<1>5. cursor = 1 /\ producer = "produce" /\ written = {} /\ main = "poll"
  BY DEF Init
<1>6. QueueShape
  BY <1>2 DEF QueueShape, ItemShape
<1>7. WorkerShape
  BY <1>3 DEF WorkerShape
<1>8. OnePlace /\ FilesApart /\ FileOrder
  BY <1>2, <1>3, <1>5 DEF OnePlace, FilesApart, FileOrder
<1>9. SequentialOrder
  BY <1>3, <1>4, <1>5 DEF SequentialOrder
<1>10. Closed
  BY <1>3, <1>4 DEF Closed
<1>11. Accounted /\ MainWaits
  BY <1>5 DEF Accounted, MainWaits
<1>12. TokensAccounted
  BY FS_EmptySet DEF Init, TokensAccounted, Ended
<1>13. QED
  BY <1>1, <1>6, <1>7, <1>8, <1>9, <1>10, <1>11, <1>12 DEF IInv

LEMMA QueueShapeStep == TypeOK /\ QueueShape /\ [Next]_vars => QueueShape'
<1> SUFFICES ASSUME TypeOK, QueueShape, [Next]_vars,
                    NEW q \in Queues, NEW i \in 1..Len(queue'[q])
             PROVE  ItemShape(q, i)'
  BY DEF QueueShape
<1> USE DEF ItemShape, Route
<1>0. /\ cursor \in Nat /\ Len(queue[q]) \in Nat
      /\ \A k \in 1..Len(queue[q]) : queue[q][k] \in Nat /\ ItemShape(q, k)
  BY PlanType DEF TypeOK, QueueShape
<1>1. CASE UNCHANGED <<plan, cursor>> /\ queue'[q] = queue[q]
             /\ (producer' = producer \/ producer' # "produce")
  BY <1>0, <1>1
<1>2. CASE EnqueueTask
  <2> DEFINE r == Route(plan[cursor])
  <2>1. /\ r \in Queues /\ cursor \in 1..Len(plan) /\ cursor \in 0..Len(plan)
        /\ producer = "produce" /\ cursor' = cursor + 1
        /\ plan' = plan /\ producer' = producer /\ Put(r, cursor)
    BY <1>2, RouteType DEF EnqueueTask, TypeOK
  <2>2. CASE q # r
    <3>1. queue'[q] = queue[q]
      BY <2>1, <2>2, PutEffect
    <3>2. QED
      BY <3>1, <2>1, <1>0
  <2>3. CASE q = r
    <3>1. /\ Len(queue'[q]) = Len(queue[q]) + 1
          /\ \A k \in 1..Len(queue[q]) : queue'[q][k] = queue[q][k]
          /\ queue'[q][Len(queue[q]) + 1] = cursor
      BY <2>1, <2>3, PutEffect
    <3>2. \A k \in 1..Len(queue[q]) : queue[q][k] # None /\ queue[q][k] < cursor
      BY <2>1, <1>0
    <3>3. CASE i = Len(queue[q]) + 1
      <4>1. queue'[q][i] = cursor /\ cursor # 0 /\ cursor < cursor'
        BY <2>1, <3>1, <3>3, <1>0
      <4>2. Route(plan'[cursor]) = q
        BY <2>1, <2>3
      <4>3. \A j \in 1..Len(queue'[q]) : ~(i < j)
        BY <3>1, <3>3, <1>0
      <4>4. QED
        BY <4>1, <4>2, <4>3
    <3>4. CASE i # Len(queue[q]) + 1
      <4>1. i \in 1..Len(queue[q]) /\ queue'[q][i] = queue[q][i]
        BY <3>1, <3>4, <1>0
      <4>2. \A j \in 1..Len(queue'[q]) :
              i < j => 0 < queue'[q][i] /\ queue'[q][i] < queue'[q][j]
        <5>1. ASSUME NEW j \in 1..Len(queue'[q]), i < j
              PROVE  0 < queue'[q][i] /\ queue'[q][i] < queue'[q][j]
          <6>1. CASE j = Len(queue[q]) + 1
            BY <6>1, <4>1, <3>1, <3>2, <1>0
          <6>2. CASE j # Len(queue[q]) + 1
            <7>1. j \in 1..Len(queue[q]) /\ queue'[q][j] = queue[q][j]
              BY <6>2, <3>1, <1>0
            <7>2. QED
              BY <7>1, <5>1, <4>1, <3>2, <1>0
          <6>3. QED
            BY <6>1, <6>2
        <5>2. QED
          BY <5>1
      <4>3. QED
        BY <4>1, <4>2, <2>1, <3>2, <1>0
    <3>5. QED
      BY <3>3, <3>4
  <2>4. QED
    BY <2>2, <2>3
<1>3. ASSUME NEW r \in Queues, PutNone(r) PROVE ItemShape(q, i)'
  <2>1. /\ Put(r, None) /\ 0 \in 0..Len(plan)
        /\ UNCHANGED <<plan, cursor, producer>> /\ producer # "produce"
    BY <1>3, PlanType DEF PutNone, TypeOK
  <2>2. CASE q # r
    BY <1>1, <2>1, <2>2, PutEffect
  <2>3. CASE q = r
    <3>1. /\ Len(queue'[q]) = Len(queue[q]) + 1
          /\ \A k \in 1..Len(queue[q]) : queue'[q][k] = queue[q][k]
          /\ queue'[q][Len(queue[q]) + 1] = 0
      BY <2>1, <2>3, PutEffect
    <3>2. CASE i = Len(queue[q]) + 1
      BY <2>1, <3>1, <3>2, <1>0
    <3>3. CASE i # Len(queue[q]) + 1
      <4>1. i \in 1..Len(queue[q]) /\ queue'[q][i] = queue[q][i]
        BY <3>1, <3>3, <1>0
      <4>2. \A j \in 1..Len(queue'[q]) : queue'[q][j] # None =>
              j \in 1..Len(queue[q]) /\ queue'[q][j] = queue[q][j]
        BY <3>1, <1>0
      <4>3. QED
        BY <4>1, <4>2, <2>1, <1>0
    <3>4. QED
      BY <3>2, <3>3
  <2>4. QED
    BY <2>2, <2>3
<1>4. ASSUME NEW w \in Workers, NEW item, Get(w, item), UNCHANGED <<plan, cursor, producer>>
      PROVE  ItemShape(q, i)'
  <2>1. CASE q # source[w]
    BY <1>1, <1>4, <2>1, GetEffect
  <2>2. CASE q = source[w]
    <3>1. /\ Len(queue'[q]) = Len(queue[q]) - 1
          /\ \A k \in 1..Len(queue'[q]) : queue'[q][k] = queue[q][k + 1]
      BY <1>4, <2>2, GetEffect
    <3>2. /\ i + 1 \in 1..Len(queue[q]) /\ queue'[q][i] = queue[q][i + 1]
          /\ ItemShape(q, i + 1)
      BY <3>1, <1>0
    <3>3. \A j \in 1..Len(queue'[q]) :
            j + 1 \in 1..Len(queue[q]) /\ queue'[q][j] = queue[q][j + 1]
      BY <3>1, <1>0
    <3>4. \A j \in 1..Len(queue'[q]) : i < j => i + 1 < j + 1
      BY <1>0, <3>1
    <3>5. QED
      BY <3>2, <3>3, <3>4, <1>4
  <2>3. QED
    BY <2>1, <2>2
<1>5. ASSUME NEW w \in Workers, TakeTask(w) \/ FallBack(w) \/ TakeSentinel(w)
      PROVE  ItemShape(q, i)'
  BY <1>4, <1>5 DEF TakeTask, FallBack, TakeSentinel, prodVars
<1>6. ASSUME NEW w \in Workers,
             Export(w) \/ ExportRaises(w) \/ WorkerExits(w) \/ KillWorker(w)
      PROVE  ItemShape(q, i)'
  BY <1>1, <1>6 DEF Export, ExportRaises, WorkerExits, KillWorker, prodVars
<1>7. CASE Quiet
  BY <1>1, <1>7 DEF Quiet
<1>8. QED
  BY <1>2, <1>3, <1>5, <1>6, <1>7, StepKinds

LEMMA WorkerShapeStep ==
  TypeOK /\ QueueShape /\ WorkerShape /\ [Next]_vars => WorkerShape'
<1> SUFFICES ASSUME TypeOK, QueueShape, WorkerShape, [Next]_vars PROVE WorkerShape'
  OBVIOUS
<1> USE DEF WorkerShape, Route
<1>0. cursor \in Nat /\ \A w \in Workers : held[w] \in Nat
  BY PlanType DEF TypeOK
<1>1. CASE EnqueueTask
  BY <1>1, <1>0 DEF EnqueueTask, workVars
<1>2. ASSUME NEW q \in Queues, PutNone(q) PROVE WorkerShape'
  BY <1>2 DEF PutNone, workVars
<1>3. ASSUME NEW w \in Workers, TakeTask(w) PROVE WorkerShape'
  <2>1. PICK p \in 1..Len(plan) : Get(w, p) /\ held' = [held EXCEPT ![w] = p]
    BY <1>3 DEF TakeTask
  <2>2. p = queue[source[w]][1] /\ source[w] \in Queues /\ 1 \in 1..Len(queue[source[w]])
    BY <2>1, GetEffect
  <2>3. p < cursor /\ Route(plan[p]) = source[w]
    BY <2>2 DEF QueueShape, ItemShape
  <2>4. QED
    BY <1>3, <2>1, <2>3, <1>0 DEF TakeTask, prodVars, TypeOK
<1>4. ASSUME NEW w \in Workers, FallBack(w) PROVE WorkerShape'
  BY <1>4 DEF FallBack, Get, prodVars, TypeOK
<1>5. ASSUME NEW w \in Workers,
             TakeSentinel(w) \/ Export(w) \/ ExportRaises(w) \/ WorkerExits(w) \/ KillWorker(w)
      PROVE  WorkerShape'
  BY <1>5 DEF TakeSentinel, Export, ExportRaises, WorkerExits, KillWorker, prodVars, TypeOK
<1>6. CASE Quiet
  BY <1>6 DEF Quiet, workVars
<1>7. QED
  BY <1>1, <1>2, <1>3, <1>4, <1>5, <1>6, StepKinds

-----------------------------------------------------------------------------
\* A queued task was produced and is in the queue of its topic.
LEMMA QueuedTask ==
  ASSUME TypeOK, QueueShape, NEW q \in Queues, NEW p \in 1..Len(plan), InQueue(p, q)
  PROVE  p \in 1..(cursor - 1) /\ Route(plan[p]) = q
<1>1. PICK i \in 1..Len(queue[q]) : queue[q][i] = p
  BY DEF InQueue
<1>2. ItemShape(q, i) /\ p # None
  BY PlanType DEF QueueShape, TypeOK
<1>3. QED
  BY <1>1, <1>2, PlanType DEF ItemShape, TypeOK

\* put adds its item and nothing else.
LEMMA PutItems ==
  ASSUME TypeOK, NEW q \in Queues, NEW item \in 0..Len(plan), Put(q, item), NEW x, NEW r \in Queues
  PROVE  InQueue(x, r)' <=> (InQueue(x, r) \/ (r = q /\ x = item))
<1>1. CASE r # q
  BY <1>1, PutEffect DEF InQueue
<1>2. CASE r = q
  <2>1. /\ Len(queue[q]) \in Nat /\ Len(queue'[q]) = Len(queue[q]) + 1
        /\ \A i \in 1..Len(queue[q]) : queue'[q][i] = queue[q][i]
        /\ queue'[q][Len(queue[q]) + 1] = item
    BY PutEffect
  <2>2. ASSUME NEW i \in 1..Len(queue'[q])
        PROVE  i \in 1..Len(queue[q]) \/ queue'[q][i] = item
    BY <2>1
  <2>3. /\ \A i \in 1..Len(queue[q]) : i \in 1..Len(queue'[q])
        /\ Len(queue[q]) + 1 \in 1..Len(queue'[q])
    BY <2>1
  <2>4. QED
    BY <1>2, <2>1, <2>2, <2>3 DEF InQueue
<1>3. QED
  BY <1>1, <1>2

\* get removes its item and nothing else.
LEMMA GetItems ==
  ASSUME TypeOK, NEW w \in Workers, NEW item, Get(w, item), NEW x, NEW r \in Queues
  PROVE  /\ InQueue(x, r)' => InQueue(x, r)
         /\ InQueue(x, r) /\ (x # item \/ r # source[w]) => InQueue(x, r)'
         /\ InQueue(item, source[w])
<1>0. PICK q \in Queues : q = source[w]
  BY DEF TypeOK
<1>1. /\ q \in Queues /\ Len(queue[q]) \in Nat \ {0}
      /\ \A u \in Queues \ {q} : queue'[u] = queue[u]
      /\ Len(queue'[q]) = Len(queue[q]) - 1
      /\ \A i \in 1..Len(queue'[q]) : queue'[q][i] = queue[q][i + 1]
      /\ queue[q][1] = item
  BY <1>0, GetEffect
<1>2. InQueue(item, q)
  BY <1>1 DEF InQueue
<1>3. CASE r # q
  BY <1>0, <1>1, <1>2, <1>3 DEF InQueue
<1>4. CASE r = q
  <2>1. \A i \in 1..Len(queue'[q]) : i + 1 \in 1..Len(queue[q])
    BY <1>1
  <2>2. \A i \in 1..Len(queue[q]) : i = 1 \/
          (i - 1 \in 1..Len(queue'[q]) /\ queue'[q][i - 1] = queue[q][i])
    BY <1>1
  <2>3. InQueue(x, q)' => InQueue(x, q)
    BY <1>1, <2>1 DEF InQueue
  <2>4. InQueue(x, q) /\ x # item => InQueue(x, q)'
    BY <1>1, <2>2 DEF InQueue
  <2>5. QED
    BY <1>0, <1>2, <1>4, <2>3, <2>4
<1>5. QED
  BY <1>3, <1>4

\* A task at the head of a queue is before all others there ...
LEMMA HeadFirst ==
  ASSUME TypeOK, QueueShape, NEW w \in Workers, NEW p \in 1..Len(plan), Get(w, p),
         NEW q \in Queues, q = source[w], NEW r \in 1..Len(plan), InQueue(r, q)'
  PROVE  p < r
<1>1. /\ q \in Queues /\ Len(queue[q]) \in Nat \ {0}
      /\ Len(queue'[q]) = Len(queue[q]) - 1
      /\ \A i \in 1..Len(queue'[q]) : queue'[q][i] = queue[q][i + 1]
      /\ queue[q][1] = p
  BY GetEffect
<1>2. PICK i \in 1..Len(queue'[q]) : queue'[q][i] = r
  BY DEF InQueue
<1>3. i + 1 \in 1..Len(queue[q]) /\ queue[q][i + 1] = r /\ 1 < i + 1
  BY <1>1, <1>2
<1>4. ItemShape(q, 1) /\ r # None
  BY <1>1, PlanType DEF QueueShape, TypeOK
<1>5. QED
  BY <1>1, <1>3, <1>4 DEF ItemShape

\* ... and behind a sentinel at the head there is no task.
LEMMA SentinelFirst ==
  ASSUME TypeOK, QueueShape, NEW w \in Workers, Get(w, None)
  PROVE  /\ producer # "produce"
         /\ \A p \in 1..Len(plan) : ~InQueue(p, source[w])
<1> DEFINE q == source[w]
<1>1. /\ q \in Queues /\ Len(queue[q]) \in Nat \ {0}
      /\ queue[q][1] = 0
  BY GetEffect
<1>2. ItemShape(q, 1)
  BY <1>1 DEF QueueShape
<1>3. ASSUME NEW i \in 1..Len(queue[q]) PROVE queue[q][i] = 0
  BY <1>1, <1>2 DEF ItemShape
<1>4. QED
  BY <1>1, <1>2, <1>3, PlanType DEF ItemShape, InQueue, TypeOK

-----------------------------------------------------------------------------
\* What EnqueueTask does, in terms of tasks: the cursor's one is queued.
LEMMA EnqueueItems ==
  ASSUME TypeOK, EnqueueTask
  PROVE  /\ cursor \in 1..Len(plan) /\ cursor' = cursor + 1 /\ plan' = plan
         /\ Route(plan[cursor]) \in Queues
         /\ \A q \in Queues : \A p : InQueue(p, q)' <=>
              (InQueue(p, q) \/ (q = Route(plan[cursor]) /\ p = cursor))
         /\ producer = "produce" /\ producer' = producer
         /\ UNCHANGED <<worker, source, held, written, exceptions, main>>
<1>1. /\ cursor \in 1..Len(plan) /\ cursor \in 0..Len(plan)
      /\ cursor' = cursor + 1 /\ plan' = plan
      /\ producer = "produce" /\ producer' = producer
      /\ Put(Route(plan[cursor]), cursor)
      /\ UNCHANGED <<worker, source, held, written, exceptions, main>>
  BY PlanType DEF EnqueueTask, TypeOK, workVars
<1>2. Route(plan[cursor]) \in Queues
  BY <1>1, RouteType DEF TypeOK
<1>3. PICK r \in Queues : r = Route(plan[cursor])
  BY <1>2
<1>4. PICK c \in 0..Len(plan) : c = cursor
  BY <1>1
<1>5. Put(r, c)
  BY <1>1, <1>3, <1>4
<1>6. \A q \in Queues : \A p : InQueue(p, q)' <=> (InQueue(p, q) \/ (q = r /\ p = c))
  BY <1>5, PutItems
<1>7. QED
  BY <1>1, <1>2, <1>3, <1>4, <1>6

\* What a sentinel does: no task moves.
LEMMA PutNoneItems ==
  ASSUME TypeOK, NEW r \in Queues, PutNone(r)
  PROVE  /\ \A q \in Queues : \A p \in 1..Len(plan) : InQueue(p, q)' <=> InQueue(p, q)
         /\ UNCHANGED <<plan, cursor, producer, worker, source, held, written,
                        exceptions, main>>
<1>1. /\ Put(r, 0) /\ 0 \in 0..Len(plan)
      /\ UNCHANGED <<plan, cursor, producer, worker, source, held, written,
                     exceptions, main>>
  BY PlanType DEF PutNone, workVars, TypeOK
<1>2. \A q \in Queues : \A p : InQueue(p, q)' <=> (InQueue(p, q) \/ (q = r /\ p = 0))
  BY <1>1, PutItems
<1>3. QED
  BY <1>1, <1>2

\* What TakeTask does: a task moves from a queue into a worker's hands.
LEMMA TakeItems ==
  ASSUME TypeOK, QueueShape, NEW w \in Workers, TakeTask(w)
  PROVE  \E p \in 1..(cursor - 1), s \in Queues :
           /\ s = source[w] /\ Route(plan[p]) = s /\ InQueue(p, s)
           /\ held' = [held EXCEPT ![w] = p]
           /\ worker[w] = "get" /\ worker' = [worker EXCEPT ![w] = "busy"]
           /\ \A q \in Queues, r \in 1..Len(plan) :
                InQueue(r, q)' <=> (InQueue(r, q) /\ r # p)
           /\ \A r \in 1..Len(plan) : InQueue(r, s)' => p < r
           /\ UNCHANGED <<plan, cursor, producer, source, written, exceptions, main>>
<1>1. PICK p \in 1..Len(plan) : Get(w, p) /\ held' = [held EXCEPT ![w] = p]
  BY DEF TakeTask
<1>2. PICK s \in Queues : s = source[w]
  BY DEF TypeOK
<1>3. InQueue(p, s)
  BY <1>1, <1>2, GetItems
<1>4. p \in 1..(cursor - 1) /\ Route(plan[p]) = s
  BY <1>3, QueuedTask
<1>5. \A r \in 1..Len(plan) : InQueue(r, s)' => p < r
  BY <1>1, <1>2, HeadFirst
<1>6. ASSUME NEW q \in Queues, NEW r \in 1..Len(plan)
      PROVE  InQueue(r, q)' <=> (InQueue(r, q) /\ r # p)
  <2>1. InQueue(r, q)' => InQueue(r, q)
    BY <1>1, GetItems
  <2>2. InQueue(r, q) /\ r # p => InQueue(r, q)'
    BY <1>1, GetItems
  <2>3. InQueue(p, q)' => q = s
    BY <1>1, <1>4, GetItems, QueuedTask
  <2>4. ~InQueue(p, s)'
    BY <1>5, PlanType DEF TypeOK
  <2>5. CASE r = p
    <3>1. ~InQueue(p, q)'
      BY <2>3, <2>4
    <3>2. QED
      BY <3>1, <2>5
  <2>6. QED
    BY <2>1, <2>2, <2>5
<1>7. QED
  BY <1>1, <1>2, <1>3, <1>4, <1>5, <1>6 DEF TakeTask, Get, prodVars

\* What reading a sentinel does: nothing to the tasks.
LEMMA GetNoneItems ==
  ASSUME TypeOK, QueueShape, NEW w \in Workers, Get(w, None)
  PROVE  \A q \in Queues, r \in 1..Len(plan) : InQueue(r, q)' <=> InQueue(r, q)
<1>1. \A r \in 1..Len(plan) : r # 0
  BY PlanType DEF TypeOK
<1>2. QED
  BY <1>1, GetItems

\* Steps that leave the queues alone leave their items.
LEMMA SameItems ==
  ASSUME UNCHANGED queue
  PROVE  \A q \in Queues : \A p : InQueue(p, q)' <=> InQueue(p, q)
BY DEF InQueue

LEMMA OnePlaceStep ==
  TypeOK /\ QueueShape /\ WorkerShape /\ OnePlace /\ [Next]_vars => OnePlace'
<1> SUFFICES ASSUME TypeOK, QueueShape, WorkerShape, OnePlace, [Next]_vars PROVE OnePlace'
  OBVIOUS
<1> USE DEF OnePlace
<1>0. cursor \in Nat /\ Len(plan) \in Nat /\ \A w \in Workers : held[w] \in Nat
  BY PlanType DEF TypeOK
<1>1. CASE EnqueueTask
  <2>1. cursor \notin written /\ \A w \in Workers : worker[w] = "busy" => held[w] # cursor
    BY <1>0 DEF WorkerShape
  <2>2. /\ cursor' = cursor + 1 /\ plan' = plan
        /\ UNCHANGED <<worker, held, written>>
    BY <1>1, EnqueueItems
  <2>3. written' \subseteq 1..(cursor' - 1)
    BY <1>0, <2>2
  <2>4. ASSUME NEW q \in Queues, NEW p \in 1..Len(plan), InQueue(p, q)'
        PROVE  /\ p \notin written'
               /\ \A w \in Workers : worker'[w] = "busy" => held'[w] # p
    <3>1. InQueue(p, q) \/ p = cursor
      BY <1>1, <2>4, EnqueueItems
    <3>2. QED
      BY <2>1, <2>2, <3>1
  <2>5. QED
    BY <2>2, <2>3, <2>4
<1>2. ASSUME NEW r \in Queues, PutNone(r) PROVE OnePlace'
  BY <1>2, PutNoneItems
<1>3. ASSUME NEW w \in Workers, TakeTask(w) PROVE OnePlace'
  <2>1. PICK p \in 1..(cursor - 1), s \in Queues :
          /\ InQueue(p, s) /\ held' = [held EXCEPT ![w] = p]
          /\ worker[w] = "get" /\ worker' = [worker EXCEPT ![w] = "busy"]
          /\ \A q \in Queues, r \in 1..Len(plan) :
               InQueue(r, q)' <=> (InQueue(r, q) /\ r # p)
          /\ UNCHANGED <<plan, cursor, written>>
    BY <1>3, TakeItems
  <2>2. p \in 1..Len(plan)
    BY <1>0, <2>1 DEF TypeOK
  <2>3. p \notin written /\ \A v \in Workers : worker[v] = "busy" => held[v] # p
    BY <2>1, <2>2
  <2>4. \A v \in Workers : worker'[v] = "busy" =>
          (v = w /\ held'[v] = p) \/ (v # w /\ worker[v] = "busy" /\ held'[v] = held[v])
    BY <2>1 DEF TypeOK
  <2>5. QED
    BY <2>1, <2>2, <2>3, <2>4
<1>4. ASSUME NEW w \in Workers, FallBack(w) \/ TakeSentinel(w) PROVE OnePlace'
  <2>1. Get(w, None) /\ UNCHANGED <<plan, cursor, held, written>>
        /\ \A v \in Workers : worker'[v] = "busy" => worker[v] = "busy"
    BY <1>4 DEF FallBack, TakeSentinel, prodVars, TypeOK
  <2>2. QED
    BY <2>1, GetNoneItems
<1>5. ASSUME NEW w \in Workers, Export(w) PROVE OnePlace'
  <2>1. /\ held[w] \in 1..(cursor - 1)
        /\ written' = written \cup {held[w]}
        /\ UNCHANGED <<plan, cursor, queue>>
        /\ worker[w] = "busy"
        /\ \A v \in Workers : worker'[v] = "busy" =>
             worker[v] = "busy" /\ v # w /\ held'[v] = held[v]
    BY <1>5 DEF Export, WorkerShape, prodVars, TypeOK
  <2>2. QED
    BY <2>1, SameItems
<1>6. ASSUME NEW w \in Workers, ExportRaises(w) \/ WorkerExits(w) \/ KillWorker(w)
      PROVE  OnePlace'
  <2>1. /\ UNCHANGED <<plan, cursor, queue, written>>
        /\ \A v \in Workers : worker'[v] = "busy" =>
             worker[v] = "busy" /\ held'[v] = held[v]
    BY <1>6 DEF ExportRaises, WorkerExits, KillWorker, prodVars, TypeOK
  <2>2. QED
    BY <2>1, SameItems
<1>7. CASE Quiet
  BY <1>7, SameItems DEF Quiet, workVars
<1>8. QED
  BY <1>1, <1>2, <1>3, <1>4, <1>5, <1>6, <1>7, StepKinds

LEMMA FilesApartStep == TypeOK /\ FilesApart /\ [Next]_vars => FilesApart'
<1> SUFFICES ASSUME TypeOK, FilesApart, [Next]_vars PROVE FilesApart'
  OBVIOUS
<1>1. CASE EnqueueTask
  <2>1. /\ cursor \in 1..Len(plan) /\ cursor' = cursor + 1 /\ plan' = plan
        /\ cursor \in Nat /\ Len(plan) \in Nat
        /\ ~Overwrites(plan[cursor])
    BY <1>1, PlanType DEF EnqueueTask, TypeOK
  <2>2. ASSUME NEW p \in 1..(cursor - 1), plan[p].file = plan[cursor].file
        PROVE  plan[p].topic \notin Multi /\ plan[cursor].topic \notin Multi
    <3>1. plan[cursor].topic \notin Multi
      BY <2>1, <2>2 DEF Overwrites, EnqueuedFiles
    <3>2. p \in 1..Len(plan)
      BY <2>1
    <3>3. plan[cursor].file \in Single
      BY <2>1, <3>1, RouteType DEF TypeOK
    <3>4. plan[p].file \notin Names
      BY <2>2, <3>3, PipelineAssumption DEF PipelineAssumption
    <3>5. QED
      BY <3>1, <3>2, <3>4, RouteType DEF TypeOK
  <2>3. QED
    BY <2>1, <2>2 DEF FilesApart
<1>2. CASE UNCHANGED <<plan, cursor>>
  BY <1>2 DEF FilesApart
<1>3. QED
  BY <1>1, <1>2, StepKinds
  DEF PutNone, TakeTask, FallBack, TakeSentinel, Export, ExportRaises, WorkerExits,
      KillWorker, Quiet, prodVars

LEMMA SequentialOrderStep ==
  /\ TypeOK /\ QueueShape /\ WorkerShape /\ SequentialOrder /\ [Next]_vars
  => SequentialOrder'
<1> SUFFICES ASSUME TypeOK, QueueShape, WorkerShape, SequentialOrder, [Next]_vars,
                    NEW t \in Single
    PROVE
    /\ worker'[t] \in {"get", "busy"} =>
         \A p \in 1..(cursor' - 1) : plan'[p].topic = t =>
           \/ p \in written'
           \/ worker'[t] = "busy" /\ held'[t] = p
           \/ InQueue(p, t)'
    /\ worker'[t] = "busy" /\ source'[t] = t =>
         \A p \in 1..Len(plan') : InQueue(p, t)' => held'[t] < p
  BY DEF SequentialOrder
<1> USE DEF SequentialOrder
<1>0. /\ cursor \in Nat /\ Len(plan) \in Nat /\ cursor <= Len(plan) + 1
      /\ \A w \in Workers : held[w] \in Nat
      /\ t \in Queues /\ t \in Workers /\ t # Pool
  BY PlanType, PipelineAssumption DEF TypeOK, Queues, Workers, PipelineAssumption
<1>1. CASE EnqueueTask
  <2>1. /\ cursor \in 1..Len(plan) /\ cursor' = cursor + 1 /\ plan' = plan
        /\ UNCHANGED <<worker, source, held, written>>
        /\ \A p : InQueue(p, t)' <=>
             (InQueue(p, t) \/ (t = Route(plan[cursor]) /\ p = cursor))
    BY <1>0, <1>1, EnqueueItems
  <2>2. plan[cursor].topic = t => Route(plan[cursor]) = t
    BY <2>1, RouteType DEF TypeOK
  <2>3. worker[t] = "busy" => held[t] < cursor
    BY <1>0 DEF WorkerShape
  <2>4. \A p \in 1..(cursor' - 1) : p \in 1..(cursor - 1) \/ p = cursor
    BY <1>0, <2>1
  <2>5. QED
    BY <2>1, <2>2, <2>3, <2>4
<1>2. ASSUME NEW r \in Queues, PutNone(r) PROVE SequentialOrder'
  <2>1. \A p \in 1..(cursor - 1) : p \in 1..Len(plan)
    BY <1>0
  <2>2. \A u \in Single : u \in Queues
    BY DEF Queues
  <2>3. QED
    BY <1>2, <2>1, <2>2, PutNoneItems
<1>3. ASSUME NEW w \in Workers, TakeTask(w)
      PROVE /\ worker'[t] \in {"get", "busy"} =>
                 \A p \in 1..(cursor - 1) : plan[p].topic = t =>
                   \/ p \in written'
                   \/ worker'[t] = "busy" /\ held'[t] = p
                   \/ InQueue(p, t)'
            /\ worker'[t] = "busy" /\ source'[t] = t =>
                 \A p \in 1..Len(plan) : InQueue(p, t)' => held'[t] < p
            /\ UNCHANGED <<plan, cursor>>
  <2>1. PICK h \in 1..(cursor - 1), s \in Queues :
          /\ s = source[w] /\ Route(plan[h]) = s
          /\ held' = [held EXCEPT ![w] = h]
          /\ worker[w] = "get" /\ worker' = [worker EXCEPT ![w] = "busy"]
          /\ \A r \in 1..Len(plan) : InQueue(r, t)' <=> (InQueue(r, t) /\ r # h)
          /\ \A r \in 1..Len(plan) : InQueue(r, s)' => h < r
          /\ UNCHANGED <<plan, cursor, source, written>>
    BY <1>0, <1>3, TakeItems
  <2>2. \A p \in 1..(cursor - 1) : p \in 1..Len(plan)
    BY <1>0
  <2>3. CASE w = t
    BY <2>1, <2>2, <2>3, <1>0 DEF TypeOK
  <2>4. CASE w # t
    <3>1. worker'[t] = worker[t] /\ held'[t] = held[t]
      BY <2>1, <2>4 DEF TypeOK
    <3>2. s # t
      BY <2>1, <2>4, <1>0 DEF WorkerShape
    <3>3. ~InQueue(h, t)
      BY <1>0, <2>1, <2>2, <3>2, QueuedTask
    <3>4. \A p \in 1..Len(plan) : InQueue(p, t)' <=> InQueue(p, t)
      BY <2>1, <3>3
    <3>5. QED
      BY <2>1, <2>2, <3>1, <3>4
  <2>5. QED
    BY <2>1, <2>3, <2>4
<1>4. ASSUME NEW w \in Workers, FallBack(w) \/ TakeSentinel(w) PROVE SequentialOrder'
  <2>1. /\ Get(w, None) /\ UNCHANGED <<plan, cursor, held, written>>
        /\ \A v \in Workers :
             /\ worker'[v] \in {"get", "busy"} => worker'[v] = worker[v]
             /\ source'[v] = source[v] \/ source'[v] = Pool
    BY <1>4 DEF FallBack, TakeSentinel, prodVars, TypeOK
  <2>2. \A u \in Single : u \in Queues /\ u \in Workers /\ u # Pool
    BY PipelineAssumption DEF PipelineAssumption, Queues, Workers
  <2>3. \A u \in Single, p \in 1..Len(plan) : InQueue(p, u)' <=> InQueue(p, u)
    BY <2>1, <2>2, GetNoneItems
  <2>4. \A p \in 1..(cursor - 1) : p \in 1..Len(plan)
    BY <1>0
  <2>5. QED
    BY <2>1, <2>2, <2>3, <2>4
<1>5. ASSUME NEW w \in Workers,
             Export(w) \/ ExportRaises(w) \/ WorkerExits(w) \/ KillWorker(w)
      PROVE  SequentialOrder'
  <2>1. /\ UNCHANGED <<plan, cursor, queue, source>>
        /\ \A v \in Workers :
             \/ worker'[v] = worker[v] /\ held'[v] = held[v]
             \/ worker'[v] \in {"exit", "dead"}
             \/ worker[v] = "busy" /\ held[v] \in written' /\ worker'[v] = "get"
        /\ written \subseteq written'
    BY <1>5 DEF Export, ExportRaises, WorkerExits, KillWorker, prodVars, TypeOK
  <2>2. \A u \in Single : u \in Queues /\ u \in Workers
    BY DEF Queues, Workers
  <2>3. QED
    BY <2>1, <2>2, SameItems
<1>6. CASE Quiet
  <2>1. Single \subseteq Queues
    BY DEF Queues
  <2>2. QED
    BY <1>6, <2>1, SameItems DEF Quiet, workVars
<1>7. QED
  BY <1>1, <1>2, <1>3, <1>4, <1>5, <1>6, StepKinds

LEMMA FileOrderStep ==
  /\ TypeOK /\ WorkerShape /\ FilesApart /\ SequentialOrder /\ FileOrder /\ [Next]_vars
  => FileOrder'
<1> SUFFICES ASSUME TypeOK, WorkerShape, FilesApart, SequentialOrder, FileOrder,
                    [Next]_vars
             PROVE  FileOrder'
  OBVIOUS
<1>0. /\ cursor \in Nat /\ Len(plan) \in Nat /\ cursor <= Len(plan) + 1
  BY PlanType DEF TypeOK
<1>1. ASSUME NEW w \in Workers, Export(w) PROVE FileOrder'
  <2>1. PICK h \in 1..(cursor - 1) : h = held[w] /\ Route(plan[h]) = source[w]
    BY <1>1 DEF Export, WorkerShape
  <2>2. /\ plan' = plan /\ written' = written \cup {h} /\ worker[w] = "busy"
        /\ h \in 1..Len(plan)
    BY <1>0, <1>1, <2>1 DEF Export
  <2>3. ASSUME NEW q \in 1..(h - 1), plan[q].file = plan[h].file
        PROVE  q \in written
    <3>1. q \in 1..(cursor - 1) /\ q \in 1..Len(plan) /\ q # h
      BY <1>0
    <3>2. plan[h].topic \notin Multi
      BY <2>3, <3>1 DEF FilesApart
    <3>3. PICK t \in Single : plan[h].topic = t /\ plan[h].file = t /\ Route(plan[h]) = t
      BY <2>2, <3>2, RouteType DEF TypeOK
    <3>4. plan[q].topic = t
      BY <2>3, <3>1, <3>3, RouteType, PipelineAssumption DEF PipelineAssumption, TypeOK
    <3>5. w = t /\ source[t] = t
      BY <2>1, <3>3, PipelineAssumption DEF PipelineAssumption, WorkerShape
    <3>6. q \in written \/ InQueue(q, t)
      BY <2>1, <2>2, <3>1, <3>4, <3>5 DEF SequentialOrder
    <3>7. ~InQueue(q, t)
      BY <2>1, <2>2, <3>1, <3>5, <1>0 DEF SequentialOrder
    <3>8. QED
      BY <3>6, <3>7
  <2>4. QED
    BY <2>2, <2>3 DEF FileOrder
<1>2. CASE UNCHANGED <<plan, written>>
  BY <1>2 DEF FileOrder
<1>3. QED
  BY <1>1, <1>2, StepKinds
  DEF EnqueueTask, PutNone, TakeTask, FallBack, TakeSentinel, ExportRaises, WorkerExits,
      KillWorker, Quiet

LEMMA ClosedStep ==
  TypeOK /\ QueueShape /\ WorkerShape /\ Closed /\ [Next]_vars => Closed'
<1> SUFFICES ASSUME TypeOK, QueueShape, WorkerShape, Closed, [Next]_vars PROVE Closed'
  OBVIOUS
<1> USE DEF Closed
<1>0. /\ Single \subseteq Queues /\ Single \subseteq Workers /\ Pool \in Queues
      /\ Pool \notin Single
  BY PipelineAssumption DEF PipelineAssumption, Queues, Workers
<1>t. ~Trouble' => ~Trouble
  BY TroubleStays
<1>1. CASE EnqueueTask
  <2>1. producer = "produce" /\ UNCHANGED <<worker, source>>
    BY <1>1, EnqueueItems
  <2>2. QED
    BY <1>t, <2>1
<1>2. ASSUME NEW r \in Queues, PutNone(r) PROVE Closed'
  BY <1>0, <1>t, <1>2, PutNoneItems
<1>3. ASSUME NEW w \in Workers, TakeTask(w) PROVE Closed'
  <2>1. /\ \A q \in Queues, r \in 1..Len(plan) : InQueue(r, q)' => InQueue(r, q)
        /\ worker' = [worker EXCEPT ![w] = "busy"]
        /\ UNCHANGED <<plan, producer, source>>
    BY <1>3, TakeItems
  <2>2. \A v \in Workers : worker'[v] \in {"exit", "dead"} => worker[v] \in {"exit", "dead"}
    BY <2>1 DEF TypeOK
  <2>3. QED
    BY <1>0, <1>t, <2>1, <2>2
<1>4. ASSUME NEW w \in Workers, FallBack(w) \/ TakeSentinel(w) PROVE Closed'
  <2>1. Get(w, None) /\ UNCHANGED <<plan, producer>>
    BY <1>4 DEF FallBack, TakeSentinel, prodVars
  <2>2. \A q \in Queues, r \in 1..Len(plan) : InQueue(r, q)' <=> InQueue(r, q)
    BY <2>1, GetNoneItems
  <2>3. producer # "produce" /\ \A p \in 1..Len(plan) : ~InQueue(p, source[w])
    BY <2>1, SentinelFirst
  <2>4. CASE FallBack(w)
    <3>1. /\ source[w] # Pool /\ UNCHANGED worker
          /\ \A v \in Workers : source'[v] = IF v = w THEN Pool ELSE source[v]
      BY <2>4 DEF FallBack, TypeOK
    <3>2. source[w] = w
      BY <3>1 DEF WorkerShape
    <3>3. QED
      BY <1>0, <1>t, <2>1, <2>2, <2>3, <3>1, <3>2
  <2>5. CASE TakeSentinel(w)
    <3>1. /\ source[w] = Pool /\ UNCHANGED source
          /\ \A v \in Workers : v # w => worker'[v] = worker[v]
      BY <2>5 DEF TakeSentinel, TypeOK
    <3>2. QED
      BY <1>0, <1>t, <2>1, <2>2, <2>3, <3>1
  <2>6. QED
    BY <1>4, <2>4, <2>5
<1>5. ASSUME NEW w \in Workers, Export(w) \/ WorkerExits(w) PROVE Closed'
  <2>1. /\ UNCHANGED <<plan, queue, source, producer>>
        /\ \A v \in Workers : worker'[v] \in {"exit", "dead"} => worker[v] \in {"exit", "dead"}
    BY <1>5 DEF Export, WorkerExits, prodVars, TypeOK
  <2>2. QED
    BY <1>0, <1>t, <2>1, SameItems
<1>6. ASSUME NEW w \in Workers, ExportRaises(w) \/ KillWorker(w) PROVE Closed'
  <2>1. UNCHANGED <<plan, queue, source, producer>>
    BY <1>6 DEF ExportRaises, KillWorker, prodVars
  <2>2. Trouble'
    BY <1>6, AppendProperties DEF ExportRaises, KillWorker, Trouble, TypeOK
  <2>3. QED
    BY <1>0, <2>1, <2>2, SameItems
<1>7. CASE Quiet
  BY <1>0, <1>t, <1>7, SameItems DEF Quiet, workVars
<1>8. QED
  BY <1>1, <1>2, <1>3, <1>4, <1>5, <1>6, <1>7, StepKinds

LEMMA AccountedStep ==
  TypeOK /\ QueueShape /\ WorkerShape /\ Accounted /\ [Next]_vars => Accounted'
<1> SUFFICES ASSUME TypeOK, QueueShape, WorkerShape, Accounted, [Next]_vars, ~Trouble'
             PROVE  /\ producer' # "produce" => cursor' = Len(plan') + 1
                    /\ \A p \in 1..(cursor' - 1) :
                         \/ p \in written'
                         \/ \E w \in Workers : worker'[w] = "busy" /\ held'[w] = p
                         \/ InQueue(p, Route(plan[p]))'
  BY DEF Accounted, Route
<1>0. /\ cursor \in Nat /\ Len(plan) \in Nat /\ cursor <= Len(plan) + 1
      /\ \A p \in 1..(cursor - 1) : p \in 1..Len(plan) /\ Route(plan[p]) \in Queues
  BY PlanType, RouteType DEF TypeOK
<1>t. ~Trouble
  BY TroubleStays
<1>a. /\ producer # "produce" => cursor = Len(plan) + 1
      /\ \A p \in 1..(cursor - 1) :
           \/ p \in written
           \/ \E w \in Workers : worker[w] = "busy" /\ held[w] = p
           \/ InQueue(p, Route(plan[p]))
  BY <1>t DEF Accounted
<1>1. CASE EnqueueTask
  <2>1. /\ cursor \in 1..Len(plan) /\ cursor' = cursor + 1 /\ plan' = plan
        /\ \A q \in Queues : \A p : InQueue(p, q)' <=>
             (InQueue(p, q) \/ (q = Route(plan[cursor]) /\ p = cursor))
        /\ producer' = "produce"
        /\ UNCHANGED <<worker, held, written>>
    BY <1>1, EnqueueItems
  <2>2. \A p \in 1..(cursor' - 1) : p \in 1..(cursor - 1) \/ p = cursor
    BY <1>0, <2>1
  <2>3. PICK r \in Queues : r = Route(plan[cursor])
    BY <1>1, EnqueueItems
  <2>c. PICK c \in 1..Len(plan) : c = cursor
    BY <2>1
  <2>4. InQueue(c, r)'
    BY <2>1, <2>3, <2>c
  <2>5. ASSUME NEW p \in 1..(cursor - 1), InQueue(p, Route(plan[p]))
        PROVE  InQueue(p, Route(plan[p]))'
    <3>1. PICK u \in Queues : u = Route(plan[p])
      BY <1>0
    <3>2. InQueue(p, u)'
      BY <2>1, <2>5, <3>1
    <3>3. Route(plan[p])' = u
      BY <2>1, <3>1 DEF Route
    <3>4. QED
      BY <3>2, <3>3 DEF InQueue
  <2>6. ASSUME NEW p \in 1..(cursor' - 1), p = cursor PROVE InQueue(p, Route(plan[p]))'
    <3>1. Route(plan[p])' = r /\ p = c
      BY <2>1, <2>3, <2>6, <2>c DEF Route
    <3>2. QED
      BY <2>4, <3>1 DEF InQueue
  <2>7. QED
    BY <1>a, <2>1, <2>2, <2>5, <2>6
<1>2. ASSUME UNCHANGED <<plan, cursor>>, producer' # "produce" => producer # "produce",
             \A p \in 1..(cursor - 1), q \in Queues :
               InQueue(p, q) => \/ InQueue(p, q)'
                                \/ \E w \in Workers : worker'[w] = "busy" /\ held'[w] = p,
             \A w \in Workers : worker[w] = "busy" =>
               \/ worker'[w] = "busy" /\ held'[w] = held[w]
               \/ held[w] \in written',
             written \subseteq written'
      PROVE  Accounted'
  <2>1. ASSUME NEW p \in 1..(cursor - 1), InQueue(p, Route(plan[p]))
        PROVE  \/ \E w \in Workers : worker'[w] = "busy" /\ held'[w] = p
               \/ InQueue(p, Route(plan[p]))'
    <3>1. PICK u \in Queues : u = Route(plan[p])
      BY <1>0
    <3>2. Route(plan[p])' = u
      BY <1>2, <3>1 DEF Route
    <3>3. \/ \E w \in Workers : worker'[w] = "busy" /\ held'[w] = p
          \/ InQueue(p, u)'
      BY <1>2, <2>1, <3>1
    <3>4. QED
      BY <3>2, <3>3 DEF InQueue
  <2>2. QED
    BY <1>2, <1>a, <2>1 DEF Accounted
<1>3. ASSUME NEW r \in Queues, PutNone(r) PROVE Accounted'
  BY <1>0, <1>2, <1>3, PutNoneItems
<1>4. ASSUME NEW w \in Workers, TakeTask(w) PROVE Accounted'
  <2>1. PICK h \in 1..(cursor - 1) :
          /\ held' = [held EXCEPT ![w] = h]
          /\ worker[w] = "get" /\ worker' = [worker EXCEPT ![w] = "busy"]
          /\ \A q \in Queues, r \in 1..Len(plan) :
               InQueue(r, q)' <=> (InQueue(r, q) /\ r # h)
          /\ UNCHANGED <<plan, cursor, producer, written>>
    BY <1>4, TakeItems
  <2>2. worker'[w] = "busy" /\ held'[w] = h
    BY <2>1 DEF TypeOK
  <2>3. \A v \in Workers : worker[v] = "busy" => worker'[v] = "busy" /\ held'[v] = held[v]
    BY <2>1 DEF TypeOK
  <2>4. QED
    BY <1>0, <1>2, <2>1, <2>2, <2>3
<1>5. ASSUME NEW w \in Workers, FallBack(w) \/ TakeSentinel(w) PROVE Accounted'
  <2>1. /\ Get(w, None) /\ worker[w] = "get" /\ UNCHANGED <<plan, cursor, producer, held, written>>
        /\ \A v \in Workers : v # w => worker'[v] = worker[v]
    BY <1>5 DEF FallBack, TakeSentinel, Get, prodVars, TypeOK
  <2>2. QED
    BY <1>0, <1>2, <2>1, GetNoneItems
<1>6. ASSUME NEW w \in Workers, Export(w) \/ WorkerExits(w) PROVE Accounted'
  <2>1. /\ UNCHANGED <<plan, cursor, producer, queue>> /\ written \subseteq written'
        /\ \A v \in Workers : worker[v] = "busy" =>
             \/ worker'[v] = "busy" /\ held'[v] = held[v]
             \/ held[v] \in written'
    BY <1>6 DEF Export, WorkerExits, prodVars, TypeOK
  <2>2. QED
    BY <1>2, <2>1, SameItems
<1>7. ASSUME NEW w \in Workers, ExportRaises(w) \/ KillWorker(w) PROVE FALSE
  BY <1>7, AppendProperties DEF ExportRaises, KillWorker, Trouble, TypeOK
<1>8. CASE Quiet
  <2>1. CASE producer' # "produce" => producer # "produce"
    BY <1>2, <1>8, <2>1, SameItems DEF Quiet, workVars, Accounted
  <2>2. CASE producer = "produce" /\ producer' # "produce"
    <3>1. EndOfBag
      BY <1>t, <2>2, <1>8, AppendProperties
      DEF Next, Produce, EnqueueTask, OverwriteRaises, ProducerFails, SignalPool,
          PoolSignalled, SignalFallback, SignalTopic, ProducerExits, Work, TakeTask,
          FallBack, TakeSentinel, Export, WorkerExits, ExportRaises, Main, PollEmpty,
          PollException, CheckAlive, JoinKilled, Finish, JoinMonitor,
          KeyboardInterrupt, Kill, KillProducer, KillWorker, CountToken, AbortExport,
          Over, vars, prodVars, Trouble, TypeOK
    <3>2. QED
      BY <1>a, <1>8, <3>1, SameItems, <1>0 DEF EndOfBag, Quiet, workVars, Route, InQueue
  <2>3. QED
    BY <2>1, <2>2, <1>8 DEF Accounted
<1>9. QED
  BY <1>1, <1>3, <1>4, <1>5, <1>6, <1>7, <1>8, StepKinds DEF Accounted

LEMMA MainWaitsStep == TypeOK /\ MainWaits /\ [Next]_vars => MainWaits'
<1> SUFFICES ASSUME TypeOK, MainWaits, [Next]_vars PROVE MainWaits'
  OBVIOUS
<1> USE DEF MainWaits, AllDead
<1>1. CASE Produce \/ ProducerFails
  BY <1>1 DEF Produce, EnqueueTask, EndOfBag, OverwriteRaises, ProducerFails, SignalPool,
     PoolSignalled, SignalFallback, SignalTopic, ProducerExits, workVars
<1>2. ASSUME NEW w \in Workers, Work(w) \/ ExportRaises(w) PROVE MainWaits'
  <2>1. worker[w] # "dead" /\ main' = main
    BY <1>2 DEF Work, TakeTask, FallBack, TakeSentinel, Get, Export, WorkerExits, ExportRaises
  <2>2. QED
    BY <2>1
<1>3. CASE Main
  BY <1>3 DEF Main, PollEmpty, PollException, CheckAlive, JoinKilled, Finish, JoinMonitor,
     workVars, prodVars
<1>4. CASE KeyboardInterrupt \/ Kill
  BY <1>4 DEF KeyboardInterrupt, Kill, KillProducer, KillWorker
<1>5. CASE CountToken \/ AbortExport \/ Over \/ UNCHANGED vars
  BY <1>5 DEF CountToken, AbortExport, Over, vars, workVars, prodVars
<1>6. QED
  BY <1>1, <1>2, <1>3, <1>4, <1>5 DEF Next

\* Only a worker, the calling thread's end and the monitor touch the tokens.
LEMMA TokensFrame ==
  ASSUME TypeOK, [Next]_vars
  PROVE  \/ \E w \in Workers : Export(w)
         \/ Finish \/ JoinMonitor \/ CountToken
         \/ /\ UNCHANGED <<written, progress, done, monitor>>
            /\ Ended' = Ended /\ (main' = "returned" => main = "returned")
<1> USE DEF Ended, monVars
<1>1. CASE Produce \/ ProducerFails
  BY <1>1 DEF Produce, EnqueueTask, EndOfBag, OverwriteRaises, ProducerFails, SignalPool,
     PoolSignalled, SignalFallback, SignalTopic, ProducerExits
<1>2. ASSUME NEW w \in Workers,
             TakeTask(w) \/ FallBack(w) \/ TakeSentinel(w) \/ WorkerExits(w)
               \/ ExportRaises(w) \/ KillWorker(w)
      PROVE  UNCHANGED <<written, progress, done, monitor, main>>
  BY <1>2 DEF TakeTask, FallBack, TakeSentinel, WorkerExits, ExportRaises, KillWorker
<1>3. CASE PollEmpty \/ PollException \/ CheckAlive \/ JoinKilled \/ KeyboardInterrupt
  BY <1>3 DEF PollEmpty, PollException, CheckAlive, JoinKilled, KeyboardInterrupt
<1>4. CASE KillProducer \/ AbortExport \/ Over \/ UNCHANGED vars
  BY <1>4 DEF KillProducer, AbortExport, Over, vars
<1>5. QED
  BY <1>1, <1>2, <1>3, <1>4 DEF Next, Work, Main, Kill

LEMMA TokensAccountedStep ==
  TypeOK /\ WorkerShape /\ OnePlace /\ MainWaits /\ TokensAccounted /\ [Next]_vars
    => TokensAccounted'
<1> SUFFICES ASSUME TypeOK, WorkerShape, OnePlace, MainWaits, TokensAccounted, [Next]_vars
             PROVE  TokensAccounted'
  OBVIOUS
<1> DEFINE count == Cardinality(written)
<1>a. /\ Len(plan) \in Nat
      /\ progress \in Seq({1, None}) /\ Len(progress) \in Nat /\ done \in Nat
  BY PlanType DEF TypeOK
<1>b. IsFiniteSet(written) /\ count \in Nat
  <2>1. IsFiniteSet(1..Len(plan))
    BY <1>a, FS_Interval
  <2>2. written \subseteq 1..Len(plan)
    BY DEF TypeOK
  <2>3. IsFiniteSet(written)
    BY <2>1, <2>2, FS_Subset
  <2>4. QED
    BY <2>3, FS_CardinalityType
<1>c. ~Ended => done + Len(progress) = Cardinality(written)
  BY DEF TokensAccounted
<1>1. ASSUME NEW w \in Workers, Export(w) PROVE TokensAccounted'
  <2>1. worker[w] = "busy" /\ held[w] \notin written /\ written' = written \cup {held[w]}
    BY <1>1 DEF Export, OnePlace
  <2>2. ~Ended /\ main' = main /\ ~Ended'
    BY <1>1, <2>1 DEF Export, MainWaits, AllDead, Ended
  <2>3. Cardinality(written') = count + 1
    BY <1>b, <2>1, FS_AddElement, Zenon
  <2>4. progress' = Append(progress, 1) /\ done' = done /\ monitor' = monitor
    BY <1>1 DEF Export
  <2>5. /\ Len(progress') = Len(progress) + 1
        /\ \A i \in 1..Len(progress) : progress'[i] = progress[i]
        /\ progress'[Len(progress) + 1] = 1
    BY <1>a, <2>4, AppendProperties
  <2>6. \A i \in 1..Len(progress') : progress'[i] # None
    BY <1>a, <2>2, <2>5 DEF TokensAccounted
  <2>7. monitor' # "dead"
    BY <2>2, <2>4 DEF TokensAccounted
  <2>8. done' + Len(progress') = Cardinality(written')
    <3>1. done + Len(progress) = count
      BY <1>c, <2>2
    <3>2. QED
      BY <1>a, <1>b, <2>3, <2>4, <2>5, <3>1
  <2>9. QED
    BY <2>2, <2>6, <2>7, <2>8 DEF TokensAccounted, Ended
<1>2. CASE Finish
  <2>1. /\ ~Ended /\ Ended' /\ progress' = Append(progress, None)
        /\ main' = "join" /\ UNCHANGED <<written, done, monitor>>
    BY <1>2 DEF Finish, Ended
  <2>2. /\ Len(progress') = Len(progress) + 1
        /\ \A i \in 1..Len(progress) : progress'[i] = progress[i]
        /\ progress'[Len(progress) + 1] = None
    BY <1>a, <2>1, AppendProperties
  <2>3. \A i \in 1..Len(progress') : progress'[i] = None => i = Len(progress')
    BY <1>a, <2>1, <2>2 DEF TokensAccounted
  <2>4. monitor' = "counting"
    BY <2>1 DEF TokensAccounted, TypeOK
  <2>5. done' + Len(progress') = Cardinality(written') + 1
    BY <1>a, <1>b, <2>1, <2>2 DEF TokensAccounted
  <2>6. progress' # <<>>
    BY <1>a, <2>2
  <2>7. QED
    BY <2>1, <2>2, <2>3, <2>4, <2>5, <2>6 DEF TokensAccounted
<1>3. CASE JoinMonitor
  BY <1>3 DEF JoinMonitor, TokensAccounted, Ended, monVars
<1>4. CASE CountToken
  <2>1. /\ monitor = "counting" /\ progress # <<>> /\ progress' = Tail(progress)
        /\ written' = written /\ Ended' = Ended /\ main' = main
    BY <1>4 DEF CountToken, Ended
  <2>2. /\ Len(progress) \in Nat \ {0} /\ Len(progress') = Len(progress) - 1
        /\ \A i \in 1..Len(progress') : progress'[i] = progress[i + 1]
        /\ Head(progress) = progress[1] /\ progress' \in Seq({1, None})
    BY <1>a, <2>1, HeadTailProperties, EmptySeq, LenProperties
  <2>3. CASE Head(progress) = None
    <3>1. Len(progress) = 1 /\ Ended /\ monitor' = "dead" /\ done' = done
      <4>1. progress[1] = None /\ 1 \in 1..Len(progress)
        BY <2>2, <2>3
      <4>2. Ended /\ 1 = Len(progress)
        BY <4>1 DEF TokensAccounted
      <4>3. monitor' = "dead" /\ done' = done
        BY <1>4, <2>3 DEF CountToken
      <4>4. QED
        BY <4>2, <4>3
    <3>2. Len(progress') = 0 /\ progress' = <<>>
      BY <2>2, <3>1, EmptySeq
    <3>3. done' + Len(progress') = Cardinality(written')
      BY <1>a, <1>b, <2>1, <3>1, <3>2 DEF TokensAccounted
    <3>4. QED
      BY <2>1, <3>1, <3>2, <3>3 DEF TokensAccounted
  <2>4. CASE Head(progress) # None
    <3>1. done' = done + 1 /\ monitor' = "counting"
      BY <1>4, <2>1, <2>4 DEF CountToken
    <3>2. \A i \in 1..Len(progress') : progress'[i] = None => Ended' /\ i = Len(progress')
      <4>1. SUFFICES ASSUME NEW i \in 1..Len(progress'), progress'[i] = None
                     PROVE  Ended /\ i = Len(progress')
        BY <2>1
      <4>2. i + 1 \in 1..Len(progress) /\ progress[i + 1] = None
        BY <2>2, <4>1
      <4>3. Ended /\ i + 1 = Len(progress)
        BY <4>2 DEF TokensAccounted
      <4>4. QED
        BY <2>2, <4>3
    <3>3. Ended' => progress' # <<>> /\ progress'[Len(progress')] = None
      <4>1. SUFFICES ASSUME Ended PROVE progress' # <<>> /\ progress'[Len(progress')] = None
        BY <2>1
      <4>2. progress[Len(progress)] = None
        BY <2>1, <4>1 DEF TokensAccounted
      <4>3. Len(progress) # 1
        BY <2>2, <2>4, <4>2
      <4>4. Len(progress') \in 1..Len(progress') /\ Len(progress') + 1 = Len(progress)
        BY <2>2, <4>3
      <4>5. QED
        BY <2>2, <4>2, <4>4
    <3>4. done' + Len(progress') = done + Len(progress)
      BY <1>a, <2>2, <3>1
    <3>5. CASE Ended
      <4>1. done' + Len(progress') = Cardinality(written') + 1
        BY <2>1, <3>4, <3>5 DEF TokensAccounted
      <4>2. QED
        BY <2>1, <3>1, <3>2, <3>3, <3>5, <4>1 DEF TokensAccounted
    <3>6. CASE ~Ended
      <4>1. done' + Len(progress') = Cardinality(written')
        BY <1>c, <2>1, <3>4, <3>6
      <4>2. QED
        BY <2>1, <3>1, <3>2, <3>6, <4>1 DEF TokensAccounted
    <3>7. QED
      BY <3>5, <3>6
  <2>5. QED
    BY <2>3, <2>4
<1>5. CASE /\ UNCHANGED <<written, progress, done, monitor>>
           /\ Ended' = Ended /\ (main' = "returned" => main = "returned")
  BY <1>5 DEF TokensAccounted
<1>6. QED
  BY <1>1, <1>2, <1>3, <1>4, <1>5, TokensFrame

-----------------------------------------------------------------------------
\* The invariant holds in every reachable state of the exporter.
THEOREM Invariance == Spec => []IInv
<1>1. Init => IInv
  BY IInvInit
<1>2. IInv /\ [Next]_vars => IInv'
  BY TypeStep, QueueShapeStep, WorkerShapeStep, OnePlaceStep, FilesApartStep,
     SequentialOrderStep, FileOrderStep, ClosedStep, AccountedStep, MainWaitsStep,
     TokensAccountedStep
  DEF IInv
<1>3. QED
  BY <1>1, <1>2, PTL DEF Spec

\* Every variable of the exporter keeps its type.
THEOREM TypeCorrect == Spec => []TypeOK
<1>1. IInv => TypeOK
  BY DEF IInv
<1>2. QED
  BY <1>1, Invariance, PTL

\* No two workers work on one file and a SINGLE_FILE topic has one worker, for
\* any number of topics and workers.
THEOREM FileOwnership == Spec => []FileOwner
<1>1. IInv => FileOwner
  <2> SUFFICES ASSUME IInv, NEW w \in Workers, worker[w] = "busy"
               PROVE  /\ plan[held[w]].topic \in Single => plan[held[w]].topic = w
                      /\ \A v \in Workers \ {w} :
                           worker[v] = "busy" => plan[held[v]].file # plan[held[w]].file
    BY DEF FileOwner
  <2>0. /\ plan \in Plans /\ cursor \in Nat /\ Len(plan) \in Nat
        /\ cursor <= Len(plan) + 1
    BY PlanType DEF IInv, TypeOK
  <2>1. ASSUME NEW v \in Workers, worker[v] = "busy"
        PROVE  /\ held[v] \in 1..(cursor - 1) /\ held[v] \in 1..Len(plan)
               /\ plan[held[v]].topic \in Single =>
                    plan[held[v]].topic = v /\ plan[held[v]].file = v
               /\ plan[held[v]].topic \in Multi \/ plan[held[v]].topic \in Single
    <3>1. held[v] \in 1..(cursor - 1) /\ Route(plan[held[v]]) = source[v]
          /\ source[v] \in {v, Pool}
      BY <2>1 DEF IInv, WorkerShape
    <3>2. held[v] \in 1..Len(plan)
      BY <2>0, <3>1
    <3>3. QED
      BY <2>0, <3>1, <3>2, RouteType, PipelineAssumption DEF PipelineAssumption
  <2>2. ASSUME NEW v \in Workers \ {w}, worker[v] = "busy",
               plan[held[v]].file = plan[held[w]].file
        PROVE  FALSE
    <3>1. held[v] # held[w]
      BY <2>2 DEF IInv, OnePlace
    <3>2. plan[held[w]].topic \notin Multi /\ plan[held[v]].topic \notin Multi
      BY <2>1, <2>2, <3>1 DEF IInv, FilesApart
    <3>3. QED
      BY <2>1, <2>2, <3>2
  <2>3. QED
    BY <2>1, <2>2
<1>2. QED
  BY <1>1, Invariance, PTL

\* Every file is a gapless prefix of its records, in every state.
THEOREM FilesInOrder == Spec => []FileOrder
<1>1. IInv => FileOrder
  BY DEF IInv
<1>2. QED
  BY <1>1, Invariance, PTL

\* Once every process ended without trouble, every message is in its file.
LEMMA Complete ==
  ASSUME IInv, main \in {"finish", "join", "returned"}, exceptions = <<>>
  PROVE  written = 1..Len(plan)
<1>1. ~Trouble /\ AllDead
  BY DEF IInv, MainWaits, Trouble
<1>2. PICK v \in ParWorkers : TRUE
  BY PipelineAssumption DEF PipelineAssumption
<1>3. \A w \in Workers : worker[w] = "dead" /\ source[w] = Pool
  BY <1>1 DEF IInv, AllDead, Closed
<1>4. cursor = Len(plan) + 1 /\ Len(plan) \in Nat /\ cursor \in Nat
  BY <1>1, PlanType DEF IInv, AllDead, Accounted, TypeOK
<1>5. \A p \in 1..Len(plan) : ~InQueue(p, Pool)
  BY <1>1, <1>2 DEF IInv, AllDead, Closed, Workers
<1>6. \A t \in Single, p \in 1..Len(plan) : ~InQueue(p, t)
  BY <1>3 DEF IInv, Closed, Workers
<1>7. \A p \in 1..Len(plan) : p \in written
  <2>1. \A p \in 1..Len(plan) : Route(plan[p]) \in Queues
    BY RouteType DEF IInv, TypeOK
  <2>2. \A p \in 1..Len(plan) : ~InQueue(p, Route(plan[p]))
    BY <1>5, <1>6, <2>1 DEF Queues
  <2>3. QED
    BY <1>1, <1>3, <1>4, <2>2 DEF IInv, Accounted
<1>8. QED
  BY <1>4, <1>7 DEF IInv, TypeOK

\* A return with an empty exception queue means that every message of the bag
\* is in its file, for any bag, pool and capacity.
THEOREM CompleteReturn == Spec => []NormalReturnIsComplete
<1>1. IInv => NormalReturnIsComplete
  BY Complete DEF NormalReturnIsComplete
<1>2. QED
  BY <1>1, Invariance, PTL

\* When run returns, the progress callback has been called once for every file
\* record written: the monitor is joined only after it has taken the end, and no
\* worker's token can stand behind the end.
THEOREM ProgressComplete == Spec => []MonitorCountsAll
<1>1. IInv => MonitorCountsAll
  <2> SUFFICES ASSUME IInv, main = "returned" PROVE done = Cardinality(written)
    BY DEF MonitorCountsAll
  <2>1. Ended /\ monitor = "dead" /\ progress = <<>>
    BY DEF Ended, IInv, TokensAccounted
  <2>2. done + 0 = Cardinality(written) /\ done \in Nat
    BY <2>1 DEF IInv, TokensAccounted, TypeOK
  <2>3. QED
    BY <2>2
<1>2. QED
  BY <1>1, Invariance, PTL

\* Nothing is written once run is over.
THEOREM QuietAfterRun == Spec => NoWriteAfterRun
<1>1. IInv /\ [Next]_vars => [RunOver => written' = written]_vars
  <2> SUFFICES ASSUME IInv, [Next]_vars, RunOver PROVE written' = written
    OBVIOUS
  <2>1. \A w \in Workers : worker[w] = "dead"
    BY DEF IInv, MainWaits, AllDead, RunOver
  <2>2. QED
    BY <2>1, StepKinds DEF IInv, EnqueueTask, PutNone, TakeTask, FallBack, TakeSentinel,
       Export, ExportRaises, WorkerExits, KillWorker, Quiet
<1>2. QED
  BY <1>1, Invariance, PTL DEF Spec, NoWriteAfterRun

\* The multiprocessing exporter implements the contract of one call of run.
THEOREM Refinement == Spec => ImplementsJob
<1> DEFINE outcome == IF RunOver THEN main ELSE "running"
           fault == exceptions # <<>> \/ main \in {"terminate", "raised"}
<1>1. Init => Job!Init
  <2> SUFFICES ASSUME Init PROVE Job!Init
    OBVIOUS
  <2>1. plan \in Seq(Messages)
    BY PlanType DEF Init
  <2>2. QED
    BY <2>1 DEF Init, Job!Init, RunOver
<1>2. IInv /\ IInv' /\ [Next]_vars => [Job!Next]_(Job!vars)
  <2> SUFFICES ASSUME IInv, IInv', [Next]_vars PROVE [Job!Next]_(Job!vars)
    OBVIOUS
  <2> USE DEF RunOver, Job!vars
  <2>1. ASSUME NEW w \in Workers, Export(w) PROVE Job!Next
    <3>1. /\ held[w] \in 1..(cursor - 1) /\ held[w] \notin written /\ worker[w] # "dead"
          /\ held[w] \in 1..Len(plan)
      BY <2>1, PlanType DEF Export, IInv, WorkerShape, OnePlace, TypeOK
    <3>2. ~RunOver
      BY <3>1 DEF IInv, MainWaits, AllDead
    <3>3. \A q \in 1..(held[w] - 1) : plan[q].file = plan[held[w]].file => q \in written
      <4>1. held[w] \in Nat /\ written' = written \cup {held[w]} /\ plan' = plan
        BY <2>1, <3>1, PlanType DEF Export, IInv, TypeOK
      <4>2. \A q \in 1..(held[w] - 1) : plan[q].file = plan[held[w]].file => q \in written'
        BY <4>1 DEF IInv, FileOrder
      <4>3. QED
        BY <4>1, <4>2
    <3>4. Job!Write(held[w])
      BY <2>1, <3>1, <3>2, <3>3 DEF Export, Job!Write, Job!EarlierInFile
    <3>5. QED
      BY <3>1, <3>4 DEF Job!Next, Job!Positions
  <2>2. ASSUME \/ ProducerFails \/ AbortExport
               \/ \E w \in Workers : ExportRaises(w)
        PROVE  Job!Next
    <3>1. exceptions' # <<>> /\ UNCHANGED <<plan, written, main>>
      BY <2>2, AppendProperties DEF ProducerFails, AbortExport, ExportRaises, IInv, TypeOK
    <3>2. QED
      BY <3>1 DEF Job!Next, Job!PostFault
  <2>3. CASE PollEmpty \/ PollException \/ CheckAlive \/ KeyboardInterrupt \/ Finish
    BY <2>3 DEF PollEmpty, PollException, CheckAlive, KeyboardInterrupt, Finish
  <2>4. CASE JoinKilled
    BY <2>4 DEF JoinKilled, Job!Next, Job!Raise, Job!Interrupt
  <2>5. CASE JoinMonitor
    BY <2>5, Complete DEF JoinMonitor, Job!Next, Job!Return, Job!Positions
  <2>6. CASE UNCHANGED <<plan, written, exceptions, main>>
    BY <2>6
  <2>7. ASSUME NEW w \in Workers,
               TakeTask(w) \/ FallBack(w) \/ TakeSentinel(w) \/ WorkerExits(w)
        PROVE  UNCHANGED <<plan, written, exceptions, main>>
    BY <2>7 DEF TakeTask, FallBack, TakeSentinel, WorkerExits
  <2>8. CASE Produce
    BY <2>2, <2>6, <2>8 DEF Produce, EnqueueTask, EndOfBag, OverwriteRaises, SignalPool,
       PoolSignalled, SignalFallback, SignalTopic, ProducerExits
  <2>9. CASE Kill \/ CountToken \/ Over \/ UNCHANGED vars
    BY <2>6, <2>9 DEF Kill, KillProducer, KillWorker, CountToken, Over, vars
  <2>10. QED
    BY <2>1, <2>2, <2>3, <2>4, <2>5, <2>6, <2>7, <2>8, <2>9 DEF Next, Work, Main
<1>3. QED
  BY <1>1, <1>2, Invariance, PTL DEF Spec, Job!Spec, ImplementsJob
=============================================================================
