------------------------------ MODULE Batching ------------------------------
(***************************************************************************)
(* Predictions in batches: BatchingModel::predict() hands its task to a    *)
(* scheduler and waits; threads of the scheduler take batches of tasks and *)
(* run them on a processor out of CompositeBatchProcessor's pool.          *)
(*                                                                         *)
(* The scheduler itself is TensorFlow's BasicBatchScheduler, which is not  *)
(* in the repository: a queue of batches of which the last one may grow.   *)
(* Time is a set of requests whose deadline has passed.                    *)
(***************************************************************************)
EXTENDS Integers, Sequences, FiniteSets, FiniteSetsExt

CONSTANTS Clients,         \* threads that call predict(), one call at a time
          BatchThreads,    \* threads of the scheduler
          Processors,      \* instances of the model
          MaxBatchSize,    \* max_batch_size of the model
          MaxSize,         \* bound on the batch size of one request
          DynamicBatching, \* whether the model has a dynamic_batching section
          MaxEnqueued,     \* its max_enqueued_batches
          None

\* UniqueBatcherModelWrapper::options(): num_batch_threads is count().
ASSUME ThreadsMatchInstances ==
  /\ IsFiniteSet(Processors)
  /\ IsFiniteSet(BatchThreads)
  /\ Cardinality(BatchThreads) = Cardinality(Processors)
ASSUME NoneIsNoProcessor == None \notin Processors
ASSUME NoneIsNoStatus == None \notin {"OK", "FAILED", "TIMEOUT", "NO_INSTANCE", "REFUSED"}
ASSUME BoundsNat == MaxBatchSize \in Nat /\ MaxSize \in Nat \ {0} /\ MaxEnqueued \in Nat

VARIABLES queue,      \* batches that wait for a thread
          size,       \* zeroth_dim_size of each client's task
          calling,    \* clients that are inside predict()
          status,     \* the status of the call; None while the task waits
          expired,    \* clients whose deadline has passed
          pc,         \* what each thread of the scheduler does
          batch,      \* the tasks it still has to notify
          result,     \* the status they will get
          holds,      \* the processor it has taken
          available   \* CompositeBatchProcessor::availableProcessors

clients == <<size, calling, status, expired>>
threads == <<pc, batch, result>>
pool == <<holds, available>>
vars == <<queue, clients, threads, pool>>

Status == {"OK", "FAILED", "TIMEOUT", "NO_INSTANCE", "REFUSED"}

\* optionsFromConfig(); 10 is the scheduler's default.
QueueLimit == IF DynamicBatching /\ MaxEnqueued # 0 THEN MaxEnqueued ELSE 10

Room(b) == MaxBatchSize - MapThenSumSet(LAMBDA c : size[c], b)
Joins(n) == queue # <<>> /\ Room(queue[Len(queue)]) >= n
Accepts(n) == n <= MaxBatchSize /\ (Joins(n) \/ Len(queue) < QueueLimit)

Init ==
  /\ queue = <<>>
  /\ size = [c \in Clients |-> 1]
  /\ calling = {}
  /\ status = [c \in Clients |-> None]
  /\ expired = {}
  /\ pc = [t \in BatchThreads |-> "idle"]
  /\ batch = [t \in BatchThreads |-> {}]
  /\ result = [t \in BatchThreads |-> None]
  /\ holds = [t \in BatchThreads |-> None]
  /\ available = Processors
-----------------------------------------------------------------------------
\* predict(): Schedule() takes the task ...
Schedule(c, n) ==
  /\ c \notin calling /\ Accepts(n)
  /\ queue' = IF Joins(n) THEN [queue EXCEPT ![Len(queue)] = @ \union {c}]
                          ELSE Append(queue, {c})
  /\ size' = [size EXCEPT ![c] = n]
  /\ calling' = calling \union {c}
  /\ UNCHANGED <<status, expired, threads, pool>>

\* ... or refuses it, as it must when there is no scheduler because it could
\* not be created for a max_batch_size of 0.
Refuse(c, n) ==
  /\ c \notin calling /\ ~Accepts(n)
  /\ calling' = calling \union {c}
  /\ status' = [status EXCEPT ![c] = "REFUSED"]
  /\ UNCHANGED <<queue, size, expired, threads, pool>>

\* predict() returns, after WaitForNotification() if it waited.
Return(c) ==
  /\ c \in calling /\ status[c] # None
  /\ calling' = calling \ {c}
  /\ status' = [status EXCEPT ![c] = None]
  /\ size' = [size EXCEPT ![c] = 1]
  /\ expired' = expired \ {c}
  /\ UNCHANGED <<queue, threads, pool>>

\* Time goes by while a task has not been processed.
Expire(c) ==
  /\ c \in calling \ expired /\ status[c] = None
  /\ expired' = expired \union {c}
  /\ UNCHANGED <<queue, size, calling, status, threads, pool>>
-----------------------------------------------------------------------------
\* Mutant of Dequeue: the batch is not removed from the queue.
DequeueCopies(t) ==
  /\ pc[t] = "idle" /\ queue # <<>>
  /\ batch' = [batch EXCEPT ![t] = Head(queue)]
  /\ pc' = [pc EXCEPT ![t] = "dequeued"]
  /\ UNCHANGED <<queue, clients, result, pool>>

\* The scheduler closes the oldest batch and calls the Processor with it.
Dequeue(t) ==
  /\ pc[t] = "idle" /\ queue # <<>>
  /\ batch' = [batch EXCEPT ![t] = Head(queue)]
  /\ queue' = Tail(queue)
  /\ pc' = [pc EXCEPT ![t] = "dequeued"]
  /\ UNCHANGED <<clients, result, pool>>

\* Mutant of TimedOut: one task is enough.
AnyTimedOut(t) == batch[t] \intersect expired # {}

\* all_tasks_timeout_exceeded
TimedOut(t) == batch[t] \subseteq expired

\* Mutant of GiveUp: the tasks are not told.
GiveUpSilently(t) ==
  /\ pc[t] = "dequeued" /\ TimedOut(t)
  /\ pc' = [pc EXCEPT ![t] = "idle"]
  /\ batch' = [batch EXCEPT ![t] = {}]
  /\ UNCHANGED <<queue, clients, result, pool>>

GiveUp(t) ==
  /\ pc[t] = "dequeued" /\ TimedOut(t)
  /\ result' = [result EXCEPT ![t] = "TIMEOUT"]
  /\ pc' = [pc EXCEPT ![t] = "notifying"]
  /\ UNCHANGED <<queue, clients, batch, pool>>

Start(t) ==
  /\ pc[t] = "dequeued" /\ ~TimedOut(t)
  /\ pc' = [pc EXCEPT ![t] = "taking"]
  /\ UNCHANGED <<queue, clients, batch, result, pool>>

\* Mutant of Take: the processor stays in the pool while it is used.
TakeShared(t) ==
  /\ pc[t] = "taking" /\ available # {}
  /\ holds' = [holds EXCEPT ![t] = CHOOSE p \in available : TRUE]
  /\ pc' = [pc EXCEPT ![t] = "running"]
  /\ UNCHANGED <<queue, clients, batch, result, available>>

\* CompositeBatchProcessor::processBatch() takes a processor under the lock, or
\* fails for want of one.
Take(t) ==
  /\ pc[t] = "taking"
  /\ IF available = {}
     THEN /\ result' = [result EXCEPT ![t] = "NO_INSTANCE"]
          /\ pc' = [pc EXCEPT ![t] = "notifying"]
          /\ UNCHANGED pool
     ELSE /\ \E p \in available :
               /\ holds' = [holds EXCEPT ![t] = p]
               /\ available' = available \ {p}
          /\ pc' = [pc EXCEPT ![t] = "running"]
          /\ UNCHANGED result
  /\ UNCHANGED <<queue, clients, batch>>

\* The instance processes the batch.
Process(t, r) ==
  /\ pc[t] = "running"
  /\ result' = [result EXCEPT ![t] = r]
  /\ pc' = [pc EXCEPT ![t] = "returning"]
  /\ UNCHANGED <<queue, clients, batch, pool>>

\* Mutant of GiveBack: an error is returned before the lock is taken.
GiveBackIfOK(t) ==
  /\ pc[t] = "returning"
  /\ available' = IF result[t] = "OK" THEN available \union {holds[t]} ELSE available
  /\ holds' = [holds EXCEPT ![t] = None]
  /\ pc' = [pc EXCEPT ![t] = "notifying"]
  /\ UNCHANGED <<queue, clients, batch, result>>

\* The second critical section of processBatch().
GiveBack(t) ==
  /\ pc[t] = "returning"
  /\ available' = available \union {holds[t]}
  /\ holds' = [holds EXCEPT ![t] = None]
  /\ pc' = [pc EXCEPT ![t] = "notifying"]
  /\ UNCHANGED <<queue, clients, batch, result>>

\* The cleanup: sets the status of every task and notifies it.
Notify(t, c) ==
  /\ pc[t] = "notifying" /\ c \in batch[t]
  /\ status' = [status EXCEPT ![c] = result[t]]
  /\ batch' = [batch EXCEPT ![t] = @ \ {c}]
  /\ IF batch[t] = {c}
     THEN pc' = [pc EXCEPT ![t] = "idle"] /\ result' = [result EXCEPT ![t] = None]
     ELSE UNCHANGED <<pc, result>>
  /\ UNCHANGED <<queue, size, calling, expired, pool>>

Step(t) == \/ Dequeue(t) \/ GiveUp(t) \/ Start(t) \/ Take(t) \/ GiveBack(t)
           \/ \E r \in {"OK", "FAILED"} : Process(t, r)
           \/ \E c \in Clients : Notify(t, c)

Next == \/ \E c \in Clients :
             Return(c) \/ Expire(c) \/ \E n \in 1 .. MaxSize : Schedule(c, n) \/ Refuse(c, n)
        \/ \E t \in BatchThreads : Step(t)

\* A thread of the scheduler goes on as long as it has work, an instance ends
\* its computation, and a client that was notified wakes up.
Fairness == /\ \A t \in BatchThreads : WF_vars(Step(t))
            /\ \A c \in Clients : WF_vars(Return(c))

Spec == Init /\ [][Next]_vars /\ Fairness
-----------------------------------------------------------------------------
TypeOK ==
  /\ queue \in Seq(SUBSET Clients) /\ \A i \in DOMAIN queue : queue[i] # {}
  /\ size \in [Clients -> 1 .. MaxSize]
  /\ calling \subseteq Clients /\ expired \subseteq Clients
  /\ status \in [Clients -> Status \union {None}]
  /\ pc \in [BatchThreads -> {"idle", "dequeued", "taking", "running", "returning", "notifying"}]
  /\ batch \in [BatchThreads -> SUBSET Clients]
  /\ \A t \in BatchThreads : batch[t] = {} <=> pc[t] = "idle"
  /\ result \in [BatchThreads -> Status \union {None}]
  /\ \A t \in BatchThreads : result[t] # None <=> pc[t] \in {"returning", "notifying"}
  /\ holds \in [BatchThreads -> Processors \union {None}]
  /\ available \subseteq Processors

\* The error "Can't find an available instance, should check whether number
\* of threads match instances!" never comes up: processBatch() always finds a
\* processor, whatever failed before.
PoolSuffices == \A t \in BatchThreads : pc[t] = "taking" => available # {}

\* An instance is not thread safe: no two threads have it at once, and none
\* has it while it is in the pool.
ProcessorsExclusive ==
  \A t \in BatchThreads : holds[t] # None =>
    /\ holds[t] \notin available
    /\ \A u \in BatchThreads \ {t} : holds[u] # holds[t]

\* The pool of processors is exact: a thread finds one in it whenever it needs
\* one, and what it took is its own until it gives it back.
PoolIsExact == PoolSuffices /\ ProcessorsExclusive

\* A task lives on the stack of predict(): it is in one place only, and a
\* thread that will write its status finds it waiting and unanswered.
TasksAlive ==
  \A c \in Clients :
    LET inQueue == {i \in DOMAIN queue : c \in queue[i]}
        inBatch == {t \in BatchThreads : c \in batch[t]}
    IN Cardinality(inQueue) + Cardinality(inBatch) =
         IF c \in calling /\ status[c] = None THEN 1 ELSE 0

\* "Run() timeout exceeded while waiting in batching queue" is said only to
\* requests whose own time is over.
TimeoutIsOwn == \A c \in Clients : status[c] = "TIMEOUT" => c \in expired

\* Every call of predict() returns.
PredictReturns == \A c \in Clients : c \in calling ~> c \notin calling
=============================================================================
