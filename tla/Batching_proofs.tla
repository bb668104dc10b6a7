--------------------------- MODULE Batching_proofs ---------------------------
(***************************************************************************)
(* Proofs about Batching: types, the pool of processors, and the tasks.    *)
(*                                                                         *)
(* The pool suffices by counting: every processor is in the pool or with   *)
(* one thread, and a thread that is about to take one has none, so that    *)
(* the other threads are too few to have them all.  That a task is alive   *)
(* needs to know where it can be: in one batch of the queue or with one    *)
(* thread, and in neither once it has a status.                            *)
(***************************************************************************)
EXTENDS Batching, FiniteSetTheorems, SequenceTheorems, TLAPS

\* A thread has a processor from take to give-back, and no processor is lost.
PoolInv ==
  /\ \A t \in BatchThreads : holds[t] # None <=> pc[t] \in {"running", "returning"}
  /\ ProcessorsExclusive
  /\ \A p \in Processors : p \in available \/ \E t \in BatchThreads : holds[t] = p

-----------------------------------------------------------------------------
\* Adding to the last batch, adding a batch and removing the first one leave
\* a queue of nonempty batches.
LEMMA AppendedType ==
  ASSUME NEW q \in Seq(SUBSET Clients), \A i \in DOMAIN q : q[i] # {}, NEW c \in Clients
  PROVE  /\ Append(q, {c}) \in Seq(SUBSET Clients)
         /\ \A i \in DOMAIN Append(q, {c}) : Append(q, {c})[i] # {}
OBVIOUS

LEMMA QueueType ==
  ASSUME NEW q \in Seq(SUBSET Clients), \A i \in DOMAIN q : q[i] # {}, q # <<>>,
         NEW c \in Clients
  PROVE  LET e == [q EXCEPT ![Len(q)] = @ \union {c}]
         IN e \in Seq(SUBSET Clients) /\ \A i \in DOMAIN e : e[i] # {}
<1> DEFINE e == [q EXCEPT ![Len(q)] = @ \union {c}]
<1>1. Len(q) \in DOMAIN q /\ q[Len(q)] \subseteq Clients
  OBVIOUS
<1>2. q[Len(q)] \union {c} \in SUBSET Clients
  BY <1>1
<1>3. e \in Seq(SUBSET Clients)
  BY <1>1, <1>2, ExceptSeq
<1>4. \A i \in DOMAIN e : e[i] # {}
  BY <1>1
<1> QED BY <1>3, <1>4

LEMMA DequeuedType ==
  ASSUME NEW q \in Seq(SUBSET Clients), \A i \in DOMAIN q : q[i] # {}, q # <<>>
  PROVE  /\ Tail(q) \in Seq(SUBSET Clients)
         /\ \A i \in DOMAIN Tail(q) : Tail(q)[i] # {}
         /\ Head(q) \in SUBSET Clients /\ Head(q) # {}
<1>1. Tail(q) \in Seq(SUBSET Clients) /\ \A i \in DOMAIN Tail(q) : Tail(q)[i] # {}
  BY HeadTailProperties
<1>2. Head(q) \in SUBSET Clients /\ Head(q) # {}
  OBVIOUS
<1> QED BY <1>1, <1>2

-----------------------------------------------------------------------------
LEMMA TypeInit == Init => TypeOK
<1> SUFFICES ASSUME Init PROVE TypeOK
  OBVIOUS
<1>1. queue = <<>> /\ DOMAIN queue = {} /\ queue \in Seq(SUBSET Clients)
  BY DEF Init
<1> QED BY <1>1, BoundsNat DEF Init, TypeOK, Status

LEMMA TypeStep == TypeOK /\ PoolInv /\ [Next]_vars => TypeOK'
<1> SUFFICES ASSUME TypeOK, PoolInv, [Next]_vars PROVE TypeOK'
  OBVIOUS
<1> USE NoneIsNoStatus DEF TypeOK, Status
<1>1. ASSUME NEW c \in Clients, NEW n \in 1 .. MaxSize, Schedule(c, n) PROVE TypeOK'
  <2> DEFINE Good == queue' \in Seq(SUBSET Clients) /\ \A i \in DOMAIN queue' : queue'[i] # {}
  <2>1. ASSUME Joins(n) PROVE Good
    <3>1. queue # <<>> /\ queue' = [queue EXCEPT ![Len(queue)] = @ \union {c}]
      BY <1>1, <2>1 DEF Schedule, Joins
    <3> QED BY <3>1, QueueType
  <2>2. ASSUME ~Joins(n) PROVE Good
    <3>1. queue' = Append(queue, {c})
      BY <1>1, <2>2 DEF Schedule
    <3>2. /\ Append(queue, {c}) \in Seq(SUBSET Clients)
          /\ \A i \in DOMAIN Append(queue, {c}) : Append(queue, {c})[i] # {}
      BY AppendedType
    <3> QED BY ONLY <3>1, <3>2 DEF Good
  <2>3. Good
    BY <2>1, <2>2
  <2> QED BY <1>1, <2>3 DEF Schedule, threads, pool
<1>2. ASSUME NEW c \in Clients, NEW n \in 1 .. MaxSize, Refuse(c, n) PROVE TypeOK'
  BY <1>2 DEF Refuse, threads, pool
<1>3. ASSUME NEW c \in Clients, Return(c) PROVE TypeOK'
  BY <1>3, BoundsNat DEF Return, threads, pool
<1>4. ASSUME NEW c \in Clients, Expire(c) PROVE TypeOK'
  BY <1>4 DEF Expire, threads, pool
<1>5. ASSUME NEW t \in BatchThreads, Dequeue(t) PROVE TypeOK'
  <2>1. queue' \in Seq(SUBSET Clients) /\ \A i \in DOMAIN queue' : queue'[i] # {}
    <3>1. queue # <<>> /\ queue' = Tail(queue)
      BY <1>5 DEF Dequeue
    <3> QED BY <3>1, DequeuedType
  <2>2. Head(queue) \in SUBSET Clients /\ Head(queue) # {}
    BY <1>5, DequeuedType DEF Dequeue
  <2> QED BY <1>5, <2>1, <2>2 DEF Dequeue, clients, pool
<1>6. ASSUME NEW t \in BatchThreads, GiveUp(t) PROVE TypeOK'
  BY <1>6 DEF GiveUp, clients, pool
<1>7. ASSUME NEW t \in BatchThreads, Start(t) PROVE TypeOK'
  BY <1>7 DEF Start, clients, pool
<1>8. ASSUME NEW t \in BatchThreads, Take(t) PROVE TypeOK'
  BY <1>8 DEF Take, clients, pool
<1>9. ASSUME NEW t \in BatchThreads, NEW r \in {"OK", "FAILED"}, Process(t, r) PROVE TypeOK'
  BY <1>9 DEF Process, clients, pool
<1>10. ASSUME NEW t \in BatchThreads, GiveBack(t) PROVE TypeOK'
  BY <1>10 DEF GiveBack, clients, PoolInv
<1>11. ASSUME NEW t \in BatchThreads, NEW c \in Clients, Notify(t, c) PROVE TypeOK'
  BY <1>11 DEF Notify, pool
<1>12. CASE UNCHANGED vars
  BY <1>12 DEF vars, clients, threads, pool
<1> QED BY <1>1, <1>2, <1>3, <1>4, <1>5, <1>6, <1>7, <1>8, <1>9, <1>10, <1>11, <1>12
        DEF Next, Step

-----------------------------------------------------------------------------
LEMMA PoolInit == Init => PoolInv
BY NoneIsNoProcessor DEF Init, PoolInv, ProcessorsExclusive

LEMMA PoolStep == TypeOK /\ PoolInv /\ [Next]_vars => PoolInv'
<1> SUFFICES ASSUME TypeOK, PoolInv, [Next]_vars PROVE PoolInv'
  OBVIOUS
<1> USE NoneIsNoProcessor DEF TypeOK, PoolInv, ProcessorsExclusive
<1>1. ASSUME NEW c \in Clients, NEW n \in 1 .. MaxSize, Schedule(c, n) \/ Refuse(c, n)
      PROVE  PoolInv'
  BY <1>1 DEF Schedule, Refuse, threads, pool
<1>2. ASSUME NEW c \in Clients, Return(c) \/ Expire(c) PROVE PoolInv'
  BY <1>2 DEF Return, Expire, threads, pool
<1>3. ASSUME NEW t \in BatchThreads, Dequeue(t) \/ GiveUp(t) \/ Start(t) PROVE PoolInv'
  <2>1. CASE Dequeue(t)
    BY <2>1 DEF Dequeue, pool
  <2>2. CASE GiveUp(t)
    BY <2>2 DEF GiveUp, pool
  <2>3. CASE Start(t)
    BY <2>3 DEF Start, pool
  <2> QED BY <1>3, <2>1, <2>2, <2>3
<1>4. ASSUME NEW t \in BatchThreads, Take(t) PROVE PoolInv'
  <2>1. CASE available = {}
    BY <1>4, <2>1 DEF Take, pool
  <2>2. CASE available # {}
    <3>1. PICK p \in available : /\ holds' = [holds EXCEPT ![t] = p]
                                /\ available' = available \ {p}
                                /\ pc' = [pc EXCEPT ![t] = "running"]
      BY <1>4, <2>2 DEF Take
    <3>2. holds[t] = None
      BY <1>4 DEF Take
    <3> QED BY <3>1, <3>2
  <2> QED BY <2>1, <2>2
<1>5. ASSUME NEW t \in BatchThreads, NEW r \in {"OK", "FAILED"}, Process(t, r) PROVE PoolInv'
  BY <1>5 DEF Process, pool
<1>6. ASSUME NEW t \in BatchThreads, GiveBack(t) PROVE PoolInv'
  BY <1>6 DEF GiveBack
<1>7. ASSUME NEW t \in BatchThreads, NEW c \in Clients, Notify(t, c) PROVE PoolInv'
  BY <1>7 DEF Notify, pool
<1>8. CASE UNCHANGED vars
  BY <1>8 DEF vars, threads, pool
<1> QED BY <1>1, <1>2, <1>3, <1>4, <1>5, <1>6, <1>7, <1>8 DEF Next, Step

\* If the pool were empty, the other threads would hold all processors, of
\* which there are more.
LEMMA OneIsLeft == TypeOK /\ PoolInv => PoolSuffices
<1> SUFFICES ASSUME TypeOK, PoolInv, NEW t \in BatchThreads, pc[t] = "taking", available = {}
             PROVE  FALSE
  BY DEF PoolSuffices
<1> DEFINE owner == [p \in Processors |-> CHOOSE u \in BatchThreads : holds[u] = p]
           others == BatchThreads \ {t}
<1>1. \A p \in Processors : owner[p] \in BatchThreads /\ holds[owner[p]] = p
  BY DEF PoolInv
<1>2. holds[t] = None
  BY DEF PoolInv
<1>3. owner \in [Processors -> others]
  BY <1>1, <1>2, NoneIsNoProcessor
<1>4. \A p, q \in Processors : owner[p] = owner[q] => p = q
  BY <1>1
<1>5. owner \in Injection(Processors, others)
  BY <1>3, <1>4 DEF Injection, IsInjective
<1>6. IsFiniteSet(others) /\ Cardinality(others) = Cardinality(BatchThreads) - 1
  BY FS_RemoveElement, ThreadsMatchInstances
<1>7. Cardinality(Processors) <= Cardinality(others)
  BY <1>5, <1>6, FS_Injection
<1>8. Cardinality(BatchThreads) \in Nat
  BY FS_CardinalityType, ThreadsMatchInstances
<1> QED BY <1>6, <1>7, <1>8, ThreadsMatchInstances
-----------------------------------------------------------------------------
\* The places of a task, without counting.
InQueue(c) == \E i \in DOMAIN queue : c \in queue[i]
InBatch(c) == \E t \in BatchThreads : c \in batch[t]

Apart ==
  /\ \A i, j \in DOMAIN queue : \A c \in Clients : c \in queue[i] /\ c \in queue[j] => i = j
  /\ \A t, u \in BatchThreads : \A c \in Clients : c \in batch[t] /\ c \in batch[u] => t = u
  /\ \A c \in Clients : ~(InQueue(c) /\ InBatch(c))

TaskInv ==
  /\ Apart
  /\ \A c \in Clients : InQueue(c) \/ InBatch(c) <=> c \in calling /\ status[c] = None
  /\ \A c \in Clients : c \notin calling => status[c] = None

\* Only a thread whose tasks are all late says so, until it has told them.
DeadlineInv ==
  /\ \A t \in BatchThreads : result[t] = "TIMEOUT" => pc[t] = "notifying" /\ batch[t] \subseteq expired
  /\ TimeoutIsOwn

LEMMA TaskInit == Init => TaskInv /\ DeadlineInv
<1> SUFFICES ASSUME Init PROVE TaskInv /\ DeadlineInv
  OBVIOUS
<1>1. \A c \in Clients : ~InQueue(c) /\ ~InBatch(c)
  BY DEF Init, InQueue, InBatch
<1> QED BY <1>1, NoneIsNoStatus DEF Init, TaskInv, Apart, DeadlineInv, TimeoutIsOwn

\* What adding to the last batch, adding a batch and removing the first one do
\* to the places in the queue.
LEMMA JoinedPlaces ==
  ASSUME queue \in Seq(SUBSET Clients), queue # <<>>, NEW c \in Clients, ~InQueue(c),
         queue' = [queue EXCEPT ![Len(queue)] = @ \union {c}],
         \A i, j \in DOMAIN queue : \A d \in Clients : d \in queue[i] /\ d \in queue[j] => i = j
  PROVE  /\ \A i, j \in DOMAIN queue' : \A d \in Clients : d \in queue'[i] /\ d \in queue'[j] => i = j
         /\ \A d \in Clients : InQueue(d)' <=> InQueue(d) \/ d = c
<1>1. /\ DOMAIN queue' = DOMAIN queue /\ Len(queue) \in DOMAIN queue
      /\ queue'[Len(queue)] = queue[Len(queue)] \union {c}
      /\ \A i \in DOMAIN queue \ {Len(queue)} : queue'[i] = queue[i]
  OBVIOUS
<1> HIDE DEF InQueue
<1>2. \A i, j \in DOMAIN queue' : \A d \in Clients : d \in queue'[i] /\ d \in queue'[j] => i = j
  BY <1>1 DEF InQueue
<1>3. \A d \in Clients : InQueue(d)' <=> InQueue(d) \/ d = c
  BY <1>1 DEF InQueue
<1> QED BY <1>2, <1>3

LEMMA AppendedPlaces ==
  ASSUME queue \in Seq(SUBSET Clients), NEW c \in Clients, ~InQueue(c),
         queue' = Append(queue, {c}),
         \A i, j \in DOMAIN queue : \A d \in Clients : d \in queue[i] /\ d \in queue[j] => i = j
  PROVE  /\ \A i, j \in DOMAIN queue' : \A d \in Clients : d \in queue'[i] /\ d \in queue'[j] => i = j
         /\ \A d \in Clients : InQueue(d)' <=> InQueue(d) \/ d = c
<1>1. /\ DOMAIN queue' = 1 .. Len(queue) + 1 /\ DOMAIN queue = 1 .. Len(queue)
      /\ queue'[Len(queue) + 1] = {c} /\ Len(queue) \in Nat
      /\ \A i \in 1 .. Len(queue) : queue'[i] = queue[i]
  OBVIOUS
<1>2. \A i, j \in DOMAIN queue' : \A d \in Clients : d \in queue'[i] /\ d \in queue'[j] => i = j
  BY <1>1 DEF InQueue
<1>3. \A d \in Clients : InQueue(d)' <=> InQueue(d) \/ d = c
  BY <1>1 DEF InQueue
<1> QED BY <1>2, <1>3

LEMMA DequeuedPlaces ==
  ASSUME queue \in Seq(SUBSET Clients), queue # <<>>, queue' = Tail(queue),
         \A i, j \in DOMAIN queue : \A d \in Clients : d \in queue[i] /\ d \in queue[j] => i = j
  PROVE  /\ \A i, j \in DOMAIN queue' : \A d \in Clients : d \in queue'[i] /\ d \in queue'[j] => i = j
         /\ \A d \in Clients : InQueue(d)' <=> InQueue(d) /\ d \notin Head(queue)
         /\ \A d \in Clients : d \in Head(queue) => InQueue(d)
<1>1. /\ Len(queue) \in Nat \ {0} /\ DOMAIN queue = 1 .. Len(queue)
      /\ DOMAIN queue' = 1 .. Len(queue) - 1
      /\ \A i \in 1 .. Len(queue) - 1 : queue'[i] = queue[i + 1]
      /\ Head(queue) = queue[1]
  OBVIOUS
<1>2. \A i, j \in DOMAIN queue' : \A d \in Clients : d \in queue'[i] /\ d \in queue'[j] => i = j
  <2> SUFFICES ASSUME NEW i \in DOMAIN queue', NEW j \in DOMAIN queue', NEW d \in Clients,
                      d \in queue'[i] /\ d \in queue'[j]
               PROVE  i = j
    OBVIOUS
  <2>1. i + 1 = j + 1
    BY <1>1
  <2> QED BY <1>1, <2>1
<1>3. ASSUME NEW d \in Clients, InQueue(d)' PROVE InQueue(d) /\ d \notin Head(queue)
  <2>1. PICK i \in 1 .. Len(queue) - 1 : d \in queue'[i]
    BY <1>1, <1>3 DEF InQueue
  <2>2. i + 1 \in DOMAIN queue /\ d \in queue[i + 1] /\ i + 1 # 1 /\ 1 \in DOMAIN queue
    BY <1>1, <2>1
  <2> QED BY <1>1, <2>2 DEF InQueue
<1>4. ASSUME NEW d \in Clients, InQueue(d), d \notin Head(queue) PROVE InQueue(d)'
  <2>1. PICK i \in 1 .. Len(queue) : d \in queue[i] /\ i # 1
    BY <1>1, <1>4 DEF InQueue
  <2>2. i - 1 \in DOMAIN queue' /\ d \in queue'[i - 1]
    BY <1>1, <2>1
  <2> QED BY <2>2 DEF InQueue
<1>5. \A d \in Clients : d \in Head(queue) => InQueue(d)
  BY <1>1 DEF InQueue
<1> QED BY <1>2, <1>3, <1>4, <1>5

LEMMA TaskStep == TypeOK /\ TaskInv /\ [Next]_vars => TaskInv'
<1> SUFFICES ASSUME TypeOK, TaskInv, [Next]_vars PROVE TaskInv'
  OBVIOUS
<1>1. ASSUME UNCHANGED <<queue, batch, calling, status>> PROVE TaskInv'
  BY <1>1 DEF TaskInv, Apart, InQueue, InBatch
<1>2. ASSUME NEW c \in Clients, NEW n \in 1 .. MaxSize, Schedule(c, n) PROVE TaskInv'
  <2>1. ~InQueue(c) /\ ~InBatch(c) /\ status[c] = None
    BY <1>2 DEF Schedule, TaskInv
  <2>2. /\ \A i, j \in DOMAIN queue' : \A d \in Clients : d \in queue'[i] /\ d \in queue'[j] => i = j
        /\ \A d \in Clients : InQueue(d)' <=> InQueue(d) \/ d = c
    <3>1. CASE Joins(n)
      <4>1. queue # <<>> /\ queue' = [queue EXCEPT ![Len(queue)] = @ \union {c}]
        BY <1>2, <3>1 DEF Schedule, Joins
      <4> QED BY <2>1, <4>1, JoinedPlaces DEF TypeOK, TaskInv, Apart
    <3>2. CASE ~Joins(n)
      <4>1. queue' = Append(queue, {c})
        BY <1>2, <3>2 DEF Schedule
      <4> QED BY <2>1, <4>1, AppendedPlaces DEF TypeOK, TaskInv, Apart
    <3> QED BY <3>1, <3>2
  <2>3. /\ batch' = batch /\ status' = status /\ calling' = calling \union {c}
        /\ \A d \in Clients : InBatch(d)' <=> InBatch(d)
    BY <1>2 DEF Schedule, threads, InBatch
  <2> QED BY <2>1, <2>2, <2>3 DEF TaskInv, Apart
<1>3. ASSUME NEW c \in Clients, NEW n \in 1 .. MaxSize, Refuse(c, n) PROVE TaskInv'
  <2>1. /\ \A d \in Clients : (InQueue(d)' <=> InQueue(d)) /\ (InBatch(d)' <=> InBatch(d))
        /\ queue' = queue /\ batch' = batch
    BY <1>3 DEF Refuse, threads, InQueue, InBatch
  <2> QED BY <1>3, <2>1, NoneIsNoStatus DEF Refuse, TaskInv, Apart, TypeOK
<1>4. ASSUME NEW c \in Clients, Return(c) PROVE TaskInv'
  <2>1. /\ \A d \in Clients : (InQueue(d)' <=> InQueue(d)) /\ (InBatch(d)' <=> InBatch(d))
        /\ queue' = queue /\ batch' = batch
    BY <1>4 DEF Return, threads, InQueue, InBatch
  <2> QED BY <1>4, <2>1 DEF Return, TaskInv, Apart, TypeOK
<1>5. ASSUME NEW t \in BatchThreads, Dequeue(t) PROVE TaskInv'
  <2>1. /\ \A i, j \in DOMAIN queue' : \A d \in Clients : d \in queue'[i] /\ d \in queue'[j] => i = j
        /\ \A d \in Clients : InQueue(d)' <=> InQueue(d) /\ d \notin Head(queue)
        /\ \A d \in Clients : d \in Head(queue) => InQueue(d)
    BY <1>5, DequeuedPlaces DEF Dequeue, TypeOK, TaskInv, Apart
  <2>2. batch[t] = {} /\ batch' = [batch EXCEPT ![t] = Head(queue)]
    BY <1>5 DEF Dequeue, TypeOK
  <2>3. \A d \in Clients : InBatch(d)' <=> InBatch(d) \/ d \in Head(queue)
    BY <2>2 DEF InBatch, TypeOK
  <2>4. \A d \in Clients : d \in Head(queue) => ~InBatch(d)
    BY <2>1 DEF TaskInv, Apart
  <2>5. \A u, v \in BatchThreads : \A d \in Clients : d \in batch'[u] /\ d \in batch'[v] => u = v
    BY <2>2, <2>4 DEF InBatch, TypeOK, TaskInv, Apart
  <2>6. calling' = calling /\ status' = status
    BY <1>5 DEF Dequeue, clients
  <2> QED BY <2>1, <2>3, <2>4, <2>5, <2>6 DEF TaskInv, Apart
<1>6. ASSUME NEW t \in BatchThreads, NEW c \in Clients, Notify(t, c) PROVE TaskInv'
  <2>1. c \in batch[t] /\ InBatch(c) /\ ~InQueue(c) /\ result[t] # None
    <3>1. c \in batch[t] /\ pc[t] = "notifying"
      BY <1>6 DEF Notify
    <3>2. result[t] # None
      BY <3>1 DEF TypeOK
    <3> QED BY <3>1, <3>2 DEF InBatch, TaskInv, Apart
  <2>2. /\ batch' = [batch EXCEPT ![t] = @ \ {c}] /\ queue' = queue /\ calling' = calling
        /\ status' = [status EXCEPT ![c] = result[t]]
    BY <1>6 DEF Notify
  <2>3. \A d \in Clients : (InQueue(d)' <=> InQueue(d)) /\ (InBatch(d)' <=> InBatch(d) /\ d # c)
    BY <2>1, <2>2 DEF InQueue, InBatch, TypeOK, TaskInv, Apart
  <2>4. \A u, v \in BatchThreads : \A d \in Clients : d \in batch'[u] /\ d \in batch'[v] => u = v
    BY <2>2 DEF TypeOK, TaskInv, Apart
  <2> QED BY <2>1, <2>2, <2>3, <2>4 DEF TaskInv, Apart, TypeOK
<1>7. ASSUME NEW c \in Clients, Expire(c) PROVE UNCHANGED <<queue, batch, calling, status>>
  BY <1>7 DEF Expire, threads
<1>8. ASSUME NEW t \in BatchThreads,
             \/ GiveUp(t) \/ Start(t) \/ Take(t) \/ GiveBack(t)
             \/ \E r \in {"OK", "FAILED"} : Process(t, r)
      PROVE  UNCHANGED <<queue, batch, calling, status>>
  BY <1>8 DEF GiveUp, Start, Take, GiveBack, Process, clients
<1>9. CASE UNCHANGED vars
  BY <1>1, <1>9 DEF vars, clients, threads
<1> QED BY <1>1, <1>2, <1>3, <1>4, <1>5, <1>6, <1>7, <1>8, <1>9 DEF Next, Step

LEMMA DeadlineStep == TypeOK /\ TaskInv /\ DeadlineInv /\ [Next]_vars => DeadlineInv'
<1> SUFFICES ASSUME TypeOK, TaskInv, DeadlineInv, [Next]_vars PROVE DeadlineInv'
  OBVIOUS
<1> USE NoneIsNoStatus DEF TypeOK, Status, DeadlineInv, TimeoutIsOwn
<1>1. ASSUME NEW c \in Clients, NEW n \in 1 .. MaxSize, Schedule(c, n) \/ Refuse(c, n)
      PROVE  DeadlineInv'
  BY <1>1 DEF Schedule, Refuse, threads
<1>2. ASSUME NEW c \in Clients, Return(c) PROVE DeadlineInv'
  \* The task of a call that returns is with no thread.
  <2>1. ~InBatch(c)
    BY <1>2 DEF Return, TaskInv
  <2> QED BY <1>2, <2>1 DEF Return, threads, InBatch
<1>3. ASSUME NEW c \in Clients, Expire(c) PROVE DeadlineInv'
  BY <1>3 DEF Expire, threads
<1>4. ASSUME NEW t \in BatchThreads, Dequeue(t) \/ Start(t) \/ Take(t) \/ GiveBack(t)
      PROVE  DeadlineInv'
  BY <1>4 DEF Dequeue, Start, Take, GiveBack, clients
<1>5. ASSUME NEW t \in BatchThreads, GiveUp(t) PROVE DeadlineInv'
  BY <1>5 DEF GiveUp, clients, TimedOut
<1>6. ASSUME NEW t \in BatchThreads, NEW r \in {"OK", "FAILED"}, Process(t, r)
      PROVE  DeadlineInv'
  BY <1>6 DEF Process, clients
<1>7. ASSUME NEW t \in BatchThreads, NEW c \in Clients, Notify(t, c) PROVE DeadlineInv'
  BY <1>7 DEF Notify
<1>8. CASE UNCHANGED vars
  BY <1>8 DEF vars, clients, threads
<1> QED BY <1>1, <1>2, <1>3, <1>4, <1>5, <1>6, <1>7, <1>8 DEF Next, Step

-----------------------------------------------------------------------------
\* A set whose members are all the same has one member or none.
LEMMA AtMostOne ==
  ASSUME NEW S, \A x, y \in S : x = y
  PROVE  Cardinality(S) = IF S = {} THEN 0 ELSE 1
<1>1. CASE S = {}
  BY <1>1, FS_EmptySet
<1>2. CASE S # {}
  <2>1. PICK x : S = {x}
    BY <1>2
  <2> QED BY <1>2, <2>1, FS_Singleton
<1> QED BY <1>1, <1>2

LEMMA AliveByPlaces == TaskInv => TasksAlive
<1> SUFFICES ASSUME TaskInv, NEW c \in Clients
             PROVE  Cardinality({i \in DOMAIN queue : c \in queue[i]})
                      + Cardinality({t \in BatchThreads : c \in batch[t]})
                    = IF c \in calling /\ status[c] = None THEN 1 ELSE 0
  BY DEF TasksAlive
<1> DEFINE inQueue == {i \in DOMAIN queue : c \in queue[i]}
           inBatch == {t \in BatchThreads : c \in batch[t]}
<1>1. Cardinality(inQueue) = IF InQueue(c) THEN 1 ELSE 0
  <2>1. \A i, j \in inQueue : i = j
    BY DEF TaskInv, Apart
  <2>2. inQueue = {} <=> ~InQueue(c)
    BY DEF InQueue
  <2> HIDE DEF inQueue
  <2> QED BY <2>1, <2>2, AtMostOne
<1>2. Cardinality(inBatch) = IF InBatch(c) THEN 1 ELSE 0
  <2>1. \A t, u \in inBatch : t = u
    BY DEF TaskInv, Apart
  <2>2. inBatch = {} <=> ~InBatch(c)
    BY DEF InBatch
  <2> HIDE DEF inBatch
  <2> QED BY <2>1, <2>2, AtMostOne
<1>3. ~(InQueue(c) /\ InBatch(c)) /\ (InQueue(c) \/ InBatch(c) <=> c \in calling /\ status[c] = None)
  BY DEF TaskInv, Apart
<1> HIDE DEF inQueue, inBatch
<1>4. Cardinality(inQueue) + Cardinality(inBatch) = IF c \in calling /\ status[c] = None THEN 1 ELSE 0
  BY <1>1, <1>2, <1>3
<1> QED BY <1>4 DEF inQueue, inBatch

-----------------------------------------------------------------------------
\* The model of BatchingModel, its clients and its scheduler's threads is well
\* typed; a thread is idle exactly when it has no task left to answer.
THEOREM TypeCorrect == Spec => []TypeOK
<1>1. Init => TypeOK /\ PoolInv
  BY TypeInit, PoolInit
<1>2. TypeOK /\ PoolInv /\ [Next]_vars => (TypeOK /\ PoolInv)'
  BY TypeStep, PoolStep
<1> QED BY <1>1, <1>2, PTL DEF Spec

\* CompositeBatchProcessor::processBatch() never fails for want of a processor
\* when the scheduler has as many threads as the model has instances, and no
\* instance of a model is used by two threads of the scheduler at once.
THEOREM PoolAlwaysExact == Spec => []PoolIsExact
<1>1. Init => TypeOK /\ PoolInv
  BY TypeInit, PoolInit
<1>2. TypeOK /\ PoolInv /\ [Next]_vars => (TypeOK /\ PoolInv)'
  BY TypeStep, PoolStep
<1>3. TypeOK /\ PoolInv => PoolIsExact
  BY OneIsLeft DEF PoolInv, PoolIsExact
<1> QED BY <1>1, <1>2, <1>3, PTL DEF Spec

\* The task that predict() keeps on its stack is in the queue or with one
\* thread of the scheduler while the call waits, and nowhere afterwards.
THEOREM NoDanglingTask == Spec => []TasksAlive
<1>1. Init => TypeOK /\ PoolInv /\ TaskInv
  BY TypeInit, PoolInit, TaskInit
<1>2. TypeOK /\ PoolInv /\ TaskInv /\ [Next]_vars => (TypeOK /\ PoolInv /\ TaskInv)'
  BY TypeStep, PoolStep, TaskStep
<1> QED BY <1>1, <1>2, AliveByPlaces, PTL DEF Spec

\* No request is told that it waited too long in the queue before its own
\* deadline, whatever the deadlines of the tasks it shares a batch with.
THEOREM TimeoutsAreDeserved == Spec => []TimeoutIsOwn
<1>1. Init => TypeOK /\ PoolInv /\ TaskInv /\ DeadlineInv
  BY TypeInit, PoolInit, TaskInit
<1>2. TypeOK /\ PoolInv /\ TaskInv /\ DeadlineInv /\ [Next]_vars
        => (TypeOK /\ PoolInv /\ TaskInv /\ DeadlineInv)'
  BY TypeStep, PoolStep, TaskStep, DeadlineStep
<1>3. DeadlineInv => TimeoutIsOwn
  BY DEF DeadlineInv
<1> QED BY <1>1, <1>2, <1>3, PTL DEF Spec
=============================================================================
