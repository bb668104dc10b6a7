----------------------------- MODULE HttpServer -----------------------------
(***************************************************************************)
(* The HTTP server: an event loop that accepts requests and sends replies, *)
(* a pool of threads of which one runs the loop and the others the         *)
(* handlers, and a counter of operations on which wait() waits.            *)
(*                                                                         *)
(* A client has one connection and one request at a time.  libevent and    *)
(* Eigen's pool are not in the repository: the loop runs the closures of   *)
(* event_base_once(), and the pool runs a closure at once, on the thread   *)
(* that schedules it, when the queue is full.                              *)
(***************************************************************************)
EXTENDS Integers, Sequences, FiniteSets

CONSTANTS Clients,
          NumThreads,  \* http_num_threads
          QueueLimit,  \* length of the queue of a thread of the pool
          None

ASSUME ClientsFinite == IsFiniteSet(Clients)
ASSUME NumThreadsInt == NumThreads \in Int
ASSUME QueueLimitNat == QueueLimit \in Nat
ASSUME NoneIsOther == None \notin Clients /\ None \notin Int

VARIABLES
  http,         \* each connection: "closed", "idle" or "waiting" for an answer
  live,         \* clients whose RequestImpl exists and counts as an operation
  tasks,        \* requests in the queue of the pool
  job,          \* the request each thread of the pool handles
  closures,     \* requests whose evSendReply() is scheduled on the loop
  ops,          \* OperationTracker::num_pending_ops
  listener,     \* "none", "open", "closing" once scheduled, or "closed"
  loop,         \* "none", "scheduled", "running", "ended" or "failed"
  looper,       \* the thread that runs the loop
  exitAsked,    \* event_base_loopexit() was called
  main,         \* the thread that calls start() and wait()
  freed         \* the destructor has freed the loop: the model ends here

requests == <<live, tasks, job, closures>>
server == <<listener, loop, looper, exitAsked>>
vars == <<http, requests, ops, server, main, freed>>

\* Mutant of PoolSize: the option as it is.
PoolSizeAsConfigured == NumThreads

\* ExecutorImpl: std::max(2, num_threads)
PoolSize == IF NumThreads < 2 THEN 2 ELSE NumThreads

Workers == 1 .. PoolSize

Init ==
  /\ http = [c \in Clients |-> "closed"]
  /\ live = {} /\ tasks = <<>> /\ closures = {}
  /\ job = [w \in Workers |-> None]
  /\ ops = 0
  /\ listener = "none" /\ loop = "none" /\ looper = None /\ exitAsked = FALSE
  /\ main = "new"
  /\ freed = FALSE

\* The loop is between two events: it is not inside a handler.
LoopFree == loop = "running" /\ job[looper] = None
-----------------------------------------------------------------------------
\* ServerImpl::start(), called once, before wait().
Start ==
  /\ main = "new"
  /\ listener' = "open" /\ loop' = "scheduled" /\ ops' = 2
  /\ main' = "started"
  /\ UNCHANGED <<http, requests, looper, exitAsked, freed>>

\* Neither address can be bound: HttpServer::start() destroys the server.
BindFails ==
  /\ main = "new"
  /\ main' = "failed" /\ freed' = TRUE
  /\ UNCHANGED <<http, requests, ops, server>>

\* A thread of the pool enters event_base_dispatch().
EnterLoop(w) ==
  /\ loop = "scheduled"
  /\ loop' = "running" /\ looper' = w
  /\ UNCHANGED <<http, requests, ops, listener, exitAsked, main, freed>>

\* event_base_dispatch() returns when it was asked to, or when nothing is left
\* that could happen to it ...
LoopEnds ==
  /\ LoopFree
  /\ exitAsked \/ (listener = "closed" /\ closures = {} /\ \A c \in Clients : http[c] = "closed")
  /\ loop' = "ended" /\ looper' = None
  /\ ops' = ops - 1
  /\ UNCHANGED <<http, requests, listener, exitAsked, main, freed>>

\* ... or with an error.
LoopFails ==
  /\ LoopFree
  /\ loop' = "failed" /\ looper' = None
  /\ ops' = ops - 1
  /\ UNCHANGED <<http, requests, listener, exitAsked, main, freed>>
-----------------------------------------------------------------------------
Connect(c) ==
  /\ LoopFree /\ listener \in {"open", "closing"}
  /\ http[c] = "closed" /\ c \notin live
  /\ http' = [http EXCEPT ![c] = "idle"]
  /\ UNCHANGED <<requests, ops, server, main, freed>>

Ask(c) ==
  /\ http[c] = "idle"
  /\ http' = [http EXCEPT ![c] = "waiting"]
  /\ UNCHANGED <<requests, ops, server, main, freed>>

\* libevent keeps the request of a connection that is lost until it is answered.
Disconnect(c) ==
  /\ http[c] # "closed"
  /\ http' = [http EXCEPT ![c] = "closed"]
  /\ UNCHANGED <<requests, ops, server, main, freed>>

Answer(c) == http' = [http EXCEPT ![c] = IF @ = "waiting" THEN "idle" ELSE @]

\* dispatchEvRequest() answers a request it cannot read, or for which there is
\* no dispatcher, by itself.
Reject(c) ==
  /\ LoopFree /\ http[c] = "waiting" /\ c \notin live
  /\ Answer(c)
  /\ UNCHANGED <<requests, ops, server, main, freed>>

\* Mutant of Dispatch: incOps() is missing.
DispatchUntracked(c) ==
  /\ LoopFree /\ http[c] = "waiting" /\ c \notin live
  /\ live' = live \union {c}
  /\ IF Len(tasks) < QueueLimit
     THEN tasks' = Append(tasks, c) /\ UNCHANGED job
     ELSE job' = [job EXCEPT ![looper] = c] /\ UNCHANGED tasks
  /\ UNCHANGED <<http, closures, ops, server, main, freed>>

\* dispatchEvRequest() gives the request to the pool.
Dispatch(c) ==
  /\ LoopFree /\ http[c] = "waiting" /\ c \notin live
  /\ ops' = ops + 1
  /\ live' = live \union {c}
  /\ IF Len(tasks) < QueueLimit
     THEN tasks' = Append(tasks, c) /\ UNCHANGED job
     ELSE job' = [job EXCEPT ![looper] = c] /\ UNCHANGED tasks
  /\ UNCHANGED <<http, closures, server, main, freed>>

\* Another thread of the pool takes the oldest request.
Take(w) ==
  /\ w # looper /\ job[w] = None /\ tasks # <<>>
  /\ job' = [job EXCEPT ![w] = Head(tasks)]
  /\ tasks' = Tail(tasks)
  /\ UNCHANGED <<http, live, closures, ops, server, main, freed>>

\* The handler is done: replyWithStatus() schedules evSendReply() ...
ReplyWithStatus(w) ==
  /\ job[w] # None
  /\ closures' = closures \union {job[w]}
  /\ job' = [job EXCEPT ![w] = None]
  /\ UNCHANGED <<http, live, tasks, ops, server, main, freed>>

\* Mutant of Abort: the request is not deleted.
AbortKeeps(w) ==
  /\ job[w] # None
  /\ Answer(job[w])
  /\ ops' = ops - 1
  /\ job' = [job EXCEPT ![w] = None]
  /\ UNCHANGED <<live, tasks, closures, server, main, freed>>

\* ... or cannot, and answers on its own thread.
Abort(w) ==
  /\ job[w] # None
  /\ Answer(job[w])
  /\ ops' = ops - 1
  /\ live' = live \ {job[w]}
  /\ job' = [job EXCEPT ![w] = None]
  /\ UNCHANGED <<tasks, closures, server, main, freed>>

EvSendReply(c) ==
  /\ LoopFree /\ c \in closures
  /\ Answer(c)
  /\ ops' = ops - 1
  /\ closures' = closures \ {c}
  /\ live' = live \ {c}
  /\ UNCHANGED <<tasks, job, server, main, freed>>
-----------------------------------------------------------------------------
\* ServerImpl::wait()
WaitToOne ==
  /\ main = "started" /\ ops <= 1
  /\ exitAsked' = TRUE
  /\ main' = "exiting"
  /\ UNCHANGED <<http, requests, ops, listener, loop, looper, freed>>

\* Mutant of WaitDone: the same condition as in waitToOne().
WaitDoneAtOne ==
  /\ main = "exiting" /\ ops <= 1
  /\ main' = "returned"
  /\ UNCHANGED <<http, requests, ops, server, freed>>

WaitDone ==
  /\ main = "exiting" /\ ops <= 0
  /\ main' = "returned"
  /\ UNCHANGED <<http, requests, ops, server, freed>>

\* terminate(), which only the destructor calls: when another thread ends the
\* process.
Terminate ==
  /\ listener = "open"
  /\ listener' = "closing"
  /\ UNCHANGED <<http, requests, ops, loop, looper, exitAsked, main, freed>>

\* Mutant of StopListening: decOps() is missing.
StopListeningOnly ==
  /\ LoopFree /\ listener = "closing"
  /\ listener' = "closed"
  /\ UNCHANGED <<http, requests, ops, loop, looper, exitAsked, main, freed>>

\* The closure terminate() schedules.
StopListening ==
  /\ LoopFree /\ listener = "closing"
  /\ listener' = "closed"
  /\ ops' = ops - 1
  /\ UNCHANGED <<http, requests, loop, looper, exitAsked, main, freed>>

\* The destructor goes on after terminate() and waits for nobody.
Free ==
  /\ listener \in {"closing", "closed"}
  /\ freed' = TRUE
  /\ UNCHANGED <<http, requests, ops, server, main>>

LoopStep == LoopEnds \/ LoopFails \/ StopListening
Request(c) == Connect(c) \/ Ask(c) \/ Disconnect(c) \/ Reject(c) \/ Dispatch(c) \/ EvSendReply(c)
Work(w) == EnterLoop(w) \/ Take(w) \/ ReplyWithStatus(w) \/ Abort(w)

Next ==
  /\ ~freed
  /\ \/ Start \/ BindFails \/ LoopStep \/ WaitToOne \/ WaitDone \/ Terminate \/ Free
     \/ \E c \in Clients : Request(c)
     \/ \E w \in Workers : Work(w)

\* The threads of the pool run, handlers end, and the loop runs every event that
\* is due before it waits again, whatever else happens in between.
Fairness ==
  /\ \A w \in Workers : WF_vars(~freed /\ Work(w))
  /\ WF_vars(~freed /\ (WaitToOne \/ WaitDone))
  /\ SF_vars(~freed /\ StopListening) /\ SF_vars(~freed /\ LoopEnds)
  /\ \A c \in Clients : SF_vars(~freed /\ (Dispatch(c) \/ Reject(c))) /\ SF_vars(~freed /\ EvSendReply(c))

Spec == Init /\ [][Next]_vars /\ Fairness
-----------------------------------------------------------------------------
TypeOK ==
  /\ http \in [Clients -> {"closed", "idle", "waiting"}]
  /\ live \subseteq Clients /\ closures \subseteq Clients
  /\ tasks \in Seq(Clients)
  /\ job \in [Workers -> Clients \union {None}]
  /\ ops \in Nat
  /\ listener \in {"none", "open", "closing", "closed"}
  /\ loop \in {"none", "scheduled", "running", "ended", "failed"}
  /\ looper \in Workers \union {None} /\ (looper # None <=> loop = "running")
  /\ exitAsked \in BOOLEAN /\ freed \in BOOLEAN
  /\ main \in {"new", "failed", "started", "exiting", "returned"}

\* The operations that are the server's own: the listener and the loop.
OwnOps == (IF listener \in {"open", "closing"} THEN 1 ELSE 0)
          + (IF loop \in {"scheduled", "running"} THEN 1 ELSE 0)

\* num_pending_ops counts the listener, the loop and every request that a
\* handler was given and no one has answered.
OpsExact == ops = Cardinality(live) + OwnOps

\* replyWithStatus(), evSendReply() and abort() hand over a raw pointer: a
\* request is in one place until it is deleted, and nowhere afterwards.
OneOwner ==
  \A c \in Clients :
    Cardinality({i \in DOMAIN tasks : tasks[i] = c})
    + Cardinality({w \in Workers : job[w] = c})
    + Cardinality({x \in closures : x = c}) = IF c \in live THEN 1 ELSE 0

\* When wait() returns, nobody listens, the loop has ended and every request
\* that a handler was given is answered.
WaitMeansDone ==
  main = "returned" => listener = "closed" /\ loop \in {"ended", "failed"} /\ live = {}

\* Every request is answered, or its client leaves, as long as there is a loop.
Answered ==
  \A c \in Clients : http[c] = "waiting" ~> \/ http[c] # "waiting"
                                            \/ loop \in {"ended", "failed"} \/ freed

\* A server that stops listening lets wait() return, unless the loop breaks or
\* a request that was still accepted is caught by the end of the loop.
WaitReturns ==
  <>[](live = {} /\ loop # "failed") =>
    (main \in {"started", "exiting"} /\ listener = "closing" ~> main = "returned" \/ freed)
=============================================================================
