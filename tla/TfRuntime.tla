------------------------------ MODULE TfRuntime ------------------------------
(***************************************************************************)
(* TensorFlow's runtime: a SavedModel becomes a plan model, which has the  *)
(* session itself or a BatchingSession with a queue per signature; the     *)
(* predictor turns a request's aliases into tensor names and back; and a   *)
(* batch thread runs the tasks of several requests at once, tells each one *)
(* the status and destroys the batch that owns the tasks.                  *)
(*                                                                         *)
(* What the rows of a batch become is TfBatch.  A tensor is the pair of    *)
(* its name and the request it is of.                                      *)
(*                                                                         *)
(* Unloading does not wait for anybody, and destroys the session before    *)
(* the queues.  Who then uses what is gone has undefined behaviour, and a  *)
(* behaviour of this module ends there, like one of a process that dies.   *)
(***************************************************************************)
EXTENDS Integers, Sequences, FiniteSets

CONSTANTS TfClients,   \* threads that serve predict requests
          TfThreads,   \* batch threads of the SharedBatcher
          TfModels,    \* saved models with their configurations
          TfCalls,     \* predict requests
          DefaultKey,  \* serving_default
          TfNoModel,   \* nothing is loaded
          TfMaxNow,    \* bound of the clock, in microseconds
          TfMillis,    \* microseconds in a millisecond
          TfForever    \* INT_MAX microseconds

ASSUME TfNumbers == TfMaxNow \in Nat /\ TfMillis \in Nat /\ TfForever \in Nat
ASSUME TfNothing == TfNoModel \notin TfModels /\ "none" \notin TfThreads
ASSUME TfMapsAreFinite ==
  /\ \A call \in TfCalls : call.timeout \in Int /\ IsFiniteSet(call.filter)
  /\ \A model \in TfModels : \A key \in DOMAIN model.graph : IsFiniteSet(DOMAIN model.graph[key].outs)

VARIABLES plan,      \* the plan model of the loader, or TfNoModel
          tfServed,  \* whether ServingStore has published the model
          tfRequest, \* what a client's thread has on its stack, and its task
          tfQueue,   \* the open batch of each signature: its clients, in order
          tfBatch,   \* what each batch thread works on
          tfNow,     \* timesystem().nowMicros()
          tfCrashed  \* the process has died, or does anything

tfvars == <<plan, tfServed, tfRequest, tfQueue, tfBatch, tfNow, tfCrashed>>

Tensors(map) == {map[alias] : alias \in DOMAIN map}

\* ModelSignature: the names of the tensors, not the aliases.
SignatureOf(def) == [ins |-> Tensors(def.ins), outs |-> Tensors(def.outs)]
Signatures(model) == {SignatureOf(model.graph[key]) : key \in DOMAIN model.graph}

\* The order in which protobuf visits a map is unspecified.
Orders(S) == {f \in [1 .. Cardinality(S) -> S] : \A i, j \in DOMAIN f : f[i] = f[j] => i = j}

TfIdle == [pc |-> "idle"]
TfFound == [pc |-> "found"]
NoBatch == [pc |-> "idle"]

TfInit == /\ plan = TfNoModel
          /\ tfServed = FALSE
          /\ tfRequest = [c \in TfClients |-> TfIdle]
          /\ tfQueue = <<>>
          /\ tfBatch = [t \in TfThreads |-> NoBatch]
          /\ tfNow = 0
          /\ tfCrashed = FALSE
-----------------------------------------------------------------------------
\* Who has a handle to the model.
HasHandle(c) == tfRequest[c].pc \notin {"idle", "answered"}

\* PlanModelLoader::loadBare().  The directory must look like a saved model and
\* the session must load it; otherwise create() has nullptr and nothing changes.
\* A model to be batched gets a queue for each of its signatures; AddQueue()
\* refuses max_batch_size 0, nobody looks, and the queues are null pointers.
\* Nobody can find the model before ManagedStore::boarding() has published it,
\* and its last update(), which withdrew the model, waited for all handles.
LoadPlan(model) ==
  /\ plan = TfNoModel /\ ~tfServed
  /\ \A c \in TfClients : ~HasHandle(c)
  /\ model.readable
  /\ plan' = model
  /\ tfServed' = TRUE
  /\ tfQueue' = IF model.batching /\ model.limit > 0
                THEN [s \in Signatures(model) |-> <<>>] ELSE <<>>
  /\ UNCHANGED <<tfRequest, tfBatch, tfNow, tfCrashed>>

\* unloadBare(): bundle.reset() asks nobody.  The handles find nullptr from now
\* on, and ~BatchPlanModel() destroys the session, of BasePlanModel, first.
UnloadPlan ==
  /\ plan # TfNoModel
  /\ plan' = TfNoModel
  /\ UNCHANGED <<tfServed, tfRequest, tfQueue, tfBatch, tfNow, tfCrashed>>

\* Mutant of DeleteQueues: tasks that are still queued go with their queue.
DeleteFullQueues ==
  /\ plan = TfNoModel /\ DOMAIN tfQueue # {}
  /\ \A t \in TfThreads : tfBatch[t].pc = "idle"
  /\ tfQueue' = <<>>
  /\ UNCHANGED <<plan, tfServed, tfRequest, tfBatch, tfNow, tfCrashed>>

\* ~BatchingSession() comes after it.  Deleting a queue waits until its batches
\* have been processed.
DeleteQueues ==
  /\ plan = TfNoModel /\ DOMAIN tfQueue # {}
  /\ \A s \in DOMAIN tfQueue : tfQueue[s] = <<>>
  /\ \A t \in TfThreads : tfBatch[t].pc = "idle"
  /\ tfQueue' = <<>>
  /\ UNCHANGED <<plan, tfServed, tfRequest, tfBatch, tfNow, tfCrashed>>

\* ManagedStore::boarding() publishes the models that are left when unload()
\* has returned.
Withdraw ==
  /\ tfServed /\ plan = TfNoModel /\ DOMAIN tfQueue = {}
  /\ tfServed' = FALSE
  /\ UNCHANGED <<plan, tfRequest, tfQueue, tfBatch, tfNow, tfCrashed>>
-----------------------------------------------------------------------------
KeyOf(call) == IF call.key = "" THEN DefaultKey ELSE call.key

\* A tensor that does not parse is left out, and the status is OK.
FilledInputs(def, call) == {def.ins[alias] : alias \in {a \in DOMAIN call.ins : call.ins[a] = "parses"}}

WantedAliases(def, call) == IF call.filter = {} THEN DOMAIN def.outs ELSE call.filter

\* preprocess()
IsPredictable(def, call) ==
  /\ def.method = "predict"
  /\ Cardinality(DOMAIN call.ins) = Cardinality(DOMAIN def.ins)
  /\ DOMAIN call.ins \subseteq DOMAIN def.ins
  /\ call.filter \subseteq DOMAIN def.outs

Answered(request, status, response) ==
  [pc |-> "answered", call |-> request.call, begun |-> request.begun, status |-> status, response |-> response]

AnswersNow(c, status, response) ==
  tfRequest' = [tfRequest EXCEPT ![c] = Answered(@, status, response)]

\* ServingStore::find().
FindPlan(c) ==
  /\ tfServed /\ tfRequest[c].pc = "idle"
  /\ tfRequest' = [tfRequest EXCEPT ![c] = TfFound]
  /\ UNCHANGED <<plan, tfServed, tfQueue, tfBatch, tfNow, tfCrashed>>

\* TfRuntime::predict() up to the run of the session.
Preprocess(c, call) ==
  /\ plan # TfNoModel /\ tfRequest[c].pc = "found"
  /\ LET empty == [pc |-> "run", call |-> call, begun |-> tfNow, ins |-> {}, names |-> <<>>,
                   aliases |-> <<>>, outputs |-> <<>>, task |-> "none", told |-> "none"]
     IN IF KeyOf(call) \in DOMAIN plan.graph /\ IsPredictable(plan.graph[KeyOf(call)], call)
        THEN LET def == plan.graph[KeyOf(call)]
             IN \E aliases \in Orders(WantedAliases(def, call)) :
                  tfRequest' = [tfRequest EXCEPT ![c] =
                    [empty EXCEPT !.ins = FilledInputs(def, call), !.aliases = aliases,
                                  !.names = [i \in DOMAIN aliases |-> def.outs[aliases[i]]]]]
        ELSE tfRequest' = [tfRequest EXCEPT ![c] = Answered(empty, "invalid", <<>>)]
  /\ UNCHANGED <<plan, tfServed, tfQueue, tfBatch, tfNow, tfCrashed>>

Elements(seq) == {seq[i] : i \in DOMAIN seq}

AskedSignature(c) == [ins |-> tfRequest[c].ins, outs |-> Elements(tfRequest[c].names)]

\* schedulers.find() of BatchingSession::Run()
IsBatched(c) == plan.batching /\ AskedSignature(c) \in Signatures(plan)

\* The session needs a tensor for each input that it computes from.
CanCompute(c) == \E key \in DOMAIN plan.graph : Tensors(plan.graph[key].ins) \subseteq tfRequest[c].ins

\* verifyOutputSize()
IsComplete(c, outputs) == Len(outputs) = Len(tfRequest[c].aliases)

\* postprocess() when Run() has returned.
Postprocess(c, status, outputs) ==
  IF status # "ok" THEN AnswersNow(c, status, <<>>)
  ELSE IF ~IsComplete(c, outputs) THEN AnswersNow(c, "invalid", <<>>)
  ELSE LET aliases == tfRequest[c].aliases
       IN AnswersNow(c, "ok",
            [alias \in {aliases[i] : i \in DOMAIN outputs} |->
               outputs[CHOOSE i \in DOMAIN outputs : aliases[i] = alias]])

\* The handle's nullptr or the reference to a session that is no more is used:
\* the handle is not tested before the predictor gets *bundle.
UseNoModel(c) ==
  /\ plan = TfNoModel /\ tfRequest[c].pc \in {"found", "run"}
  /\ tfCrashed' = TRUE
  /\ UNCHANGED <<plan, tfServed, tfRequest, tfQueue, tfBatch, tfNow>>

\* The session of a plan model that is not batched, or has no queue for what
\* the request asks of it.
RunAlone(c) ==
  /\ plan # TfNoModel /\ tfRequest[c].pc = "run"
  /\ ~IsBatched(c)
  /\ \/ /\ CanCompute(c)
        /\ Postprocess(c, "ok", [i \in DOMAIN tfRequest[c].names |-> <<tfRequest[c].names[i], c>>])
     \/ Postprocess(c, "session", <<>>)
  /\ UNCHANGED <<plan, tfServed, tfQueue, tfBatch, tfNow, tfCrashed>>

\* BatchingSession::batch(): Schedule() takes the task ...
ScheduleTask(c) ==
  /\ plan # TfNoModel /\ tfRequest[c].pc = "run"
  /\ IsBatched(c) /\ AskedSignature(c) \in DOMAIN tfQueue
  /\ Len(tfQueue[AskedSignature(c)]) < plan.limit
  /\ tfQueue' = [tfQueue EXCEPT ![AskedSignature(c)] = Append(@, c)]
  /\ tfRequest' = [tfRequest EXCEPT ![c].pc = "waits", ![c].task = "pending", ![c].begun = tfNow]
  /\ UNCHANGED <<plan, tfServed, tfBatch, tfNow, tfCrashed>>

\* ... or says that the queue is full ...
RefuseTask(c) ==
  /\ plan # TfNoModel /\ tfRequest[c].pc = "run"
  /\ IsBatched(c) /\ AskedSignature(c) \in DOMAIN tfQueue
  /\ Len(tfQueue[AskedSignature(c)]) = plan.limit
  /\ Postprocess(c, "full", <<>>)
  /\ UNCHANGED <<plan, tfServed, tfQueue, tfBatch, tfNow, tfCrashed>>

\* ... and a null pointer is dereferenced.
ScheduleOnNull(c) ==
  /\ plan # TfNoModel /\ tfRequest[c].pc = "run"
  /\ IsBatched(c) /\ AskedSignature(c) \notin DOMAIN tfQueue
  /\ tfCrashed' = TRUE
  /\ UNCHANGED <<plan, tfServed, tfRequest, tfQueue, tfBatch, tfNow>>

\* TaskResult::wait() reads the status after it was notified.  The task is the
\* batch's: when the batch is gone, what is read there is garbage.
Garbage == {"ok", "garbage"}
AwaitTask(c) ==
  /\ tfRequest[c].pc = "waits"
  /\ tfRequest[c].told # "none"
  /\ \E status \in IF tfRequest[c].task = "gone" THEN Garbage ELSE {tfRequest[c].task} :
       Postprocess(c, status, tfRequest[c].outputs)
  /\ UNCHANGED <<plan, tfServed, tfQueue, tfBatch, tfNow, tfCrashed>>

\* The client has its answer.
Forget(c) ==
  /\ tfRequest[c].pc = "answered"
  /\ tfRequest' = [tfRequest EXCEPT ![c] = TfIdle]
  /\ UNCHANGED <<plan, tfServed, tfQueue, tfBatch, tfNow, tfCrashed>>
-----------------------------------------------------------------------------
Timeout(call) == IF call.timeout <= 0 THEN TfForever ELSE call.timeout * TfMillis
Deadline(request) == request.begun + Timeout(request.call)
WasTimeout(c) == Deadline(tfRequest[c]) <= tfNow

\* Mutant of AllWereTimeout: the batch is late when one of its tasks is.
AnyWasTimeout(tasks) == \E c \in Elements(tasks) : WasTimeout(c)

AllWereTimeout(tasks) == \A c \in Elements(tasks) : WasTimeout(c)

\* The scheduler closes a batch, full or in time, and a thread of it calls the
\* session back, which is whole as long as the model is.
TakeBatch(t, s) ==
  /\ plan # TfNoModel
  /\ tfBatch[t].pc = "idle" /\ tfQueue[s] # <<>>
  /\ tfBatch' = [tfBatch EXCEPT ![t] = [pc |-> "closed", signature |-> s, tasks |-> tfQueue[s],
                                        told |-> 0, status |-> "ok"]]
  /\ tfQueue' = [tfQueue EXCEPT ![s] = <<>>]
  /\ UNCHANGED <<plan, tfServed, tfRequest, tfNow, tfCrashed>>

\* doprocess(): only if every task is late the session is not run.
StartBatch(t) ==
  /\ tfBatch[t].pc = "closed"
  /\ plan # TfNoModel \/ AllWereTimeout(tfBatch[t].tasks)
  /\ tfBatch' = [tfBatch EXCEPT ![t] =
       IF AllWereTimeout(@.tasks) THEN [@ EXCEPT !.pc = "tells", !.status = "timeout"]
       ELSE [@ EXCEPT !.pc = "runs"]]
  /\ UNCHANGED <<plan, tfServed, tfRequest, tfQueue, tfNow, tfCrashed>>

\* A batch that is called back for a model that is being destroyed needs roles
\* whose object is gone, and one that runs, or is about to, needs the session.
RunOnNoModel(t) ==
  /\ plan = TfNoModel
  /\ \/ tfBatch[t].pc = "idle" /\ \E s \in DOMAIN tfQueue : tfQueue[s] # <<>>
     \/ tfBatch[t].pc = "closed" /\ ~AllWereTimeout(tfBatch[t].tasks)
     \/ tfBatch[t].pc = "runs"
  /\ tfCrashed' = TRUE
  /\ UNCHANGED <<plan, tfServed, tfRequest, tfQueue, tfBatch, tfNow>>

\* dispatchByTask(): in the order of the names the task has, whatever the order
\* of the signature's.
Dispatched(c) == [i \in DOMAIN tfRequest[c].names |-> <<tfRequest[c].names[i], c>>]

\* The session has run and its output is split, or either failed.
EndBatch(t) ==
  /\ plan # TfNoModel /\ tfBatch[t].pc = "runs"
  /\ \/ /\ tfBatch' = [tfBatch EXCEPT ![t].pc = "tells"]
        /\ tfRequest' = [c \in TfClients |->
             IF c \in Elements(tfBatch[t].tasks) THEN [tfRequest[c] EXCEPT !.outputs = @ \o Dispatched(c)]
             ELSE tfRequest[c]]
     \/ /\ tfBatch' = [tfBatch EXCEPT ![t].pc = "tells", ![t].status = "session"]
        /\ UNCHANGED tfRequest
  /\ UNCHANGED <<plan, tfServed, tfQueue, tfNow, tfCrashed>>

\* done() tells one task after the other.
TellTask(t) ==
  /\ tfBatch[t].pc = "tells" /\ tfBatch[t].told < Len(tfBatch[t].tasks)
  /\ LET c == tfBatch[t].tasks[tfBatch[t].told + 1]
     IN tfRequest' = [tfRequest EXCEPT ![c].task = tfBatch[t].status, ![c].told = t]
  /\ tfBatch' = [tfBatch EXCEPT ![t].told = @ + 1]
  /\ UNCHANGED <<plan, tfServed, tfQueue, tfNow, tfCrashed>>

\* The callback of AddQueue() returns and its batch is destroyed, with the
\* tasks of those that were told but have not looked yet.
DestroyBatch(t) ==
  /\ tfBatch[t].pc = "tells" /\ tfBatch[t].told = Len(tfBatch[t].tasks)
  /\ tfRequest' = [c \in TfClients |->
       IF tfRequest[c].pc = "waits" /\ tfRequest[c].told = t THEN [tfRequest[c] EXCEPT !.task = "gone"]
       ELSE tfRequest[c]]
  /\ tfBatch' = [tfBatch EXCEPT ![t] = NoBatch]
  /\ UNCHANGED <<plan, tfServed, tfQueue, tfNow, tfCrashed>>

Tick == /\ tfNow < TfMaxNow
        /\ tfNow' = tfNow + 1
        /\ UNCHANGED <<plan, tfServed, tfRequest, tfQueue, tfBatch, tfCrashed>>

TfNext ==
  /\ ~tfCrashed
  /\ \/ \E model \in TfModels : LoadPlan(model)
     \/ UnloadPlan \/ DeleteQueues \/ Withdraw
     \/ \E c \in TfClients, call \in TfCalls : Preprocess(c, call)
     \/ \E c \in TfClients : \/ FindPlan(c) \/ UseNoModel(c) \/ RunAlone(c) \/ ScheduleTask(c) \/ RefuseTask(c) \/ ScheduleOnNull(c)
                             \/ AwaitTask(c) \/ Forget(c)
     \/ \E t \in TfThreads, s \in DOMAIN tfQueue : TakeBatch(t, s)
     \/ \E t \in TfThreads : \/ StartBatch(t) \/ EndBatch(t) \/ TellTask(t) \/ DestroyBatch(t)
                             \/ RunOnNoModel(t)
     \/ Tick

TfSpec == TfInit /\ [][TfNext]_tfvars
-----------------------------------------------------------------------------
\* A response has status OK only with a tensor for each alias that was asked
\* for, and each is the one of its own name computed for its own request: in
\* whatever order names, signatures and tasks are visited, and even when the
\* status that was read is garbage from a batch that is gone.
PlansAnswerWhole ==
  \A c \in TfClients :
    tfRequest[c].pc = "answered" /\ tfRequest[c].status = "ok" =>
      \E model \in TfModels :
        /\ KeyOf(tfRequest[c].call) \in DOMAIN model.graph
        /\ LET def == model.graph[KeyOf(tfRequest[c].call)]
           IN tfRequest[c].response =
                [alias \in WantedAliases(def, tfRequest[c].call) |-> <<def.outs[alias], c>>]

\* Nobody is told that time is up because of the others of a batch, who came
\* earlier or were less patient.
TimeoutsAreOwn ==
  \A c \in TfClients :
    tfRequest[c].pc = "answered" /\ tfRequest[c].status = "timeout" => WasTimeout(c)

\* A task that waits to be told is somewhere: in the open batch of a signature,
\* or among those that a batch thread has yet to tell.  Wherever the model is
\* unloaded from under it, nobody waits for a batch that does not know him.
TasksAreKept ==
  \A c \in TfClients :
    tfRequest[c].pc = "waits" /\ tfRequest[c].told = "none" =>
      \/ \E s \in DOMAIN tfQueue : c \in Elements(tfQueue[s])
      \/ \E t \in TfThreads : tfBatch[t].pc # "idle" /\ \E i \in tfBatch[t].told + 1 .. Len(tfBatch[t].tasks) :
           tfBatch[t].tasks[i] = c

\* All three.
PlansAnswer == PlansAnswerWhole /\ TimeoutsAreOwn /\ TasksAreKept
=============================================================================
