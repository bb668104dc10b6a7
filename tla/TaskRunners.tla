----------------------------- MODULE TaskRunners -----------------------------
(***************************************************************************)
(* Tasks of the "ml" runtime: MLModel, which has a number of algorithm     *)
(* objects (runners) and lets one task at a time have each.  A task runs   *)
(* on a thread of its own, which nobody joins; the request waits on a      *)
(* cub::Notification in its own frame, first with a timeout, after which   *)
(* the algorithm is asked to stop, and then without one.                   *)
(***************************************************************************)
EXTENDS Integers, Sequences, SequencesExt

CONSTANTS TrRequests,  \* handlers of task requests
          TrGroups,    \* sequences of counts: the instance groups of a model
          NoRunner

VARIABLES
  trModel,   \* none, broken: init() failed, or ready
  trRunners, \* MLModel::runners, their states
  trReq,     \* what each request does and its frame
  trThread   \* what the thread of each request does

trvars == <<trModel, trRunners, trReq, trThread>>

NoTask == [pc |-> "idle", runner |-> NoRunner, timed |-> FALSE, notified |-> FALSE,
           terminate |-> FALSE, framed |-> FALSE, answer |-> "none"]

TrInit == /\ trModel = "none" /\ trRunners = <<>>
          /\ trReq = [r \in TrRequests |-> NoTask]
          /\ trThread = [r \in TrRequests |-> "none"]

Goes(r, pc) == trReq' = [trReq EXCEPT ![r].pc = pc] /\ UNCHANGED <<trModel, trRunners, trThread>>
Does(r, pc) == trThread' = [trThread EXCEPT ![r] = pc] /\ UNCHANGED <<trModel, trRunners, trReq>>
-----------------------------------------------------------------------------
(* MLModel::init(): without an algorithm the model has no runners and is  *)
(* ready; with one, each must be created and there must be one.           *)
CreateModel(groups, algorithm) ==
  /\ trModel = "none"
  /\ LET count == FoldLeft(LAMBDA n, c : n + c, 0, groups)
     IN /\ trModel' = IF algorithm = "given" /\ count = 0 THEN "broken" ELSE "ready"
        /\ trRunners' = [i \in 1 .. (IF algorithm = "given" THEN count ELSE 0) |-> "AVAILABLE"]
  /\ UNCHANGED <<trReq, trThread>>

\* AlgorithmFactory does not know the name, or the algorithm cannot start.
CreateFails ==
  /\ trModel = "none" /\ trModel' = "broken"
  /\ UNCHANGED <<trRunners, trReq, trThread>>
-----------------------------------------------------------------------------
(* MLModel::run() *)
Free == {i \in DOMAIN trRunners : trRunners[i] = "AVAILABLE"}

\* Under the mutex of the model, the first runner that is available.
TakeRunner(r, timed) ==
  /\ trModel = "ready" /\ trReq[r].pc = "idle"
  /\ \E i \in Free :
       /\ \A j \in Free : i <= j
       /\ trRunners' = [trRunners EXCEPT ![i] = "UNAVAILABLE"]
       /\ trReq' = [trReq EXCEPT ![r] = [NoTask EXCEPT !.pc = "schedule", !.timed = timed, !.runner = i, !.framed = TRUE]]
  /\ UNCHANGED <<trModel, trThread>>

NoneFree(r) ==
  /\ trModel = "ready" /\ trReq[r].pc = "idle" /\ Free = {}
  /\ trReq' = [trReq EXCEPT ![r].answer = "unavailable"]
  /\ UNCHANGED <<trModel, trRunners, trThread>>

\* TaskOpImpl::create(): a model that is not ready is not among those served.
RefuseTask(r) ==
  /\ trModel # "ready" /\ trReq[r].pc = "idle"
  /\ trReq' = [trReq EXCEPT ![r].answer = "invalid"]
  /\ UNCHANGED <<trModel, trRunners, trThread>>

\* SimpleExecutor detaches the thread.
ScheduleTask(r) ==
  /\ trReq[r].pc = "schedule"
  /\ trThread' = [trThread EXCEPT ![r] = "runs"]
  /\ trReq' = [trReq EXCEPT ![r].pc = IF trReq[r].timed THEN "timedwait" ELSE "wait"]
  /\ UNCHANGED <<trModel, trRunners>>

\* Notification: its mutex is held by a thread inside notify() only, as a
\* sleeper gives it up and a waiter holds it between two tests only.
MutexFree(r) == trThread[r] \notin {"locked", "stored"}

\* wait(): notified is looked at without the mutex first, and then with it.
Through(r, pc, next) == trReq[r].pc = pc /\ trReq[r].notified /\ Goes(r, next)
Sleeps(r, pc, asleep) == trReq[r].pc = pc /\ ~trReq[r].notified /\ MutexFree(r) /\ Goes(r, asleep)

AwaitTimed(r) == Through(r, "timedwait", "wait") \/ Sleeps(r, "timedwait", "timedsleep")
Await(r) == Through(r, "wait", "release") \/ Sleeps(r, "wait", "sleep")

\* Mutant: like TimesOut, without telling the algorithm.
TimesOutSilently(r) == trReq[r].pc = "timedsleep" /\ MutexFree(r) /\ Goes(r, "wait")

\* The deadline; the notification may come at the same time.
TimesOut(r) ==
  /\ trReq[r].pc = "timedsleep" /\ MutexFree(r)
  /\ trReq' = [trReq EXCEPT ![r].pc = "wait", ![r].terminate = TRUE]
  /\ UNCHANGED <<trModel, trRunners, trThread>>

\* nsync may also wake a sleeper for nothing; both loops test again.
WakesUp(r) ==
  /\ MutexFree(r)
  /\ \/ trReq[r].pc = "timedsleep" /\ Goes(r, "timedwait")
     \/ trReq[r].pc = "sleep" /\ Goes(r, "wait")

ReleaseRunner(r) ==
  /\ trReq[r].pc = "release"
  /\ trRunners' = [trRunners EXCEPT ![trReq[r].runner] = "AVAILABLE"]
  /\ trReq' = [trReq EXCEPT ![r].pc = "destroy"]
  /\ UNCHANGED <<trModel, trThread>>

\* Mutant: like NotificationFree, with a destructor that does nothing.
NotificationFreeAtOnce(r) == TRUE

\* ~Notification() takes the mutex once.
NotificationFree(r) == MutexFree(r)
LeaveFrame(r) ==
  /\ trReq[r].pc = "destroy" /\ NotificationFree(r)
  /\ trReq' = [trReq EXCEPT ![r] = [NoTask EXCEPT !.answer = "done"]]
  /\ UNCHANGED <<trModel, trRunners, trThread>>
-----------------------------------------------------------------------------
(* The thread: Algorithm::run(), then notify(). *)
RunEnds(r) == trThread[r] = "runs" /\ Does(r, "ran")
\* TERMINATE_IF, which an algorithm has in its loops.
Terminates(r) == trThread[r] = "runs" /\ trReq[r].terminate /\ Does(r, "ran")
NotifyLocks(r) == trThread[r] = "ran" /\ Does(r, "locked")
NotifyStores(r) ==
  /\ trThread[r] = "locked"
  /\ trReq' = [trReq EXCEPT ![r].notified = TRUE]
  /\ trThread' = [trThread EXCEPT ![r] = "stored"]
  /\ UNCHANGED <<trModel, trRunners>>
\* notifyAll() and the end of the lock.
NotifyWakes(r) ==
  /\ trThread[r] = "stored"
  /\ trThread' = [trThread EXCEPT ![r] = "none"]
  /\ trReq' = [trReq EXCEPT ![r].pc = CASE @ = "timedsleep" -> "timedwait" [] @ = "sleep" -> "wait" [] OTHER -> @]
  /\ UNCHANGED <<trModel, trRunners>>

TrCall(r) == AwaitTimed(r) \/ Await(r) \/ ScheduleTask(r) \/ ReleaseRunner(r) \/ LeaveFrame(r)
TrRun(r) == Terminates(r) \/ NotifyLocks(r) \/ NotifyStores(r) \/ NotifyWakes(r)

TrNext == \/ CreateFails
          \/ \E groups \in TrGroups, algorithm \in {"none", "given"} : CreateModel(groups, algorithm)
          \/ \E r \in TrRequests :
               \/ \E timed \in BOOLEAN : TakeRunner(r, timed)
               \/ NoneFree(r) \/ RefuseTask(r) \/ TrCall(r) \/ TimesOut(r) \/ WakesUp(r) \/ RunEnds(r) \/ TrRun(r)

\* Threads run, and an algorithm that is told to stop does; one that is not may
\* run for ever.  A deadline passes unless wake-ups without a reason, each of which
\* begins a new one, keep coming more often than it.
TrFairness == \A r \in TrRequests : /\ WF_trvars(TrCall(r))
                                    /\ SF_trvars(TimesOut(r))
                                    /\ WF_trvars(TrRun(r))

TrSpec == TrInit /\ [][TrNext]_trvars /\ TrFairness
-----------------------------------------------------------------------------
\* No two threads are in one algorithm object, one that is available is in no
\* thread, and a thread finds the frame of its request while it uses it: until
\* it has left notify(), which is after the request may see its result.
RunnersExclusive ==
  \A r \in TrRequests :
    /\ trThread[r] # "none" => trReq[r].framed
    /\ trThread[r] = "runs" =>
         /\ trRunners[trReq[r].runner] = "UNAVAILABLE"
         /\ \A s \in TrRequests \ {r} : trThread[s] = "runs" => trReq[s].runner # trReq[r].runner

\* A task with a timeout ends and gives its runner back, also if its algorithm
\* would never end by itself and whatever other tasks do.
TimedTasksEnd == \A r \in TrRequests : trReq[r].pc # "idle" /\ trReq[r].timed ~> trReq[r].pc = "idle"
=============================================================================
