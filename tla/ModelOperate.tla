---------------------------- MODULE ModelOperate ----------------------------
(***************************************************************************)
(* The operations on models that clients may call: ModelOperateImpl, with  *)
(* the loading method "manual".  Each handler changes the directories, the *)
(* configuration and the policy of a model, calls update() to have storage *)
(* and boarding loop act on the change, and looks at the outcome.          *)
(*                                                                         *)
(* The model is about one model name.  A round of the boarding thread runs *)
(* under its mutex and is one step here; Boarding models its inside, and   *)
(* proves of it what Settled() takes from it.                              *)
(***************************************************************************)
EXTENDS Integers, Sequences, FiniteSets, FiniteSetsExt

CONSTANTS MaxVersion,   \* bound on the version numbers
          Handlers,     \* threads of the gRPC server
          Ops,          \* the operations that clients use
          Unanswered    \* where a handler has nothing yet

ASSUME MaxVersionNat == MaxVersion \in Nat
ASSUME OpsKnown ==
  Ops \subseteq {"addModel", "deleteModel", "addVersion", "deleteVersion", "activate"}
ASSUME UnansweredIsNoReply == Unanswered \notin {"SUCCESS", "ERROR"}

VersionNumbers == 0 .. MaxVersion
\* The policies, latest with its default of one version.
Policies == [choice : {"all", "latest"}, named : {{}}]
            \union [choice : {"specific"}, named : SUBSET VersionNumbers]
Operations == [op : Ops \ {"deleteVersion", "activate"}, version : {0}]
              \union [op : Ops \intersect {"deleteVersion", "activate"}, version : VersionNumbers]

VARIABLES configured,    \* ModelStore has the configuration of the model
          versionPolicy, \* its version policy
          disk,          \* the version directories of the model
          broken,        \* those that do not load
          managed,       \* the state of each managed version, or "ABSENT"
          streams,       \* BoardingLoop::streams
          request,       \* what each handler was asked
          step,          \* the step it is at
          back,          \* the step after update()
          mine,          \* the version it adds, or the stream it has collected
          undo,          \* the policy or the directory it must put back
          reply,         \* the status it has answered
          before         \* history: the model when the handler started

store == <<configured, versionPolicy, disk, broken, managed>>
local == <<mine, undo, before>>
opvars == <<store, streams, request, step, back, local, reply>>

Present == {v \in VersionNumbers : managed[v] # "ABSENT"}
Selection(p, d) == CASE p.choice = "all" -> d
                     [] p.choice = "latest" -> {v \in d : \A w \in d : w <= v}
                     [] p.choice = "specific" -> d \intersect p.named
LoadResult(v) == IF v \in disk \ broken THEN "READY" ELSE "ERROR"

\* exist() && isNormal(): there is a version, and all of them are ready.
Normal == Present # {} /\ \A v \in Present : managed[v] = "READY"

\* Start-up is over: a round has been made and a version was announced.
OpInit ==
  /\ versionPolicy \in Policies
  /\ disk \in SUBSET VersionNumbers
  /\ broken \in SUBSET disk
  /\ managed = [v \in VersionNumbers |-> IF v \in Selection(versionPolicy, disk) THEN LoadResult(v) ELSE "ABSENT"]
  /\ configured = TRUE /\ \E v \in VersionNumbers : managed[v] = "READY"
  /\ streams = <<>>
  /\ request = [h \in Handlers |-> Unanswered]
  /\ step = [h \in Handlers |-> "idle"]
  /\ back = [h \in Handlers |-> Unanswered]
  /\ mine = [h \in Handlers |-> Unanswered]
  /\ undo = [h \in Handlers |-> Unanswered]
  /\ reply = [h \in Handlers |-> Unanswered]
  /\ before = [h \in Handlers |-> Unanswered]
-----------------------------------------------------------------------------
StepTo(h, s) == step' = [step EXCEPT ![h] = s]

\* The handler returns, and what it kept on its stack is gone.
ReplyWith(h, status) ==
  /\ StepTo(h, "idle")
  /\ reply' = [reply EXCEPT ![h] = status]
  /\ back' = [back EXCEPT ![h] = Unanswered]
  /\ mine' = [mine EXCEPT ![h] = Unanswered]
  /\ undo' = [undo EXCEPT ![h] = Unanswered]

\* update() is called, and the handler goes on with step s.
CallUpdate(h, s) == StepTo(h, "collect") /\ back' = [back EXCEPT ![h] = s]

StartOp(h, r) ==
  /\ step[h] = "idle"
  /\ r.op = "addVersion" => MaxVersion \notin disk
  /\ request' = [request EXCEPT ![h] = r]
  /\ before' = [before EXCEPT ![h] =
       [configured |-> configured, policy |-> versionPolicy, disk |-> disk, managed |-> managed]]
  /\ reply' = [reply EXCEPT ![h] = Unanswered]
  /\ StepTo(h, r.op)
  /\ UNCHANGED <<store, streams, back, mine, undo>>

\* The first lines of every handler: is the model there, or not there yet?
RejectOp(h) ==
  /\ \/ step[h] = "addModel" /\ configured
     \/ step[h] \in {"deleteModel", "addVersion", "deleteVersion"} /\ ~configured
     \/ step[h] = "activate" /\ (~configured \/ request[h].version \notin disk)
  /\ ReplyWith(h, "ERROR")
  /\ UNCHANGED <<store, streams, request, before>>

\* copyDir() finds no source.
CopyFails(h) ==
  /\ \/ step[h] = "addModel" /\ ~configured
     \/ step[h] = "copyVersion"
  /\ ReplyWith(h, "ERROR")
  /\ UNCHANGED <<store, streams, request, before>>

\* addModel(): the directories come with a configuration, ...
CopyModel(h, p, d, b) ==
  /\ step[h] = "addModel" /\ ~configured
  /\ disk' = d /\ broken' = b
  /\ undo' = [undo EXCEPT ![h] = p]
  /\ StepTo(h, "configModel")
  /\ UNCHANGED <<configured, versionPolicy, managed, streams, request, back, mine, reply, before>>

\* ... that is read, and must be of a platform the server knows.
ReadConfig(h) ==
  /\ step[h] = "configModel"
  /\ configured' = TRUE
  /\ versionPolicy' = undo[h]
  /\ CallUpdate(h, "verifyModel")
  /\ UNCHANGED <<disk, broken, managed, streams, request, mine, undo, reply, before>>

\* operateFailure(), and deleteModel(): configuration, managed versions and
\* directories are removed.
ForgetModel(h, status) ==
  /\ configured' = FALSE
  /\ managed' = [v \in VersionNumbers |-> "ABSENT"]
  /\ disk' = {} /\ broken' = {}
  /\ ReplyWith(h, status)
  /\ UNCHANGED <<versionPolicy, streams, request, before>>

ReadFails(h) == step[h] = "configModel" /\ ForgetModel(h, "ERROR")

DeleteModel(h) == step[h] = "deleteModel" /\ configured /\ ForgetModel(h, "SUCCESS")

\* addModelVersion(): the directory gets the next number, ...
PickVersion(h) ==
  /\ step[h] = "addVersion" /\ configured
  /\ LET next == Max(disk \union {-1}) + 1 IN
     /\ next <= MaxVersion
     /\ mine' = [mine EXCEPT ![h] = next]
  /\ StepTo(h, "copyVersion")
  /\ UNCHANGED <<store, streams, request, back, undo, reply, before>>

\* ... and is filled with what may load or not.
CopyVersion(h, loads) ==
  /\ step[h] = "copyVersion"
  /\ disk' = disk \union {mine[h]}
  /\ broken' = IF loads THEN broken ELSE broken \union {mine[h]}
  /\ back' = [back EXCEPT ![h] = "verifyVersion"]
  /\ undo' = [undo EXCEPT ![h] = mine[h]]   \* Collect reuses mine
  /\ StepTo(h, "collect")
  /\ UNCHANGED <<configured, versionPolicy, managed, streams, request, mine, reply, before>>

DeleteVersion(h) ==
  /\ step[h] = "deleteVersion" /\ configured
  /\ disk' = disk \ {request[h].version}
  /\ broken' = broken \ {request[h].version}
  /\ CallUpdate(h, "succeed")
  /\ UNCHANGED <<configured, versionPolicy, managed, streams, request, local, reply>>

\* Mutant of TempPolicy: the versions there are now are not kept.
TempPolicyAlone(h) ==
  /\ step[h] = "activate" /\ configured /\ request[h].version \in disk
  /\ undo' = [undo EXCEPT ![h] = [choice |-> "all", named |-> {}]]
  /\ versionPolicy' = [choice |-> "specific", named |-> {request[h].version}]
  /\ CallUpdate(h, "verifyActive")
  /\ UNCHANGED <<configured, disk, broken, managed, streams, request, mine, reply, before>>

\* versionLoad(): the version is to be loaded next to those there are.
TempPolicy(h) ==
  /\ step[h] = "activate" /\ configured /\ request[h].version \in disk
  /\ undo' = [undo EXCEPT ![h] = versionPolicy]
  /\ versionPolicy' = [choice |-> "specific", named |-> Present \union {request[h].version}]
  /\ CallUpdate(h, "verifyActive")
  /\ UNCHANGED <<configured, disk, broken, managed, streams, request, mine, reply, before>>

\* oldVersionUnload()
KeepOnly(h) ==
  /\ step[h] = "keepOnly"
  /\ versionPolicy' = [choice |-> "specific", named |-> {request[h].version}]
  /\ CallUpdate(h, "succeed")
  /\ UNCHANGED <<configured, disk, broken, managed, streams, request, local, reply>>
-----------------------------------------------------------------------------
\* update(): StorageLoop::once() reads policy and directories, ...
Collect(h) ==
  /\ step[h] = "collect"
  /\ mine' = [mine EXCEPT ![h] = Selection(versionPolicy, disk)]
  /\ StepTo(h, IF configured THEN "push" ELSE "round")
  /\ UNCHANGED <<store, streams, request, back, undo, reply, before>>

\* ... hands the stream over, ...
PushStream(h) ==
  /\ step[h] = "push"
  /\ streams' = Append(streams, mine[h])
  /\ StepTo(h, "round")
  /\ UNCHANGED <<store, request, back, local, reply>>

\* What the streams ss make of the managed versions: which there are, which
\* of them are wanted, and which streams have to wait.
Handled(ss) ==
  LET f[i \in 0 .. Len(ss)] ==
        IF i = 0 THEN [there |-> Present, wanted |-> Present, kept |-> <<>>]
        ELSE LET b == f[i - 1]
                 new == IF configured THEN ss[i] \ b.there ELSE {}
             IN IF (b.there \ b.wanted) \intersect ss[i] # {}
                THEN [b EXCEPT !.kept = Append(@, ss[i])]
                ELSE [b EXCEPT !.there = @ \union new,
                               !.wanted = (@ \intersect ss[i]) \union new]
  IN f[Len(ss)]

\* ... and BoardingLoop::once() does a round.
Round(h) ==
  /\ step[h] = "round"
  /\ LET after == Handled(streams) IN
     /\ managed' = [v \in VersionNumbers |->
          IF v \notin after.wanted THEN "ABSENT"
          ELSE IF managed[v] # "ABSENT" THEN managed[v] ELSE LoadResult(v)]
     /\ streams' = after.kept
  /\ StepTo(h, back[h])
  /\ UNCHANGED <<configured, versionPolicy, disk, broken, request, back, local, reply>>

Succeed(h) ==
  /\ \/ step[h] \in {"verifyModel", "verifyVersion"} /\ Normal
     \/ step[h] = "succeed"
  /\ ReplyWith(h, "SUCCESS")
  /\ UNCHANGED <<store, streams, request, before>>

Activated(h) ==
  /\ step[h] = "verifyActive" /\ Normal
  /\ StepTo(h, "keepOnly")
  /\ UNCHANGED <<store, streams, request, back, local, reply>>

ModelNotNormal(h) == step[h] = "verifyModel" /\ ~Normal /\ ForgetModel(h, "ERROR")

\* Mutant of RollBack: update() is not called a second time.
RollBackFiles(h) ==
  /\ \/ /\ step[h] = "verifyVersion" /\ ~Normal
        /\ disk' = disk \ {undo[h]} /\ broken' = broken \ {undo[h]}
        /\ UNCHANGED versionPolicy
     \/ /\ step[h] = "verifyActive" /\ ~Normal
        /\ versionPolicy' = undo[h]
        /\ UNCHANGED <<disk, broken>>
  /\ StepTo(h, "fail")
  /\ UNCHANGED <<configured, managed, streams, request, back, local, reply>>

\* The new directory is deleted, or the policy restored, and update() called.
RollBack(h) ==
  /\ \/ /\ step[h] = "verifyVersion" /\ ~Normal
        /\ disk' = disk \ {undo[h]} /\ broken' = broken \ {undo[h]}
        /\ UNCHANGED versionPolicy
     \/ /\ step[h] = "verifyActive" /\ ~Normal
        /\ versionPolicy' = undo[h]
        /\ UNCHANGED <<disk, broken>>
  /\ CallUpdate(h, "fail")
  /\ UNCHANGED <<configured, managed, streams, request, local, reply>>

FailOp(h) ==
  /\ step[h] = "fail"
  /\ ReplyWith(h, "ERROR")
  /\ UNCHANGED <<store, streams, request, before>>

\* queryModel(): the version directories, offline unless the version is managed.
ListedVersions == IF configured THEN [v \in disk |-> "OFFLINE"] ELSE << >>
QueryModel == [v \in DOMAIN ListedVersions |-> IF v \in Present THEN managed[v] ELSE ListedVersions[v]]

Handle(h) ==
  \/ RejectOp(h) \/ CopyFails(h) \/ ReadConfig(h) \/ ReadFails(h) \/ DeleteModel(h)
  \/ \E p \in Policies, d \in SUBSET VersionNumbers : \E b \in SUBSET d : CopyModel(h, p, d, b)
  \/ PickVersion(h) \/ \E loads \in BOOLEAN : CopyVersion(h, loads)
  \/ DeleteVersion(h) \/ TempPolicy(h) \/ KeepOnly(h)
  \/ Collect(h) \/ PushStream(h) \/ Round(h)
  \/ Succeed(h) \/ Activated(h) \/ ModelNotNormal(h) \/ RollBack(h) \/ FailOp(h)

OpNext == \E h \in Handlers : Handle(h) \/ \E r \in Operations : StartOp(h, r)

OpSpec == OpInit /\ [][OpNext]_opvars
-----------------------------------------------------------------------------
TypeOK ==
  /\ configured \in BOOLEAN
  /\ versionPolicy \in Policies
  /\ disk \subseteq VersionNumbers /\ broken \subseteq disk
  /\ managed \in [VersionNumbers -> {"ABSENT", "READY", "ERROR"}]
  /\ streams \in Seq(SUBSET VersionNumbers) /\ Len(streams) <= Cardinality(Handlers)
  /\ reply \in [Handlers -> {Unanswered, "SUCCESS", "ERROR"}]

Quiet == \A h \in Handlers : step[h] = "idle"

\* The comment on version_policy in model_config.proto: it is the "Policy
\* indicating which version(s) of the model will be served".  When no
\* operation is under way the managed versions are the ones it selects.
PolicyIsServed ==
  Quiet => Present = IF configured THEN Selection(versionPolicy, disk) ELSE {}

\* An operation that brings a version and answers SUCCESS has left nothing
\* but loaded versions, and activation the one version that was asked for.
SuccessIsReady ==
  \A h \in Handlers : step[h] = "idle" /\ reply[h] = "SUCCESS" =>
    /\ request[h].op \in {"addModel", "addVersion", "activate"} => Normal
    /\ request[h].op = "activate" => Present = {request[h].version}

\* An operation that answers ERROR has left the model as it found it, the
\* states of its versions included.
FailureLeavesNoTrace ==
  \A h \in Handlers : step[h] = "idle" /\ reply[h] = "ERROR" =>
    /\ before[h].configured = configured
    /\ before[h].managed = managed
    /\ configured => before[h].policy = versionPolicy /\ before[h].disk = disk

\* When no operation is under way, a query tells of every version that is managed
\* and in which state it is: managed versions have a directory to be listed by.
QueryTells == Quiet => \A v \in Present : v \in DOMAIN QueryModel /\ QueryModel[v] = managed[v]

\* An operation that answers SUCCESS has done what it says, and one that answers
\* ERROR has left the model as it was; what is answered to a query is so.
AnswersAreTrue == SuccessIsReady /\ FailureLeavesNoTrace /\ QueryTells
=============================================================================
