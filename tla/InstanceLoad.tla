---------------------------- MODULE InstanceLoad ----------------------------
(***************************************************************************)
(* How a plug-in creates the instances of a model, with a buffer for every *)
(* tensor of each, how it lets go of them, and whether the batches of the  *)
(* scheduler fit into the buffers (what is copied there is in InstanceIO). *)
(*                                                                         *)
(* A plan is what the model file says of itself.  An allocation is         *)
(* <<instance, tensor>>, or <<instance, handle>> for what is no buffer.    *)
(***************************************************************************)
EXTENDS Integers, Sequences, SequencesExt, FiniteSetsExt

CONSTANTS LdEngines,   \* the plug-ins
          LdConfigs,   \* [normal, valid, batch, groups, tensors]
          LdPlans,     \* [usable, max, tensors]
          LdGarbage,   \* sizes that uninitialized memory may hold
          LdMaxRows    \* bound on the rows of a batch and of what an engine gives

ASSUME LdEnginesAreKnown ==
  LdEngines \subseteq {"tensorrt", "topsinference", "paddle", "tvm", "libtorch", "openvino", "tflite"}

\* What protobuf and the engines give, no size of which is negative or goes
\* beyond its width; an engine has one tensor of a name.
LdTensor == [name : STRING, input : BOOLEAN, elements : Nat, type : STRING]
ASSUME LdModelsAreTyped ==
  /\ \A c \in LdConfigs :
       /\ c.batch \in Nat /\ c.tensors \in Seq(LdTensor)
       /\ c.groups \in Seq([kind : STRING, count : Int, gpus : Seq(STRING)])
  /\ \A p \in LdPlans :
       /\ p.tensors \in Seq(LdTensor)
       /\ \A i, j \in DOMAIN p.tensors : p.tensors[i].name = p.tensors[j].name => i = j

VARIABLES ldPc, ldEngine, ldConfig, ldPlan,
          ldInstances, \* the instances of the model
          ldCurrent,   \* the one that is being created
          ldHeap,      \* what is allocated
          ldCopies,    \* the copies of the last batch: their bytes and the room there is
          ldStatus     \* how it ended

ldvars == <<ldPc, ldEngine, ldConfig, ldPlan, ldInstances, ldCurrent, ldHeap, ldCopies, ldStatus>>

NoInstance == [device |-> "none", predictor |-> 0, buffers |-> <<>>, handles |-> {}]
TheEngine == -1
TheContext == -2
TheStream == -3

TypeSize(type) == IF type = "float" THEN 2 ELSE 0
RowBytes(t) == t.elements * TypeSize(t.type)
AtLeastOne(n) == Max({1, n})
-----------------------------------------------------------------------------
(* Which instances there will be *)

\* create(): LibTorch and TVM ignore the status of NormalizeModelConfig(), TensorRT
\* and TVM do without ValidateModelConfig().
Refuses(engine, config) ==
  \/ ~config.normal /\ engine \notin {"libtorch", "tvm"}
  \/ ~config.valid /\ engine \notin {"tensorrt", "tvm"}

\* TensorRT wants GPUs in every group, when it comes to it.
Unusable == "none"
GroupDevices(group) ==
  CASE ldEngine = "tensorrt" -> IF group.kind = "GPU" /\ group.gpus # <<>> THEN group.gpus ELSE <<Unusable>>
    [] ldEngine = "libtorch" -> IF group.gpus = <<>> THEN <<"gpu0">> ELSE group.gpus
    [] ldEngine = "openvino" -> IF group.kind = "GPU" THEN <<"GPU">> ELSE <<"CPU">>
    [] OTHER -> <<"any">>

\* The loops over the groups, their counts and their devices.
Slots == FlattenSeq([g \in DOMAIN ldConfig.groups |->
           FlattenSeq([c \in 1 .. ldConfig.groups[g].count |-> GroupDevices(ldConfig.groups[g])])])

\* Mutant: like NextPredictor, but every instance takes the last one.
LastPredictor == Len(Slots) - 1

\* PaddlePaddle takes the predictors of its pool from the last to the first.
NextPredictor == Len(Slots) - Len(ldInstances) - 1
-----------------------------------------------------------------------------
(* The tensors of an instance *)

\* OpenVINO and TensorFlow Lite ask the model, the others the configuration.
LdTensors == IF ldEngine \in {"openvino", "tflite"} THEN ldPlan.tensors ELSE ldConfig.tensors

Binding(name) == SelectInSeq(ldPlan.tensors, LAMBDA t : t.name = name)
BoundNames == {ldCurrent.buffers[b].name : b \in DOMAIN ldCurrent.buffers}

\* initializeInputBindings() and initializeOutputBindings() of TensorRT.
TensorRtAccepts(t) ==
  /\ t.elements > 0 /\ TypeSize(t.type) > 0
  /\ Binding(t.name) # 0 /\ t.name \notin BoundNames
  /\ ldPlan.tensors[Binding(t.name)] = t

\* init_blob() and Buffer::init() want a type they know, TensorFlow Lite a
\* declaration that is the signature, and the others take what comes.
Accepts(t) ==
  CASE ldEngine = "tensorrt" -> TensorRtAccepts(t)
    [] ldEngine \in {"libtorch", "paddle", "topsinference"} -> TypeSize(t.type) > 0
    [] ldEngine = "tflite" -> ToSet(ldConfig.tensors) = ToSet(ldPlan.tensors)
    [] OTHER -> TRUE

\* TensorFlow Lite resizes its tensors to the batch.
Room(t) == (IF ldEngine \in {"tensorrt", "tvm", "tflite"} THEN AtLeastOne(ldConfig.batch) ELSE ldConfig.batch) * RowBytes(t)

\* emplace_back() on a full vector moves the buffers that are there: the move
\* constructor of TopsInference's Buffer leaves byte_size uninitialized.  The
\* inputs and the outputs have a vector each.
Moves(b, t) == ldEngine = "topsinference" /\ b.input = t.input
Buffer(t) == [name |-> t.name, input |-> t.input, size |-> Room(t), tensor |-> t]

Owned(n, instance) == {<<n, b>> : b \in DOMAIN instance.buffers} \cup {<<n, h>> : h \in instance.handles}
Number(instances) == Len(instances) + 1
-----------------------------------------------------------------------------
LdInit == /\ ldPc = "idle" /\ ldEngine \in LdEngines /\ ldConfig \in LdConfigs /\ ldPlan \in LdPlans
          /\ ldInstances = <<>> /\ ldCurrent = NoInstance /\ ldHeap = {}
          /\ ldCopies = {} /\ ldStatus = "none"

\* The instance that is being created is destroyed, and the model with it.
DestroyAll ==
  ldHeap \ (Owned(Number(ldInstances), ldCurrent) \cup UNION {Owned(n, ldInstances[n]) : n \in DOMAIN ldInstances})
Abandon == /\ ldPc' = "gone" /\ ldHeap' = DestroyAll
           /\ ldInstances' = <<>> /\ ldCurrent' = NoInstance
           /\ UNCHANGED <<ldEngine, ldConfig, ldPlan, ldCopies, ldStatus>>
Builds == UNCHANGED <<ldEngine, ldConfig, ldPlan, ldInstances, ldCopies, ldStatus>>

LdCreate == /\ ldPc = "idle"
            /\ ~Refuses(ldEngine, ldConfig)
            /\ ldPc' = IF Slots = <<>> THEN "ready" ELSE "instance"
            /\ UNCHANGED ldHeap /\ UNCHANGED ldCurrent /\ Builds
LdRefuse == ldPc = "idle" /\ Refuses(ldEngine, ldConfig) /\ Abandon

\* The file: loadPlan() of TensorRT, loadExecutable(), jit::load(), the pool of
\* predictors, compile_model() and create_infer_request(), BuildFromFile().  What
\* PaddlePaddle and TVM throw is not caught.
LoadFile ==
  /\ ldPc = "instance" /\ ldPlan.usable /\ Slots[Len(ldInstances) + 1] # Unusable
  /\ ldEngine = "tensorrt" => ldConfig.batch <= ldPlan.max
  /\ ldCurrent' = [NoInstance EXCEPT
       !.device = Slots[Len(ldInstances) + 1], !.predictor = NextPredictor,
       !.handles = {TheEngine} \cup IF ldEngine = "topsinference" THEN {TheStream} ELSE {}]
  /\ ldHeap' = ldHeap \cup {<<Number(ldInstances), h>> : h \in ldCurrent'.handles}
  /\ ldPc' = "tensors" /\ Builds
LoadFails == ldPc = "instance" /\ ldEngine \notin {"paddle", "tvm"} /\ Abandon

NextTensor == LdTensors[Len(ldCurrent.buffers) + 1]
MoreTensors == ldPc = "tensors" /\ Len(ldCurrent.buffers) < Len(LdTensors)

\* Memory of a device may be refused; TopsInference does not look.
AddTensor ==
  /\ MoreTensors /\ Accepts(NextTensor)
  /\ \E garbage \in LdGarbage :
       ldCurrent' = [ldCurrent EXCEPT !.buffers =
         Append([b \in DOMAIN @ |-> IF Moves(@[b], NextTensor) THEN [@[b] EXCEPT !.size = garbage] ELSE @[b]],
                Buffer(NextTensor))]
  /\ ldHeap' = ldHeap \cup {<<Number(ldInstances), Len(ldCurrent.buffers) + 1>>}
  /\ ldPc' = ldPc /\ Builds
TensorFails == MoreTensors /\ (~Accepts(NextTensor) \/ ldEngine = "tensorrt") /\ Abandon

\* allocBuffer() ends with a look at every binding, and createExecuteContext()
\* may fail before or after it has the context.
LdComplete == ldPc = "tensors" /\ Len(ldCurrent.buffers) = Len(LdTensors)
AllBound == \A b \in DOMAIN ldPlan.tensors : ldPlan.tensors[b].name \in BoundNames
AddInstance ==
  /\ LdComplete /\ (ldEngine = "tensorrt" => AllBound)
  /\ LET more == IF ldEngine = "tensorrt" THEN {TheContext, TheStream} ELSE {}
     IN /\ ldInstances' = Append(ldInstances, [ldCurrent EXCEPT !.handles = @ \cup more])
        /\ ldHeap' = ldHeap \cup {<<Number(ldInstances), h>> : h \in more}
  /\ ldCurrent' = NoInstance
  /\ ldPc' = IF Len(ldInstances) + 1 = Len(Slots) THEN "ready" ELSE "instance"
  /\ UNCHANGED <<ldEngine, ldConfig, ldPlan, ldCopies, ldStatus>>
InstanceFails == LdComplete /\ ldEngine = "tensorrt" /\ Abandon

\* The model is retired: its processors are destroyed.
LdUnload == ldPc = "ready" /\ Abandon
-----------------------------------------------------------------------------
(* processBatch() *)
BuffersOf(k, input) == {b \in ToSet(ldInstances[k].buffers) : b.input = input}
LdCopy(bytes, b) == [bytes |-> bytes, room |-> Room(b.tensor), name |-> b.name]

\* mergeInputs() refuses what goes beyond byte_size.
Fits(k, n) == \A b \in BuffersOf(k, TRUE) : n * RowBytes(b.tensor) <= b.size

\* LibTorch compares the bytes of an output with the buffer before it copies,
\* PaddlePaddle the number of elements.
OutputAccepted(b, rows) ==
  CASE ldEngine = "libtorch" -> rows * RowBytes(b.tensor) <= b.size
    [] ldEngine = "paddle" -> rows * b.tensor.elements <= b.size
    [] OTHER -> TRUE
OutputBytes(b, rows) == IF ldEngine \in {"libtorch", "paddle"} THEN rows * RowBytes(b.tensor) ELSE Room(b.tensor)

\* splitOutputs() refuses to read beyond byte_size, except TVM's.
SplitAccepted(b, n) == ldEngine = "tvm" \/ n * RowBytes(b.tensor) <= b.size

\* A batch of n rows for which the engine gives that many rows of each output.
\* OpenVINO and TVM throw if the model has a max_batch_size of 0.
Process(k, n, rows) ==
  /\ ldPc = "ready"
  /\ n \in 1 .. AtLeastOne(ldConfig.batch) /\ (ldConfig.batch = 0 => ldEngine \notin {"openvino", "tvm"})
  /\ LET outputs == BuffersOf(k, FALSE)
         merged == {LdCopy(n * RowBytes(b.tensor), b) : b \in BuffersOf(k, TRUE)}
         computed == {LdCopy(OutputBytes(b, rows), b) : b \in outputs}
     IN \/ ~Fits(k, n) /\ ldCopies' = {} /\ ldStatus' = "input has no room"
        \/ Fits(k, n) /\ (\E b \in outputs : ~OutputAccepted(b, rows)) /\ ldCopies' = merged /\ ldStatus' = "engine failed"
        \/ /\ Fits(k, n) /\ \A b \in outputs : OutputAccepted(b, rows)
           /\ ldCopies' = merged \cup computed
           /\ ldStatus' = IF \A b \in outputs : SplitAccepted(b, n) THEN "OK" ELSE "output has no room"
  /\ UNCHANGED <<ldPc, ldEngine, ldConfig, ldPlan, ldInstances, ldCurrent, ldHeap>>

LdNext == \/ LdCreate \/ LdRefuse \/ LoadFile \/ LoadFails \/ AddTensor \/ TensorFails
          \/ AddInstance \/ InstanceFails \/ LdUnload
          \/ \E k \in DOMAIN ldInstances, n \in 1 .. LdMaxRows, rows \in 0 .. LdMaxRows : Process(k, n, rows)
LdSpec == LdInit /\ [][LdNext]_ldvars
-----------------------------------------------------------------------------
\* Whatever fails while a model is created, what its instances own is all there
\* is, and nothing is left when there is no model.
NothingLeaks ==
  ldHeap = Owned(Number(ldInstances), ldCurrent) \cup UNION {Owned(n, ldInstances[n]) : n \in DOMAIN ldInstances}

\* A model that is ready has every instance its configuration asks for, no two
\* PaddlePaddle instances share a predictor, and a TensorRT instance has one
\* buffer for each binding of the engine.
InstancesAreWhole ==
  ldPc = "ready" =>
    /\ Len(ldInstances) = Len(Slots)
    /\ {ldInstances[k].predictor : k \in DOMAIN ldInstances} = 0 .. Len(Slots) - 1
    /\ \A k \in DOMAIN ldInstances : ldInstances[k].device = Slots[k]
    /\ ldEngine = "tensorrt" =>
         \A k \in DOMAIN ldInstances : {b.tensor : b \in ToSet(ldInstances[k].buffers)} = ToSet(ldPlan.tensors)

\* Every batch that the scheduler may form has room: with batching off, on
\* TensorRT, TVM and TensorFlow Lite only; on TopsInference if the model has one
\* input and one output.
BatchesFit ==
  ldStatus \in {"input has no room", "output has no room"} =>
    \/ ldConfig.batch = 0 /\ ldEngine \notin {"tensorrt", "tvm", "tflite"}
    \/ ldEngine = "topsinference" /\ \E i, j \in DOMAIN LdTensors : i # j /\ LdTensors[i].input = LdTensors[j].input

\* In LibTorch, TensorRT and TVM no copy goes beyond its buffer.  Of the others
\* nothing is said here: PaddlePaddle compares elements with bytes and may copy too
\* much, OpenVINO's tensors and TopsInference's device memory are the engine's.
CopiesFit == ldEngine \in {"libtorch", "tensorrt", "tvm"} => \A c \in ldCopies : c.bytes <= c.room

InstancesHold == NothingLeaks /\ InstancesAreWhole /\ BatchesFit /\ CopiesFit
=============================================================================
