--------------------------- MODULE ModelCompiler ---------------------------
(***************************************************************************)
(* The model compiler: it finds out what its source is, searches for a     *)
(* chain of compilers from there to the wanted target, runs it, writes the *)
(* configuration and a new version into the directory of a model and packs *)
(* both.  Jobs run one after the other in one directory; one may be killed *)
(* between any two steps, and the next one meets what it left behind.      *)
(*                                                                         *)
(* The compilers call other tools: each succeeds or raises.  A file is     *)
(* known by its target, its job and whether it is whole.                   *)
(***************************************************************************)
EXTENDS Integers, Sequences, SequencesExt, FiniteSets, FiniteSetsExt

CONSTANTS CmJobs,    \* per position, what that job may be asked for
          CmInitial, \* what the directory of the model may hold at first
          CmNumber,  \* int() of the names that are numbers
          CmText     \* str() of the versions there may be

ASSUME CmNumbersAreExact ==
  /\ \A name \in DOMAIN CmNumber : CmNumber[name] \in Int
  /\ \A v \in DOMAIN CmText : CmText[v] \in DOMAIN CmNumber /\ CmNumber[CmText[v]] = v
ASSUME CmJobsAreTyped ==
  /\ \A i \in DOMAIN CmJobs : \A job \in CmJobs[i] : job.version \subseteq Int /\ \A u, v \in job.version : u = v
  /\ \A dir \in CmInitial : IsFiniteSet(DOMAIN dir)

VARIABLES
  cmPc,       \* the step of the job that runs
  cmCount,    \* number of jobs that were started
  cmJob,
  cmSource,   \* source_type
  cmSearch,   \* _find_path(): the current type with its chain, queue, visited
  cmChain,    \* the chain that was found
  cmModel,    \* type of the model that was compiled so far
  cmDir,      \* the entries of the model's directory but config.pbtxt
  cmConfig,   \* {} or the one content of config.pbtxt
  cmVersion,  \* the version that is saved
  cmPackages, \* the packages by version
  cmStatus,   \* what the job answers
  cmTries,    \* failed attempts to send the answer
  cmHeard,    \* the answers that came to the ears of the caller
  cmBefore    \* history: cmDir when the job began

cmstored == <<cmDir, cmConfig, cmPackages>>
cmanswer == <<cmStatus, cmTries, cmHeard>>
cmfound == <<cmSource, cmSearch, cmChain, cmModel>>
cmgiven == <<cmCount, cmJob, cmBefore>>
cmvars == <<cmPc, cmgiven, cmfound, cmstored, cmVersion, cmanswer>>

PlainFile == {[plain |-> TRUE]}
NoPath == [ext |-> "", kind |-> "missing", holds |-> {}]
-----------------------------------------------------------------------------
(* models/sources: what each of them accepts.  From the environment every  *)
(* source reads a variable of its own and believes it; JSON values and     *)
(* arguments have one input for all and are looked at.                     *)
Asked(job, variable) ==
  LET name == IF job.by = "env" THEN variable ELSE "input_model"
  IN IF name \in DOMAIN job.given THEN job.given[name] ELSE NoPath

Believed(job) == job.by = "env"
FileWith(job, variable, ext) ==
  LET p == Asked(job, variable) IN p.kind = "file" /\ (Believed(job) \/ p.ext = ext)

KerasAccepts(job) == FileWith(job, "H5_PATH", ".h5")
OneFlowAccepts(job) == Asked(job, "ONEFLOW_PATH").kind = "dir" /\ job.script
OnnxAccepts(job) == FileWith(job, "ONNX_PATH", ".onnx")
OpenvinoAccepts(job) ==
  LET p == Asked(job, "OPENVINO_PATH")
  IN p.kind = "dir" /\ (Believed(job) \/ {"*.xml", "*.bin"} \subseteq p.holds)
FrozenGraphAccepts(job) == FileWith(job, "FROZEN_GRAPH_PATH", ".pb")
\* A checkpoint is a prefix of files: nothing needs to have that name.
TfModelAccepts(job) == Asked(job, "CHECKPOINT_PATH").ext = ".ckpt"
SavedModelAccepts(job) ==
  LET p == Asked(job, "SAVED_MODEL_PATH")
  IN IF Believed(job) THEN p.kind = "dir" ELSE "saved_model.pb" \in p.holds
TorchAccepts(job) == FileWith(job, "TORCH_PATH", ".pth")
PaddleAccepts(job) ==
  LET p == Asked(job, "PADDLE_PADDLE_PATH")
  IN /\ p.kind = "dir"
     /\ Believed(job) \/ ("*.pdiparams" \in p.holds /\ {"*.pdmodel", "__model__"} \cap p.holds # {})

\* In the order of their registration: __init__.py leaves PaddlePaddle out,
\* which follows when its compiler is imported.
SourceModels(job) ==
  <<<<"KerasModelFile", KerasAccepts(job)>>, <<"OneFlowModelFile", OneFlowAccepts(job)>>,
    <<"ONNXModelFile", OnnxAccepts(job)>>, <<"OpenvinoModelFile", OpenvinoAccepts(job)>>,
    <<"FrozenGraphFile", FrozenGraphAccepts(job)>>, <<"TfModelFile", TfModelAccepts(job)>>,
    <<"SavedModelFile", SavedModelAccepts(job)>>, <<"TorchModelFile", TorchAccepts(job)>>,
    <<"PaddlePaddleModelFile", PaddleAccepts(job)>>>>

Targets == {"tf", "tflite", "paddle", "torchscript", "openvino", "onnx", "tftrt", "tensorrt", "engine"}
TargetModels ==
  [t \in Targets |->
     CASE t = "tf" -> "SavedModel" [] t = "tflite" -> "TfLiteModel" [] t = "paddle" -> "PaddleModel"
       [] t = "torchscript" -> "TorchscriptModel" [] t = "openvino" -> "OpenvinoModel" [] t = "onnx" -> "ONNXModel"
       [] t = "tftrt" -> "TfTRTSavedModel" [] t = "tensorrt" -> "TensorRTModel" [] t = "engine" -> "EnflameModel"]

\* The compilers in the order of their registration.
CompilerGraph ==
  <<<<"KerasModelFile", "KerasModel">>, <<"KerasModelFile", "TfLiteModel">>, <<"KerasModel", "TensorFlowModel">>,
    <<"OneFlowModelFile", "OnnxModel">>, <<"ONNXModelFile", "OnnxModel">>, <<"OnnxModel", "ONNXModel">>,
    <<"OnnxModel", "OpenvinoModel">>, <<"OnnxModel", "TfLiteModel">>, <<"PaddlePaddleModelFile", "OnnxModel">>,
    <<"SavedModelFile", "OpenvinoModel">>, <<"SavedModelFile", "SavedModel">>, <<"SavedModelFile", "TfLiteModel">>,
    <<"SavedModelFile", "TfTRTSavedModel">>, <<"SavedModel", "OpenvinoModel">>, <<"SavedModel", "TfLiteModel">>,
    <<"FrozenGraphFile", "OpenvinoModel">>, <<"FrozenGraphFile", "TensorFlowModel">>,
    <<"TensorFlowFrozenGraphModel", "OnnxModel">>, <<"TfModelFile", "TensorFlowModel">>, <<"TfModelFile", "OnnxModel">>,
    <<"TensorFlowModel", "SavedModel">>, <<"TensorFlowModel", "TensorFlowFrozenGraphModel">>,
    <<"TorchModelFile", "OnnxModel">>, <<"PaddlePaddleModelFile", "PaddleModel">>, <<"TfModelFile", "OpenvinoModel">>,
    <<"OpenvinoModelFile", "OpenvinoModel">>, <<"TorchModelFile", "TorchscriptModel">>,
    <<"OnnxModel", "TensorRTModel">>, <<"ONNXModelFile", "EnflameModel">>>>

Target == TargetModels[cmJob.target]
-----------------------------------------------------------------------------
NoSearch == [at |-> "", chain |-> <<>>, queue |-> <<>>, visited |-> {}]

CmInit == /\ cmPc = "idle" /\ cmCount = 0 /\ cmJob = <<>>
          /\ cmSource = "" /\ cmSearch = NoSearch /\ cmChain = <<>> /\ cmModel = ""
          /\ cmDir \in CmInitial /\ cmBefore = cmDir
          /\ cmConfig = {} /\ cmPackages = << >>
          /\ cmVersion = 0 /\ cmStatus = "" /\ cmTries = 0 /\ cmHeard = {}

CmGoto(step) == cmPc' = step
\* An exception, which main() and compile_model() catch, ends the job.
Raise == CmGoto("answer") /\ cmStatus' = "failure" /\ UNCHANGED <<cmTries, cmHeard>>

\* compile_model(), compile_from_json(), compile_from_env(): the source and the target.
Begin ==
  /\ cmPc = "idle" /\ cmCount + 1 \in DOMAIN CmJobs
  /\ \E job \in CmJobs[cmCount + 1] :
       LET accepted == {i \in DOMAIN SourceModels(job) : SourceModels(job)[i][2]}
       IN /\ cmJob' = job
          /\ cmCount' = cmCount + 1 /\ cmBefore' = cmDir
          /\ cmTries' = 0 /\ cmHeard' = {} /\ cmVersion' = 0 /\ cmChain' = <<>> /\ cmModel' = ""
          /\ IF accepted = {} \/ job.target \notin DOMAIN TargetModels
             THEN /\ CmGoto("answer") /\ cmStatus' = "failure"
                  /\ cmSource' = "" /\ cmSearch' = NoSearch
             ELSE /\ CmGoto("search") /\ cmStatus' = ""
                  /\ cmSource' = SourceModels(job)[Min(accepted)][1]
                  /\ cmSearch' = [at |-> cmSource', chain |-> <<>>, queue |-> <<>>, visited |-> {cmSource'}]
  /\ UNCHANGED cmstored

\* _find_path(): the next compiler to a type that was not visited, or if there
\* is none the next type of the queue.
Search ==
  /\ cmPc = "search"
  /\ LET found == cmSearch.at = Target
         new == {i \in DOMAIN CompilerGraph : CompilerGraph[i][1] = cmSearch.at /\ CompilerGraph[i][2] \notin cmSearch.visited}
     IN \/ /\ found
           /\ cmChain' = cmSearch.chain /\ cmSearch' = NoSearch
           /\ CmGoto("configure") /\ UNCHANGED cmanswer
        \/ /\ ~found /\ new # {}
           /\ LET edge == CompilerGraph[Min(new)]
              IN cmSearch' = [cmSearch EXCEPT !.queue = Append(@, [at |-> edge[2], chain |-> Append(cmSearch.chain, edge)]),
                                              !.visited = @ \union {edge[2]}]
           /\ UNCHANGED <<cmPc, cmChain, cmanswer>>
        \/ /\ ~found /\ new = {} /\ cmSearch.queue # <<>>
           /\ cmSearch' = [at |-> Head(cmSearch.queue).at, chain |-> Head(cmSearch.queue).chain,
                           queue |-> Tail(cmSearch.queue), visited |-> cmSearch.visited]
           /\ UNCHANGED <<cmPc, cmChain, cmanswer>>
        \/ ~found /\ new = {} /\ cmSearch.queue = <<>> /\ Raise /\ cmSearch' = NoSearch /\ UNCHANGED cmChain
  /\ UNCHANGED <<cmgiven, cmSource, cmModel, cmstored, cmVersion>>

\* The configurations of all compilers are read before the first one runs.
Configure ==
  /\ cmPc = "configure"
  /\ \/ CmGoto("compile") /\ cmModel' = cmSource /\ UNCHANGED cmanswer
     \/ Raise /\ UNCHANGED cmModel
  /\ UNCHANGED <<cmgiven, cmSource, cmSearch, cmChain, cmstored, cmVersion>>

\* One compiler of the chain.
Compile ==
  /\ cmPc = "compile"
  /\ LET rest == {e \in ToSet(cmChain) : e[1] = cmModel}
     IN \/ \E e \in rest : cmModel' = e[2] /\ UNCHANGED <<cmPc, cmanswer>>
        \/ rest = {} /\ CmGoto("describe") /\ UNCHANGED <<cmModel, cmanswer>>
        \/ Raise /\ UNCHANGED cmModel
  /\ UNCHANGED <<cmgiven, cmSource, cmSearch, cmChain, cmstored, cmVersion>>
-----------------------------------------------------------------------------
(* serving_model_repository.py *)
\* Config: get_platform(), get_inputs() and get_outputs() of the model.
Describe ==
  /\ cmPc = "describe"
  /\ \/ CmGoto("config") /\ UNCHANGED cmanswer
     \/ Raise
  /\ UNCHANGED <<cmgiven, cmfound, cmstored, cmVersion>>

\* config.pbtxt is overwritten before there is a version: open() empties it.
WriteConfig ==
  /\ cmPc \in {"config", "text"}
  /\ \/ cmPc = "config" /\ cmConfig' = {[empty |-> TRUE]} /\ CmGoto("text") /\ UNCHANGED cmanswer
     \/ cmPc = "text" /\ cmConfig' = {[platform |-> cmJob.target, job |-> cmCount]} /\ CmGoto("number") /\ UNCHANGED cmanswer
     \/ Raise /\ UNCHANGED cmConfig
  /\ UNCHANGED <<cmgiven, cmfound, cmDir, cmPackages, cmVersion>>

Numbers == {CmNumber[name] : name \in {n \in DOMAIN cmDir \cap DOMAIN CmNumber : cmDir[n] # PlainFile}}

\* Mutant of CmNextVersion: the versions are counted.
NextVersionCounted == Cardinality(Numbers) + 1

\* _get_next_version()
CmNextVersion == Max({0} \union Numbers) + 1

ChooseVersion ==
  /\ cmPc = "number"
  /\ cmVersion' = IF cmJob.version = {} THEN CmNextVersion ELSE Max(cmJob.version)
  /\ cmVersion' \in DOMAIN CmText \* a bound
  /\ CmGoto("mkdir")
  /\ UNCHANGED <<cmgiven, cmfound, cmstored, cmanswer>>

Name == CmText[cmVersion]
Taken == Name \in DOMAIN cmDir

\* save() of the targets.  copytree() refuses what exists, TensorFlow's builder
\* a directory with something in it; the others use the directory as it is.
\* Only a chain that makes a saved model of a graph has a session.
HasSession == cmChain # <<>> /\ Last(cmChain) = <<"TensorFlowModel", "SavedModel">>
SaveRefuses ==
  CASE ~Taken -> FALSE
    [] cmDir[Name] = PlainFile \/ cmJob.target \in {"openvino", "paddle"} -> TRUE
    [] OTHER -> cmJob.target = "tf" /\ HasSession /\ cmDir[Name] # {}

MakeVersionDir ==
  /\ cmPc = "mkdir"
  /\ \/ ~SaveRefuses /\ CmGoto("write")
        /\ cmDir' = [n \in DOMAIN cmDir \union {Name} |-> IF n \in DOMAIN cmDir THEN cmDir[n] ELSE {}]
        /\ UNCHANGED cmanswer
     \/ Raise /\ UNCHANGED cmDir
  /\ UNCHANGED <<cmgiven, cmfound, cmConfig, cmPackages, cmVersion>>

\* A file of the same target is overwritten, another one stays.
OwnFile(whole) == [target |-> cmJob.target, job |-> cmCount, whole |-> whole]
WithOwn(whole) == {f \in cmDir[Name] : f.target # cmJob.target} \union {OwnFile(whole)}

WriteModel ==
  /\ cmPc \in {"write", "finish"}
  /\ \/ cmPc = "write" /\ cmDir' = [cmDir EXCEPT ![Name] = WithOwn(FALSE)] /\ CmGoto("finish") /\ UNCHANGED cmanswer
     \/ cmPc = "finish" /\ cmDir' = [cmDir EXCEPT ![Name] = WithOwn(TRUE)] /\ CmGoto("package") /\ UNCHANGED cmanswer
     \/ Raise /\ UNCHANGED cmDir
  /\ UNCHANGED <<cmgiven, cmfound, cmConfig, cmPackages, cmVersion>>

\* _make_model_package(): the whole directory and config.pbtxt.
Packed(content) ==
  [v \in DOMAIN cmPackages \union {cmVersion} |-> IF v = cmVersion THEN content ELSE cmPackages[v]]

Package ==
  /\ cmPc \in {"package", "pack"}
  /\ \/ /\ cmPc = "package" /\ CmGoto("pack") /\ UNCHANGED cmanswer
        /\ cmPackages' = Packed({})
     \/ /\ cmPc = "pack" /\ CmGoto("answer") /\ cmStatus' = "success" /\ UNCHANGED <<cmTries, cmHeard>>
        /\ cmPackages' = Packed(cmDir[Name] \union cmConfig)
     \/ Raise /\ UNCHANGED cmPackages
  /\ UNCHANGED <<cmgiven, cmfound, cmDir, cmConfig, cmVersion>>
-----------------------------------------------------------------------------
\* send_response(): four attempts.  A request that raises may have been heard.
Answer ==
  /\ cmPc = "answer"
  /\ IF ~cmJob.callback
     THEN CmGoto("idle") /\ UNCHANGED <<cmTries, cmHeard>>
     ELSE \E heard, raised \in BOOLEAN :
            /\ heard \/ raised
            /\ cmHeard' = IF heard THEN cmHeard \union {cmStatus} ELSE cmHeard
            /\ IF raised /\ cmTries < 3
               THEN cmTries' = cmTries + 1 /\ UNCHANGED cmPc
               ELSE cmTries' = 0 /\ CmGoto("idle")
  /\ UNCHANGED <<cmgiven, cmfound, cmstored, cmVersion, cmStatus>>

\* The process ends for whatever reason.
Kill == /\ cmPc # "idle"
        /\ CmGoto("idle")
        /\ cmSearch' = NoSearch
        /\ UNCHANGED <<cmgiven, cmSource, cmChain, cmModel, cmstored, cmVersion, cmanswer>>

CmNext == Begin \/ Search \/ Configure \/ Compile \/ Describe \/ WriteConfig \/ ChooseVersion \/ MakeVersionDir
          \/ WriteModel \/ Package \/ Answer \/ Kill
CmSpec == CmInit /\ [][CmNext]_cmvars
-----------------------------------------------------------------------------
\* What can be made of a source with at most n compilers.
MadeFrom(source) ==
  LET made[n \in Nat] ==
        IF n = 0 THEN {source}
        ELSE LET before == made[n - 1]
             IN before \union {CompilerGraph[i][2] : i \in {k \in DOMAIN CompilerGraph : CompilerGraph[k][1] \in before}}
  IN made
MadeWithin(n) == MadeFrom(cmSource)[n]

\* repository.py: the chain leads from the source to the target by the fewest
\* compilers there are, and a search fails only if no chain exists.
ChainIsShortest ==
  /\ cmPc = "configure" =>
       /\ \A i \in DOMAIN cmChain : cmChain[i][1] = IF i = 1 THEN cmSource ELSE cmChain[i - 1][2]
       /\ IF cmChain = <<>> THEN cmSource = Target
          ELSE Last(cmChain)[2] = Target /\ Target \notin MadeWithin(Len(cmChain) - 1)
  /\ cmPc = "answer" /\ cmStatus = "failure" /\ cmSource # "" /\ cmModel = "" /\ cmChain = <<>>
       => Target \notin MadeWithin(Len(CompilerGraph))

\* serving_model_repository.py: a job that may choose its version touches
\* nothing that was there, whatever a killed job has left, and a job answers
\* with success when the version and the package hold its own whole model, and
\* the package its own configuration.
VersionsAreNew ==
  /\ \A name \in DOMAIN cmBefore :
       name \in DOMAIN cmDir
       /\ (cmDir[name] # cmBefore[name] => \E v \in cmJob.version : name = CmText[v])
  /\ cmPc = "answer" /\ cmStatus = "success" =>
       /\ OwnFile(TRUE) \in cmDir[Name]
       /\ cmJob.version = {} => cmDir[Name] = {OwnFile(TRUE)} /\ Name \notin DOMAIN cmBefore
       /\ cmPackages[cmVersion] = cmDir[Name] \union {[platform |-> cmJob.target, job |-> cmCount]}

\* main.py: a caller never hears both answers of one job.
CompiledHold == ChainIsShortest /\ VersionsAreNew /\ Cardinality(cmHeard) <= 1
=============================================================================
