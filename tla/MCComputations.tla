--------------------------- MODULE MCComputations ---------------------------
(***************************************************************************)
(* Instances for TLC of the modules that share no state with any other:    *)
(* the computations and containers that one thread uses at a time, the     *)
(* operations on models of one client, and the file system and             *)
(* TensorFlow's runtime, whose threads meet only each other.  A behaviour  *)
(* is one of one module, the one whose turn it is; the other ones stay at  *)
(* the beginning.                                                          *)
(***************************************************************************)
EXTENDS ServingIndex, VersionSelect, Batches, InstanceLoad, TfRuntime, MCLiteBatch,
        CsvText, UriPath, NumberText, ServerMain, ModelConfigs, FileTree, RestApi, ModelCompiler,
        ModelOperate, MCContainers, TLC

\* VersionSelect and ServingIndex, with ints of three bits.
MCDirectories == {<<1, "1">>, <<1, "01">>, <<2, "2">>, <<3, "3">>, <<7, "7">>}
MCNamedVersions == {-1, 1, 2, 9}
MCVersions == {-1, 1, 2}
MCSpecVersions == {-7, -1, 0, 1, 2, 3, 9}

\* InstanceIO and TfBatch
MCEngines == {"openvino", "libtorch", "paddle", "tensorrt", "tvm", "topsinference"}
MCModels == {<<"a">>, <<"a", "b">>}
MCAllowedSizes == {<<>>, <<2, 4>>}
MCShapes == [rows : 1 .. 2, len : 1 .. 2]

\* InstanceLoad
MCLdEngines == MCEngines \union {"tflite"}
LdTensorOf(name, input, elements, type) == [name |-> name, input |-> input, elements |-> elements, type |-> type]
LdX == LdTensorOf("x", TRUE, 2, "float")
LdX2 == LdTensorOf("x2", TRUE, 1, "float")
LdY == LdTensorOf("y", FALSE, 1, "float")
LdTensorLists == {<<LdX, LdY>>, <<LdX, LdX2, LdY>>, <<LdX, LdX, LdY>>, <<[LdX EXCEPT !.elements = 1], LdY>>,
                  <<LdX, [LdY EXCEPT !.type = "half"]>>, <<LdX>>}
LdGroup(kind, count, gpus) == [kind |-> kind, count |-> count, gpus |-> gpus]
LdGroupLists == {<<LdGroup("GPU", 1, <<"gpu0", "gpu1">>), LdGroup("GPU", 2, <<"gpu1">>)>>, <<LdGroup("CPU", 2, <<>>)>>,
                 <<LdGroup("GPU", 1, <<"gpu0">>), LdGroup("CPU", 1, <<>>)>>}
MCLdConfigs ==
  {[normal |-> TRUE, valid |-> TRUE, batch |-> b, groups |-> g, tensors |-> t] :
     b \in 0 .. 2, g \in LdGroupLists, t \in LdTensorLists}
  \union {[normal |-> n, valid |-> ~n, batch |-> 1, groups |-> <<LdGroup("GPU", 1, <<"gpu0">>)>>, tensors |-> <<LdX, LdY>>] :
            n \in BOOLEAN}
MCLdPlans == {[usable |-> u, max |-> 1, tensors |-> <<LdX, LdY>>] : u \in BOOLEAN}
             \union {[usable |-> TRUE, max |-> 2, tensors |-> t] : t \in {<<LdX, LdX2, LdY>>, <<LdX, LdY>>}}

\* TfRuntime: two signatures of one graph have the same tensors, by other
\* aliases, and a third one is not for predictions.
TfDef(method, outs) == [method |-> method, ins |-> [x |-> "t1"], outs |-> outs]
TfGraph == [serving_default |-> TfDef("predict", [a |-> "o1", b |-> "o2"]),
            one |-> TfDef("predict", [b |-> "o1"]), classify |-> TfDef("classify", [b |-> "o1"])]
MCTfModels == {[readable |-> r[1], batching |-> r[2], limit |-> r[3], graph |-> TfGraph] :
                 r \in {<<TRUE, TRUE, 2>>, <<TRUE, TRUE, 0>>, <<TRUE, FALSE, 2>>}}
TfCall(key, tensor, filter, timeout) == [key |-> key, ins |-> [x |-> tensor], filter |-> filter, timeout |-> timeout]
MCTfCalls == {TfCall("", "parses", {}, 1), TfCall("", "parses", {"a"}, 0), TfCall("", "broken", {}, 0),
              TfCall("one", "parses", {}, 0), TfCall("classify", "parses", {}, 0)}

\* CsvText: the characters that mean something to a dialect, and a letter.
CsvChars == {"a", ",", "\n", "\"", "\r", " "}
CsvFields == {<<>>} \union {<<c>> : c \in CsvChars} \union (CsvChars \X CsvChars)
             \union {<<"a", "\"", ",">>, <<"\"", "\"", "\"">>, <<"\n", "\n", "a">>, <<"\"", ",", "\"">>, <<"a", "\n", "\"">>}
CsvFew == {<<>>, <<"a">>, <<"\"">>, <<"\n">>, <<",", "\"">>}
MCCsvRows == {<<>>} \union {<<f>> : f \in CsvFields} \union {<<f, g>> : f \in CsvFields, g \in CsvFew}
             \union {<<g, f>> : f \in CsvFields, g \in {<<>>, <<"\"", ",">>}} \union {<<g, g, g>> : g \in CsvFew}
CsvPlain == [skipSpace |-> FALSE, skipEmpty |-> TRUE, double |-> TRUE, header |-> TRUE,
             names |-> <<<<"a">>, <<",", "\"">>>>, trim |-> {}]
MCCsvDialects ==
  {CsvPlain, [CsvPlain EXCEPT !.header = FALSE], [CsvPlain EXCEPT !.names = <<>>, !.skipEmpty = FALSE],
   [CsvPlain EXCEPT !.names = <<>>, !.header = FALSE], [CsvPlain EXCEPT !.skipSpace = TRUE],
   [CsvPlain EXCEPT !.double = FALSE, !.names = <<<<"a">>>>], [CsvPlain EXCEPT !.trim = {" ", "\n"}, !.skipEmpty = FALSE]}

\* UriPath and NumberText
PathChars == {"a", "/", ".", ":"}
MCPieces == {<<>>} \union {<<c>> : c \in PathChars} \union (PathChars \X PathChars)
            \union {<<"a", "b", ":", "/", "/">>, <<"a", "1", ":", "/", "/", "h", "/", "a", ".">>,
                    <<"a", ".", ":", "/", "/", "h">>, <<"/", "a", "/">>}
MCNumTexts == UNION {[1 .. n -> {"0", "1", "2", "8", "-", " ", "x", ","}] : n \in 0 .. 4}

\* ServerMain
CliOne == Token(1, TRUE, <<<<"k", "v">>, <<"k", "w">>>>)
CliBad == Token(0, FALSE, <<<<"k">>>>)
MCCliArgs ==
  {[name |-> n, token |-> t] : n \in {"http_port", "grpc_channel_args"}, t \in {CliOne, CliBad}}
  \union {[name |-> "grpc_port", token |-> CliOne], [name |-> "grpc_port", token |-> Zero],
          [name |-> "loading_method", token |-> Named("manual")], [name |-> "unknown", token |-> CliOne]}

\* ModelConfigs
CfBase == [policy |-> {}, batching |-> {}, maxBatch |-> 4, groups |-> <<>>,
           labels |-> <<[output |-> "x", file |-> "file"], [output |-> "x", file |-> "file"]>>]
CfOneGroup(kind, gpus) == [CfBase EXCEPT !.groups = <<[name |-> <<>>, kind |-> kind, count |-> 0, gpus |-> gpus]>>]
MCCfConfigs ==
  {CfBase}
  \union {CfOneGroup("AUTO", gpus) : gpus \in {<<>>, <<1>>, <<-1>>}}
  \union {CfOneGroup("GPU", gpus) : gpus \in {<<>>, <<1, 0>>}}
  \union {CfOneGroup("CPU", gpus) : gpus \in {<<>>, <<0>>}}
  \union {[CfBase EXCEPT !.policy = {"all"}, !.batching = {b}, !.maxBatch = n,
                         !.labels = <<[output |-> "x", file |-> "missing"]>>] :
            b \in {[preferred |-> <<>>, delay |-> 0], [preferred |-> <<0, 4>>, delay |-> 0]}, n \in {0, 4}}
MCCfDevices == {-1, 0, 1, 2}

\* FileTree: two directories to copy from, one of them empty.
MCFtSources == -1 :> (<<>> :> "dir" @@ <<"f">> :> "x" @@ <<"d">> :> "dir" @@ <<"d", "g">> :> "y") @@ -2 :> << >>
MCFtVersions == 1 .. 2

\* RestApi
RaUri(head, name, version, tail, extra, say) ==
  [path |-> head \o name \o version \o tail, query |-> extra, fragment |-> <<>>, say |-> say]
RaHeads == {<<"/", "v1", "/", "models">>, <<"/", "V1", "/", "MODELS">>}
RaNames == {<<>>, <<"m">>, <<"versions">>, <<"metadata">>, <<"7">>}
RaVersions == {Unset, 7, TooLarge}
RaVersionText(v) == IF v = Unset THEN <<>> ELSE <<"/", "versions", "/", IF v = 7 THEN "7" ELSE "999">>
RaNameText(n) == IF n = <<>> THEN <<>> ELSE <<"/">> \o n
RaTails == {[op |-> "predict", tokens |-> <<":", "predict">>], [op |-> "predict", tokens |-> <<":", "PREDICT">>],
            [op |-> "task", tokens |-> <<":", "ml_predict">>],
            [op |-> "meta", tokens |-> <<"/", "metadata">>], [op |-> "none", tokens |-> <<"/", "METADATA">>],
            [op |-> "none", tokens |-> <<>>], [op |-> "none", tokens |-> <<"/">>]}
RaNothing == [op |-> "none", name |-> <<>>, version |-> Unset]
MCRaUris ==
  {RaUri(h, RaNameText(n), RaVersionText(v), t.tokens, <<>>, [op |-> t.op, name |-> n, version |-> v]) :
     h \in RaHeads, n \in RaNames, v \in RaVersions, t \in RaTails}
  \union {RaUri(<<"/", "v1", "/", "models">>, <<"/", "m">>, <<>>, t.tokens, <<"?q">>, RaNothing) : t \in RaTails}
  \union {RaUri(path, <<>>, <<>>, <<>>, <<>>, Unset) : path \in {<<>>, <<"/">>}}
MCRaNumber == "7" :> 7 @@ "999" :> TooLarge
RaTokens == {"/", ":", "v1", "V1", "models", "MODELS", "m", "versions", "metadata", "METADATA", "7", "999",
             "predict", "PREDICT", "ml_predict", "?q"}
RaUpper == "V1" :> "v1" @@ "MODELS" :> "models" @@ "METADATA" :> "metadata" @@ "PREDICT" :> "predict"
MCLower == [t \in RaTokens |-> IF t \in DOMAIN RaUpper THEN RaUpper[t] ELSE t]
RaBody(batch, bytes, output, classes) ==
  [json |-> TRUE, version |-> Unset, batch |-> batch, bytes |-> bytes, output |-> output, classes |-> classes]
MCRaBodies ==
  {<<>>} \union {<<b>> : b \in {[RaBody(1, TRUE, Unset, 0) EXCEPT !.json = FALSE], RaBody(0, TRUE, "y", 1),
                                RaBody(1, FALSE, "y", 1), RaBody(1, TRUE, "z", 1),
                                [RaBody(1, TRUE, "y", 0) EXCEPT !.version = 3], RaBody(2, TRUE, "y", 1),
                                RaBody(1, TRUE, "y", 2), RaBody(1, TRUE, Unset, 1)}}
MCRaModels == <<"m">> :> [served |-> 3 :> "READY" @@ 7 :> "READY", outputs |-> {"y"}, runtime |-> TRUE]
           @@ <<"versions">> :> [served |-> 7 :> "LOADING" @@ 3 :> "IDLE", outputs |-> {"y"}, runtime |-> TRUE]
           @@ <<"7">> :> [served |-> 7 :> "READY", outputs |-> {"y"}, runtime |-> FALSE]
           @@ <<"body">> :> [served |-> 3 :> "READY", outputs |-> {"y"}, runtime |-> TRUE]
MCRaStatuses == {"OK", "DEADLINE_EXCEEDED"}
MCRaContents == {<<>>, <<1, 2>>, <<2, 1, 1, 2>>, <<1, 2, 3, 1>>}

\* ModelCompiler: every source with every target first, then a few jobs that
\* meet what the first one left.
CmPath(ext, kind, holds) == [ext |-> ext, kind |-> kind, holds |-> holds]
CmInputs == {CmPath(ext, "file", {}) : ext \in {".h5", ".onnx", ".pb", ".pth", ".txt"}}
            \union {CmPath(".ckpt", "missing", {}), CmPath("", "dir", {}), CmPath("", "dir", {"*.xml", "*.bin"}),
                    CmPath("", "dir", {"saved_model.pb"}), CmPath("", "dir", {"*.pdiparams", "__model__"})}
CmJob(by, given, script, target, version, callback) ==
  [by |-> by, given |-> given, script |-> script, target |-> target, version |-> version, callback |-> callback]
CmTargets == DOMAIN TargetModels \union {"unknown"}
CmOnnx(target, version) ==
  CmJob("json", "input_model" :> CmPath(".onnx", "file", {}), FALSE, target, version, TRUE)
CmFirst == {CmJob("json", "input_model" :> p, s, t, {}, FALSE) : p \in CmInputs, s \in BOOLEAN, t \in CmTargets}
           \union {CmJob("env", v :> CmPath("", "dir", {}), FALSE, "openvino", {}, FALSE) :
                     v \in {"OPENVINO_PATH", "SAVED_MODEL_PATH", "PADDLE_PADDLE_PATH", "H5_PATH"}}
           \union {CmJob("env", "FROZEN_GRAPH_PATH" :> CmPath("", "file", {}), FALSE, "tf", {1}, TRUE)}
CmSecond == {CmOnnx("onnx", {}), CmOnnx("onnx", {1}), CmOnnx("openvino", {}), CmOnnx("openvino", {1})}
            \union {CmJob("kwargs", "input_model" :> CmPath(".pb", "file", {}), FALSE, "tf", v, FALSE) : v \in {{}, {1}}}
MCCmJobs == <<CmFirst, CmSecond>>
CmOld(target) == {[target |-> target, job |-> 0, whole |-> TRUE]}
MCCmInitial == {<< >>, "1" :> CmOld("onnx") @@ "x" :> {}, "03" :> CmOld("tf") @@ "1" :> {} @@ "4" :> PlainFile}
MCCmNumber == [v \in {"1", "2", "3", "4", "5", "6", "03"} |->
                 CASE v = "1" -> 1 [] v = "2" -> 2 [] v = "4" -> 4 [] v = "5" -> 5 [] v = "6" -> 6 [] OTHER -> 3]
MCCmText == [v \in 1 .. 6 |-> ToString(v)]
-----------------------------------------------------------------------------
\* What comes to an end, and what goes on for ever.
Finite == {"index", "select", "io", "load", "tfbatch", "tf", "lite", "csv", "path", "number", "main",
           "config", "files", "rest", "compiler"}
Endless == {"operate", "list", "optional"}

\* The models and configurations that are chosen once, while another module runs.
IOIdle == IOInit /\ engine = "tvm" /\ model = <<"a">>
LdIdle == LdInit /\ ldEngine = "tvm"
                 /\ ldConfig = (CHOOSE c \in MCLdConfigs : TRUE) /\ ldPlan = CHOOSE p \in MCLdPlans : TRUE
TIdle == TInit /\ allowed = <<>> /\ lengths = FALSE
LiteIdle == LiteInit /\ liteModel = CHOOSE lite \in MCLiteModels : TRUE
OpIdle == OpInit /\ disk = {0} /\ broken = {} /\ versionPolicy.choice = "all"

AllInit == /\ turn \in Finite \union Endless
           /\ Init /\ VInit /\ TfInit /\ CsvInit /\ UpInit /\ NumInit /\ SmInit /\ CfInit /\ FtInit /\ RaInit
           /\ IF turn = "io" THEN IOInit ELSE IOIdle
           /\ IF turn = "load" THEN LdInit ELSE LdIdle
           /\ IF turn = "tfbatch" THEN TInit ELSE TIdle
           /\ IF turn = "lite" THEN LiteInit ELSE LiteIdle
           /\ CmInit /\ (turn # "compiler" => cmDir = << >>)
           /\ IF turn = "operate" THEN OpInit ELSE OpIdle
           /\ ContainersInit

Others(t) ==
  /\ UNCHANGED turn
  /\ IF t = "index" THEN TRUE ELSE UNCHANGED vars
  /\ IF t = "select" THEN TRUE ELSE UNCHANGED vvars
  /\ IF t = "io" THEN TRUE ELSE UNCHANGED iovars
  /\ IF t = "load" THEN TRUE ELSE UNCHANGED ldvars
  /\ IF t = "tfbatch" THEN TRUE ELSE UNCHANGED tvars
  /\ IF t = "tf" THEN TRUE ELSE UNCHANGED tfvars
  /\ IF t = "lite" THEN TRUE ELSE UNCHANGED livars
  /\ IF t = "csv" THEN TRUE ELSE UNCHANGED csvvars
  /\ IF t = "path" THEN TRUE ELSE UNCHANGED upvars
  /\ IF t = "number" THEN TRUE ELSE UNCHANGED numvars
  /\ IF t = "main" THEN TRUE ELSE UNCHANGED smvars
  /\ IF t = "config" THEN TRUE ELSE UNCHANGED cfvars
  /\ IF t = "files" THEN TRUE ELSE UNCHANGED ftvars
  /\ IF t = "rest" THEN TRUE ELSE UNCHANGED ravars
  /\ IF t = "compiler" THEN TRUE ELSE UNCHANGED cmvars
  /\ IF t = "operate" THEN TRUE ELSE UNCHANGED opvars
  /\ IF t = "containers" THEN TRUE ELSE UNCHANGED <<lvars, ovars>>

AllNext == \/ turn = "index" /\ Next /\ Others("index")
           \/ turn = "select" /\ VNext /\ Others("select")
           \/ turn = "io" /\ IONext /\ Others("io")
           \/ turn = "load" /\ LdNext /\ Others("load")
           \/ turn = "tfbatch" /\ TNext /\ Others("tfbatch")
           \/ turn = "tf" /\ TfNext /\ Others("tf")
           \/ turn = "lite" /\ LiteNext /\ Others("lite")
           \/ turn = "csv" /\ CsvNext /\ Others("csv")
           \/ turn = "path" /\ UpNext /\ Others("path")
           \/ turn = "number" /\ NumNext /\ Others("number")
           \/ turn = "main" /\ SmNext /\ Others("main")
           \/ turn = "config" /\ CfNext /\ Others("config")
           \/ turn = "files" /\ FtNext /\ Others("files")
           \/ turn = "rest" /\ RaNext /\ Others("rest")
           \/ turn = "compiler" /\ CmNext /\ Others("compiler")
           \/ turn = "operate" /\ OpNext /\ Others("operate")
           \/ ContainersNext /\ Others("containers")
           \/ turn \in Finite /\ Others("none") \* not a deadlock: it may be done

AllSpec == AllInit /\ [][AllNext]_<<turn, vars, vvars, iovars, ldvars, tvars, tfvars, livars, csvvars, upvars,
                                    numvars, smvars, cfvars, ftvars, ravars, cmvars, opvars, lvars, ovars>>
-----------------------------------------------------------------------------
\* What the texts of the library mean: fields, paths and numbers survive their
\* conversions.  The paths are looked at where they are joined: in the other
\* behaviours there is the empty one of the beginning.
TextExact == /\ CsvRoundTrip
             /\ turn = "path" => PathsKeepNames
             /\ NumbersExact
=============================================================================
