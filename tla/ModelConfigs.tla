---------------------------- MODULE ModelConfigs ----------------------------
(***************************************************************************)
(* The configurations of the models: ModelStore, which keeps them by name  *)
(* and saves a changed version policy in the model's config.pbtxt, and     *)
(* NormalizeModelConfig() and ValidateModelConfig(), which the runtimes    *)
(* call before they load a model on the devices of the machine.            *)
(*                                                                         *)
(* A field that may be absent is a set of at most one value.  A file is    *)
(* {} if absent, {Empty}, {NoText} if it cannot be parsed, or {config}.     *)
(***************************************************************************)
EXTENDS Integers, Sequences, SequencesExt, FiniteSetsExt

CONSTANTS CfNames, CfConfigs, CfPolicies,
          CfDevices  \* numbers of CUDA devices; -1 for a build without CUDA

\* The fields of a configuration; a group is of one of three kinds.
IsBatching(b) == b = [preferred |-> b.preferred, delay |-> b.delay] /\ b.preferred \in Seq(Int) /\ b.delay \in Int
IsGroup(g) ==
  /\ g = [name |-> g.name, kind |-> g.kind, count |-> g.count, gpus |-> g.gpus]
  /\ g.kind \in {"AUTO", "CPU", "GPU"} /\ g.count \in Int /\ g.gpus \in Seq(Int)
IsConfig(c) ==
  /\ c = [policy |-> c.policy, batching |-> c.batching, maxBatch |-> c.maxBatch, groups |-> c.groups, labels |-> c.labels]
  /\ c.maxBatch \in Int /\ \A b \in c.batching : IsBatching(b)
  /\ c.groups \in Seq(ToSet(c.groups)) /\ \A g \in ToSet(c.groups) : IsGroup(g)
ASSUME CfConfigsAreTyped == CfDevices \subseteq Int /\ \A c \in CfConfigs : IsConfig(c)

VARIABLES
  cfFiles,   \* the config.pbtxt of every name
  cfStore,   \* ModelStore::configs
  cfLabels,  \* per name, the outputs whose labels its ModelConfig has
  cfChanged, \* names whose file is no longer what the store last saved or read
  cfLoaded   \* the last load: its config, devices, normalised config and status

cfvars == <<cfFiles, cfStore, cfLabels, cfChanged, cfLoaded>>

NoText == [text |-> "broken"]
Empty == [text |-> "empty"]
TheOne(s) == CHOOSE x \in s : TRUE
InStore(n) == cfStore[n] # {}
-----------------------------------------------------------------------------
(* model_config_helper.cc *)
NormalPolicy(policy) == IF policy = {} THEN {"latest1"} ELSE policy

DefaultSizes(maxBatch) == CASE maxBatch >= 8 -> <<4, 8>> [] maxBatch \in 4 .. 7 -> <<4>> [] OTHER -> <<>>
WithSizes(b, maxBatch) == [b EXCEPT !.preferred = IF @ # <<>> THEN @ ELSE DefaultSizes(maxBatch)]
NormalBatching(batching, maxBatch) == {WithSizes(b, maxBatch) : b \in batching}

\* The number of devices a build without CUDA sees is 0.
Count(devices) == IF devices > 0 THEN devices ELSE 0
Exists(gpu, devices) == gpu >= 0 /\ gpu < Count(devices)

\* Mutant: like NormalKind, but a group that lists no device needs none.
NormalKindVacuous(g, devices) ==
  CASE g.kind # "AUTO" -> g.kind
    [] g.kind = "AUTO" /\ (\A i \in DOMAIN g.gpus : Exists(g.gpus[i], devices)) -> "GPU"
    [] OTHER -> "CPU"

NormalKind(g, devices) ==
  CASE g.kind # "AUTO" -> g.kind
    [] g.kind = "AUTO" /\ Count(devices) > 0 /\ (\A i \in DOMAIN g.gpus : Exists(g.gpus[i], devices)) -> "GPU"
    [] OTHER -> "CPU"

NormalGroup(g, name, i, devices) ==
  LET kind == NormalKind(g, devices)
  IN [name |-> IF g.name = <<>> THEN <<name, i - 1>> ELSE g.name,
      kind |-> kind,
      count |-> IF g.count < 1 THEN 1 ELSE g.count,
      gpus |-> IF kind = "GPU" /\ g.gpus = <<>> THEN [d \in 1 .. Count(devices) |-> d - 1] ELSE g.gpus]

\* The group that a model without any gets has the name of the model.
DefaultGroup(name) == [name |-> <<name>>, kind |-> "AUTO", count |-> 0, gpus |-> <<>>]

NormalizeModelConfig(c, name, devices) ==
  LET groups == IF c.groups = <<>> THEN <<DefaultGroup(name)>> ELSE c.groups
  IN [c EXCEPT !.policy = NormalPolicy(@),
               !.batching = NormalBatching(@, c.maxBatch),
               !.groups = [i \in DOMAIN groups |-> NormalGroup(groups[i], name, i, devices)]]

ValidBatching(b, maxBatch) ==
  b.delay >= 0 /\ \A i \in DOMAIN b.preferred : b.preferred[i] > 0 /\ b.preferred[i] <= maxBatch

ValidGroup(g, devices) ==
  CASE g.kind = "GPU" -> g.gpus # <<>> /\ \A i \in DOMAIN g.gpus : Exists(g.gpus[i], devices)
    [] g.kind = "CPU" -> g.gpus = <<>>
    [] OTHER -> FALSE

\* The groups are checked in a build with CUDA only.
ValidateModelConfig(c, devices) ==
  /\ c.groups # <<>>
  /\ \A b \in c.batching : ValidBatching(b, c.maxBatch)
  /\ devices # -1 => \A i \in DOMAIN c.groups : ValidGroup(c.groups[i], devices)
-----------------------------------------------------------------------------
(* ModelConfig, LabelProvider and ModelStore *)
\* addLabels() of one output: an output has one file, and the labels that
\* were read before an error stay.
AddLabels(read, io) ==
  IF io.file = "none" \/ read.failed THEN read
  ELSE [outputs |-> IF io.file = "missing" THEN read.outputs ELSE read.outputs \cup {io.output},
        failed |-> io.file # "file" \/ io.output \in read.outputs]

\* addLabel() stops at the first output whose labels cannot be added; the
\* configuration is kept.
Labelled(c) == FoldLeft(AddLabels, [outputs |-> {}, failed |-> FALSE], c.labels).outputs

\* An empty file cannot be mapped: it is no empty configuration but none.
Mapped(file) == file \ {Empty}
\* What TextProtobuf finds in a file.
Parsed(file) == Mapped(file) \ {NoText}

\* visit(): a name that is in the store keeps its configuration.
Visits(names) ==
  LET new == {n \in names : ~InStore(n) /\ Parsed(cfFiles[n]) # {}}
  IN /\ cfStore' = [n \in CfNames |-> IF n \in new THEN cfFiles[n] ELSE cfStore[n]]
     /\ cfLabels' = [n \in CfNames |-> IF n \in new THEN Labelled(TheOne(cfFiles[n])) ELSE cfLabels[n]]
     /\ cfChanged' = cfChanged \ new

CfInit ==
  /\ cfFiles = [n \in CfNames |-> {}] /\ cfStore = [n \in CfNames |-> {}]
  /\ cfLabels = [n \in CfNames |-> {}] /\ cfChanged = {} /\ cfLoaded = {}

\* Somebody writes a file beside the server.
EditFile(n, file) ==
  /\ cfFiles' = [cfFiles EXCEPT ![n] = file]
  /\ cfChanged' = cfChanged \cup {n}
  /\ UNCHANGED <<cfStore, cfLabels, cfLoaded>>

ConfigStore == Visits(CfNames) /\ UNCHANGED <<cfFiles, cfLoaded>>
ConfigModel(n) == Visits({n}) /\ UNCHANGED <<cfFiles, cfLoaded>>

DeleteConfig(n) ==
  /\ InStore(n)
  /\ cfStore' = [cfStore EXCEPT ![n] = {}]
  /\ cfLabels' = [cfLabels EXCEPT ![n] = {}]
  /\ UNCHANGED <<cfFiles, cfChanged, cfLoaded>>

\* The name is in the store: the callers have found it there.
WithPolicy(n, policy) == {[c EXCEPT !.policy = {policy}] : c \in cfStore[n]}
UpdatePolicy(n, policy) ==
  /\ InStore(n)
  /\ cfStore' = [cfStore EXCEPT ![n] = WithPolicy(n, policy)]
  /\ cfFiles' = [cfFiles EXCEPT ![n] = WithPolicy(n, policy)]
  /\ cfChanged' = cfChanged \ {n}
  /\ UNCHANGED <<cfLabels, cfLoaded>>

\* TextProtobufSaver has emptied the file before it prints the message.
SaveFails(n, policy) ==
  /\ InStore(n)
  /\ cfStore' = [cfStore EXCEPT ![n] = WithPolicy(n, policy)]
  /\ cfFiles' = [cfFiles EXCEPT ![n] = {Empty}]
  /\ cfChanged' = cfChanged \cup {n}
  /\ UNCHANGED <<cfLabels, cfLoaded>>

Restart ==
  /\ cfStore' = [n \in CfNames |-> {}]
  /\ cfLabels' = [n \in CfNames |-> {}]
  /\ UNCHANGED <<cfFiles, cfChanged, cfLoaded>>

\* The process ends while a policy is saved.
CrashInSave(n) ==
  /\ InStore(n)
  /\ \E file \in {Empty, NoText} : cfFiles' = [cfFiles EXCEPT ![n] = {file}]
  /\ cfStore' = [m \in CfNames |-> {}]
  /\ cfLabels' = [m \in CfNames |-> {}]
  /\ cfChanged' = cfChanged \cup {n}
  /\ UNCHANGED cfLoaded

\* A runtime loads a model: all of them normalise, most of them validate.
LoadConfig(n, devices) ==
  /\ InStore(n)
  /\ LET c == TheOne(cfStore[n])
         normal == NormalizeModelConfig(c, n, devices)
     IN cfLoaded' = {[name |-> n, config |-> c, devices |-> devices, normal |-> normal,
                      ok |-> ValidateModelConfig(normal, devices)]}
  /\ UNCHANGED <<cfFiles, cfStore, cfLabels, cfChanged>>

CfNext == \/ ConfigStore \/ Restart
          \/ \E n \in CfNames :
               \/ ConfigModel(n) \/ DeleteConfig(n) \/ CrashInSave(n)
               \/ \E file \in {{}, {Empty}, {NoText}} \cup {{c} : c \in CfConfigs} : EditFile(n, file)
               \/ \E policy \in CfPolicies : UpdatePolicy(n, policy) \/ SaveFails(n, policy)
               \/ \E devices \in CfDevices : LoadConfig(n, devices)
CfSpec == CfInit /\ [][CfNext]_cfvars
-----------------------------------------------------------------------------
\* What a file must say for its model to be loaded; a group of KIND_AUTO that
\* lists a device that is not there is refused, as it becomes KIND_CPU and
\* keeps its list.
SaneGroup(g, devices) ==
  CASE g.kind = "CPU" -> g.gpus = <<>>
    [] g.kind = "GPU" -> Count(devices) > 0 /\ \A i \in DOMAIN g.gpus : Exists(g.gpus[i], devices)
    [] g.kind = "AUTO" -> \A i \in DOMAIN g.gpus : Exists(g.gpus[i], devices)
Sane(c, devices) ==
  /\ \A b \in c.batching : ValidBatching(b, c.maxBatch)
  /\ devices # -1 => \A i \in DOMAIN c.groups : SaneGroup(c.groups[i], devices)

\* A model whose file is sane is loaded and one whose file is not is refused,
\* whatever the file leaves out and however many devices there are, and
\* normalising again changes nothing.
NormalIsValid ==
  \A l \in cfLoaded : /\ l.ok <=> Sane(l.config, l.devices)
                      /\ NormalizeModelConfig(l.normal, l.name, l.devices) = l.normal
                      /\ \A i \in DOMAIN l.normal.groups : l.normal.groups[i].kind # "AUTO"

\* The store and the files agree, so that a restart brings back every policy
\* whose update succeeded, unless somebody wrote the file or a save was cut.
PoliciesSurvive == \A n \in CfNames : InStore(n) /\ n \notin cfChanged => cfFiles[n] = cfStore[n]

ConfigsHold == NormalIsValid /\ PoliciesSurvive
=============================================================================
