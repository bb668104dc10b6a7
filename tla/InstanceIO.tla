----------------------------- MODULE InstanceIO -----------------------------
(***************************************************************************)
(* What an instance of a model does with a batch: mergeInputs() copies the *)
(* inputs of the tasks one behind the other into buffers that live as long *)
(* as the instance, the engine computes a row of output from each row of   *)
(* input, and splitOutputs() copies the rows back.                         *)
(*                                                                         *)
(* Six plug-ins do so in six ways.  A buffer is a sequence of units,       *)
(* RowUnits to a row, and a unit holds <<t, k>>, the k-th unit of what     *)
(* task t sent, or Old, what an earlier batch left.                        *)
(***************************************************************************)
EXTENDS Integers, Sequences, SequencesExt, FiniteSetsExt

CONSTANTS Engines,      \* the plug-ins
          Models,       \* the inputs a model may have, in order of its configuration
          Other,        \* a name that is no input of any model
          RowUnits,     \* units in a row
          MaxBatchSize, \* max_batch_size of the model
          MaxRows,      \* bound on the batch size of one request
          Sizes,        \* units a request may send for one input
          MaxTasks      \* bound on the tasks of a batch

ASSUME EnginesAreKnown == Engines \subseteq {"openvino", "libtorch", "paddle", "topsinference", "tensorrt", "tvm"}
ASSUME IOBounds == /\ RowUnits \in Nat \ {0} /\ MaxBatchSize \in Nat \ {0} /\ MaxRows \in Nat
                   /\ Sizes \subseteq Nat \ {0}
ASSUME ModelsAreLists == \A m \in Models : m \in Seq(ToSet(m))

VARIABLES engine,   \* the plug-in of the instance
          model,    \* its inputs
          tasks,    \* the batch
          leftover, \* whether Instance::torch_inputs still holds the inputs of a batch
          answer    \* per task the rows it got, none if it got an error; <<>> before the run

iovars == <<engine, model, tasks, leftover, answer>>

Space == MaxBatchSize * RowUnits
Units == 0 .. Space - 1
Old == <<0, 0>>
Inputs == ToSet(model)

\* A request: the batch size it claims, and its inputs in the order
\* visitInputs() finds them in the map.  create() refuses empty contents.
Sent == [name : UNION {ToSet(m) : m \in Models}, size : Sizes] \union {[name |-> Other, size |-> 1]}
Request == [rows : 1 .. MaxRows,
            inputs : {v \in BoundedSeq(Sent, 2) : v # <<>> /\ \A i, j \in DOMAIN v : v[i].name = v[j].name => i = j}]

\* Mutant of RowsBefore: a row for each task.
RowsBeforeByTask(t) == t - 1

\* Rows of the batch before those of task t.
RowsBefore(t) == MapThenSumSet(LAMBDA s : tasks[s].rows, 1 .. t - 1)
Total == RowsBefore(Len(tasks) + 1)
-----------------------------------------------------------------------------
\* The state of mergeInputs(): the buffers, the data found for each input, the
\* status, and whether the visitor of the current request wants more.
Unfilled == [buf |-> [i \in Inputs |-> [u \in Units |-> Old]],
             filled |-> [i \in Inputs |-> 0], ok |-> TRUE, more |-> TRUE]

Stop(m) == [m EXCEPT !.more = FALSE]
Fail(m) == [m EXCEPT !.more = FALSE, !.ok = FALSE]
Copy(m, t, i, at, n) ==
  [m EXCEPT !.buf[i] = [u \in Units |-> IF u - at \in 0 .. n - 1 THEN <<t, u - at>> ELSE @[u]]]

\* OpenVINO: the offset comes from the size of this request's rows.
OpenVinoVisit(m, t, x) ==
  LET perRow == x.size \div tasks[t].rows
      at == perRow * RowsBefore(t)
  IN IF x.name \notin Inputs THEN Stop(m)
     ELSE IF at + x.size > Space THEN Fail(m)
     ELSE Copy(m, t, x.name, at, perRow * tasks[t].rows)

\* LibTorch and Paddle count the rows they find, TopsInference does not.
BlobVisit(m, t, x, known) ==
  LET at == RowUnits * RowsBefore(t)
  IN IF x.name \notin known THEN Stop(m)
     ELSE IF x.size \div tasks[t].rows # RowUnits \/ at + x.size > Space THEN Fail(m)
     ELSE [Copy(m, t, x.name, at, x.size) EXCEPT !.filled[x.name] = @ + tasks[t].rows]

TopsVisit(m, t, x) == BlobVisit(m, t, x, Inputs)

\* Paddle's visitor looks at the first input of the model only.
PaddleVisit(m, t, x) == BlobVisit(m, t, x, {model[i] : i \in DOMAIN model \intersect {1}})

\* TVM appends what it is sent.
TvmVisit(m, t, x) ==
  IF x.name \notin Inputs THEN Stop(m)
  ELSE IF m.filled[x.name] + x.size > Space THEN Fail(m)
  ELSE [Copy(m, t, x.name, m.filled[x.name], x.size) EXCEPT !.filled[x.name] = @ + x.size]

\* TensorRT looks for one input after the other in the requests.
TensorRtVisit(m, t, x) ==
  LET at == RowUnits * RowsBefore(t)
  IN IF x.name \notin Inputs THEN m
     ELSE IF at + x.size > Space THEN [m EXCEPT !.ok = FALSE]
     ELSE [Copy(m, t, x.name, at, x.size) EXCEPT !.ok = @ /\ x.size = tasks[t].rows * RowUnits]

Visit1(m, t, x) ==
  IF ~m.more THEN m
  ELSE CASE engine = "openvino" -> OpenVinoVisit(m, t, x)
         [] engine = "libtorch" -> BlobVisit(m, t, x, Inputs)
         [] engine = "topsinference" -> TopsVisit(m, t, x)
         [] engine = "paddle" -> PaddleVisit(m, t, x)
         [] engine = "tvm" -> TvmVisit(m, t, x)
         [] engine = "tensorrt" -> TensorRtVisit(m, t, x)

MergeTask(m, t) ==
  FoldLeft(LAMBDA acc, x : Visit1(acc, t, x), [m EXCEPT !.more = TRUE], tasks[t].inputs)

\* mergeInputs().  That LibTorch and Paddle miss rows is logged and no error.
Merged == FoldLeftDomain(MergeTask, Unfilled, tasks)
-----------------------------------------------------------------------------
\* How many rows the engine may compute: LibTorch and Paddle give it as many as
\* they found, TensorRT as many as the batch has, the others all there are.
Computed(m) ==
  CASE engine \in {"libtorch", "paddle"} -> {m.filled[i] : i \in Inputs}
    [] engine = "tensorrt" -> {Total}
    [] OTHER -> {MaxBatchSize}

\* Row r, from 0, of the output buffers after the engine computed n rows.
OutputRow(m, n, r) ==
  [i \in Inputs |-> [u \in 1 .. RowUnits |-> IF r < n THEN m.buf[i][r * RowUnits + u - 1] ELSE Old]]

\* splitOutputs()
Split(m, n) == [t \in DOMAIN tasks |-> [r \in 1 .. tasks[t].rows |-> OutputRow(m, n, RowsBefore(t) + r - 1)]]

NoAnswers == [t \in DOMAIN tasks |-> <<>>]
-----------------------------------------------------------------------------
IOInit == /\ engine \in Engines
          /\ model \in Models
          /\ tasks = <<>>
          /\ leftover = FALSE
          /\ answer = <<>>

\* The scheduler puts a task into the batch while there is room.
Join(q) == /\ answer = <<>> /\ Len(tasks) < MaxTasks
           /\ Total + q.rows <= MaxBatchSize
           /\ tasks' = Append(tasks, q)
           /\ UNCHANGED <<engine, model, leftover, answer>>

\* With several inputs TopsInference compares with a size that was never set.
SizeIsUnset == engine = "topsinference" /\ Len(model) > 1

\* processBatch(), up to an error of mergeInputs() ...
Reject == /\ answer = <<>> /\ tasks # <<>>
          /\ ~Merged.ok \/ SizeIsUnset
          /\ answer' = NoAnswers
          /\ UNCHANGED <<engine, model, tasks, leftover>>

\* ... or of the engine.  LibTorch is given the leftover inputs again, which are
\* more than the model takes, and keeps the new ones too ...
EngineFails == /\ answer = <<>> /\ tasks # <<>>
               /\ Merged.ok /\ engine \in {"libtorch", "paddle", "topsinference", "tensorrt"}
               /\ answer' = NoAnswers
               /\ leftover' = (engine = "libtorch")
               /\ UNCHANGED <<engine, model, tasks>>

\* ... or to its end.
Run == /\ answer = <<>> /\ tasks # <<>>
       /\ Merged.ok /\ ~leftover
       /\ \E n \in Computed(Merged) : answer' = Split(Merged, n)
       /\ UNCHANGED <<engine, model, tasks, leftover>>

NewBatch == /\ answer # <<>>
            /\ tasks' = <<>>
            /\ answer' = <<>>
            /\ UNCHANGED <<engine, model, leftover>>

IONext == (\E q \in Request : Join(q)) \/ Reject \/ EngineFails \/ Run \/ NewBatch

IOSpec == IOInit /\ [][IONext]_iovars
-----------------------------------------------------------------------------
\* A request that sends every input of the model, with as many rows as it says.
WellFormed(q) == /\ {x.name : x \in ToSet(q.inputs)} = Inputs
                 /\ \A x \in ToSet(q.inputs) : x.size = q.rows * RowUnits

Own(t) ==
  [r \in 1 .. tasks[t].rows |->
     [i \in Inputs |-> [u \in 1 .. RowUnits |-> <<t, (r - 1) * RowUnits + u - 1>>]]]

\* A task that is answered gets what was computed from its own inputs, never
\* from another task's or from what an earlier batch left in the buffers: on
\* TensorRT if the task is well formed, on the others if the whole batch is.
\* Paddle models have one input, for the plug-in finds no second one.
OwnResults ==
  \A t \in DOMAIN answer :
    /\ answer[t] # <<>> /\ WellFormed(tasks[t])
    /\ engine = "tensorrt" \/ \A s \in DOMAIN tasks : WellFormed(tasks[s])
    /\ engine = "paddle" => Len(model) = 1
    => answer[t] = Own(t)
=============================================================================
