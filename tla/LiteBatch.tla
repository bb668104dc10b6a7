------------------------------ MODULE LiteBatch ------------------------------
(***************************************************************************)
(* An instance of a TensorFlow Lite model: how create() checks the model's *)
(* signature, and what processBatch() does with a batch of requests:       *)
(* check, resize the interpreter, merge, invoke, split.                    *)
(*                                                                         *)
(* A tensor has a type ("string", or any other for the types with values   *)
(* of fixed size) and dimensions, of which the first counts its rows.      *)
(* <<t, k>> is the k-th row of what task t sent.                           *)
(***************************************************************************)
EXTENDS Integers, Sequences, SequencesExt, FiniteSetsExt

CONSTANTS LiteModels,   \* records of tensors in and out, and their declarations
          LiteRequests, \* records of rows, inputs and whether the output is wanted
          LiteMaxBatch  \* max_batch_size of the model

ASSUME LiteRowsAreNumbers == \A q \in LiteRequests : q.rows \in Nat

VARIABLES
  liteModel,  \* the model file and its configuration
  liteState,  \* "new", "refused" by create(), or "ready"
  liteRows,   \* per input the rows of its tensor in the interpreter
  liteUsable, \* whether AllocateTensors() succeeded after the last resize
  liteLast,   \* lastBatchSize
  liteBatch,  \* the batch
  liteAnswer  \* per task its status and rows; <<>> before the batch has run

livars == <<liteModel, liteState, liteRows, liteUsable, liteLast, liteBatch, liteAnswer>>

Unspecified == <<0, 0>>
LiteTasks == DOMAIN liteBatch
LiteInputs == DOMAIN liteModel.inputs

RowsOf(tensor) == Head(tensor.dims)
Item(tensor) == <<tensor.type, Tail(tensor.dims)>>

\* getSignature(): no tensor is a scalar, and all have as many rows.
HasSignature(tensors) ==
  /\ \A i \in DOMAIN tensors : tensors[i].dims # <<>>
  /\ \A i, j \in DOMAIN tensors : RowsOf(tensors[i]) = RowsOf(tensors[j])

Signature(tensors) == [i \in DOMAIN tensors |-> Item(tensors[i])]

\* checkSignature(): the configuration declares what the model has.
Declares(declared, tensors) == HasSignature(tensors) /\ Signature(tensors) = declared

\* checkRequestArguments()
LiteAccepted(q) ==
  /\ \A i \in DOMAIN q.inputs : q.inputs[i].dims # <<>> /\ RowsOf(q.inputs[i]) = q.rows
  /\ Signature(q.inputs) = Signature(liteModel.inputs)

LiteRowsBefore(t) == MapThenSumSet(LAMBDA s : liteBatch[s].rows, 1 .. t - 1)
LiteTotal == LiteRowsBefore(Len(liteBatch) + 1)

\* updateInterpreterBatchSize() is skipped if the size is that of the last batch.
Resizes == LiteTotal # liteLast
-----------------------------------------------------------------------------
SentRows(t) == [k \in 1 .. liteBatch[t].rows |-> <<t, k>>]

\* FlatTfLiteTensorTools::Writer counts the elements it has written, and copies
\* every request to the start of the tensor.
WriteFlat(data, t) == [r \in DOMAIN data |-> IF r \in DOMAIN SentRows(t) THEN <<t, r>> ELSE data[r]]

\* The writer of strings appends to a buffer that commit() gives to the tensor.
WriteString(data, t) == data \o SentRows(t)

\* useTfLiteTensorTools(): the writer of a type, and what it finds in its tensor.
IsFlat(type) == type # "string"
Fresh(type) == IF IsFlat(type) THEN [r \in 1 .. LiteTotal |-> Unspecified] ELSE <<>>
Write(type, data, t) == IF IsFlat(type) THEN WriteFlat(data, t) ELSE WriteString(data, t)

\* mergeInputs()
MergedInput(i) ==
  LET type == liteModel.inputs[i].type
  IN FoldLeft(LAMBDA data, t : Write(type, data, t), Fresh(type), [t \in LiteTasks |-> t])

\* The values of a complex tensor are in pairs; one that is left over is ignored.
FieldElements(x) == IF x.type = "complex" THEN x.field \div 2 ELSE x.field

\* A tensor brings its elements as raw content, or else in a field of values.
ContentFits(x) == FoldLeft(LAMBDA a, b : a * b, 1, x.dims) \in {x.raw, FieldElements(x)}

AllContentFits == \A t \in LiteTasks, i \in LiteInputs : ContentFits(liteBatch[t].inputs[i])

\* The interpreter computes each row of the output from the same row of the inputs.
ResultRow(r) == [i \in LiteInputs |-> MergedInput(i)[r]]

\* Mutant of FirstRow: a task whose output is not wanted takes no room.
FirstRowWanted(t) ==
  MapThenSumSet(LAMBDA s : IF liteBatch[s].wants THEN liteBatch[s].rows ELSE 0, 1 .. t - 1)

\* splitOutputs(): where the rows of a task begin.
FirstRow(t) == LiteRowsBefore(t)

Result(t) == [k \in 1 .. IF liteBatch[t].wants THEN liteBatch[t].rows ELSE 0 |-> ResultRow(FirstRow(t) + k)]

\* An output whose rows do not follow the inputs' is refused.
OutputFits == liteModel.fixed => LiteTotal = RowsOf(liteModel.outputs["out"])
-----------------------------------------------------------------------------
LiteInit == /\ liteModel \in LiteModels
            /\ liteState = "new"
            /\ liteRows = <<>> /\ liteUsable = FALSE /\ liteLast = 0
            /\ liteBatch = <<>> /\ liteAnswer = <<>>

Refused == /\ liteState = "new"
           /\ \/ ~Declares(liteModel.declaredIn, liteModel.inputs)
              \/ ~Declares(liteModel.declaredOut, liteModel.outputs)
           /\ liteState' = "refused"
           /\ UNCHANGED <<liteModel, liteRows, liteUsable, liteLast, liteBatch, liteAnswer>>

Created == /\ liteState = "new"
           /\ Declares(liteModel.declaredIn, liteModel.inputs)
           /\ Declares(liteModel.declaredOut, liteModel.outputs)
           /\ liteState' = "ready"
           /\ liteRows' = [i \in LiteInputs |-> RowsOf(liteModel.inputs[i])]
           /\ liteUsable' = TRUE
           /\ \E i \in LiteInputs : liteLast' = RowsOf(liteModel.inputs[i])
           /\ UNCHANGED <<liteModel, liteBatch, liteAnswer>>

\* The scheduler adds a task to the batch.
LiteJoin(q) == /\ liteState = "ready" /\ liteAnswer = <<>>
               /\ LiteTotal + q.rows <= LiteMaxBatch
               /\ liteBatch' = Append(liteBatch, q)
               /\ UNCHANGED <<liteModel, liteState, liteRows, liteUsable, liteLast, liteAnswer>>

FailAll == liteAnswer' = [t \in LiteTasks |-> [ok |-> FALSE, rows |-> <<>>]]
Ran == liteAnswer = <<>> /\ liteBatch # <<>>
AllAccepted == \A t \in LiteTasks : LiteAccepted(liteBatch[t])

\* One request that does not match the signature fails the batch.
RejectBatch == /\ Ran /\ ~AllAccepted /\ FailAll
               /\ UNCHANGED <<liteModel, liteState, liteRows, liteUsable, liteLast, liteBatch>>

\* ResizeInputTensor() fails for one input after some others, or AllocateTensors()
\* for all: lastBatchSize stays what it was.
ResizeFails == /\ Ran /\ AllAccepted /\ Resizes
               /\ \E done \in SUBSET LiteInputs :
                    liteRows' = [i \in LiteInputs |-> IF i \in done THEN LiteTotal ELSE liteRows[i]]
               /\ liteUsable' = FALSE
               /\ FailAll
               /\ UNCHANGED <<liteModel, liteState, liteLast, liteBatch>>

Resized == /\ Ran /\ AllAccepted
           /\ liteRows' = IF Resizes THEN [i \in LiteInputs |-> LiteTotal] ELSE liteRows
           /\ liteUsable' = (Resizes \/ liteUsable)
           /\ liteLast' = LiteTotal
           /\ UNCHANGED <<liteModel, liteState, liteBatch>>

\* A content does not match its shape, Invoke() fails, as it must when the tensors
\* are not allocated, or the output does not have a row for each row.
BatchFails == Resized /\ FailAll

RunBatch == /\ Resized
             /\ AllContentFits /\ liteUsable' /\ OutputFits
             /\ liteAnswer' = [t \in LiteTasks |-> [ok |-> TRUE, rows |-> Result(t)]]

NextBatch == /\ liteAnswer # <<>>
             /\ liteBatch' = <<>> /\ liteAnswer' = <<>>
             /\ UNCHANGED <<liteModel, liteState, liteRows, liteUsable, liteLast>>

LiteNext == \/ Refused \/ Created
            \/ \E q \in LiteRequests : LiteJoin(q)
            \/ RejectBatch \/ ResizeFails \/ BatchFails \/ RunBatch \/ NextBatch

LiteSpec == LiteInit /\ [][LiteNext]_livars
-----------------------------------------------------------------------------
OwnRows(t) == [k \in 1 .. liteBatch[t].rows |-> [i \in LiteInputs |-> <<t, k>>]]

AnsweredOk(t) == liteAnswer[t].ok /\ liteBatch[t].wants

\* However batches of different sizes and failures follow each other, a task
\* that is answered was run by an interpreter of exactly the batch's rows and
\* gets the rows computed from its own: when it is alone in the batch, or when
\* the inputs are strings.
LiteOwnRows ==
  \A t \in DOMAIN liteAnswer :
    AnsweredOk(t) =>
      /\ \A i \in LiteInputs : liteRows[i] = LiteTotal
      /\ Len(liteBatch) = 1 \/ (\A i \in LiteInputs : ~IsFlat(liteModel.inputs[i].type))
         => liteAnswer[t].rows = OwnRows(t)

\* What the client's documentation says of an answer: one list element for each
\* entry of the batch that was sent, whoever shares the batch on the server.
EachEntryAnswered == \A t \in DOMAIN liteAnswer : AnsweredOk(t) => liteAnswer[t].rows = OwnRows(t)
=============================================================================
