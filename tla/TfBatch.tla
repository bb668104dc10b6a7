------------------------------- MODULE TfBatch -------------------------------
(***************************************************************************)
(* What TensorFlow's InferentialBatch does with a closed batch: it merges  *)
(* the tensors of the tasks into one, pads it to an allowed size, runs the *)
(* session and splits the output again.                                    *)
(*                                                                         *)
(* A task sends one tensor of shape {rows, len}.  A row is <<t, k>>, the   *)
(* k-th row of task t, and the session computes each row of its output     *)
(* from the row of the input.                                              *)
(***************************************************************************)
EXTENDS Integers, Sequences, SequencesExt, FiniteSetsExt

CONSTANTS AllowedSizes, \* lists allowed_batch_sizes may be
          MaxBatch,     \* limit of the scheduler for the rows of a batch
          Shapes        \* shapes of the tensors, records of rows and len

ASSUME AllowedIncrease ==
  \A a \in AllowedSizes : a \in Seq(Nat \ {0}) /\ \A i \in 2 .. Len(a) : a[i - 1] < a[i]
ASSUME ShapesArePositive == Shapes \subseteq [rows : Nat \ {0}, len : Nat \ {0}]

VARIABLES allowed,  \* batching_parameters.allowed_batch_sizes
          lengths,  \* batching_parameters.pad_variable_length_inputs
          shapes,   \* the shapes of the tasks of the batch
          outcome   \* per task its status and rows; <<>> before the run

tvars == <<allowed, lengths, shapes, outcome>>

Tasks == DOMAIN shapes
BatchRows == MapThenSumSet(LAMBDA t : shapes[t].rows, Tasks)

\* The first allowed size that is not too small, or the size itself.
Lowest(size) == LET fit == {i \in DOMAIN allowed : allowed[i] >= size}
                IN IF fit = {} THEN size ELSE allowed[Min(fit)]

PaddingSize == Lowest(BatchRows) - BatchRows

-----------------------------------------------------------------------------
TensorOf(t) == [len |-> shapes[t].len, rows |-> [k \in 1 .. shapes[t].rows |-> <<t, k>>]]

\* TensorDimension::merge(): the first tensor makes the sizes, all zero, and is
\* not measured itself.
Longest == Max({0} \union {shapes[t].len : t \in Tasks \ {1}})

\* PaddedTensor.  initOutputShape() adds a padding that is still zero, because
\* initPadding() comes after it; the shape is then the input's own and what
\* initPadding() makes of the sizes is not used.
Padded(tensor) ==
  LET initial == 0
      padding == IF Longest > tensor.len THEN Longest - tensor.len ELSE 0
      shape == tensor.len + initial
  IN IF shape = tensor.len THEN tensor ELSE [tensor EXCEPT !.len = @ + padding]

\* MergedTensors::append() refuses a tensor of another shape than the first
\* one's, rows included; its callers ignore that it did.
SameShape(merged, tensor) ==
  merged # <<>> => /\ Head(merged).len = tensor.len
                   /\ Len(Head(merged).rows) = Len(tensor.rows)

\* RealPadding::fill() appends the first row of the last task as often as the
\* batch is short of its size.  Each of them must have the shape of the first.
Fill(merged, tensor) ==
  LET row == [tensor EXCEPT !.rows = <<Head(@)>>]
  IN IF SameShape(merged, row) THEN merged \o [i \in 1 .. PaddingSize |-> row] ELSE merged

\* Mutant of IsLast: padding goes behind the first task.
IsFirst(t) == t = 1

IsLast(t) == t = Len(shapes)

MergeTensor(merged, t) ==
  LET tensor == IF lengths THEN Padded(TensorOf(t)) ELSE TensorOf(t)
  IN IF ~SameShape(merged, tensor) THEN merged
     ELSE IF IsLast(t) THEN Fill(Append(merged, tensor), tensor)
     ELSE Append(merged, tensor)

\* The rows of the tensor the session gets.
MergedRows == LET merged == FoldLeft(MergeTensor, <<>>, [t \in Tasks |-> t])
              IN FlattenSeq([i \in DOMAIN merged |-> merged[i].rows])
-----------------------------------------------------------------------------

\* collectSizes()
SplitSizes == [t \in Tasks |-> shapes[t].rows] \o (IF PaddingSize > 0 THEN <<PaddingSize>> ELSE <<>>)

\* tensor::Split() needs sizes that add up to the rows of the tensor.
CanSplit(rows) == FoldLeft(+, 0, SplitSizes) = Len(rows)

Part(rows, t) ==
  LET start == FoldLeft(+, 0, SubSeq(SplitSizes, 1, t - 1))
  IN SubSeq(rows, start + 1, start + SplitSizes[t])

AllDone(status) == [t \in Tasks |-> [status |-> status, rows |-> <<>>]]
-----------------------------------------------------------------------------
TInit == /\ allowed \in AllowedSizes
         /\ lengths \in BOOLEAN
         /\ shapes = <<>>
         /\ outcome = <<>>

\* The scheduler adds a task to the open batch.
Schedule(s) == /\ outcome = <<>>
               /\ BatchRows + s.rows <= MaxBatch
               /\ shapes' = Append(shapes, s)
               /\ UNCHANGED <<allowed, lengths, outcome>>

\* doprocess(): the deadline of every task has passed before the batch ran ...
AllTimeout == /\ outcome = <<>> /\ shapes # <<>>
              /\ outcome' = AllDone("timeout")
              /\ UNCHANGED <<allowed, lengths, shapes>>

\* ... or the session fails, which has the timeout of the batch ...
RunFails == /\ outcome = <<>> /\ shapes # <<>>
            /\ outcome' = AllDone("session")
            /\ UNCHANGED <<allowed, lengths, shapes>>

\* ... or its output cannot be split ...
BadSplit == /\ outcome = <<>> /\ shapes # <<>>
            /\ ~CanSplit(MergedRows)
            /\ outcome' = AllDone("shape")
            /\ UNCHANGED <<allowed, lengths, shapes>>

\* ... or every task gets its part.
Dispatch == /\ outcome = <<>> /\ shapes # <<>>
            /\ CanSplit(MergedRows)
            /\ outcome' = [t \in Tasks |-> [status |-> "ok", rows |-> Part(MergedRows, t)]]
            /\ UNCHANGED <<allowed, lengths, shapes>>

TNext == (\E s \in Shapes : Schedule(s)) \/ AllTimeout \/ RunFails \/ BadSplit \/ Dispatch

TSpec == TInit /\ [][TNext]_tvars
-----------------------------------------------------------------------------
\* Whatever append() dropped and fill() added, a task that is told OK has the
\* rows computed from its own, in their order, and neither a neighbour's nor a
\* padding row.
RowsAreOwn ==
  \A t \in DOMAIN outcome :
    outcome[t].status = "ok" => outcome[t].rows = TensorOf(t).rows

\* The tensors the code does merge: tasks of one shape are never refused for
\* their shape, if they need no padding rows or have a single row each.
EqualTasksMerge ==
  \A t \in DOMAIN outcome :
    /\ \A s \in Tasks : shapes[s] = shapes[t]
    /\ PaddingSize = 0 \/ shapes[t].rows = 1
    => outcome[t].status # "shape"

\* What tf_plan_model_config.proto says of the batching layer: it is transparent
\* to the client.  A task that alone is a good request is never refused because
\* of the tasks it happens to share a batch with.
BatchingIsTransparent == \A t \in DOMAIN outcome : outcome[t].status # "shape"
=============================================================================
