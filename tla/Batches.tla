------------------------------- MODULE Batches -------------------------------
(***************************************************************************)
(* What the three modules of batches have in common: of InstanceIO, the    *)
(* plug-ins' batches, LiteBatch, TensorFlow Lite's, and TfBatch,           *)
(* TensorFlow's.                                                           *)
(***************************************************************************)
EXTENDS InstanceIO, LiteBatch, TfBatch

\* Rows stay with their tasks in every kind of batch: the plug-ins', TensorFlow
\* Lite's and TensorFlow's, where equal tasks also always merge.
BatchesKeepRows == OwnResults /\ LiteOwnRows /\ RowsAreOwn /\ EqualTasksMerge
=============================================================================
