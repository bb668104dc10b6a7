------------------------------ MODULE MCTfBatch ------------------------------
(***************************************************************************)
(* Instance for TLC of TfBatch where the batcher has no list of sizes.     *)
(***************************************************************************)
EXTENDS TfBatch

MCAllowedSizes == {<<>>}
MCShapes == [rows : 1 .. 2, len : {1}]
=============================================================================
