----------------------- MODULE MCCheckpointTransaction -----------------------
(***************************************************************************)
(* Bounded instance of CheckpointTransaction.                              *)
(***************************************************************************)
EXTENDS CheckpointTransaction
=============================================================================
