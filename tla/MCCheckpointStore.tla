-------------------------- MODULE MCCheckpointStore --------------------------
(* Two runs that may take either of two plans, of two and of three operations. *)
EXTENDS CheckpointStore, TLC

CONSTANTS short, long

MCOperationCount == (short :> 2) @@ (long :> 3)

SmallSymmetry == Permutations(RunId) \cup Permutations(CheckpointId)
=============================================================================
