---------------------------- MODULE MCReconciler ----------------------------
(* Two interchangeable workers over one identity with two candidate effects. *)
EXTENDS Reconciler, TLC

SmallSymmetry == Permutations(Worker) \cup Permutations(Effect) \cup Permutations(EvidenceId)
=============================================================================
