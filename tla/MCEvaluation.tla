---------------------------- MODULE MCEvaluation ----------------------------
(* Scenarios and kinds of check are compared for equality only. *)
EXTENDS Evaluation, TLC

Symmetry == Permutations(Check) \cup Permutations(Runner)
=============================================================================
