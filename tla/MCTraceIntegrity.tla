-------------------------- MODULE MCTraceIntegrity --------------------------
(* Ids and digests are compared for equality only. *)
EXTENDS TraceIntegrity, TLC

IdSymmetry == Permutations(Id) \cup Permutations(Payload)
=============================================================================
