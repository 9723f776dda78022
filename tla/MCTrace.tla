------------------------------ MODULE MCTrace ------------------------------
(***************************************************************************)
(* The validator with both kinds of trace: what the stores commit, and any *)
(* records with a mutation.  Which it is, the first step decides.  The two *)
(* share no variable, so that taking one of them at a time loses nothing.  *)
(*                                                                         *)
(* Ids and digests are compared for equality only, and a plan's digest     *)
(* never with an effect's, so one set of digests serves both.              *)
(***************************************************************************)
EXTENDS CrossLayerTrace, TraceIntegrity, TLC

MCOperationCount == [plan \in Plan |-> 2]

MCInit == Init /\ TraceInit

MCNext ==
    \/ Init /\ TraceNext /\ UNCHANGED vars
    \/ TraceInit /\ Next /\ UNCHANGED traceVars

MCSpec == MCInit /\ [][MCNext]_<<vars, traceVars>>

\* Evidence ids are ids: one set of them serves both as well.
Symmetry == Permutations(Payload) \cup Permutations(Id) \cup Permutations(CheckpointId)
=============================================================================
