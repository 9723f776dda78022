-------------------------- MODULE MCReconcilerLoop --------------------------
(* Two workers, each crashing at most once between them, and two provider    *)
(* disturbances.  No symmetry: the run checks liveness.                      *)
EXTENDS ReconcilerLoop

CONSTANTS p1, o1, x1

MCTarget == [provider |-> p1, operation_id |-> o1, effect |-> x1]
=============================================================================
