------------------------- MODULE MCPersistentFencing -------------------------
(* Two processes, one resource, three files one after the other. *)
EXTENDS PersistentFencing, TLC

SmallSymmetry ==
    Permutations(Process) \cup Permutations(OperationId) \cup Permutations(Value)
        \cup Permutations(Generation)
=============================================================================
