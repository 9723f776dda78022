--------------------------- MODULE FencedAuthority ---------------------------
(***************************************************************************)
(* acquire_authority and fenced_write (fencing.py): the in-memory contract *)
(* of fencing tokens.  Each resource has one FencedState; acquiring makes  *)
(* its epoch newer and names the operation, writing needs a token for the  *)
(* exact resource, epoch and operation.  A token, once returned, may be    *)
(* presented by anybody at any later time.                                 *)
(***************************************************************************)
EXTENDS Naturals

CONSTANTS Resource, OperationId, Value, MaxEpoch, None

VARIABLES
    epoch,          \* [Resource -> 0 .. MaxEpoch], 0 before any acquisition
    operation,      \* [Resource -> OperationId or None]
    value,          \* [Resource -> Value or None]
    tokens          \* every token acquire_authority returned

vars == <<epoch, operation, value, tokens>>

Token == [resource : Resource, operation_id : OperationId, epoch : 1 .. MaxEpoch]

Init ==
    /\ epoch = [r \in Resource |-> 0]
    /\ operation = [r \in Resource |-> None]
    /\ value = [r \in Resource |-> None]
    /\ tokens = {}

AcquireAuthority(r, op) ==
    /\ epoch[r] < MaxEpoch
    /\ epoch' = [epoch EXCEPT ![r] = @ + 1]
    /\ operation' = [operation EXCEPT ![r] = op]
    /\ tokens' = tokens \cup {[resource |-> r, operation_id |-> op, epoch |-> epoch[r] + 1]}
    /\ UNCHANGED value

FencedWrite(token, v) ==
    /\ token.epoch = epoch[token.resource]
    /\ token.operation_id = operation[token.resource]
    /\ value' = [value EXCEPT ![token.resource] = v]
    /\ UNCHANGED <<epoch, operation, tokens>>

Next ==
    \/ \E r \in Resource, op \in OperationId : AcquireAuthority(r, op)
    \/ \E token \in tokens, v \in Value : FencedWrite(token, v)

Spec == Init /\ [][Next]_vars
=============================================================================
