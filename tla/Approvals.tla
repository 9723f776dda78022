------------------------------ MODULE Approvals ------------------------------
(***************************************************************************)
(* replay_approval (approvals.py): the strict projection of a history of   *)
(* approval events.  One step is one event that the loop accepts; an event *)
(* it raises on ends the replay and is no step.  The event sequence        *)
(* numbers only order the events and are the order of the steps here.      *)
(*                                                                         *)
(* Read as a specification it is the contract of every approval gate:      *)
(* an identity is bound to the effect first requested, a decision is never *)
(* reversed, and only an approved identity is executed.                    *)
(***************************************************************************)
CONSTANTS OperationId, Effect, None

VARIABLES
    requests,   \* the effect first requested for each identity, or None
    decisions,  \* "approved", "denied" or None
    executed    \* the identities executed; a replayed EXECUTE adds nothing

vars == <<requests, decisions, executed>>

Init ==
    /\ requests = [id \in OperationId |-> None]
    /\ decisions = [id \in OperationId |-> None]
    /\ executed = {}

Requested(id, x) ==
    /\ requests[id] \in {None, x}
    /\ requests' = [requests EXCEPT ![id] = x]
    /\ UNCHANGED <<decisions, executed>>

Decided(id, x, decision) ==
    /\ requests[id] = x
    /\ decisions[id] \in {None, decision}
    /\ decisions' = [decisions EXCEPT ![id] = decision]
    /\ UNCHANGED <<requests, executed>>

Execute(id, x) ==
    /\ requests[id] = x
    /\ decisions[id] = "approved"
    /\ executed' = executed \cup {id}
    /\ UNCHANGED <<requests, decisions>>

Next == \E id \in OperationId, x \in Effect :
    \/ Requested(id, x)
    \/ \E decision \in {"approved", "denied"} : Decided(id, x, decision)
    \/ Execute(id, x)

Spec == Init /\ [][Next]_vars
=============================================================================
