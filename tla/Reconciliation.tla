--------------------------- MODULE Reconciliation ---------------------------
(***************************************************************************)
(* The value types and the pure decision functions of reconciliation.py:   *)
(* what an external operation and a provider readback are, which readbacks *)
(* let reconcile_lost_ack decide, and when apply_conditional_retry honours *)
(* a decision.                                                             *)
(*                                                                         *)
(* An effect is the exact (tool, payload) pair.  effect_sha256 is taken to *)
(* be injective, so a digest is modelled by the operation it digests.  The *)
(* exceptions differ only in their wording: a call that raises is a call   *)
(* whose predicate below is false, and changes nothing.                    *)
(***************************************************************************)
EXTENDS Naturals

CONSTANTS
    Provider,       \* provider names
    OperationId,    \* operation ids, which are also the idempotency keys
    Effect,         \* exact (tool, payload) pairs
    EvidenceId,     \* caller-chosen names of recorded readbacks
    MaxRevision,    \* bound on a provider's revision counter
    None            \* Python's None

Revision == 0 .. MaxRevision

Operation == [provider : Provider, operation_id : OperationId, effect : Effect]

Identity == Provider \X OperationId

IdentityOf(op) == <<op.provider, op.operation_id>>

\* idempotency is the operation whose key and digest the provider vouches for.
ProviderEvidence ==
    [provider     : Provider,
     operation_id : OperationId,
     readback     : {"present", "absent", "ambiguous"},
     observed     : Effect \cup {None},
     revision     : Revision \cup {None},
     idempotency  : Operation \cup {None}]

ReconciliationDecision ==
    [action       : {"accept_remote_commit", "retry_exact_operation"},
     precondition : Revision \cup {None},
     effect       : Operation \cup {None}]

ASSUME BoundAssumption == MaxRevision \in Nat

\* None is not a value of any of the types it is an alternative to.
ASSUME NoneAssumption ==
    /\ None \notin Nat
    /\ None \notin Effect
    /\ None \notin Operation
    /\ None \notin ProviderEvidence

-----------------------------------------------------------------------------
AcceptRemoteCommit ==
    [action |-> "accept_remote_commit", precondition |-> None, effect |-> None]

RetryExactOperation(op, r) ==
    [action |-> "retry_exact_operation", precondition |-> r, effect |-> op]

BoundTo(op, ev) ==
    /\ ev.provider = op.provider
    /\ ev.operation_id = op.operation_id

\* Seeded fault: any present readback is accepted, whatever effect it shows.
AcceptsAnyEffect(op, ev) ==
    /\ BoundTo(op, ev)
    /\ ev.readback = "present"

AcceptsRemoteCommit(op, ev) ==
    /\ BoundTo(op, ev)
    /\ ev.readback = "present"
    /\ ev.observed = op.effect

\* Seeded fault: an ambiguous readback is treated like a confirmed absence.
AuthorizesRetryWhenAmbiguous(op, ev) ==
    /\ BoundTo(op, ev)
    /\ ev.readback # "present"
    /\ ev.observed = None
    /\ ev.idempotency = op
    /\ ev.revision # None

AuthorizesRetry(op, ev) ==
    /\ BoundTo(op, ev)
    /\ ev.readback = "absent"
    /\ ev.observed = None
    /\ ev.idempotency = op
    /\ ev.revision # None

\* reconcile_lost_ack returns; every other readback makes it raise.
Reconcilable(op, ev) == AcceptsRemoteCommit(op, ev) \/ AuthorizesRetry(op, ev)

ReconcileLostAck(op, ev) ==
    IF AcceptsRemoteCommit(op, ev)
    THEN AcceptRemoteCommit
    ELSE RetryExactOperation(op, ev.revision)

-----------------------------------------------------------------------------
\* Seeded fault: the provider applies without comparing revisions.
HonouredWithoutRevision(op, decision, current, applied) ==
    /\ decision.action = "retry_exact_operation"
    /\ decision.precondition # None
    /\ decision.effect = op
    /\ \A e \in applied : IdentityOf(e) # IdentityOf(op)

\* apply_conditional_retry returns, given the provider's revision and effects.
RetryHonoured(op, decision, current, applied) ==
    /\ decision.action = "retry_exact_operation"
    /\ decision.precondition # None
    /\ decision.effect = op
    /\ current = decision.precondition
    /\ \A e \in applied : IdentityOf(e) # IdentityOf(op)
=============================================================================
