---------------------------- MODULE ProviderStore ----------------------------
(***************************************************************************)
(* VersionedProviderStore (reconciliation.py): the provider's revision row *)
(* and effect rows.  Every method is one BEGIN IMMEDIATE transaction, so   *)
(* each operator below is one atomic step.  A provider without a revision  *)
(* row reads as revision 0, which is what the missing row is created with. *)
(***************************************************************************)
EXTENDS Reconciliation

VARIABLES
    revision,   \* provider_revisions: [Provider -> Revision]
    effects     \* provider_effects, keyed by (provider, operation_id)

providerVars == <<revision, effects>>

ProviderTypeOK ==
    /\ revision \in [Provider -> Revision]
    /\ effects \in SUBSET Operation

ProviderInit ==
    /\ revision = [p \in Provider |-> 0]
    /\ effects = {}

StoredFor(op) == {e \in effects : IdentityOf(e) = IdentityOf(op)}

\* read raises when the identity is stored with another effect.
Readable(op) == StoredFor(op) \subseteq {op}

ReadResult(op) ==
    [provider     |-> op.provider,
     operation_id |-> op.operation_id,
     readback     |-> IF op \in effects THEN "present" ELSE "absent",
     observed     |-> IF op \in effects THEN op.effect ELSE None,
     revision     |-> revision[op.provider],
     idempotency  |-> IF op \in effects THEN None ELSE op]

\* Seeded fault: the effect is inserted but the revision row is not updated.
CommitWithoutRevision(op) ==
    /\ revision[op.provider] < MaxRevision
    /\ effects' = effects \cup {op}
    /\ UNCHANGED revision

Commit(op) ==
    /\ revision[op.provider] < MaxRevision
    /\ effects' = effects \cup {op}
    /\ revision' = [revision EXCEPT ![op.provider] = @ + 1]

\* conditional_apply: the revision guard and the write share one transaction.
ConditionalApply(op, decision) ==
    /\ RetryHonoured(op, decision, revision[op.provider], effects)
    /\ Commit(op)

\* The external provider drops an effect it held; its revision tells.
Remove(op) ==
    /\ op \in effects
    /\ revision[op.provider] < MaxRevision
    /\ effects' = effects \ {op}
    /\ revision' = [revision EXCEPT ![op.provider] = @ + 1]
=============================================================================
