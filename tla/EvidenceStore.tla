---------------------------- MODULE EvidenceStore ----------------------------
(***************************************************************************)
(* ReconciliationEvidenceStore (evidence_lineage.py): one persisted head   *)
(* and at most one completion per (provider, operation_id).  Every method  *)
(* is one BEGIN IMMEDIATE transaction; a raise rolls back, so a call that  *)
(* raises is no step of this module.                                       *)
(*                                                                         *)
(* EvidenceSpec runs the store on its own, fed with EVERY readback its     *)
(* types allow, also contradictory ones: what it guarantees then does not  *)
(* depend on the provider telling the truth.                               *)
(***************************************************************************)
EXTENDS Reconciliation

VARIABLES
    heads,          \* reconciliation_heads
    completions     \* reconciliation_completions

evidenceVars == <<heads, completions>>

EvidenceRecord ==
    [operation   : Operation,
     evidence_id : EvidenceId,
     revision    : Revision,
     decision    : ReconciliationDecision]

CompletionRecord ==
    [operation : Operation, evidence_id : EvidenceId, revision : Revision]

ASSUME NoneIsNoRecord == None \notin EvidenceRecord /\ None \notin CompletionRecord

EvidenceTypeOK ==
    /\ heads \in [Identity -> EvidenceRecord \cup {None}]
    /\ completions \in [Identity -> CompletionRecord \cup {None}]

EvidenceInit ==
    /\ heads = [k \in Identity |-> None]
    /\ completions = [k \in Identity |-> None]

-----------------------------------------------------------------------------
Candidate(op, id, ev) ==
    [operation   |-> op,
     evidence_id |-> id,
     revision    |-> ev.revision,
     decision    |-> ReconcileLostAck(op, ev)]

\* Seeded fault: a completion does not stop later absence evidence.
CompletionIgnored(rec, completion) == TRUE

\* A completed identity keeps its operation and never regains retry authority.
CompletionAllows(rec, completion) ==
    completion # None =>
        /\ completion.operation = rec.operation
        /\ rec.decision.action # "retry_exact_operation"

\* Seeded fault: older evidence may replace the head.
HeadAllowsOlder(rec, head) ==
    head # None => head.operation = rec.operation

HeadAllows(rec, head) ==
    head # None =>
        /\ head.operation = rec.operation
        /\ \/ rec.revision > head.revision
           \/ rec.revision = head.revision /\ rec.decision = head.decision

\* An equal readback at the head's revision returns the head that is there.
Persisted(rec, head) ==
    IF head # None /\ head.revision = rec.revision THEN head ELSE rec

\* Seeded fault: a present readback without a revision may be recorded.
RecordableWithoutRevision(op, id, ev) ==
    /\ Reconcilable(op, ev)
    /\ CompletionAllows(Candidate(op, id, ev), completions[IdentityOf(op)])
    /\ HeadAllows(Candidate(op, id, ev), heads[IdentityOf(op)])

Recordable(op, id, ev) ==
    /\ ev.revision # None
    /\ Reconcilable(op, ev)
    /\ CompletionAllows(Candidate(op, id, ev), completions[IdentityOf(op)])
    /\ HeadAllows(Candidate(op, id, ev), heads[IdentityOf(op)])

RecordResult(op, id, ev) == Persisted(Candidate(op, id, ev), heads[IdentityOf(op)])

Record(op, id, ev) ==
    /\ Recordable(op, id, ev)
    /\ heads' = [heads EXCEPT ![IdentityOf(op)] = RecordResult(op, id, ev)]
    /\ UNCHANGED completions

\* current and assert_current return instead of raising.
HasCurrent(op) ==
    /\ heads[IdentityOf(op)] # None
    /\ heads[IdentityOf(op)].operation = op

AssertCurrent(op, id, decision) ==
    /\ HasCurrent(op)
    /\ heads[IdentityOf(op)].evidence_id = id
    /\ heads[IdentityOf(op)].decision = decision

\* Seeded fault: any decision the caller holds completes, current or not.
CompletesHeld(op, id, decision) ==
    /\ HasCurrent(op)
    /\ decision.action = "accept_remote_commit"

Completable(op, id, decision) ==
    /\ AssertCurrent(op, id, decision)
    /\ decision.action = "accept_remote_commit"

Completion(op, id) ==
    [operation   |-> op,
     evidence_id |-> id,
     revision    |-> heads[IdentityOf(op)].revision]

\* Seeded fault: a replayed completion overwrites the first one.
OverwritesCompletion(op, id) == Completion(op, id)

\* An existing completion is returned unchanged.
CompletionResult(op, id) ==
    IF completions[IdentityOf(op)] # None
    THEN completions[IdentityOf(op)]
    ELSE Completion(op, id)

\* mark_reconciled raises on an existing completion of another effect.
MarkReconciled(op, id, decision) ==
    /\ Completable(op, id, decision)
    /\ completions[IdentityOf(op)] # None => completions[IdentityOf(op)].operation = op
    /\ completions' = [completions EXCEPT ![IdentityOf(op)] = CompletionResult(op, id)]
    /\ UNCHANGED heads

-----------------------------------------------------------------------------
EvidenceNext ==
    \E op \in Operation, id \in EvidenceId :
        \/ \E ev \in ProviderEvidence : Record(op, id, ev)
        \/ \E decision \in ReconciliationDecision : MarkReconciled(op, id, decision)

EvidenceSpec == EvidenceInit /\ [][EvidenceNext]_evidenceVars

-----------------------------------------------------------------------------
\* A completed identity has a head that accepts the same operation, at the
\* completion's revision or a later one: once mark_reconciled has returned, no
\* sequence of record calls can hand out retry authority again, however the
\* provider's later readbacks read (evidence_lineage.py:139-148, 255-258).
CompletedNeverRegainsRetry ==
    \A k \in Identity : completions[k] # None =>
        /\ heads[k] # None
        /\ heads[k].operation = completions[k].operation
        /\ heads[k].decision = AcceptRemoteCommit
        /\ completions[k].revision <= heads[k].revision

\* Evidence is superseded only by newer evidence: a head is never dropped, never
\* rebound to another effect, never moved to an older revision, and a readback
\* at its own revision leaves it as it is, id included (lines 156-174).
HeadOnlyAdvances(k) ==
    heads[k] # None =>
        /\ heads'[k] # None
        /\ heads'[k].operation = heads[k].operation
        /\ \/ heads'[k] = heads[k]
           \/ heads'[k].revision > heads[k].revision

HeadsOnlyAdvance == [][\A k \in Identity : HeadOnlyAdvances(k)]_evidenceVars

\* A completion, once written, is what every later call returns: neither a
\* replay of mark_reconciled nor newer evidence rewrites it (lines 260-271).
CompletionIsFinal ==
    [][\A k \in Identity : completions[k] # None => completions'[k] = completions[k]]_evidenceVars
=============================================================================
