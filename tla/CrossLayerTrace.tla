-------------------------- MODULE CrossLayerTrace --------------------------
(***************************************************************************)
(* The layers of one external operation side by side: its approval         *)
(* (Approvals), the evidence of its reconciliation (EvidenceStore) and the *)
(* checkpoints of the run that asked for it (CheckpointStore), with the    *)
(* trace a recorder writes of what they commit, in the records of          *)
(* TRACE_SCHEMA.json.  The layers share no state and no transaction; the   *)
(* validator (TraceValidator) is the only code that relates them.          *)
(*                                                                         *)
(* The recorder is outside the repository.  What it is taken to do is what *)
(* the baseline traces show: one record for every commit, in the order of  *)
(* the commits, and evidence ids that are used once.  The reconciler works *)
(* on the operation that was requested, with readbacks of any content.     *)
(***************************************************************************)
EXTENDS TraceValidator

CONSTANTS
    Effect,         \* exact (tool, payload) pairs, that is, payload digests
    EvidenceId, CheckpointId, Plan,
    OperationCount, MaxSequence, MaxRevision

ASSUME PayloadAssumption == Effect \cup Plan \subseteq Payload

VARIABLES
    requests, decisions, executed,      \* the approval layer
    heads, completions,                 \* the evidence store
    runs, checkpoints,                  \* the checkpoint store
    trace                               \* what the recorder wrote

vars == <<requests, decisions, executed, heads, completions, runs, checkpoints, trace>>

operation_id == "operation"

Approval == INSTANCE Approvals WITH OperationId <- {operation_id}

Evidence == INSTANCE EvidenceStore WITH Provider <- {"provider"}, OperationId <- {operation_id}

Recovery == INSTANCE CheckpointStore WITH RunId <- {"run"}

Operation(x) == [provider |-> "provider", operation_id |-> operation_id, effect |-> x]

Identity == <<"provider", operation_id>>

Digest(x) == EffectFingerprint(<<"tool", x>>)

\* Records are numbered from 1.
Number == Len(trace) + 1

ApprovalRecord(x, decision) ==
    [kind |-> "approval", record_id |-> Number, sequence |-> Number,
     provider |-> "provider", operation_id |-> operation_id, effect_sha256 |-> Digest(x),
     tool |-> "tool", payload_sha256 |-> x, decision |-> decision]

EffectRecord(x) ==
    [kind |-> "effect", record_id |-> Number, sequence |-> Number,
     provider |-> "provider", operation_id |-> operation_id, effect_sha256 |-> Digest(x),
     tool |-> "tool", payload_sha256 |-> x, idempotency_key |-> operation_id]

ReadbackRecord(x, id, evidence) ==
    [kind |-> "provider_evidence", record_id |-> Number, sequence |-> Number,
     provider |-> "provider", operation_id |-> operation_id, effect_sha256 |-> Digest(x),
     evidence_id |-> id, revision |-> evidence.revision, readback |-> evidence.readback]

CompletedRecord(x, id, revision) ==
    [kind |-> "reconciliation_completion", record_id |-> Number, sequence |-> Number,
     provider |-> "provider", operation_id |-> operation_id, effect_sha256 |-> Digest(x),
     evidence_id |-> id, revision |-> revision]

CheckpointRecords ==
    [kind : {"checkpoint"}, record_id : Nat, sequence : Nat,
     run_id : {"run"}, checkpoint_id : CheckpointId,
     parent_checkpoint_id : CheckpointId \cup {None}, checkpoint_sequence : Nat,
     plan_sha256 : Plan, completed_count : Nat]

CheckpointRecord(c) ==
    [kind |-> "checkpoint", record_id |-> Number, sequence |-> Number,
     run_id |-> c.run_id, checkpoint_id |-> c.checkpoint_id,
     parent_checkpoint_id |-> c.parent, checkpoint_sequence |-> c.sequence,
     plan_sha256 |-> c.plan, completed_count |-> c.completed_count]

ASSUME BoundAssumption ==
    /\ MaxSequence \in Nat
    /\ MaxRevision \in Nat
    /\ OperationCount \in [Plan -> Nat \ {0}]

\* None is no value of the types it is an alternative to.
ASSUME NoneAssumption ==
    /\ None \notin Nat
    /\ None \notin {"tool", "approved", "denied"}
    /\ None \notin Effect \cup EvidenceId \cup CheckpointId
    /\ None \notin Evidence!EvidenceRecord \cup Evidence!CompletionRecord
    /\ None \notin Recovery!Run
    /\ None \notin {"tool"} \X Effect
    /\ None \notin CheckpointRecords

Init ==
    /\ Approval!Init
    /\ Evidence!EvidenceInit
    /\ Recovery!Init
    /\ trace = <<>>

Recorded(record) == trace' = Append(trace, record)

-----------------------------------------------------------------------------
\* A request is not recorded, and neither is a replay that changes nothing.
Request(x) ==
    /\ Approval!Requested(operation_id, x)
    /\ UNCHANGED <<heads, completions, runs, checkpoints, trace>>

Decide(x, decision) ==
    /\ Approval!Decided(operation_id, x, decision)
    /\ decisions' # decisions
    /\ Recorded(ApprovalRecord(x, decision))
    /\ UNCHANGED <<heads, completions, runs, checkpoints>>

Execute(x) ==
    /\ Approval!Execute(operation_id, x)
    /\ executed' # executed
    /\ Recorded(EffectRecord(x))
    /\ UNCHANGED <<heads, completions, runs, checkpoints>>

UsedIds == {trace[i].evidence_id : i \in {j \in DOMAIN trace : trace[j].kind = "provider_evidence"}}

RecordReadback(x, id, evidence) ==
    /\ requests[operation_id] = x
    /\ id \notin UsedIds
    /\ Evidence!Record(Operation(x), id, evidence)
    /\ heads' # heads
    /\ Recorded(ReadbackRecord(x, id, evidence))
    /\ UNCHANGED <<requests, decisions, executed, runs, checkpoints>>

Complete(x, id, decision) ==
    /\ Evidence!MarkReconciled(Operation(x), id, decision)
    /\ completions' # completions
    /\ Recorded(CompletedRecord(x, id, completions'[Identity].revision))
    /\ UNCHANGED <<requests, decisions, executed, runs, checkpoints>>

RecordedCheckpoint == \E c \in checkpoints' \ checkpoints : Recorded(CheckpointRecord(c))

Start(id, plan) ==
    /\ Recovery!Start("run", id, plan)
    /\ RecordedCheckpoint
    /\ UNCHANGED <<requests, decisions, executed, heads, completions>>

Advance(parent, id, count) ==
    /\ Recovery!Advance(parent, id, count)
    /\ RecordedCheckpoint
    /\ UNCHANGED <<requests, decisions, executed, heads, completions>>

Next ==
    \/ \E x \in Effect :
        \/ Request(x)
        \/ \E decision \in {"approved", "denied"} : Decide(x, decision)
        \/ Execute(x)
        \/ \E id \in EvidenceId :
            \/ \E evidence \in Evidence!ProviderEvidence : RecordReadback(x, id, evidence)
            \/ \E decision \in Evidence!ReconciliationDecision : Complete(x, id, decision)
    \/ \E id \in CheckpointId :
        \/ \E plan \in Plan : Start(id, plan)
        \/ \E parent \in checkpoints, count \in Recovery!Count : Advance(parent, id, count)

Spec == Init /\ [][Next]_vars
-----------------------------------------------------------------------------
\* The validator has no false positives: whatever order the layers commit in, and
\* whatever readbacks the provider gives, the recorded trace is accepted.  The
\* rules of trace_integrity.py and the guards of the three stores are written
\* independently of each other; this is where they have to agree.
StoresWriteCleanTraces == Accepted(trace)
=============================================================================
