--------------------------- MODULE TraceValidator ---------------------------
(***************************************************************************)
(* validate_trace (trace_integrity.py): the validator of cross-layer       *)
(* traces, a fold over the records with the local variables of the         *)
(* function.                                                               *)
(*                                                                         *)
(* A violation is never withdrawn, so the local variables need to be right *)
(* after sound records only, and the checks made after the loop are made   *)
(* here when their record is read; which code a violation has is left out. *)
(* A value that is missing or of a wrong type is None (JSON null); a       *)
(* SHA-256 digest is what it digests.                                      *)
(***************************************************************************)
EXTENDS Integers, SequencesExt, FiniteSetsExt

CONSTANTS
    Payload,        \* payload_sha256 and plan_sha256 digests
    None

_RECORD_KINDS ==
    {"runtime_event", "approval", "effect", "checkpoint", "provider_evidence",
     "reconciliation_completion"}

scope == [run_id |-> "run", turn_id |-> "turn", provider |-> "provider",
          operation_id |-> "operation"]

Get(r, field) == IF field \in DOMAIN r THEN r[field] ELSE None

\* effect_fingerprint(provider, operation_id, tool, payload_sha256)
EffectFingerprint(binding) == <<scope.provider, scope.operation_id>> \o binding

-----------------------------------------------------------------------------
\* The local variables of validate_trace before the first record.
Unread ==
    [sound |-> TRUE, event_ids |-> {}, binding |-> None, approved |-> None,
     denied |-> None, checkpoint |-> None, evidence |-> <<>>, completions |-> 0]

HasScope(r, fields) == \A f \in fields : Get(r, f) = scope[f]

EventSound(s, r) ==
    /\ HasScope(r, {"run_id", "turn_id"})
    /\ Get(r, "event_id") \notin s.event_ids \cup {None}
    /\ Get(r, "event_kind") \in {"output", "completed", "failed"}
    /\ Get(r, "payload_sha256") \in Payload

\* s.checkpoint is the checkpoint before, as the loop after the records has it.
CheckpointSound(s, r) ==
    /\ HasScope(r, {"run_id"})
    /\ Get(r, "checkpoint_id") # None
    /\ Get(r, "checkpoint_sequence") \in Nat
    /\ Get(r, "completed_count") \in Nat
    /\ Get(r, "plan_sha256") \in Payload
    /\ IF s.checkpoint = None
       THEN Get(r, "parent_checkpoint_id") = None /\ r.checkpoint_sequence = 0
       ELSE /\ Get(r, "parent_checkpoint_id") = s.checkpoint.checkpoint_id
            /\ r.checkpoint_sequence = s.checkpoint.checkpoint_sequence + 1
            /\ r.plan_sha256 = s.checkpoint.plan_sha256
            /\ r.completed_count >= s.checkpoint.completed_count

\* binding is fixed by the first approval or effect.
Bound(s, r) ==
    IF s.binding = None THEN <<Get(r, "tool"), Get(r, "payload_sha256")>> ELSE s.binding

BindingSound(s, r) ==
    /\ Get(r, "tool") # None
    /\ Get(r, "payload_sha256") \in Payload
    /\ Bound(s, r) = <<r.tool, r.payload_sha256>>
    /\ Get(r, "effect_sha256") = EffectFingerprint(Bound(s, r))

ApprovalSound(s, r) ==
    BindingSound(s, r) /\ Get(r, "decision") \in {"approved", "denied"}

\* Seeded fault: a denial before the effect is not looked at.
EffectIgnoresDenial(s, r) ==
    BindingSound(s, r) /\ s.approved # None /\ s.approved < r.sequence

EffectSound(s, r) ==
    /\ BindingSound(s, r)
    /\ s.approved # None /\ s.approved < r.sequence
    /\ s.denied # None => s.denied >= r.sequence

\* Evidence and completions are compared with the binding once there is one.
Fingerprinted(s, r) ==
    s.binding # None => Get(r, "effect_sha256") = EffectFingerprint(s.binding)

EvidenceSound(s, r) ==
    /\ Get(r, "evidence_id") \notin {Get(e, "evidence_id") : e \in ToSet(s.evidence)} \cup {None}
    /\ Get(r, "revision") \in Nat
    /\ Get(r, "readback") \in {"present", "absent", "ambiguous"}
    /\ Fingerprinted(s, r)
    /\ s.evidence # <<>> =>
        LET previous == Last(s.evidence)
        IN \/ r.revision > previous.revision
           \/ /\ r.revision = previous.revision
              /\ r.readback = previous.readback
              /\ Get(r, "effect_sha256") = Get(previous, "effect_sha256")

\* Seeded fault: a completion may name any present evidence, the latest or not.
CompletionOfAnyEvidence(s, r) ==
    /\ s.completions = 0
    /\ Fingerprinted(s, r)
    /\ \E e \in ToSet(s.evidence) :
        /\ e.evidence_id = Get(r, "evidence_id")
        /\ e.readback = "present"
        /\ Get(e, "effect_sha256") = Get(r, "effect_sha256")

CompletionSound(s, r) ==
    /\ s.completions = 0
    /\ Fingerprinted(s, r)
    /\ \E e \in ToSet(s.evidence) :
        /\ e.evidence_id = Get(r, "evidence_id")
        /\ e.readback = "present"
        /\ e.revision = Get(r, "revision")
        /\ Get(e, "effect_sha256") = Get(r, "effect_sha256")
    /\ Get(r, "revision") = Max({e.revision : e \in ToSet(s.evidence)})

RecordSound(s, r) ==
    LET kind == Get(r, "kind")
    IN /\ Get(r, "record_id") # None
       /\ Get(r, "sequence") \in Nat \ {0}
       /\ kind \in _RECORD_KINDS
       /\ kind \notin {"runtime_event", "checkpoint"} => HasScope(r, {"operation_id", "provider"})
       /\ kind = "runtime_event" => EventSound(s, r)
       /\ kind = "checkpoint" => CheckpointSound(s, r)
       /\ kind = "approval" => ApprovalSound(s, r)
       /\ kind = "effect" => EffectSound(s, r)
       /\ kind = "provider_evidence" => EvidenceSound(s, r)
       /\ kind = "reconciliation_completion" => CompletionSound(s, r)

\* The local variables after a sound record.
Remembered(s, r) ==
    CASE r.kind = "runtime_event" -> [s EXCEPT !.event_ids = @ \cup {r.event_id}]
      [] r.kind = "checkpoint" -> [s EXCEPT !.checkpoint = r]
      [] r.kind = "effect" -> [s EXCEPT !.binding = Bound(s, r)]
      [] r.kind = "approval" ->
            [s EXCEPT !.binding = Bound(s, r),
                      !.approved = IF r.decision = "approved" THEN r.sequence ELSE @,
                      !.denied = IF r.decision = "denied" THEN r.sequence ELSE @]
      [] r.kind = "provider_evidence" -> [s EXCEPT !.evidence = Append(@, r)]
      [] OTHER -> [s EXCEPT !.completions = @ + 1]

ReadRecord(s, r) ==
    IF s.sound /\ RecordSound(s, r) THEN Remembered(s, r) ELSE [s EXCEPT !.sound = FALSE]

StrictlyIncreasing(trace) ==
    \A i \in 2 .. Len(trace) : trace[i - 1].sequence < trace[i].sequence

\* validate_trace returns no violations.
Accepted(trace) ==
    /\ FoldLeft(ReadRecord, Unread, trace).sound
    /\ StrictlyIncreasing(trace)
    /\ IsInjective([i \in DOMAIN trace |-> trace[i].record_id])
=============================================================================
