--------------------------- MODULE TraceIntegrity ---------------------------
(***************************************************************************)
(* trace_integrity.py: the validator of cross-layer traces, between the    *)
(* traces it is given and the rules it enforces.                           *)
(*                                                                         *)
(* A trace grows by any record of the right types for as long as it is     *)
(* accepted, and then suffers one of the mutations that the validator is   *)
(* evaluated with.                                                         *)
(***************************************************************************)
EXTENDS TraceValidator

CONSTANTS
    RecordKind,     \* the kinds of record a trace may hold in this instance
    Id,             \* event, evidence and checkpoint ids
    MaxNumber, MaxRecords,      \* bounds: the numbers in a record, the trace
    MaxMutated,     \* bound: the longest trace that is mutated
    Foreign         \* a name outside the trace's scope

ASSUME KindAssumption == RecordKind \subseteq _RECORD_KINDS

ASSUME LengthAssumption == {MaxNumber, MaxRecords, MaxMutated} \subseteq Nat

VARIABLES
    records,    \* the trace's records
    base,       \* history: the records before the mutation
    mutation    \* history: the mutation, or None

traceVars == <<records, base, mutation>>

-----------------------------------------------------------------------------
\* The record r with more fields.
Extended(r, more) ==
    [f \in DOMAIN r \cup DOMAIN more |-> IF f \in DOMAIN r THEN r[f] ELSE more[f]]

\* The records of each kind, with the schema's required fields, within the scope.
InScope(fields) == [f \in fields |-> scope[f]]

EffectDigest == {EffectFingerprint(<<"tool", p>>) : p \in Payload}

RequiredFields ==
    {Extended(r, InScope({"run_id", "turn_id"})) :
        r \in [kind : {"runtime_event"}, event_id : Id, event_kind : {"output"},
               payload_sha256 : Payload]}
    \cup {Extended(r, InScope({"run_id"})) :
        r \in [kind : {"checkpoint"}, checkpoint_id : Id, parent_checkpoint_id : Id \cup {None},
               checkpoint_sequence : 0 .. MaxNumber, plan_sha256 : Payload,
               completed_count : 0 .. 1]}
    \cup {Extended(r, InScope({"provider", "operation_id"})) :
        r \in [kind : {"approval"}, tool : {"tool"}, payload_sha256 : Payload,
               effect_sha256 : EffectDigest, decision : {"approved", "denied"}]
         \cup [kind : {"effect"}, tool : {"tool"}, payload_sha256 : Payload,
               effect_sha256 : EffectDigest, idempotency_key : {"key"}]
         \cup [kind : {"provider_evidence"}, evidence_id : Id, revision : 0 .. MaxNumber,
               readback : {"present", "absent"}, effect_sha256 : EffectDigest]
         \cup [kind : {"reconciliation_completion"}, evidence_id : Id,
               revision : 0 .. MaxNumber, effect_sha256 : EffectDigest]}

\* The values a mutation replaces a field's value by.
Values(field) ==
    {None} \cup
    CASE field \in DOMAIN scope -> {scope[field], Foreign}
      [] field \in {"event_id", "evidence_id", "checkpoint_id", "parent_checkpoint_id"} -> Id
      [] field \in {"payload_sha256", "plan_sha256"} -> Payload
      [] field = "effect_sha256" -> EffectDigest
      [] field = "decision" -> {"approved", "denied"}
      [] field = "readback" -> {"present", "absent"}
      [] field \in {"revision", "checkpoint_sequence", "completed_count"} -> -1 .. MaxNumber
      [] field \in {"sequence", "record_id"} -> 0 .. MaxRecords
      [] field = "kind" -> RecordKind
      [] OTHER -> {Foreign}

Mutation ==
    [operator : {"remove"}, index : DOMAIN records]
    \cup UNION {[operator : {"replace"}, index : {i}, field : {f}, value : Values(f)]
                \cup [operator : {"remove"}, index : {i}, field : {f}] :
                 i \in DOMAIN records, f \in UNION {DOMAIN records[j] : j \in DOMAIN records}}

ApplyMutation(m) ==
    IF "field" \notin DOMAIN m THEN RemoveAt(records, m.index)
    ELSE IF m.operator = "remove"
    THEN [records EXCEPT ![m.index] = Restrict(@, DOMAIN @ \ {m.field})]
    ELSE [records EXCEPT ![m.index][m.field] = m.value]

\* The names, fields and values of records; None (JSON null) is not one of them,
\* nor one of the records and mutations it stands in for.
Name ==
    _RECORD_KINDS \cup {scope[f] : f \in DOMAIN scope}
    \cup {"tool", "key", "output", "completed", "failed", "approved", "denied",
           "present", "absent", "ambiguous"}

CheckpointFields ==
    {"kind", "sequence", "record_id", "run_id", "checkpoint_id", "parent_checkpoint_id",
     "checkpoint_sequence", "plan_sha256", "completed_count"}

FieldName ==
    CheckpointFields \cup DOMAIN scope
    \cup {"event_id", "event_kind", "payload_sha256", "tool", "effect_sha256", "decision",
           "idempotency_key", "evidence_id", "revision", "readback"}

Value == Int \cup Name \cup Payload \cup Id \cup EffectDigest \cup {Foreign, None}

ASSUME MissingAssumption ==
    /\ None \notin Int \cup Name \cup Payload \cup Id \cup EffectDigest
    /\ None \notin {"tool", Foreign} \X Payload
    /\ \A fields \in {CheckpointFields, CheckpointFields \ {"parent_checkpoint_id"}} :
        None \notin [fields -> Value]
    /\ None \notin [operator : {"replace"}, index : Nat, field : FieldName, value : Value]
    /\ None \notin [operator : {"remove"}, index : Nat, field : FieldName]
    /\ None \notin [operator : {"remove"}, index : Nat]

ASSUME ForeignAssumption ==
    Foreign \notin {None, "tool", "output", "completed", "failed"}
                    \cup {scope[f] : f \in DOMAIN scope}

TraceInit == records = <<>> /\ base = <<>> /\ mutation = None

\* The next record is written.
Write(r) ==
    /\ mutation = None
    /\ Len(records) < MaxRecords
    /\ Accepted(records)
    /\ records' = Append(records, Extended(r, [sequence |-> Len(records) + 1,
                                               record_id |-> Len(records) + 1]))
    /\ UNCHANGED <<base, mutation>>

\* One mutation, which has to apply and to change the trace.
Mutate(m) ==
    /\ mutation = None
    /\ Len(records) <= MaxMutated
    /\ Accepted(records)
    /\ "field" \in DOMAIN m => m.field \in DOMAIN records[m.index]
    /\ records' = ApplyMutation(m)
    /\ records' # records
    /\ base' = records
    /\ mutation' = m

TraceNext ==
    \/ \E r \in RequiredFields : r.kind \in RecordKind /\ Write(r)
    \/ \E m \in Mutation : Mutate(m)

TraceSpec == TraceInit /\ [][TraceNext]_traceVars

-----------------------------------------------------------------------------
(* What makes a trace coherent, and what makes it consistent, without reference to how
   it is read. *)

At(t, kinds) == {i \in DOMAIN t : t[i].kind \in kinds}

Bindings(t) == At(t, {"approval", "effect"})

\* A missing one contradicts nothing, unless a rule below gives it a value.
Optional == {"parent_checkpoint_id", "effect_sha256", "idempotency_key"}

RecordIsWellTyped(r) ==
    /\ \A f \in DOMAIN r \ Optional : r[f] # None
    /\ \E required \in RequiredFields :
        Get(r, "kind") = required.kind /\ DOMAIN required \ DOMAIN r \subseteq Optional
    /\ {"record_id", "sequence"} \subseteq DOMAIN r
    /\ Get(r, "event_kind") # Foreign
    /\ \A f \in DOMAIN r \cap DOMAIN scope : r[f] = scope[f]
    /\ \A f \in DOMAIN r \cap {"revision", "checkpoint_sequence", "completed_count"} : r[f] >= 0

WellTyped(t) == \A i \in DOMAIN t : RecordIsWellTyped(t[i])

Ordered(t) ==
    /\ \A i \in DOMAIN t : t[i].sequence > 0
    /\ \A i, j \in DOMAIN t :
        i < j => /\ t[i].sequence < t[j].sequence
                 /\ t[i].record_id # t[j].record_id

EventsAreDistinct(t) ==
    \A i, j \in At(t, {"runtime_event"}) : t[i].event_id = t[j].event_id => i = j

OneEffectIsApproved(t) ==
    /\ \A i \in Bindings(t) :
        Get(t[i], "effect_sha256")
            = EffectFingerprint(<<t[i].tool, t[i].payload_sha256>>)
    /\ \A i \in Bindings(t), j \in DOMAIN t \ At(t, {"runtime_event", "checkpoint"}) :
        i < j => Get(t[i], "effect_sha256") = Get(t[j], "effect_sha256")
    /\ \A i \in At(t, {"effect"}) :
        /\ \E j \in At(t, {"approval"}) : j < i /\ t[j].decision = "approved"
        /\ \A j \in At(t, {"approval"}) : j < i => t[j].decision = "approved"

CheckpointsFormALineage(t) ==
    \A i \in At(t, {"checkpoint"}) :
        LET earlier == {j \in At(t, {"checkpoint"}) : j < i}
        IN /\ t[i].checkpoint_sequence = Cardinality(earlier)
           /\ Get(t[i], "parent_checkpoint_id")
                = IF earlier = {} THEN None ELSE t[Max(earlier)].checkpoint_id
           /\ \A j \in earlier :
                /\ t[j].plan_sha256 = t[i].plan_sha256
                /\ t[j].completed_count <= t[i].completed_count

EvidenceIsMonotonic(t) ==
    \A i, j \in At(t, {"provider_evidence"}) :
        i < j => /\ t[i].evidence_id # t[j].evidence_id
                 /\ t[i].revision <= t[j].revision
                 /\ t[i].revision = t[j].revision =>
                        /\ t[i].readback = t[j].readback
                        /\ Get(t[i], "effect_sha256") = Get(t[j], "effect_sha256")

CompletionBindsLatestEvidence(t) ==
    /\ Cardinality(At(t, {"reconciliation_completion"})) <= 1
    /\ \A i \in At(t, {"reconciliation_completion"}) :
        /\ \E j \in At(t, {"provider_evidence"}) :
            /\ j < i
            /\ t[j].readback = "present"
            /\ t[j].evidence_id = t[i].evidence_id
            /\ t[j].revision = t[i].revision
            /\ Get(t[j], "effect_sha256") = Get(t[i], "effect_sha256")
        /\ \A j \in At(t, {"provider_evidence"}) : j < i => t[j].revision <= t[i].revision

\* No value in the trace has a wrong type or contradicts another one.
Coherent(t) ==
    /\ WellTyped(t)
    /\ Ordered(t)
    /\ EventsAreDistinct(t)
    /\ OneEffectIsApproved(t)
    /\ CheckpointsFormALineage(t)
    /\ EvidenceIsMonotonic(t)
    /\ CompletionBindsLatestEvidence(t)

HasRequiredFields(r) ==
    \E required \in RequiredFields : r.kind = required.kind /\ DOMAIN required \subseteq DOMAIN r

CheckpointIdsDiffer(t) ==
    \A i, j \in At(t, {"checkpoint"}) : t[i].checkpoint_id = t[j].checkpoint_id => i = j

\* The schema: a coherent trace with all required fields and a lineage without a repetition.
Consistent(t) ==
    /\ Coherent(t)
    /\ \A i \in DOMAIN t : HasRequiredFields(t[i])
    /\ CheckpointIdsDiffer(t)

\* The validator, which reads each record once and remembers little, accepts a trace if
\* and only if no record has a value of a wrong type or contradicts another record
\* (trace_integrity.py:102-324).  In particular it accepts every trace that satisfies the
\* schema.  The converse fails: a coherent trace may lack four fields that
\* TRACE_SCHEMA.json requires, the parent_checkpoint_id of a root checkpoint (line 31;
\* trace_integrity.py:303), the idempotency_key of an effect (line 44) and, unless an
\* approval or effect comes before, the effect_sha256 of evidence (line 54;
\* trace_integrity.py:241) and of the completion that names it (line 63;
\* trace_integrity.py:264), and a checkpoint id may come back (line 12;
\* trace_integrity.py:308).  AcceptedTracesAreConsistent is the property these violate.
\* What the schema leaves open is left open: evidence is bound by the approvals and
\* effects before it only (line 10 binds approvals and effects to each other).
AcceptsExactlyCoherentTraces == Accepted(records) <=> Coherent(records)

\* Every accepted trace has the fields that TRACE_SCHEMA.json requires of its records
\* (lines 16-75) and a linear lineage (line 12).  The code does not keep to this:
\* validate_trace reads fields with get and takes a missing one for None.
AcceptedTracesAreConsistent == Accepted(records) => Consistent(records)

\* The corruptions of MUTATIONS.json, of any record of any trace.
Corrupts(m) ==
    LET r == base[m.index]
        others(kind) == {i \in DOMAIN base \ {m.index} : base[i].kind = kind}
        earlier(kind) == {i \in others(kind) : i < m.index}
    IN /\ m.operator = "replace"
       /\ \/ m.field \in {"run_id", "turn_id", "provider", "operation_id"}
          \/ m.field = "event_id" /\ \E i \in others(r.kind) : base[i].event_id = m.value
          \/ m.field = "sequence" /\ \E i \in DOMAIN base : base[i].sequence = m.value
          \/ m.field \in {"tool", "payload_sha256", "effect_sha256"}
                /\ r.kind \in {"approval", "effect"}
          \/ m.field \in {"parent_checkpoint_id", "checkpoint_sequence"}
          \/ m.field = "plan_sha256" /\ others("checkpoint") # {}
          \/ m.field = "revision" /\ r.kind = "provider_evidence"
                /\ \/ m.value = None
                   \/ \E i \in earlier(r.kind) :
                        \/ m.value < base[i].revision
                        \/ m.value = base[i].revision /\ r.readback # base[i].readback
          \/ m.field = "evidence_id" /\ r.kind = "reconciliation_completion"
                /\ \E i \in others("provider_evidence") :
                    /\ base[i].evidence_id = m.value
                    /\ base[i].readback # "present" \/ base[i].revision # r.revision
          \/ m.field \in {"revision", "effect_sha256"} /\ r.kind = "reconciliation_completion"

\* Each of the fifteen frozen corruptions is detected in every accepted trace, and
\* not only in the three baselines (evals/trace_integrity_v1/MUTATIONS.json): no
\* other record can make up for a foreign scope, a drifted effect, a rewound
\* lineage or revision, or a completion of other evidence.
CorruptionIsDetected == mutation # None => ~ (Corrupts(mutation) /\ Accepted(records))

=============================================================================
