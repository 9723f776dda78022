--------------------------- MODULE ReconcilerProofs ---------------------------
(***************************************************************************)
(* Reconciler's safety for any number of workers, providers, operations    *)
(* and evidence ids and any revision bound.                                *)
(*                                                                         *)
(* The argument: the provider's past is a fact that no later step changes  *)
(* (HistoryIsExact, HistoryStep).  Whatever was true of the provider at a  *)
(* revision therefore stays true of that revision, so delayed readbacks,   *)
(* stored heads and held records all speak truly of the past               *)
(* (ReadbacksWereTrue, VerdictsWereTrue) and two of them about the same    *)
(* revision agree.  A worker holds the head or an older one                *)
(* (HeldBehindHeads); if the provider still honours what it holds, its     *)
(* revision is the provider's newest, so no newer head can exist.          *)
(*                                                                         *)
(* The evidence store comes first: what it guarantees for EVERY sequence   *)
(* of readbacks, true or not.  The workers' loop comes last: it only       *)
(* restricts the order of the calls.                                       *)
(***************************************************************************)
EXTENDS ReconcilerLoop, TLAPS

-----------------------------------------------------------------------------
(* The evidence store.  Its invariant adds to the type invariant that heads  *)
(* are filed under their own identity and hold one of the two decisions      *)
(* reconcile_lost_ack builds: without the second, a head of action           *)
(* "accept_remote_commit" need not be the accepting decision.                *)

WellFormedRecord(rec) ==
    \/ rec.decision = AcceptRemoteCommit
    \/ rec.decision = RetryExactOperation(rec.operation, rec.revision)

HeadsFiled ==
    \A k \in Identity : heads[k] # None =>
        /\ IdentityOf(heads[k].operation) = k
        /\ WellFormedRecord(heads[k])

EvidenceInv ==
    /\ EvidenceTypeOK
    /\ HeadsFiled
    /\ CompletedNeverRegainsRetry

-----------------------------------------------------------------------------
\* Every operation has an identity under which the two tables are indexed.
LEMMA IdentityType ==
    ASSUME NEW op \in Operation
    PROVE  IdentityOf(op) \in Identity
BY DEF IdentityOf, Operation, Identity

\* What record would store is a record of the type of the table, and carries
\* one of the two decisions (reconciliation.py:140-144, 168-177).
LEMMA CandidateType ==
    ASSUME NEW op \in Operation, NEW id \in EvidenceId, NEW ev \in ProviderEvidence,
           ev.revision # None
    PROVE  /\ Candidate(op, id, ev) \in EvidenceRecord
           /\ Candidate(op, id, ev).operation = op
           /\ Candidate(op, id, ev).revision = ev.revision
           /\ Candidate(op, id, ev).decision = ReconcileLostAck(op, ev)
           /\ WellFormedRecord(Candidate(op, id, ev))
<1>1. ev.revision \in Revision
  BY DEF ProviderEvidence
<1>2. ReconcileLostAck(op, ev) \in ReconciliationDecision
  BY <1>1 DEF ReconcileLostAck, AcceptRemoteCommit, RetryExactOperation,
              ReconciliationDecision
<1>3. ReconcileLostAck(op, ev) \in
          {AcceptRemoteCommit, RetryExactOperation(op, ev.revision)}
  BY DEF ReconcileLostAck
<1> QED
  BY <1>1, <1>2, <1>3 DEF Candidate, EvidenceRecord, WellFormedRecord

\* The two decisions are told apart by their action.
LEMMA DecisionsDiffer ==
    ASSUME NEW op, NEW r
    PROVE  /\ AcceptRemoteCommit.action = "accept_remote_commit"
           /\ RetryExactOperation(op, r).action = "retry_exact_operation"
           /\ RetryExactOperation(op, r).precondition = r
           /\ RetryExactOperation(op, r).effect = op
           /\ AcceptRemoteCommit # RetryExactOperation(op, r)
<1>1. AcceptRemoteCommit.action # RetryExactOperation(op, r).action
  BY DEF AcceptRemoteCommit, RetryExactOperation
<1> QED
  BY <1>1 DEF AcceptRemoteCommit, RetryExactOperation

-----------------------------------------------------------------------------
\* One call of record, seen as a change of a single head (lines 156-195).
LEMMA RecordChanges ==
    ASSUME EvidenceInv,
           NEW op \in Operation, NEW id \in EvidenceId, NEW ev \in ProviderEvidence,
           Record(op, id, ev)
    PROVE  LET k == IdentityOf(op) IN
           /\ k \in Identity
           /\ completions' = completions
           /\ heads' = [heads EXCEPT ![k] = RecordResult(op, id, ev)]
           /\ RecordResult(op, id, ev) \in EvidenceRecord
           /\ RecordResult(op, id, ev).operation = op
           /\ RecordResult(op, id, ev).revision = ev.revision
           /\ RecordResult(op, id, ev).decision = ReconcileLostAck(op, ev)
           /\ WellFormedRecord(RecordResult(op, id, ev))
           /\ heads[k] # None =>
                /\ heads[k].operation = op
                /\ \/ RecordResult(op, id, ev) = heads[k]
                   \/ ev.revision > heads[k].revision
           /\ completions[k] # None =>
                /\ completions[k].operation = op
                /\ ReconcileLostAck(op, ev).action # "retry_exact_operation"
<1> DEFINE k == IdentityOf(op)
           c == Candidate(op, id, ev)
<1>1. k \in Identity
  BY IdentityType
<1>2. /\ c \in EvidenceRecord
      /\ c.operation = op
      /\ c.revision = ev.revision
      /\ c.decision = ReconcileLostAck(op, ev)
      /\ WellFormedRecord(c)
  BY CandidateType DEF Record, Recordable
<1>3. /\ completions' = completions
      /\ heads' = [heads EXCEPT ![k] = RecordResult(op, id, ev)]
      /\ RecordResult(op, id, ev) = Persisted(c, heads[k])
      /\ HeadAllows(c, heads[k])
      /\ CompletionAllows(c, completions[k])
  BY DEF Record, Recordable, RecordResult
<1>4. completions[k] # None =>
        /\ completions[k].operation = op
        /\ ReconcileLostAck(op, ev).action # "retry_exact_operation"
  BY <1>2, <1>3 DEF CompletionAllows
<1>5. CASE heads[k] = None
  <2>1. RecordResult(op, id, ev) = c
    BY <1>3, <1>5 DEF Persisted
  <2> QED
    BY <1>1, <1>2, <1>3, <1>4, <1>5, <2>1
<1>6. CASE heads[k] # None
  <2>1. /\ heads[k] \in EvidenceRecord
        /\ WellFormedRecord(heads[k])
    BY <1>1, <1>6 DEF EvidenceInv, EvidenceTypeOK, HeadsFiled
  <2>2. /\ heads[k].operation = op
        /\ \/ ev.revision > heads[k].revision
           \/ /\ ev.revision = heads[k].revision
              /\ ReconcileLostAck(op, ev) = heads[k].decision
    BY <1>2, <1>3, <1>6 DEF HeadAllows
  <2>3. CASE ev.revision = heads[k].revision
    <3>1. RecordResult(op, id, ev) = heads[k]
      BY <1>2, <1>3, <1>6, <2>3 DEF Persisted
    <3>2. ~ (ev.revision > heads[k].revision)
      BY <2>1, <2>3, BoundAssumption DEF EvidenceRecord, Revision
    <3> QED
      BY <1>1, <1>3, <1>4, <1>6, <2>1, <2>2, <2>3, <3>1, <3>2
  <2>4. CASE ev.revision # heads[k].revision
    <3>1. RecordResult(op, id, ev) = c
      BY <1>2, <1>3, <2>4 DEF Persisted
    <3> QED
      BY <1>1, <1>2, <1>3, <1>4, <1>6, <2>2, <2>4, <3>1
  <2> QED
    BY <2>3, <2>4
<1> QED
  BY <1>5, <1>6

\* One call of mark_reconciled: from an accepting head, the first completion is
\* written and a later call changes nothing (lines 246-290).
LEMMA MarkChanges ==
    ASSUME EvidenceInv,
           NEW op \in Operation, NEW id \in EvidenceId, NEW decision,
           MarkReconciled(op, id, decision)
    PROVE  LET k == IdentityOf(op) IN
           /\ k \in Identity
           /\ heads' = heads
           /\ heads[k] # None
           /\ heads[k] \in EvidenceRecord
           /\ heads[k].operation = op
           /\ heads[k].decision = AcceptRemoteCommit
           /\ completions' = [completions EXCEPT ![k] = CompletionResult(op, id)]
           /\ CompletionResult(op, id) \in CompletionRecord
           /\ CompletionResult(op, id).operation = op
           /\ CompletionResult(op, id).revision <= heads[k].revision
           /\ completions[k] # None => completions' = completions
           /\ completions[k] = None =>
                CompletionResult(op, id).revision = heads[k].revision
<1> DEFINE k == IdentityOf(op)
<1>1. k \in Identity
  BY IdentityType
<1>2. /\ heads' = heads
      /\ heads[k] # None
      /\ heads[k].operation = op
      /\ heads[k].decision = decision
      /\ decision.action = "accept_remote_commit"
      /\ completions' = [completions EXCEPT ![k] = CompletionResult(op, id)]
      /\ completions[k] # None => completions[k].operation = op
  BY DEF MarkReconciled, Completable, AssertCurrent, HasCurrent
<1>3. heads[k] \in EvidenceRecord
  BY <1>1, <1>2 DEF EvidenceInv, EvidenceTypeOK
<1>4. heads[k].decision = AcceptRemoteCommit
  BY <1>1, <1>2, DecisionsDiffer DEF EvidenceInv, HeadsFiled, WellFormedRecord
<1>5. CASE completions[k] = None
  <2>1. CompletionResult(op, id) =
          [operation |-> op, evidence_id |-> id, revision |-> heads[k].revision]
    BY <1>5 DEF CompletionResult, Completion
  <2>2. heads[k].revision \in Revision
    BY <1>3 DEF EvidenceRecord
  <2>3. /\ CompletionResult(op, id) \in CompletionRecord
        /\ CompletionResult(op, id).operation = op
        /\ CompletionResult(op, id).revision = heads[k].revision
    BY <2>1, <2>2 DEF CompletionRecord
  <2>4. CompletionResult(op, id).revision <= heads[k].revision
    BY <2>2, <2>3, BoundAssumption DEF Revision
  <2> QED
    BY <1>1, <1>2, <1>3, <1>4, <1>5, <2>3, <2>4
<1>6. CASE completions[k] # None
  <2>1. CompletionResult(op, id) = completions[k]
    BY <1>6 DEF CompletionResult
  <2>2. /\ completions[k] \in CompletionRecord
        /\ completions[k].revision <= heads[k].revision
    BY <1>1, <1>6 DEF EvidenceInv, EvidenceTypeOK, CompletedNeverRegainsRetry
  <2>3. completions' = completions
    BY <1>1, <1>2, <2>1 DEF EvidenceInv, EvidenceTypeOK
  <2> QED
    BY <1>1, <1>2, <1>3, <1>4, <1>6, <2>1, <2>2, <2>3
<1> QED
  BY <1>5, <1>6
-----------------------------------------------------------------------------
\* The inductive step, stated for any call so that a larger system whose steps
\* make these calls can cite it.
LEMMA RecordKeepsInv ==
    ASSUME EvidenceInv,
           NEW op \in Operation, NEW id \in EvidenceId, NEW ev \in ProviderEvidence,
           Record(op, id, ev)
    PROVE  EvidenceInv'
<1> DEFINE k == IdentityOf(op)
           rec == RecordResult(op, id, ev)
<1>1. /\ k \in Identity
      /\ completions' = completions
      /\ heads' = [heads EXCEPT ![k] = rec]
      /\ rec \in EvidenceRecord
      /\ rec.operation = op
      /\ rec.revision = ev.revision
      /\ rec.decision = ReconcileLostAck(op, ev)
      /\ WellFormedRecord(rec)
      /\ heads[k] # None =>
           /\ heads[k].operation = op
           /\ rec = heads[k] \/ ev.revision > heads[k].revision
      /\ completions[k] # None =>
           /\ completions[k].operation = op
           /\ ReconcileLostAck(op, ev).action # "retry_exact_operation"
  BY RecordChanges
<1> HIDE DEF rec
<1>2. /\ heads'[k] = rec
      /\ \A j \in Identity : j # k => heads'[j] = heads[j]
  BY <1>1 DEF EvidenceInv, EvidenceTypeOK
<1>3. EvidenceTypeOK'
  BY <1>1 DEF EvidenceInv, EvidenceTypeOK
<1>4. HeadsFiled'
  BY <1>1, <1>2 DEF EvidenceInv, HeadsFiled, WellFormedRecord
<1>5. CompletedNeverRegainsRetry'
  <2> SUFFICES ASSUME NEW j \in Identity, completions[j] # None
               PROVE  /\ heads'[j] # None
                      /\ heads'[j].operation = completions[j].operation
                      /\ heads'[j].decision = AcceptRemoteCommit
                      /\ completions[j].revision <= heads'[j].revision
    BY <1>1 DEF CompletedNeverRegainsRetry
  <2>1. CASE j # k
    BY <1>2, <2>1 DEF EvidenceInv, CompletedNeverRegainsRetry
  <2>2. CASE j = k
    <3>1. /\ heads[k] # None
          /\ heads[k] \in EvidenceRecord
          /\ completions[k] \in CompletionRecord
          /\ heads[k].decision = AcceptRemoteCommit
          /\ completions[k].revision <= heads[k].revision
      BY <1>1, <2>2 DEF EvidenceInv, EvidenceTypeOK, CompletedNeverRegainsRetry
    <3>2. completions[k].revision <= rec.revision
      BY <1>1, <3>1, BoundAssumption DEF EvidenceRecord, CompletionRecord, Revision
    <3>3. rec.decision = AcceptRemoteCommit
      BY <1>1, <2>2, DecisionsDiffer DEF WellFormedRecord
    <3>4. rec # None
      BY <1>1, NoneIsNoRecord
    <3> QED
      BY <1>1, <1>2, <2>2, <3>2, <3>3, <3>4
  <2> QED
    BY <2>1, <2>2
<1> QED
  BY <1>3, <1>4, <1>5 DEF EvidenceInv

LEMMA MarkKeepsInv ==
    ASSUME EvidenceInv,
           NEW op \in Operation, NEW id \in EvidenceId, NEW decision,
           MarkReconciled(op, id, decision)
    PROVE  EvidenceInv'
<1> DEFINE k == IdentityOf(op)
           c == CompletionResult(op, id)
<1>1. /\ k \in Identity
      /\ heads' = heads
      /\ heads[k] # None
      /\ heads[k].operation = op
      /\ heads[k].decision = AcceptRemoteCommit
      /\ completions' = [completions EXCEPT ![k] = c]
      /\ c \in CompletionRecord
      /\ c.operation = op
      /\ c.revision <= heads[k].revision
  BY MarkChanges
<1> HIDE DEF c
<1>2. EvidenceTypeOK'
  BY <1>1 DEF EvidenceInv, EvidenceTypeOK
<1>3. HeadsFiled'
  BY <1>1 DEF EvidenceInv, HeadsFiled, WellFormedRecord
<1>4. CompletedNeverRegainsRetry'
  BY <1>1 DEF EvidenceInv, EvidenceTypeOK, CompletedNeverRegainsRetry
<1> QED
  BY <1>2, <1>3, <1>4 DEF EvidenceInv

LEMMA InitInv == EvidenceInit => EvidenceInv
BY DEF EvidenceInit, EvidenceInv, EvidenceTypeOK, HeadsFiled, CompletedNeverRegainsRetry

LEMMA StutterKeepsInv == EvidenceInv /\ UNCHANGED evidenceVars => EvidenceInv'
BY DEF evidenceVars, EvidenceInv, EvidenceTypeOK, HeadsFiled, WellFormedRecord,
       CompletedNeverRegainsRetry

LEMMA NextKeepsInv == EvidenceInv /\ [EvidenceNext]_evidenceVars => EvidenceInv'
<1> SUFFICES ASSUME EvidenceInv, [EvidenceNext]_evidenceVars PROVE EvidenceInv'
  OBVIOUS
<1>1. CASE UNCHANGED evidenceVars
  BY <1>1, StutterKeepsInv
<1>2. CASE EvidenceNext
  BY <1>2, RecordKeepsInv, MarkKeepsInv DEF EvidenceNext
<1> QED
  BY <1>1, <1>2

\* The inductive invariant of the evidence store (evidence_lineage.py:97-290).
THEOREM EvidenceInvariant == EvidenceSpec => []EvidenceInv
BY InitInv, NextKeepsInv, PTL DEF EvidenceSpec

\* The rows of the two tables keep their types.
THEOREM EvidenceTypeCorrect == EvidenceSpec => []EvidenceTypeOK
BY EvidenceInvariant, PTL DEF EvidenceInv

\* mark_reconciled is a point of no return: no later readback, not even a false
\* one, gives a completed identity retry authority again (lines 139-148).
THEOREM CompletedStaysAccepted == EvidenceSpec => []CompletedNeverRegainsRetry
BY EvidenceInvariant, PTL DEF EvidenceInv

-----------------------------------------------------------------------------
\* A head is only ever replaced by newer evidence about the same operation.
LEMMA StepAdvances ==
    EvidenceInv /\ [EvidenceNext]_evidenceVars
    => [\A k \in Identity : HeadOnlyAdvances(k)]_evidenceVars
<1> SUFFICES ASSUME EvidenceInv, EvidenceNext, NEW k \in Identity, heads[k] # None
             PROVE  /\ heads'[k] # None
                    /\ heads'[k].operation = heads[k].operation
                    /\ heads'[k] = heads[k] \/ heads'[k].revision > heads[k].revision
  BY DEF HeadOnlyAdvances
<1>1. PICK op \in Operation, id \in EvidenceId :
        \/ \E ev \in ProviderEvidence : Record(op, id, ev)
        \/ \E decision \in ReconciliationDecision : MarkReconciled(op, id, decision)
  BY DEF EvidenceNext
<1>2. CASE \E ev \in ProviderEvidence : Record(op, id, ev)
  <2>1. PICK ev \in ProviderEvidence : Record(op, id, ev)
    BY <1>2
  <2> DEFINE rec == RecordResult(op, id, ev)
  <2>2. /\ heads' = [heads EXCEPT ![IdentityOf(op)] = rec]
        /\ rec \in EvidenceRecord
        /\ rec.operation = op
        /\ rec.revision = ev.revision
        /\ heads[IdentityOf(op)] # None =>
             /\ heads[IdentityOf(op)].operation = op
             /\ \/ rec = heads[IdentityOf(op)]
                \/ ev.revision > heads[IdentityOf(op)].revision
    BY <2>1, RecordChanges
  <2> HIDE DEF rec
  <2>3. heads'[k] = IF k = IdentityOf(op) THEN rec ELSE heads[k]
    BY <2>2 DEF EvidenceInv, EvidenceTypeOK
  <2>4. rec # None
    BY <2>2, NoneIsNoRecord
  <2> QED
    BY <2>2, <2>3, <2>4
<1>3. CASE \E decision \in ReconciliationDecision : MarkReconciled(op, id, decision)
  BY <1>3 DEF MarkReconciled
<1> QED
  BY <1>1, <1>2, <1>3

\* record replaces a head only by later evidence for the same operation
\* (evidence_lineage.py:150-195).
THEOREM HeadsAreMonotonic == EvidenceSpec => HeadsOnlyAdvance
BY EvidenceInvariant, StepAdvances, PTL DEF EvidenceSpec, HeadsOnlyAdvance

\* A completion, once written, is never rewritten.
LEMMA StepKeepsCompletions ==
    EvidenceInv /\ [EvidenceNext]_evidenceVars
    => [\A k \in Identity : completions[k] # None => completions'[k] = completions[k]]_evidenceVars
<1> SUFFICES ASSUME EvidenceInv, EvidenceNext, NEW k \in Identity, completions[k] # None
             PROVE  completions'[k] = completions[k]
  OBVIOUS
<1>1. PICK op \in Operation, id \in EvidenceId :
        \/ \E ev \in ProviderEvidence : Record(op, id, ev)
        \/ \E decision \in ReconciliationDecision : MarkReconciled(op, id, decision)
  BY DEF EvidenceNext
<1>2. CASE \E ev \in ProviderEvidence : Record(op, id, ev)
  BY <1>2 DEF Record
<1>3. CASE \E decision \in ReconciliationDecision : MarkReconciled(op, id, decision)
  <2>1. /\ completions' = [completions EXCEPT ![IdentityOf(op)] = CompletionResult(op, id)]
        /\ completions[IdentityOf(op)] # None => completions' = completions
    BY <1>3, MarkChanges
  <2> QED
    BY <2>1 DEF EvidenceInv, EvidenceTypeOK
<1> QED
  BY <1>1, <1>2, <1>3

\* mark_reconciled returns an existing completion as it is
\* (evidence_lineage.py:246-290).
THEOREM CompletionsAreFinal == EvidenceSpec => CompletionIsFinal
BY EvidenceInvariant, StepKeepsCompletions, PTL DEF EvidenceSpec, CompletionIsFinal

-----------------------------------------------------------------------------
(* The reconcilers. *)

ReconcilerInv ==
    /\ TypeOK
    /\ EvidenceInv
    /\ HistoryIsExact
    /\ ReadbacksWereTrue
    /\ VerdictsWereTrue
    /\ HeldBehindHeads
    /\ CompletionWasWitnessed

-----------------------------------------------------------------------------
(* Lemmas about the provider and its past. *)

\* A change of the provider, by whichever write: one provider moves one revision
\* on, and its effects stay unique for each identity.
ProviderWrite(op) ==
    /\ revision[op.provider] < MaxRevision
    /\ revision' = [revision EXCEPT ![op.provider] = @ + 1]
    /\ \/ effects' = effects \cup {op} /\ StoredFor(op) = {}
       \/ effects' = effects \ {op}
    /\ ExtendHistory(op.provider)

\* Writing extends the provider's past and leaves what is in it alone.
LEMMA HistoryStep ==
    ASSUME TypeOK, HistoryIsExact, NEW op \in Operation, ProviderWrite(op)
    PROVE  /\ ProviderTypeOK'
           /\ (presentAt \in SUBSET (Operation \X Revision))'
           /\ HistoryIsExact'
           /\ \A p \in Provider : revision[p] <= revision'[p]
           /\ \A o \in Operation, r \in Revision : r <= revision[o.provider] =>
                (<<o, r>> \in presentAt' <=> <<o, r>> \in presentAt)
<1> DEFINE p == op.provider
           next == revision[p] + 1
<1>1. /\ p \in Provider
      /\ revision[p] \in Nat
      /\ next \in Revision
      /\ revision \in [Provider -> Revision]
      /\ effects \in SUBSET Operation
      /\ presentAt \in SUBSET (Operation \X Revision)
  BY BoundAssumption DEF TypeOK, ProviderTypeOK, ProviderWrite, Operation, Revision
<1>2. /\ revision'[p] = next
      /\ \A q \in Provider : q # p => revision'[q] = revision[q]
      /\ revision' \in [Provider -> Revision]
  BY <1>1 DEF ProviderWrite
<1>3. effects' \in SUBSET Operation
  BY <1>1 DEF ProviderWrite
<1>4. presentAt' = presentAt \cup {<<e, next>> : e \in {x \in effects' : x.provider = p}}
  BY <1>2 DEF ProviderWrite, ExtendHistory
<1>5. presentAt' \in SUBSET (Operation \X Revision)
  BY <1>1, <1>3, <1>4
<1>6. \A q \in Provider : revision[q] <= revision'[q]
  BY <1>1, <1>2, BoundAssumption DEF Revision
<1>7. \A o \in Operation, r \in Revision :
        <<o, r>> \in presentAt' <=>
          (<<o, r>> \in presentAt \/ (r = next /\ o \in effects' /\ o.provider = p))
  BY <1>4
<1>8. \A o \in Operation : o.provider \in Provider
  BY DEF Operation
<1>9. \A o \in Operation, r \in Revision : r <= revision[o.provider] =>
        (<<o, r>> \in presentAt' <=> <<o, r>> \in presentAt)
  BY <1>1, <1>7, <1>8, BoundAssumption DEF Revision
<1>10. \A o \in Operation : o.provider = p => <<o, next>> \notin presentAt
  <2> SUFFICES ASSUME NEW o \in Operation, o.provider = p, <<o, next>> \in presentAt
               PROVE  FALSE
    OBVIOUS
  <2>1. next <= revision[p]
    BY <1>1 DEF HistoryIsExact
  <2> QED
    BY <1>1, <2>1
<1>11. \A o1, o2 \in effects' : IdentityOf(o1) = IdentityOf(o2) => o1 = o2
  <2>1. \A o1, o2 \in effects : IdentityOf(o1) = IdentityOf(o2) => o1 = o2
    <3> SUFFICES ASSUME NEW o1 \in effects, NEW o2 \in effects,
                        IdentityOf(o1) = IdentityOf(o2)
                 PROVE  o1 = o2
      OBVIOUS
    <3>1. /\ o1 \in Operation /\ o2 \in Operation
          /\ o1.provider = o2.provider
          /\ revision[o1.provider] \in Revision
      BY <1>1, <1>8 DEF IdentityOf
    <3>2. /\ <<o1, revision[o1.provider]>> \in presentAt
          /\ <<o2, revision[o1.provider]>> \in presentAt
      BY <3>1 DEF HistoryIsExact
    <3> QED
      BY <3>1, <3>2 DEF HistoryIsExact
  <2>2. CASE effects' = effects \ {op}
    BY <2>1, <2>2
  <2>3. CASE effects' = effects \cup {op} /\ StoredFor(op) = {}
    <3>1. \A o \in effects : IdentityOf(o) # IdentityOf(op)
      BY <2>3 DEF StoredFor
    <3> QED
      BY <2>1, <2>3, <3>1
  <2> QED
    BY <2>2, <2>3 DEF ProviderWrite
<1>12. HistoryIsExact'
  <2>1. \A o \in Operation, r \in Revision :
          <<o, r>> \in presentAt' => r <= revision'[o.provider]
    <3> SUFFICES ASSUME NEW o \in Operation, NEW r \in Revision, <<o, r>> \in presentAt'
                 PROVE  r <= revision'[o.provider]
      OBVIOUS
    <3>1. CASE <<o, r>> \in presentAt
      <4>1. r <= revision[o.provider]
        BY <3>1 DEF HistoryIsExact
      <4> QED
        BY <1>1, <1>2, <1>6, <1>8, <4>1, BoundAssumption DEF Revision
    <3>2. CASE r = next /\ o.provider = p
      BY <1>1, <1>2, <3>2, BoundAssumption DEF Revision
    <3> QED
      BY <1>7, <3>1, <3>2
  <2>2. \A o \in Operation : o \in effects' <=> <<o, revision'[o.provider]>> \in presentAt'
    <3> SUFFICES ASSUME NEW o \in Operation
                 PROVE  o \in effects' <=> <<o, revision'[o.provider]>> \in presentAt'
      OBVIOUS
    <3>1. CASE o.provider = p
      BY <1>1, <1>2, <1>7, <1>10, <3>1
    <3>2. CASE o.provider # p
      <4>1. revision'[o.provider] = revision[o.provider] /\ revision[o.provider] \in Revision
        BY <1>1, <1>2, <1>8, <3>2
      <4>2. o \in effects' <=> o \in effects
        BY <3>2 DEF ProviderWrite
      <4> QED
        BY <1>7, <3>2, <4>1, <4>2 DEF HistoryIsExact
    <3> QED
      BY <3>1, <3>2
  <2>3. \A o1, o2 \in Operation, r \in Revision :
          (<<o1, r>> \in presentAt' /\ <<o2, r>> \in presentAt'
           /\ IdentityOf(o1) = IdentityOf(o2)) => o1 = o2
    <3> SUFFICES ASSUME NEW o1 \in Operation, NEW o2 \in Operation, NEW r \in Revision,
                        <<o1, r>> \in presentAt', <<o2, r>> \in presentAt',
                        IdentityOf(o1) = IdentityOf(o2)
                 PROVE  o1 = o2
      OBVIOUS
    <3>1. o1.provider = o2.provider
      BY DEF IdentityOf
    <3>2. CASE r = next /\ o1.provider = p
      BY <1>7, <1>10, <1>11, <3>1, <3>2
    <3>3. CASE ~ (r = next /\ o1.provider = p)
      BY <1>7, <3>1, <3>3 DEF HistoryIsExact
    <3> QED
      BY <3>2, <3>3
  <2> QED
    BY <2>1, <2>2, <2>3 DEF HistoryIsExact
<1> QED
  BY <1>2, <1>3, <1>5, <1>6, <1>9, <1>12 DEF ProviderTypeOK
\* What was true of the provider's past remains true.
LEMMA TruthIsStable ==
    ASSUME TypeOK,
           \A p \in Provider : revision'[p] \in Revision /\ revision[p] <= revision'[p],
           \A o \in Operation, r \in Revision : r <= revision[o.provider] =>
               (<<o, r>> \in presentAt' <=> <<o, r>> \in presentAt)
    PROVE  /\ \A rec \in EvidenceRecord : TrueRecord(rec) => TrueRecord(rec)'
           /\ \A ev \in ProviderEvidence : TrueReadback(ev) => TrueReadback(ev)'
<1>1. \A p \in Provider : revision[p] \in Revision
  BY DEF TypeOK, ProviderTypeOK
<1>2. \A o \in Operation : o.provider \in Provider
  BY DEF Operation
<1>3. \A p \in Provider, r \in Revision : r <= revision[p] => r <= revision'[p]
  BY <1>1, BoundAssumption DEF Revision
<1>4. ASSUME NEW rec \in EvidenceRecord, TrueRecord(rec)
      PROVE  TrueRecord(rec)'
  <2>1. /\ rec.operation \in Operation
        /\ rec.operation.provider \in Provider
        /\ rec.revision \in Revision
        /\ rec.revision <= revision[rec.operation.provider]
    BY <1>2, <1>4 DEF EvidenceRecord, TrueRecord
  <2>2. rec.revision <= revision'[rec.operation.provider]
    BY <1>3, <2>1
  <2>3. \A o \in Operation : o.provider = rec.operation.provider =>
          (<<o, rec.revision>> \in presentAt' <=> <<o, rec.revision>> \in presentAt)
    BY <2>1
  <2>4. HeldAt(IdentityOf(rec.operation), rec.revision)'
          = HeldAt(IdentityOf(rec.operation), rec.revision)
    BY <2>3 DEF HeldAt, IdentityOf
  <2> QED
    BY <1>4, <2>1, <2>2, <2>3, <2>4 DEF TrueRecord
<1>5. ASSUME NEW ev \in ProviderEvidence, TrueReadback(ev)
      PROVE  TrueReadback(ev)'
  <2> SUFFICES ASSUME ev.revision # None
               PROVE  /\ ev.revision <= revision'[ev.provider]
                      /\ \A op \in Operation :
                           /\ AcceptsRemoteCommit(op, ev) => <<op, ev.revision>> \in presentAt'
                           /\ (BoundTo(op, ev) /\ ev.readback = "absent")
                              => <<op, ev.revision>> \notin presentAt'
    BY DEF TrueReadback
  <2>1. /\ ev.revision \in Revision
        /\ ev.provider \in Provider
        /\ ev.revision <= revision[ev.provider]
    BY <1>5 DEF ProviderEvidence, TrueReadback
  <2>2. \A op \in Operation : BoundTo(op, ev) =>
          (<<op, ev.revision>> \in presentAt' <=> <<op, ev.revision>> \in presentAt)
    BY <2>1 DEF BoundTo
  <2> QED
    BY <1>3, <1>5, <2>1, <2>2 DEF TrueReadback, AcceptsRemoteCommit
<1> QED
  BY <1>4, <1>5

\* A readback of the present is true (reconciliation.py:281-310).
LEMMA ReadIsTrue ==
    ASSUME TypeOK, HistoryIsExact, NEW op \in Operation, Readable(op),
           NEW ev \in {ReadResult(op)} \cup WeakReadings(op)
    PROVE  ev \in ProviderEvidence /\ TrueReadback(ev)
<1>1. /\ op.provider \in Provider /\ op.operation_id \in OperationId /\ op.effect \in Effect
      /\ op = [provider |-> op.provider, operation_id |-> op.operation_id,
               effect |-> op.effect]
      /\ revision[op.provider] \in Revision
      /\ effects \in SUBSET Operation
  BY DEF TypeOK, ProviderTypeOK, Operation
<1>2. ReadResult(op) \in ProviderEvidence
  BY <1>1 DEF ReadResult, ProviderEvidence
<1>3. ev \in ProviderEvidence
  <2>1. [ReadResult(op) EXCEPT !.readback = "ambiguous", !.observed = None, !.idempotency = op]
        \in ProviderEvidence
    BY <1>2 DEF ProviderEvidence
  <2>2. [ReadResult(op) EXCEPT !.idempotency = None] \in ProviderEvidence
    BY <1>2 DEF ProviderEvidence
  <2>3. [ReadResult(op) EXCEPT !.revision = None] \in ProviderEvidence
    BY <1>2 DEF ProviderEvidence
  <2> QED
    BY <1>2, <2>1, <2>2, <2>3 DEF WeakReadings
<1>4. /\ ev.provider = op.provider
      /\ ev.operation_id = op.operation_id
      /\ ev.revision \in {revision[op.provider], None}
      /\ ev.readback = "present" => op \in effects /\ ev.observed = op.effect
      /\ ev.readback = "absent" => op \notin effects
  <2> DEFINE full == ReadResult(op)
  <2>1. /\ full.provider = op.provider
        /\ full.operation_id = op.operation_id
        /\ full.revision = revision[op.provider]
        /\ full.readback = "present" => op \in effects /\ full.observed = op.effect
        /\ full.readback = "absent" => op \notin effects
    BY DEF ReadResult
  <2>2. full \in ProviderEvidence
    BY <1>2
  <2> HIDE DEF full
  <2>3. CASE ev = full
    BY <2>1, <2>3
  <2>4. CASE ev = [full EXCEPT !.readback = "ambiguous", !.observed = None, !.idempotency = op]
    BY <2>1, <2>2, <2>4 DEF ProviderEvidence
  <2>5. CASE ev = [full EXCEPT !.idempotency = None]
    BY <2>1, <2>2, <2>5 DEF ProviderEvidence
  <2>6. CASE ev = [full EXCEPT !.revision = None]
    BY <2>1, <2>2, <2>6 DEF ProviderEvidence
  <2> QED
    BY <2>3, <2>4, <2>5, <2>6 DEF WeakReadings, full
<1>5. TrueReadback(ev)
  <2> SUFFICES ASSUME ev.revision # None
               PROVE  /\ ev.revision <= revision[ev.provider]
                      /\ \A o \in Operation :
                           /\ AcceptsRemoteCommit(o, ev) => <<o, ev.revision>> \in presentAt
                           /\ (BoundTo(o, ev) /\ ev.readback = "absent")
                              => <<o, ev.revision>> \notin presentAt
    BY DEF TrueReadback
  <2>1. ev.revision = revision[op.provider]
    BY <1>4
  <2>2. ev.revision <= revision[ev.provider]
    BY <1>1, <1>4, <2>1, BoundAssumption DEF Revision
  <2>3. ASSUME NEW o \in Operation, AcceptsRemoteCommit(o, ev)
        PROVE  <<o, ev.revision>> \in presentAt
    <3>1. o = op
      BY <1>1, <1>4, <2>3 DEF AcceptsRemoteCommit, BoundTo, Operation
    <3>2. op \in effects
      BY <1>4, <2>3 DEF AcceptsRemoteCommit
    <3> QED
      BY <2>1, <3>1, <3>2 DEF HistoryIsExact
  <2>4. ASSUME NEW o \in Operation, BoundTo(o, ev), ev.readback = "absent"
        PROVE  <<o, ev.revision>> \notin presentAt
    <3>1. IdentityOf(o) = IdentityOf(op) /\ o.provider = op.provider
      BY <1>4, <2>4 DEF BoundTo, IdentityOf
    <3>2. o \notin effects
      BY <1>4, <2>4, <3>1 DEF Readable, StoredFor
    <3> QED
      BY <2>1, <3>1, <3>2 DEF HistoryIsExact
  <2> QED
    BY <2>2, <2>3, <2>4
<1> QED
  BY <1>3, <1>5
\* A true readback yields a true record.
LEMMA RecordIsTrue ==
    ASSUME NEW op \in Operation, NEW ev \in ProviderEvidence, TrueReadback(ev),
           ev.revision # None, Reconcilable(op, ev),
           NEW rec \in EvidenceRecord,
           rec.operation = op,
           rec.revision = ev.revision,
           rec.decision = ReconcileLostAck(op, ev)
    PROVE  TrueRecord(rec)
<1>1. BoundTo(op, ev) /\ ev.provider = op.provider
  BY DEF Reconcilable, AcceptsRemoteCommit, AuthorizesRetry, BoundTo
<1>2. rec.revision <= revision[rec.operation.provider]
  BY <1>1 DEF TrueReadback
<1>3. CASE AcceptsRemoteCommit(op, ev)
  BY <1>2, <1>3 DEF TrueReadback, TrueRecord, ReconcileLostAck
<1>4. CASE ~ AcceptsRemoteCommit(op, ev)
  <2>1. rec.decision = RetryExactOperation(rec.operation, rec.revision)
    BY <1>4 DEF ReconcileLostAck
  <2>2. ev.readback = "absent"
    BY <1>4 DEF Reconcilable, AuthorizesRetry
  <2>3. ASSUME NEW o \in Operation, IdentityOf(o) = IdentityOf(op)
        PROVE  <<o, ev.revision>> \notin presentAt
    <3>1. BoundTo(o, ev)
      BY <1>1, <2>3 DEF BoundTo, IdentityOf
    <3> QED
      BY <2>2, <3>1 DEF TrueReadback
  <2>4. HeldAt(IdentityOf(rec.operation), rec.revision) = {}
    BY <2>3 DEF HeldAt
  <2> QED
    BY <1>2, <2>1, <2>4 DEF TrueRecord
<1> QED
  BY <1>3, <1>4

\* Two true records of one operation at one revision decide alike.
LEMMA TrueRecordsAgree ==
    ASSUME NEW rec1 \in EvidenceRecord, NEW rec2 \in EvidenceRecord,
           TrueRecord(rec1), TrueRecord(rec2),
           rec1.operation = rec2.operation,
           rec1.revision = rec2.revision
    PROVE  rec1.decision = rec2.decision
<1>1. rec1.operation \in Operation
  BY DEF EvidenceRecord
<1>2. CASE <<rec1.operation, rec1.revision>> \in presentAt
  <2>1. HeldAt(IdentityOf(rec1.operation), rec1.revision) # {}
    BY <1>1, <1>2 DEF HeldAt
  <2> QED
    BY <2>1 DEF TrueRecord
<1>3. CASE <<rec1.operation, rec1.revision>> \notin presentAt
  BY <1>3 DEF TrueRecord
<1> QED
  BY <1>2, <1>3

-----------------------------------------------------------------------------
(* One lemma for each kind of step. *)

LEMMA ProviderWriteKeepsInv ==
    ASSUME ReconcilerInv, NEW op \in Operation, ProviderWrite(op),
           UNCHANGED <<evidenceVars, workerVars>>,
           repeats' \in [Identity -> Nat]
    PROVE  ReconcilerInv'
<1>1. /\ heads' = heads /\ completions' = completions
      /\ readback' = readback /\ held' = held
  BY DEF evidenceVars, workerVars
<1>2. /\ TypeOK /\ EvidenceInv /\ HistoryIsExact /\ ReadbacksWereTrue
      /\ VerdictsWereTrue /\ HeldBehindHeads /\ CompletionWasWitnessed
  BY DEF ReconcilerInv
<1>3. /\ ProviderTypeOK'
      /\ (presentAt \in SUBSET (Operation \X Revision))'
      /\ HistoryIsExact'
      /\ \A p \in Provider : revision[p] <= revision'[p]
      /\ \A o \in Operation, r \in Revision : r <= revision[o.provider] =>
           (<<o, r>> \in presentAt' <=> <<o, r>> \in presentAt)
  BY <1>2, HistoryStep
<1>4. EvidenceInv'
  BY <1>1, <1>2, StutterKeepsInv DEF evidenceVars
<1>5. TypeOK'
  BY <1>1, <1>2, <1>3, <1>4 DEF TypeOK, EvidenceInv
<1>6. /\ \A rec \in EvidenceRecord : TrueRecord(rec) => TrueRecord(rec)'
      /\ \A ev \in ProviderEvidence : TrueReadback(ev) => TrueReadback(ev)'
  <2>1. \A p \in Provider : revision'[p] \in Revision
    BY <1>3 DEF ProviderTypeOK
  <2> QED
    BY <1>2, <1>3, <2>1, TruthIsStable
<1>7. ReadbacksWereTrue'
  BY <1>1, <1>2, <1>6 DEF ReadbacksWereTrue, TypeOK
<1>8. VerdictsWereTrue'
  BY <1>1, <1>2, <1>6 DEF VerdictsWereTrue, TypeOK, EvidenceTypeOK
<1>9. HeldBehindHeads'
  BY <1>1, <1>2 DEF HeldBehindHeads, BehindHead
<1>10. CompletionWasWitnessed'
  <2> SUFFICES ASSUME NEW k \in Identity, completions[k] # None
               PROVE  <<completions[k].operation, completions[k].revision>> \in presentAt'
    BY <1>1, <1>2 DEF CompletionWasWitnessed
  <2>1. /\ completions[k].operation \in Operation
        /\ completions[k].revision \in Revision
        /\ <<completions[k].operation, completions[k].revision>> \in presentAt
    BY <1>2 DEF TypeOK, EvidenceTypeOK, CompletionRecord, CompletionWasWitnessed
  <2> QED
    BY <1>2, <1>3, <2>1 DEF HistoryIsExact
<1> QED
  BY <1>3, <1>4, <1>5, <1>7, <1>8, <1>9, <1>10 DEF ReconcilerInv

\* Steps that change only what a worker remembers of the provider or forgets.
LEMMA MemoryKeepsInv ==
    ASSUME ReconcilerInv, NEW w \in Worker,
           UNCHANGED <<providerVars, evidenceVars, historyVars>>,
           NEW ev \in ProviderEvidence \cup {None},
           ev # None => TrueReadback(ev),
           readback' \in {readback, [readback EXCEPT ![w] = ev]},
           NEW rec \in EvidenceRecord \cup {None},
           rec # None => TrueRecord(rec) /\ BehindHead(rec),
           held' \in {held, [held EXCEPT ![w] = rec]}
    PROVE  ReconcilerInv'
<1>1. /\ revision' = revision /\ effects' = effects /\ heads' = heads
      /\ completions' = completions /\ presentAt' = presentAt /\ repeats' = repeats
  BY DEF providerVars, evidenceVars, historyVars
<1>2. /\ TypeOK /\ EvidenceInv /\ HistoryIsExact /\ ReadbacksWereTrue
      /\ VerdictsWereTrue /\ HeldBehindHeads /\ CompletionWasWitnessed
  BY DEF ReconcilerInv
<1>3. EvidenceInv'
  BY <1>1, <1>2, StutterKeepsInv DEF evidenceVars
<1>4. TypeOK'
  BY <1>1, <1>2, <1>3 DEF TypeOK, ProviderTypeOK, EvidenceInv
<1>5. HistoryIsExact' /\ CompletionWasWitnessed'
  BY <1>1, <1>2 DEF HistoryIsExact, CompletionWasWitnessed
<1>6. /\ \A r : TrueRecord(r)' <=> TrueRecord(r)
      /\ \A e : TrueReadback(e)' <=> TrueReadback(e)
      /\ \A r : BehindHead(r)' <=> BehindHead(r)
  BY <1>1 DEF TrueRecord, TrueReadback, HeldAt, BehindHead
<1>7. ReadbacksWereTrue'
  BY <1>2, <1>6 DEF ReadbacksWereTrue, TypeOK
<1>8. VerdictsWereTrue'
  BY <1>1, <1>2, <1>6 DEF VerdictsWereTrue, TypeOK
<1>9. HeldBehindHeads'
  BY <1>2, <1>6 DEF HeldBehindHeads, TypeOK
<1> QED
  BY <1>3, <1>4, <1>5, <1>7, <1>8, <1>9 DEF ReconcilerInv
LEMMA RecordReadbackKeepsInv ==
    ASSUME ReconcilerInv, NEW w \in Worker, NEW op \in Operation, NEW id \in EvidenceId,
           RecordReadback(w, op, id)
    PROVE  ReconcilerInv'
<1> DEFINE k == IdentityOf(op)
           ev == readback[w]
           rec == RecordResult(op, id, ev)
<1>1. /\ TypeOK /\ EvidenceInv /\ HistoryIsExact /\ ReadbacksWereTrue
      /\ VerdictsWereTrue /\ HeldBehindHeads /\ CompletionWasWitnessed
  BY DEF ReconcilerInv
<1>2. /\ revision' = revision /\ effects' = effects /\ readback' = readback
      /\ presentAt' = presentAt /\ repeats' = repeats
      /\ held' = [held EXCEPT ![w] = rec]
      /\ ev # None /\ Record(op, id, ev)
  BY DEF RecordReadback, providerVars, historyVars
<1>3. ev \in ProviderEvidence /\ TrueReadback(ev)
  BY <1>1, <1>2 DEF TypeOK, ReadbacksWereTrue
<1> HIDE DEF ev
<1>4. /\ k \in Identity
      /\ completions' = completions
      /\ heads' = [heads EXCEPT ![k] = rec]
      /\ rec \in EvidenceRecord
      /\ rec.operation = op
      /\ rec.revision = ev.revision
      /\ rec.decision = ReconcileLostAck(op, ev)
      /\ heads[k] # None =>
           /\ heads[k].operation = op
           /\ rec = heads[k] \/ ev.revision > heads[k].revision
      /\ completions[k] # None =>
           /\ completions[k].operation = op
           /\ ReconcileLostAck(op, ev).action # "retry_exact_operation"
  BY <1>1, <1>2, <1>3, RecordChanges
<1>5. TrueRecord(rec)
  BY <1>2, <1>3, <1>4, RecordIsTrue DEF Record, Recordable
<1> HIDE DEF rec
<1>6. EvidenceInv'
  BY <1>1, <1>2, <1>3, RecordKeepsInv
<1>7. TypeOK'
  BY <1>1, <1>2, <1>4, <1>6 DEF TypeOK, ProviderTypeOK, EvidenceInv
<1>8. HistoryIsExact' /\ ReadbacksWereTrue'
  BY <1>1, <1>2 DEF HistoryIsExact, ReadbacksWereTrue, TrueReadback
<1>9. \A r : TrueRecord(r)' <=> TrueRecord(r)
  BY <1>2 DEF TrueRecord, HeldAt
<1>10. /\ heads'[k] = rec
       /\ \A j \in Identity : j # k => heads'[j] = heads[j]
       /\ held'[w] = rec
       /\ \A v \in Worker : v # w => held'[v] = held[v]
       /\ rec # None
  BY <1>1, <1>2, <1>4, NoneIsNoRecord DEF TypeOK, EvidenceTypeOK
<1>11. VerdictsWereTrue'
  BY <1>1, <1>4, <1>5, <1>9, <1>10 DEF VerdictsWereTrue
<1>12. HeldBehindHeads'
  <2> SUFFICES ASSUME NEW v \in Worker, held'[v] # None
               PROVE  BehindHead(held[v])'
    BY DEF HeldBehindHeads
  <2>1. CASE v = w
    BY <1>4, <1>10, <2>1 DEF BehindHead
  <2>2. CASE v # w
    <3>1. /\ held'[v] = held[v]
          /\ held[v] \in EvidenceRecord
          /\ BehindHead(held[v])
      BY <1>1, <1>10, <2>2 DEF TypeOK, HeldBehindHeads
    <3>2. IdentityOf(held[v].operation) \in Identity
      BY <3>1, IdentityType DEF EvidenceRecord
    <3>3. CASE IdentityOf(held[v].operation) # k
      BY <1>10, <3>1, <3>2, <3>3 DEF BehindHead
    <3>4. CASE IdentityOf(held[v].operation) = k
      <4>1. /\ heads[k] # None
            /\ heads[k] \in EvidenceRecord
            /\ heads[k].operation = held[v].operation
            /\ held[v] = heads[k] \/ held[v].revision < heads[k].revision
        BY <1>1, <1>4, <3>1, <3>4 DEF BehindHead, TypeOK, EvidenceTypeOK
      <4>2. rec = heads[k] \/ held[v].revision < rec.revision
        BY <1>4, <3>1, <4>1, BoundAssumption DEF EvidenceRecord, Revision
      <4> QED
        BY <1>4, <1>10, <3>1, <3>4, <4>1, <4>2 DEF BehindHead
    <3> QED
      BY <3>3, <3>4
  <2> QED
    BY <2>1, <2>2
<1>13. CompletionWasWitnessed'
  BY <1>1, <1>2, <1>4, <1>6 DEF CompletionWasWitnessed, EvidenceInv, CompletedNeverRegainsRetry
<1> QED
  BY <1>6, <1>7, <1>8, <1>11, <1>12, <1>13 DEF ReconcilerInv

LEMMA CompleteKeepsInv ==
    ASSUME ReconcilerInv, NEW w \in Worker, Complete(w)
    PROVE  ReconcilerInv'
<1> DEFINE op == held[w].operation
           id == held[w].evidence_id
           k == IdentityOf(op)
           c == CompletionResult(op, id)
<1>1. /\ TypeOK /\ EvidenceInv /\ HistoryIsExact /\ ReadbacksWereTrue
      /\ VerdictsWereTrue /\ HeldBehindHeads /\ CompletionWasWitnessed
  BY DEF ReconcilerInv
<1>2. /\ revision' = revision /\ effects' = effects /\ readback' = readback
      /\ presentAt' = presentAt /\ repeats' = repeats /\ held' = held
      /\ held[w] # None
      /\ MarkReconciled(op, id, held[w].decision)
  BY DEF Complete, providerVars, workerVars, historyVars
<1>3. op \in Operation /\ id \in EvidenceId
  BY <1>1, <1>2 DEF TypeOK, EvidenceRecord
<1> HIDE DEF op, id
<1>4. /\ k \in Identity
      /\ heads' = heads
      /\ heads[k] # None
      /\ heads[k] \in EvidenceRecord
      /\ heads[k].operation = op
      /\ heads[k].decision = AcceptRemoteCommit
      /\ completions' = [completions EXCEPT ![k] = c]
      /\ c.operation = op
      /\ completions[k] # None => completions' = completions
      /\ completions[k] = None => c.revision = heads[k].revision
  BY <1>1, <1>2, <1>3, MarkChanges
<1> HIDE DEF c
<1>5. EvidenceInv'
  BY <1>1, <1>2, <1>3, MarkKeepsInv
<1>6. TypeOK'
  BY <1>1, <1>2, <1>5 DEF TypeOK, ProviderTypeOK, EvidenceInv
<1>7. HistoryIsExact' /\ ReadbacksWereTrue' /\ VerdictsWereTrue' /\ HeldBehindHeads'
  BY <1>1, <1>2, <1>4 DEF HistoryIsExact, ReadbacksWereTrue, TrueReadback,
     VerdictsWereTrue, TrueRecord, HeldAt, HeldBehindHeads, BehindHead
<1>8. CompletionWasWitnessed'
  <2> SUFFICES ASSUME NEW j \in Identity, completions'[j] # None
               PROVE  <<completions'[j].operation, completions'[j].revision>> \in presentAt
    BY <1>2, <1>5 DEF CompletionWasWitnessed, EvidenceInv, CompletedNeverRegainsRetry
  <2>1. CASE completions'[j] = completions[j]
    BY <1>1, <2>1 DEF CompletionWasWitnessed
  <2>2. CASE completions'[j] # completions[j]
    <3>1. j = k /\ completions'[j] = c /\ completions[k] = None
      BY <1>1, <1>4, <2>2 DEF TypeOK, EvidenceTypeOK
    <3>2. TrueRecord(heads[k])
      BY <1>1, <1>4 DEF VerdictsWereTrue
    <3>3. <<heads[k].operation, heads[k].revision>> \in presentAt
      BY <1>4, <3>2, DecisionsDiffer DEF TrueRecord
    <3> QED
      BY <1>4, <3>1, <3>3
  <2> QED
    BY <2>1, <2>2
<1> QED
  BY <1>5, <1>6, <1>7, <1>8 DEF ReconcilerInv

-----------------------------------------------------------------------------
LEMMA ReconcilerInitInv == Init => ReconcilerInv
<1> SUFFICES ASSUME Init PROVE ReconcilerInv
  OBVIOUS
<1>1. EvidenceInv
  BY InitInv DEF Init
<1>2. TypeOK
  BY <1>1, BoundAssumption
     DEF Init, ProviderInit, TypeOK, ProviderTypeOK, EvidenceInv, Revision
<1>3. /\ HistoryIsExact /\ ReadbacksWereTrue /\ VerdictsWereTrue /\ HeldBehindHeads
      /\ CompletionWasWitnessed
  BY DEF Init, ProviderInit, EvidenceInit, HistoryIsExact, ReadbacksWereTrue,
         VerdictsWereTrue, HeldBehindHeads, CompletionWasWitnessed
<1> QED
  BY <1>1, <1>2, <1>3 DEF ReconcilerInv

\* Every write to the provider is a ProviderWrite (lines 205-217, 317-329).
LEMMA ProviderActionsWrite ==
    ASSUME TypeOK, NEW op \in Operation,
           \/ \E w \in Worker : ApplyRetry(w, op)
           \/ CommitElsewhere(op)
           \/ Forget(op)
    PROVE  /\ ProviderWrite(op)
           /\ UNCHANGED <<evidenceVars, workerVars>>
           /\ repeats' \in [Identity -> Nat]
<1>1. CASE \E w \in Worker : ApplyRetry(w, op)
  <2>1. /\ StoredFor(op) = {}
        /\ Commit(op)
        /\ ExtendHistory(op.provider)
        /\ UNCHANGED <<evidenceVars, workerVars>>
    BY <1>1 DEF ApplyRetry, ConditionalApply, RetryHonoured, StoredFor
  <2>2. repeats' = [repeats EXCEPT ![IdentityOf(op)] = @ + 1]
    BY <1>1 DEF ApplyRetry
  <2> QED
    BY <2>1, <2>2, IdentityType DEF ProviderWrite, Commit, TypeOK
<1>2. CASE CommitElsewhere(op)
  <2>1. /\ StoredFor(op) = {}
        /\ Commit(op)
        /\ ExtendHistory(op.provider)
        /\ UNCHANGED <<evidenceVars, workerVars, repeats>>
    BY <1>2 DEF CommitElsewhere, ConditionalApply, RetryHonoured, StoredFor
  <2> QED
    BY <2>1 DEF ProviderWrite, Commit, TypeOK
<1>3. CASE Forget(op)
  BY <1>3 DEF Forget, Remove, ProviderWrite, TypeOK
<1> QED
  BY <1>1, <1>2, <1>3

LEMMA WorkerStepKeepsInv ==
    ASSUME ReconcilerInv, NEW w \in Worker, WorkerStep(w)
    PROVE  ReconcilerInv'
<1>1. TypeOK /\ EvidenceInv /\ HistoryIsExact /\ VerdictsWereTrue
  BY DEF ReconcilerInv
<1>2. held[w] \in EvidenceRecord \cup {None}
  BY <1>1 DEF TypeOK
<1>3. CASE Crash(w)
  BY <1>3, MemoryKeepsInv DEF Crash
<1>4. CASE Complete(w)
  BY <1>4, CompleteKeepsInv
<1>5. ASSUME NEW op \in Operation, Read(w, op)
      PROVE  ReconcilerInv'
  <2>1. ReadResult(op) \in ProviderEvidence /\ TrueReadback(ReadResult(op))
    BY <1>1, <1>5, ReadIsTrue DEF Read
  <2> QED
    BY <1>5, <2>1, MemoryKeepsInv DEF Read
<1>6. ASSUME NEW op \in Operation, ReadWeak(w, op)
      PROVE  ReconcilerInv'
  <2>1. PICK ev \in WeakReadings(op) : readback' = [readback EXCEPT ![w] = ev]
    BY <1>6 DEF ReadWeak
  <2>2. ev \in ProviderEvidence /\ TrueReadback(ev)
    BY <1>1, <1>6, ReadIsTrue DEF ReadWeak
  <2> QED
    BY <1>6, <2>1, <2>2, MemoryKeepsInv DEF ReadWeak
<1>7. ASSUME NEW op \in Operation, NEW id \in EvidenceId, RecordReadback(w, op, id)
      PROVE  ReconcilerInv'
  BY <1>7, RecordReadbackKeepsInv
<1>8. ASSUME NEW op \in Operation, LoadCurrent(w, op)
      PROVE  ReconcilerInv'
  <2> DEFINE rec == heads[IdentityOf(op)]
  <2>1. /\ rec # None
        /\ rec.operation = op
        /\ held' = [held EXCEPT ![w] = rec]
        /\ readback' = readback
        /\ UNCHANGED <<providerVars, evidenceVars, historyVars>>
    BY <1>8 DEF LoadCurrent, HasCurrent
  <2>2. rec \in EvidenceRecord /\ TrueRecord(rec) /\ BehindHead(rec)
    BY <1>1, <2>1, IdentityType DEF TypeOK, EvidenceTypeOK, VerdictsWereTrue, BehindHead
  <2> HIDE DEF rec
  <2> QED
    BY <2>1, <2>2, MemoryKeepsInv
<1>9. ASSUME NEW op \in Operation, ApplyRetry(w, op)
      PROVE  ReconcilerInv'
  BY <1>1, <1>9, ProviderActionsWrite, ProviderWriteKeepsInv
<1> QED
  BY <1>3, <1>4, <1>5, <1>6, <1>7, <1>8, <1>9 DEF WorkerStep

LEMMA ReconcilerNextKeepsInv == ReconcilerInv /\ [Next]_vars => ReconcilerInv'
<1> SUFFICES ASSUME ReconcilerInv, [Next]_vars PROVE ReconcilerInv'
  OBVIOUS
<1>1. CASE UNCHANGED vars
  <2>1. UNCHANGED <<providerVars, evidenceVars, historyVars>>
        /\ readback' = readback /\ held' = held
    BY <1>1 DEF vars, providerVars, evidenceVars, historyVars
  <2>2. EvidenceInv'
    BY <2>1, StutterKeepsInv DEF ReconcilerInv
  <2> QED
    BY <2>1, <2>2 DEF ReconcilerInv, TypeOK, ProviderTypeOK, EvidenceInv, providerVars,
       evidenceVars, historyVars, HistoryIsExact, ReadbacksWereTrue, TrueReadback,
       VerdictsWereTrue, TrueRecord, HeldAt, HeldBehindHeads, BehindHead,
       CompletionWasWitnessed
<1>2. CASE \E w \in Worker : WorkerStep(w)
  BY <1>2, WorkerStepKeepsInv
<1>3. CASE ProviderStep
  <2>1. PICK op \in Operation : CommitElsewhere(op) \/ Forget(op)
    BY <1>3 DEF ProviderStep
  <2>2. /\ ProviderWrite(op)
        /\ UNCHANGED <<evidenceVars, workerVars>>
        /\ repeats' \in [Identity -> Nat]
    BY <2>1, ProviderActionsWrite DEF ReconcilerInv
  <2> QED
    BY <2>2, ProviderWriteKeepsInv
<1> QED
  BY <1>1, <1>2, <1>3 DEF Next

\* The inductive invariant of competing workers over the two stores.
THEOREM ReconcilerInvariant == Spec => []ReconcilerInv
BY ReconcilerInitInv, ReconcilerNextKeepsInv, PTL DEF Spec

\* Stores, memories and history keep their types.
THEOREM ReconcilerTypeCorrect == Spec => []TypeOK
BY ReconcilerInvariant, PTL DEF ReconcilerInv

\* No weak, ambiguous, mismatched or late readback ever becomes a durable verdict
\* the provider's past contradicts.
THEOREM DurableVerdictsWereTrue == Spec => []VerdictsWereTrue
BY ReconcilerInvariant, PTL DEF ReconcilerInv

\* Completion rests on an effect the provider really held.
THEOREM CompletionsWereWitnessed == Spec => []CompletionWasWitnessed
BY ReconcilerInvariant, PTL DEF ReconcilerInv
-----------------------------------------------------------------------------
(* The two consequences of the invariant that relate both databases. *)

\* If the provider would still apply what a worker holds, the worker's revision
\* is the provider's newest, so the head cannot be newer than the held record.
LEMMA HonouredIsCurrent == ReconcilerInv => HonouredAuthorityIsCurrent
<1> SUFFICES ASSUME ReconcilerInv, NEW w \in Worker, NEW op \in Operation,
                    held[w] # None,
                    RetryHonoured(op, held[w].decision, revision[op.provider], effects)
             PROVE  /\ heads[IdentityOf(op)] = held[w]
                    /\ completions[IdentityOf(op)] = None
  BY DEF HonouredAuthorityIsCurrent
<1> DEFINE k == IdentityOf(op)
           rec == held[w]
<1>1. /\ TypeOK /\ VerdictsWereTrue /\ HeldBehindHeads /\ CompletionWasWitnessed
      /\ rec \in EvidenceRecord
      /\ TrueRecord(rec)
      /\ BehindHead(rec)
  BY DEF ReconcilerInv, TypeOK, VerdictsWereTrue, HeldBehindHeads
<1>2. /\ rec.decision.action = "retry_exact_operation"
      /\ rec.decision.effect = op
      /\ rec.decision.precondition = revision[op.provider]
  BY DEF RetryHonoured
<1> HIDE DEF rec
<1>3. /\ rec.decision = RetryExactOperation(op, revision[op.provider])
      /\ rec.operation = op
      /\ rec.revision = revision[op.provider]
  BY <1>1, <1>2, DecisionsDiffer DEF TrueRecord
<1>4. /\ k \in Identity
      /\ heads[k] # None
      /\ heads[k] \in EvidenceRecord
      /\ heads[k].operation = op
      /\ heads[k].revision <= revision[op.provider]
      /\ rec = heads[k] \/ rec.revision < heads[k].revision
  BY <1>1, <1>3, IdentityType
     DEF BehindHead, VerdictsWereTrue, TrueRecord, TypeOK, EvidenceTypeOK
<1>5. rec = heads[k]
  BY <1>1, <1>3, <1>4, BoundAssumption DEF EvidenceRecord, Revision
<1>6. completions[k] = None
  <2>1. heads[k].decision # AcceptRemoteCommit
    BY <1>3, <1>5, DecisionsDiffer
  <2> QED
    BY <1>1, <1>4, <2>1 DEF CompletionWasWitnessed
<1> QED
  BY <1>5, <1>6 DEF rec

\* Authority a provider still honours is never stale: the check of the head and
\* the write to the provider need no common lock (evidence_lineage.py:308-309).
THEOREM HonouredAuthority == Spec => []HonouredAuthorityIsCurrent
BY ReconcilerInvariant, HonouredIsCurrent, PTL

\* The head and the readback are true of the same revision, so they agree.
LEMMA SameRevisionAgrees == ReconcilerInv => SameRevisionNeverConflicts
<1> SUFFICES ASSUME ReconcilerInv, NEW w \in Worker, NEW op \in Operation,
                    readback[w] # None,
                    readback[w].revision # None,
                    Reconcilable(op, readback[w]),
                    HasCurrent(op),
                    heads[IdentityOf(op)].revision = readback[w].revision
             PROVE  heads[IdentityOf(op)].decision = ReconcileLostAck(op, readback[w])
  BY DEF SameRevisionNeverConflicts
<1> DEFINE k == IdentityOf(op)
           ev == readback[w]
<1>1. /\ k \in Identity
      /\ heads[k] \in EvidenceRecord
      /\ TrueRecord(heads[k])
      /\ heads[k].operation = op
      /\ ev \in ProviderEvidence
      /\ TrueReadback(ev)
  BY IdentityType DEF ReconcilerInv, TypeOK, EvidenceTypeOK, HasCurrent,
     VerdictsWereTrue, ReadbacksWereTrue
<1>2. PICK id : id = heads[k].evidence_id
  OBVIOUS
<1>3. id \in EvidenceId
  BY <1>1, <1>2 DEF EvidenceRecord
<1> DEFINE c == Candidate(op, id, ev)
<1>4. /\ c \in EvidenceRecord
      /\ c.operation = op
      /\ c.revision = ev.revision
      /\ c.decision = ReconcileLostAck(op, ev)
  BY <1>1, <1>3, CandidateType
<1> HIDE DEF c
<1>5. TrueRecord(c)
  BY <1>1, <1>4, RecordIsTrue
<1> QED
  BY <1>1, <1>4, <1>5, TrueRecordsAgree

\* Against a provider whose revisions tell every change, record never meets two
\* decisions for one revision, however late a worker records (lines 166-174).
THEOREM NoSameRevisionConflict == Spec => []SameRevisionNeverConflicts
BY ReconcilerInvariant, SameRevisionAgrees, PTL

-----------------------------------------------------------------------------
(* Reconciler implements LostAckContract. *)

LEMMA VerdictOf ==
    ASSUME NEW rec \in EvidenceRecord
    PROVE  /\ rec.decision = AcceptRemoteCommit => Verdict(rec) = <<"accept", rec.operation>>
           /\ rec.decision # AcceptRemoteCommit => Verdict(rec) = <<"retry", rec.operation>>
BY NoneIsNoRecord DEF Verdict

LEMMA InitRefines == Init => Contract!Init
<1> SUFFICES ASSUME Init PROVE Contract!Init
  OBVIOUS
<1>1. {pair[1] : pair \in presentAt} = {}
  BY DEF Init
<1> QED
  BY <1>1 DEF Init, ProviderInit, EvidenceInit, Contract!Init, Verdict, Settlement
\* The abstract history after a provider write.
LEMMA WriteRefines ==
    ASSUME ReconcilerInv, NEW op \in Operation, ProviderWrite(op)
    PROVE  {pair[1] : pair \in presentAt'} =
             {pair[1] : pair \in presentAt} \cup (effects' \ effects)
<1> DEFINE p == op.provider
           next == revision'[p]
<1>1. /\ TypeOK /\ HistoryIsExact
      /\ presentAt' = presentAt \cup {<<e, next>> : e \in {x \in effects' : x.provider = p}}
  BY DEF ReconcilerInv, ProviderWrite, ExtendHistory
<1>2. \A e \in effects : e \in Operation /\ <<e, revision[e.provider]>> \in presentAt
  BY <1>1 DEF TypeOK, ProviderTypeOK, HistoryIsExact
<1>3. \A e \in effects' \ effects : e = op
  BY DEF ProviderWrite
<1> HIDE DEF next
<1>4. ASSUME NEW e \in {pair[1] : pair \in presentAt'}
      PROVE  e \in {pair[1] : pair \in presentAt} \cup (effects' \ effects)
  <2>1. PICK pair \in presentAt' : e = pair[1]
    BY <1>4
  <2>2. CASE pair \in presentAt
    BY <2>1, <2>2
  <2>3. CASE pair \in {<<x, next>> : x \in {y \in effects' : y.provider = p}}
    <3>1. e \in effects'
      BY <2>1, <2>3
    <3>2. CASE e \in effects
      <4>1. <<e, revision[e.provider]>> \in presentAt
        BY <1>2, <3>2
      <4>2. <<e, revision[e.provider]>>[1] = e
        OBVIOUS
      <4> QED
        BY <4>1, <4>2
    <3> QED
      BY <3>1, <3>2
  <2> QED
    BY <1>1, <2>1, <2>2, <2>3
<1>5. ASSUME NEW e \in {pair[1] : pair \in presentAt}
      PROVE  e \in {pair[1] : pair \in presentAt'}
  BY <1>1, <1>5
<1>6. ASSUME NEW e \in effects' \ effects
      PROVE  e \in {pair[1] : pair \in presentAt'}
  <2>1. <<e, next>> \in presentAt'
    BY <1>1, <1>3, <1>6
  <2>2. <<e, next>>[1] = e
    OBVIOUS
  <2> QED
    BY <2>1, <2>2
<1> QED
  BY <1>4, <1>5, <1>6

LEMMA ApplyRetryRefines ==
    ASSUME ReconcilerInv, NEW w \in Worker, NEW op \in Operation, ApplyRetry(w, op)
    PROVE  Contract!Retry(op)
<1> DEFINE k == IdentityOf(op)
<1>1. /\ held[w] # None
      /\ RetryHonoured(op, held[w].decision, revision[op.provider], effects)
      /\ effects' = effects \cup {op}
      /\ repeats' = [repeats EXCEPT ![k] = @ + 1]
      /\ heads' = heads /\ completions' = completions
  BY DEF ApplyRetry, ConditionalApply, Commit, evidenceVars
<1>2. /\ heads[k] = held[w]
      /\ completions[k] = None
  BY <1>1, HonouredIsCurrent DEF HonouredAuthorityIsCurrent
<1>3. /\ k \in Identity
      /\ held[w] \in EvidenceRecord
      /\ TrueRecord(held[w])
  BY <1>1, IdentityType DEF ReconcilerInv, TypeOK, VerdictsWereTrue
<1>4. held[w].decision # AcceptRemoteCommit /\ held[w].operation = op
  BY <1>1, <1>3, DecisionsDiffer DEF RetryHonoured, TrueRecord
<1>5. Verdict(heads[k]) = <<"retry", op>>
  BY <1>2, <1>3, <1>4, VerdictOf
<1>6. Contract!Absent(op) /\ op \notin effects
  BY <1>1 DEF RetryHonoured, Contract!Absent
<1>7. {pair[1] : pair \in presentAt'} = {pair[1] : pair \in presentAt} \cup {op}
  <2>1. ProviderWrite(op)
    BY ProviderActionsWrite DEF ReconcilerInv
  <2>2. effects' \ effects = {op}
    BY <1>1, <1>6
  <2> QED
    BY <2>1, <2>2, WriteRefines
<1> QED
  BY <1>1, <1>2, <1>3, <1>5, <1>6, <1>7
     DEF Contract!Retry, Contract!Appear, Settlement

LEMMA ProviderStepRefines ==
    ASSUME ReconcilerInv, NEW op \in Operation, CommitElsewhere(op) \/ Forget(op)
    PROVE  Contract!CommittedElsewhere(op) \/ Contract!Removed(op)
<1>1. heads' = heads /\ completions' = completions /\ repeats' = repeats
  BY DEF CommitElsewhere, Forget, evidenceVars
<1>2. {pair[1] : pair \in presentAt'} =
        {pair[1] : pair \in presentAt} \cup (effects' \ effects)
  BY ProviderActionsWrite, WriteRefines DEF ReconcilerInv
<1>3. CASE CommitElsewhere(op)
  <2>1. /\ effects' = effects \cup {op}
        /\ Contract!Absent(op)
    BY <1>3 DEF CommitElsewhere, ConditionalApply, Commit, RetryHonoured, Contract!Absent
  <2>2. op \notin effects
    BY <2>1 DEF Contract!Absent
  <2>3. effects' \ effects = {op}
    BY <2>1, <2>2
  <2> QED
    BY <1>1, <1>2, <2>1, <2>3 DEF Contract!CommittedElsewhere, Contract!Appear
<1>4. CASE Forget(op)
  <2>1. op \in effects /\ effects' = effects \ {op}
    BY <1>4 DEF Forget, Remove
  <2>2. effects' \ effects = {}
    BY <2>1
  <2> QED
    BY <1>1, <1>2, <2>1, <2>2 DEF Contract!Removed
<1> QED
  BY <1>3, <1>4
LEMMA RecordReadbackRefines ==
    ASSUME ReconcilerInv, NEW w \in Worker, NEW op \in Operation, NEW id \in EvidenceId,
           RecordReadback(w, op, id)
    PROVE  \/ Contract!GrantRetry(op)
           \/ Contract!Accept(op)
           \/ UNCHANGED Contract!vars
<1> DEFINE k == IdentityOf(op)
           ev == readback[w]
           rec == RecordResult(op, id, ev)
<1>1. /\ effects' = effects /\ presentAt' = presentAt /\ repeats' = repeats
      /\ ev \in ProviderEvidence /\ TrueReadback(ev)
      /\ Record(op, id, ev)
  BY DEF RecordReadback, providerVars, historyVars, ReconcilerInv, TypeOK, ReadbacksWereTrue
<1> HIDE DEF ev
<1>2. /\ k \in Identity
      /\ completions' = completions
      /\ heads' = [heads EXCEPT ![k] = rec]
      /\ rec \in EvidenceRecord
      /\ rec.operation = op
      /\ rec.revision = ev.revision
      /\ rec.decision = ReconcileLostAck(op, ev)
      /\ heads[k] # None =>
           /\ heads[k].operation = op
           /\ rec = heads[k] \/ ev.revision > heads[k].revision
      /\ completions[k] # None =>
           /\ completions[k].operation = op
           /\ ReconcileLostAck(op, ev).action # "retry_exact_operation"
  BY <1>1, RecordChanges DEF ReconcilerInv
<1>3. TrueRecord(rec)
  BY <1>1, <1>2, RecordIsTrue DEF Record, Recordable
<1> HIDE DEF rec
<1>4. heads \in [Identity -> EvidenceRecord \cup {None}]
  BY DEF ReconcilerInv, TypeOK, EvidenceTypeOK
<1>5. [j \in Identity |-> Verdict(heads'[j])] =
        [[j \in Identity |-> Verdict(heads[j])] EXCEPT ![k] = Verdict(rec)]
  BY <1>2, <1>4
<1>6. Contract!Binds(op)
  <2>1. CASE heads[k] = None
    BY <1>2, <2>1 DEF Verdict, Contract!Binds
  <2>2. CASE heads[k] # None
    <3>1. heads[k] \in EvidenceRecord /\ heads[k].operation = op
      BY <1>2, <1>4, <2>2
    <3>2. Verdict(heads[k]) \in {<<"retry", op>>, <<"accept", op>>}
      BY <3>1, VerdictOf
    <3> QED
      BY <1>2, <3>2 DEF Contract!Binds
  <2> QED
    BY <2>1, <2>2
<1>7. CASE rec.decision = AcceptRemoteCommit
  <2>1. Verdict(rec) = <<"accept", op>>
    BY <1>2, <1>7, VerdictOf
  <2>2. op \in {pair[1] : pair \in presentAt}
    <3>1. <<op, rec.revision>> \in presentAt
      BY <1>2, <1>3, <1>7, DecisionsDiffer DEF TrueRecord
    <3>2. <<op, rec.revision>>[1] = op
      OBVIOUS
    <3> QED
      BY <3>1, <3>2
  <2> QED
    BY <1>1, <1>2, <1>5, <1>6, <2>1, <2>2 DEF Contract!Accept
<1>8. CASE rec.decision # AcceptRemoteCommit
  <2>1. Verdict(rec) = <<"retry", op>>
    BY <1>2, <1>8, VerdictOf
  <2>2. completions[k] = None
    BY <1>2, <1>3, <1>8, DecisionsDiffer DEF TrueRecord
  <2>3. Settlement(completions[k]) = None
    BY <2>2 DEF Settlement
  <2> QED
    BY <1>1, <1>2, <1>5, <1>6, <2>1, <2>3 DEF Contract!GrantRetry
<1> QED
  BY <1>7, <1>8

LEMMA CompleteRefines ==
    ASSUME ReconcilerInv, NEW w \in Worker, Complete(w)
    PROVE  Contract!Settle(held[w].operation)
<1> DEFINE op == held[w].operation
           id == held[w].evidence_id
           k == IdentityOf(op)
           c == CompletionResult(op, id)
<1>1. /\ effects' = effects /\ presentAt' = presentAt /\ repeats' = repeats
      /\ held[w] \in EvidenceRecord
      /\ MarkReconciled(op, id, held[w].decision)
  BY DEF Complete, providerVars, historyVars, ReconcilerInv, TypeOK
<1>2. op \in Operation /\ id \in EvidenceId
  BY <1>1 DEF EvidenceRecord
<1> HIDE DEF op, id
<1>3. /\ k \in Identity
      /\ heads' = heads
      /\ heads[k] # None
      /\ heads[k] \in EvidenceRecord
      /\ heads[k].operation = op
      /\ heads[k].decision = AcceptRemoteCommit
      /\ completions' = [completions EXCEPT ![k] = c]
      /\ c \in CompletionRecord
      /\ c.operation = op
  BY <1>1, <1>2, MarkChanges DEF ReconcilerInv
<1> HIDE DEF c
<1>4. completions \in [Identity -> CompletionRecord \cup {None}]
  BY DEF ReconcilerInv, TypeOK, EvidenceTypeOK
<1>5. Settlement(c) = op
  BY <1>3, NoneIsNoRecord DEF Settlement
<1>6. [j \in Identity |-> Settlement(completions'[j])] =
        [[j \in Identity |-> Settlement(completions[j])] EXCEPT ![k] = op]
  BY <1>3, <1>4, <1>5
<1>7. Verdict(heads[k]) = <<"accept", op>>
  BY <1>3, VerdictOf
<1>8. op \in {pair[1] : pair \in presentAt}
  <2>1. TrueRecord(heads[k])
    BY <1>3 DEF ReconcilerInv, VerdictsWereTrue
  <2>2. <<op, heads[k].revision>> \in presentAt
    BY <1>3, <2>1, DecisionsDiffer DEF TrueRecord
  <2>3. <<op, heads[k].revision>>[1] = op
    OBVIOUS
  <2> QED
    BY <2>2, <2>3
<1>9. Contract!Settle(op)
  BY <1>1, <1>3, <1>6, <1>7, <1>8 DEF Contract!Settle
<1> QED
  BY <1>9 DEF op

\* Steps that leave stores and history alone are invisible to the contract.
LEMMA MemoryRefines ==
    UNCHANGED <<providerVars, evidenceVars, historyVars>> => UNCHANGED Contract!vars
BY DEF providerVars, evidenceVars, historyVars, Contract!vars, Verdict, Settlement

LEMMA NextRefines == ReconcilerInv /\ [Next]_vars => [Contract!Next]_(Contract!vars)
<1> SUFFICES ASSUME ReconcilerInv, [Next]_vars
             PROVE  Contract!Next \/ UNCHANGED Contract!vars
  OBVIOUS
<1>1. CASE UNCHANGED vars
  BY <1>1, MemoryRefines DEF vars, providerVars, evidenceVars, historyVars
<1>2. CASE ProviderStep
  BY <1>2, ProviderStepRefines DEF ProviderStep, Contract!Next
<1>3. ASSUME NEW w \in Worker, WorkerStep(w)
      PROVE  Contract!Next \/ UNCHANGED Contract!vars
  <2>1. CASE Crash(w)
    BY <2>1, MemoryRefines DEF Crash
  <2>2. CASE Complete(w)
    <3>1. held[w].operation \in Operation
      BY <2>2 DEF Complete, ReconcilerInv, TypeOK, EvidenceRecord
    <3> QED
      BY <2>2, <3>1, CompleteRefines DEF Contract!Next
  <2>3. ASSUME NEW op \in Operation, Read(w, op) \/ ReadWeak(w, op) \/ LoadCurrent(w, op)
        PROVE  UNCHANGED Contract!vars
    BY <2>3, MemoryRefines DEF Read, ReadWeak, LoadCurrent
  <2>4. ASSUME NEW op \in Operation, NEW id \in EvidenceId, RecordReadback(w, op, id)
        PROVE  Contract!Next \/ UNCHANGED Contract!vars
    BY <2>4, RecordReadbackRefines DEF Contract!Next
  <2>5. ASSUME NEW op \in Operation, ApplyRetry(w, op)
        PROVE  Contract!Next
    BY <2>5, ApplyRetryRefines DEF Contract!Next
  <2> QED
    BY <1>3, <2>1, <2>2, <2>3, <2>4, <2>5 DEF WorkerStep
<1> QED
  BY <1>1, <1>2, <1>3 DEF Next

\* The stores and any number of workers implement the contract: no repetition
\* without the durable verdict of an unsettled identity, no settlement of an
\* effect that was never seen, no verdict after settlement but acceptance.
THEOREM Refinement == Spec => ImplementsLostAckContract
<1>1. Init => Contract!Init
  BY InitRefines
<1>2. ReconcilerInv /\ [Next]_vars => [Contract!Next]_(Contract!vars)
  BY NextRefines
<1> QED
  BY <1>1, <1>2, ReconcilerInvariant, PTL DEF Spec, ImplementsLostAckContract, Contract!Spec
-----------------------------------------------------------------------------
(* Reconciler uses the evidence store only as EvidenceSpec allows, so what the
   store guarantees on its own holds here too. *)

LEMMA StepUsesStore == TypeOK /\ [Next]_vars => [EvidenceNext]_evidenceVars
<1> SUFFICES ASSUME TypeOK, [Next]_vars
             PROVE  EvidenceNext \/ UNCHANGED evidenceVars
  OBVIOUS
<1>1. CASE UNCHANGED vars
  BY <1>1 DEF vars, evidenceVars
<1>2. CASE ProviderStep
  BY <1>2 DEF ProviderStep, CommitElsewhere, Forget
<1>3. ASSUME NEW w \in Worker, WorkerStep(w)
      PROVE  EvidenceNext \/ UNCHANGED evidenceVars
  <2>1. CASE Crash(w)
    BY <2>1 DEF Crash
  <2>2. CASE Complete(w)
    <3>1. held[w] \in EvidenceRecord
      BY <2>2 DEF Complete, TypeOK
    <3>2. /\ held[w].operation \in Operation
          /\ held[w].evidence_id \in EvidenceId
          /\ held[w].decision \in ReconciliationDecision
      BY <3>1 DEF EvidenceRecord
    <3> QED
      BY <2>2, <3>2 DEF Complete, EvidenceNext
  <2>3. ASSUME NEW op \in Operation,
               Read(w, op) \/ ReadWeak(w, op) \/ LoadCurrent(w, op) \/ ApplyRetry(w, op)
        PROVE  UNCHANGED evidenceVars
    BY <2>3 DEF Read, ReadWeak, LoadCurrent, ApplyRetry
  <2>4. ASSUME NEW op \in Operation, NEW id \in EvidenceId, RecordReadback(w, op, id)
        PROVE  EvidenceNext
    <3>1. readback[w] \in ProviderEvidence
      BY <2>4 DEF RecordReadback, TypeOK
    <3> QED
      BY <2>4, <3>1 DEF RecordReadback, EvidenceNext
  <2> QED
    BY <1>3, <2>1, <2>2, <2>3, <2>4 DEF WorkerStep
<1> QED
  BY <1>1, <1>2, <1>3 DEF Next

\* Whatever workers do, the evidence store sees only calls of its own interface, so
\* its theorems hold of the composition.
THEOREM UsesEvidenceStore == Spec => EvidenceSpec
BY StepUsesStore, ReconcilerTypeCorrect, PTL DEF Spec, Init, EvidenceSpec

\* Heads and completions are as durable under competing workers and crashes as
\* the store promises.
THEOREM ReconcilerHeadsAdvance == Spec => HeadsOnlyAdvance /\ CompletionIsFinal
BY UsesEvidenceStore, HeadsAreMonotonic, CompletionsAreFinal, PTL
-----------------------------------------------------------------------------
(* The workers' loop. *)

LEMMA LoopStepIsStep == [LoopNext]_loopVars => [Next]_vars
<1> SUFFICES ASSUME [LoopNext]_loopVars
             PROVE  Next \/ UNCHANGED vars
  BY DEF loopVars
<1> USE LoopAssumption
<1>1. CASE UNCHANGED loopVars
  BY <1>1 DEF loopVars
<1>2. CASE Disturb
  BY <1>2 DEF Disturb, Next
<1>3. ASSUME NEW w \in Worker, FullRead(w) \/ WeakRead(w)
      PROVE  Next
  <2>1. WorkerStep(w)
    BY <1>3 DEF FullRead, WeakRead, WorkerStep
  <2> QED
    BY <2>1 DEF Next
<1>4. ASSUME NEW w \in Worker, RecordStep(w) \/ RetryStep(w) \/ CompleteStep(w) \/ CrashStep(w)
      PROVE  Next
  <2>1. WorkerStep(w)
    BY <1>4 DEF RecordStep, RetryStep, CompleteStep, CrashStep, WorkerStep
  <2> QED
    BY <2>1 DEF Next
<1>5. ASSUME NEW w \in Worker, RecordRefused(w) \/ RetryRefused(w) \/ CompleteRefused(w)
      PROVE  UNCHANGED vars
  BY <1>5 DEF RecordRefused, RetryRefused, CompleteRefused
<1> QED
  BY <1>1, <1>2, <1>3, <1>4, <1>5 DEF LoopNext, ProgressStep

\* The loop of evaluation.py:366-383, with its refusals and crashes, makes no call
\* that Reconciler's workers may not make: what is proved of them holds of the loop.
THEOREM LoopIsReconciler == LoopSpec => Spec
BY LoopStepIsStep, PTL DEF LoopSpec, LoopInit, Spec

\* What a worker carries from one call of its loop to the next.
LoopInv ==
    /\ pc \in [Worker -> {"read", "record", "dispatch", "done"}]
    /\ \A w \in Worker :
        /\ pc[w] = "dispatch" => held[w] # None /\ held[w].operation = Target
        /\ pc[w] = "done" => completions[Goal] # None /\ completions[Goal].operation = Target

\* A worker at the label moves to the next one; the others keep what they carry.
LEMMA WorkerMoves ==
    ASSUME LoopInv, NEW w \in Worker, NEW label \in {"read", "record", "dispatch", "done"},
           pc' = [pc EXCEPT ![w] = label],
           \A v \in Worker \ {w} : held'[v] = held[v],
           completions[Goal] # None => completions'[Goal] = completions[Goal],
           label = "dispatch" => held'[w] # None /\ held'[w].operation = Target,
           label = "done" => completions'[Goal] # None /\ completions'[Goal].operation = Target
    PROVE  LoopInv'
<1>1. pc' \in [Worker -> {"read", "record", "dispatch", "done"}]
  BY DEF LoopInv
<1>2. pc'[w] = label /\ \A v \in Worker \ {w} : pc'[v] = pc[v]
  BY DEF LoopInv
<1>3. Goal' = Goal /\ Target' = Target
  BY DEF Goal
<1> QED
  BY <1>1, <1>2, <1>3 DEF LoopInv

LEMMA LoopStep == ReconcilerInv /\ LoopInv /\ [LoopNext]_loopVars => LoopInv'
<1> SUFFICES ASSUME ReconcilerInv, LoopInv, [LoopNext]_loopVars
             PROVE  LoopInv'
  OBVIOUS
<1> USE LoopAssumption
<1>1. /\ readback \in [Worker -> ProviderEvidence \cup {None}]
      /\ held \in [Worker -> EvidenceRecord \cup {None}]
      /\ Goal \in Identity
      /\ EvidenceInv
  BY IdentityType DEF ReconcilerInv, TypeOK, Goal
<1>2. ASSUME UNCHANGED <<held, completions, pc>>
      PROVE  LoopInv'
  BY <1>2 DEF LoopInv, Goal
<1>3. CASE UNCHANGED loopVars
  BY <1>2, <1>3 DEF loopVars, vars
<1>4. CASE Disturb
  BY <1>2, <1>4 DEF Disturb, ProviderStep, CommitElsewhere, Forget, evidenceVars, workerVars
<1>5. ASSUME NEW w \in Worker, FullRead(w) \/ WeakRead(w)
      PROVE  LoopInv'
  <2>1. pc' = [pc EXCEPT ![w] = "record"] /\ UNCHANGED <<held, completions>>
    BY <1>5 DEF FullRead, WeakRead, Read, ReadWeak, Goto, evidenceVars
  <2> QED
    BY <2>1, WorkerMoves
<1>6. ASSUME NEW w \in Worker, RecordStep(w)
      PROVE  LoopInv'
  <2>1. PICK id \in EvidenceId : RecordReadback(w, Target, id)
    BY <1>6 DEF RecordStep
  <2>2. readback[w] \in ProviderEvidence
    BY <1>1, <2>1 DEF RecordReadback
  <2>3. Record(Target, id, readback[w])
    BY <2>1 DEF RecordReadback
  <2>4. /\ RecordResult(Target, id, readback[w]) \in EvidenceRecord
        /\ RecordResult(Target, id, readback[w]).operation = Target
        /\ completions' = completions
    BY <1>1, <2>2, <2>3, RecordChanges
  <2>5. held' = [held EXCEPT ![w] = RecordResult(Target, id, readback[w])]
    BY <2>1 DEF RecordReadback
  <2>6. pc' = [pc EXCEPT ![w] = "dispatch"]
    BY <1>6 DEF RecordStep, Goto
  <2>7. held'[w] # None /\ held'[w].operation = Target
    BY <1>1, <2>4, <2>5, NoneIsNoRecord
  <2> QED
    BY <1>1, <2>4, <2>5, <2>6, <2>7, WorkerMoves
<1>7. ASSUME NEW w \in Worker, RetryStep(w)
      PROVE  LoopInv'
  <2>1. pc' = [pc EXCEPT ![w] = "read"] /\ UNCHANGED <<held, completions>>
    BY <1>7 DEF RetryStep, ApplyRetry, Goto, evidenceVars, workerVars
  <2> QED
    BY <2>1, WorkerMoves
<1>8. ASSUME NEW w \in Worker, CompleteStep(w)
      PROVE  LoopInv'
  <2>1. held[w] \in EvidenceRecord /\ held[w].operation = Target
    BY <1>1, <1>8 DEF CompleteStep, Complete, LoopInv
  <2>2. /\ held[w].evidence_id \in EvidenceId
        /\ MarkReconciled(Target, held[w].evidence_id, held[w].decision)
    BY <1>8, <2>1 DEF CompleteStep, Complete, EvidenceRecord
  <2>3. PICK c \in CompletionRecord :
          /\ c.operation = Target
          /\ completions' = [completions EXCEPT ![Goal] = c]
          /\ completions[Goal] # None => completions' = completions
    BY <1>1, <2>2, MarkChanges DEF Goal
  <2>4. completions'[Goal] = c /\ c # None
    BY <1>1, <2>3, NoneIsNoRecord DEF EvidenceInv, EvidenceTypeOK
  <2>5. pc' = [pc EXCEPT ![w] = "done"] /\ held' = held
    BY <1>8 DEF CompleteStep, Complete, Goto, workerVars
  <2> QED
    BY <2>3, <2>4, <2>5, WorkerMoves
<1>9. ASSUME NEW w \in Worker, RecordRefused(w) \/ RetryRefused(w) \/ CompleteRefused(w)
      PROVE  LoopInv'
  <2>1. pc' = [pc EXCEPT ![w] = "read"] /\ UNCHANGED <<held, completions>>
    BY <1>9 DEF RecordRefused, RetryRefused, CompleteRefused, Goto, vars
  <2> QED
    BY <2>1, WorkerMoves
<1>10. ASSUME NEW w \in Worker, CrashStep(w)
       PROVE  LoopInv'
  <2>1. /\ pc' = [pc EXCEPT ![w] = "read"]
        /\ held' = [held EXCEPT ![w] = None]
        /\ completions' = completions
    BY <1>10 DEF CrashStep, Crash, evidenceVars
  <2>2. \A v \in Worker \ {w} : held'[v] = held[v]
    BY <1>1, <2>1
  <2> QED
    BY <2>1, <2>2, WorkerMoves
<1> QED
  BY <1>3, <1>4, <1>5, <1>6, <1>7, <1>8, <1>9, <1>10 DEF LoopNext, ProgressStep

\* A worker that has left the loop leaves a completion of its target behind, and
\* the target was at the provider at the revision it names: whatever refusals, crashes and disturbances came
\* in between, no worker stops on a decision that was not carried through
\* (evaluation.py:366-383).
FinishedIsReconciled ==
    \A w \in Worker : pc[w] = "done" =>
        /\ completions[Goal] # None
        /\ completions[Goal].operation = Target
        /\ <<Target, completions[Goal].revision>> \in presentAt

\* FinishedIsReconciled holds of the loop for any number of workers, crashes and
\* disturbances (evaluation.py:366-383).
THEOREM FinishedWorkersReconciled == LoopSpec => []FinishedIsReconciled
<1>1. LoopInit => LoopInv
  BY DEF LoopInit, LoopInv
<1>2. ReconcilerInv /\ LoopInv => FinishedIsReconciled
  BY LoopAssumption, IdentityType
     DEF ReconcilerInv, LoopInv, FinishedIsReconciled, CompletionWasWitnessed, Goal
<1> QED
  BY <1>1, <1>2, LoopStep, LoopIsReconciler, ReconcilerInvariant, PTL DEF LoopSpec
=============================================================================
