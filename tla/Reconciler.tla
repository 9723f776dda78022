----------------------------- MODULE Reconciler -----------------------------
(***************************************************************************)
(* Competing reconcilers over the two stores: each worker process reads    *)
(* the provider, records the readback in the evidence store, applies the   *)
(* retry it holds and marks the operation reconciled, in any legal order   *)
(* of calls and with any argument, while other workers do the same.  The   *)
(* stores are two databases: nothing makes a provider call and an evidence *)
(* call atomic together, and a worker that crashes loses only its memory.  *)
(*                                                                         *)
(* Workers also face what the provider does without them: somebody outside *)
(* this lineage commits (the original, unacknowledged submission, or a     *)
(* client with another evidence database), an effect is dropped, and a     *)
(* readback carries less than a full answer.                               *)
(*                                                                         *)
(* A call that raises changes nothing and is not a step.                   *)
(***************************************************************************)
EXTENDS ProviderStore, EvidenceStore

CONSTANT Worker

VARIABLES
    readback,   \* the last ProviderEvidence in each worker's memory
    held,       \* the evidence record each worker would act on
    \* History, read by the properties only:
    presentAt,  \* <<op, r>>: the provider held op at its revision r
    repeats     \* commits made by workers, for each identity

workerVars == <<readback, held>>
historyVars == <<presentAt, repeats>>
vars == <<revision, effects, heads, completions, readback, held, presentAt, repeats>>

TypeOK ==
    /\ ProviderTypeOK
    /\ EvidenceTypeOK
    /\ readback \in [Worker -> ProviderEvidence \cup {None}]
    /\ held \in [Worker -> EvidenceRecord \cup {None}]
    /\ presentAt \in SUBSET (Operation \X Revision)
    /\ repeats \in [Identity -> Nat]

Init ==
    /\ ProviderInit
    /\ EvidenceInit
    /\ readback = [w \in Worker |-> None]
    /\ held = [w \in Worker |-> None]
    /\ presentAt = {}
    /\ repeats = [k \in Identity |-> 0]

\* The provider p has moved to its next revision.
ExtendHistory(p) ==
    presentAt' = presentAt \cup
        {<<op, revision'[p]>> : op \in {e \in effects' : e.provider = p}}

-----------------------------------------------------------------------------
Read(w, op) ==
    /\ Readable(op)
    /\ readback' = [readback EXCEPT ![w] = ReadResult(op)]
    /\ UNCHANGED <<providerVars, evidenceVars, held, historyVars>>

\* A true readback that does not establish enough: the state is ambiguous, the
\* idempotency binding is missing, or there is no revision.
WeakReadings(op) ==
    {[ReadResult(op) EXCEPT !.readback = "ambiguous", !.observed = None, !.idempotency = op],
     [ReadResult(op) EXCEPT !.idempotency = None],
     [ReadResult(op) EXCEPT !.revision = None]}

ReadWeak(w, op) ==
    /\ Readable(op)
    /\ \E ev \in WeakReadings(op) : readback' = [readback EXCEPT ![w] = ev]
    /\ UNCHANGED <<providerVars, evidenceVars, held, historyVars>>

RecordReadback(w, op, id) ==
    /\ readback[w] # None
    /\ Record(op, id, readback[w])
    /\ held' = [held EXCEPT ![w] = RecordResult(op, id, readback[w])]
    /\ UNCHANGED <<providerVars, readback, historyVars>>

LoadCurrent(w, op) ==
    /\ HasCurrent(op)
    /\ held' = [held EXCEPT ![w] = heads[IdentityOf(op)]]
    /\ UNCHANGED <<providerVars, evidenceVars, readback, historyVars>>

\* The worker does not hold the evidence database while the provider applies.
ApplyRetry(w, op) ==
    /\ held[w] # None
    /\ ConditionalApply(op, held[w].decision)
    /\ ExtendHistory(op.provider)
    /\ repeats' = [repeats EXCEPT ![IdentityOf(op)] = @ + 1]
    /\ UNCHANGED <<evidenceVars, workerVars>>

Complete(w) ==
    /\ held[w] # None
    /\ MarkReconciled(held[w].operation, held[w].evidence_id, held[w].decision)
    /\ UNCHANGED <<providerVars, workerVars, historyVars>>

Crash(w) ==
    /\ readback' = [readback EXCEPT ![w] = None]
    /\ held' = [held EXCEPT ![w] = None]
    /\ UNCHANGED <<providerVars, evidenceVars, historyVars>>

\* A client outside the lineage reads and applies; only its write is a step,
\* since a write at an older revision than the current one is rejected.
CommitElsewhere(op) ==
    /\ ConditionalApply(op, RetryExactOperation(op, revision[op.provider]))
    /\ ExtendHistory(op.provider)
    /\ UNCHANGED <<evidenceVars, workerVars, repeats>>

Forget(op) ==
    /\ Remove(op)
    /\ ExtendHistory(op.provider)
    /\ UNCHANGED <<evidenceVars, workerVars, repeats>>

WorkerStep(w) ==
    \/ Crash(w)
    \/ Complete(w)
    \/ \E op \in Operation :
        \/ Read(w, op)
        \/ ReadWeak(w, op)
        \/ \E id \in EvidenceId : RecordReadback(w, op, id)
        \/ LoadCurrent(w, op)
        \/ ApplyRetry(w, op)

ProviderStep == \E op \in Operation : CommitElsewhere(op) \/ Forget(op)

Next == (\E w \in Worker : WorkerStep(w)) \/ ProviderStep

Spec == Init /\ [][Next]_vars

-----------------------------------------------------------------------------
HeldAt(k, r) == {op \in Operation : IdentityOf(op) = k /\ <<op, r>> \in presentAt}

\* What a record claims about the provider was so at the revision it names.
TrueRecord(rec) ==
    /\ rec.revision <= revision[rec.operation.provider]
    /\ \/ /\ rec.decision = AcceptRemoteCommit
          /\ <<rec.operation, rec.revision>> \in presentAt
       \/ /\ rec.decision = RetryExactOperation(rec.operation, rec.revision)
          /\ HeldAt(IdentityOf(rec.operation), rec.revision) = {}

\* Every durable verdict, and every one a worker still acts on, was true of the
\* provider at its revision: ambiguous, weak, mismatched and outdated readbacks
\* have left no trace (reconciliation.py:123-166).
VerdictsWereTrue ==
    /\ \A k \in Identity : heads[k] # None =>
        /\ IdentityOf(heads[k].operation) = k
        /\ TrueRecord(heads[k])
    /\ \A w \in Worker : held[w] # None => TrueRecord(held[w])

\* Authority the provider would honour now is the current head of its identity
\* and the identity is not completed.  apply_retry checks the head in one
\* database and applies in another without holding the first: the revision
\* guard of the provider closes that window (evidence_lineage.py:308-309).
HonouredAuthorityIsCurrent ==
    \A w \in Worker, op \in Operation :
        (held[w] # None /\ RetryHonoured(op, held[w].decision, revision[op.provider], effects))
        => /\ heads[IdentityOf(op)] = held[w]
           /\ completions[IdentityOf(op)] = None

\* Readbacks of one provider at one revision agree whatever workers, crashes
\* and delays lie between them: record never raises the conflict of lines
\* 172-174 against a consistent provider.
SameRevisionNeverConflicts ==
    \A w \in Worker, op \in Operation :
        (/\ readback[w] # None
         /\ readback[w].revision # None
         /\ Reconcilable(op, readback[w])
         /\ HasCurrent(op)
         /\ heads[IdentityOf(op)].revision = readback[w].revision)
        => heads[IdentityOf(op)].decision = ReconcileLostAck(op, readback[w])

\* A completion names an operation the provider really held, at a revision it
\* held it, and the head still accepts it: mark_reconciled cannot complete from
\* a superseded or invented decision (lines 246-258).
CompletionWasWitnessed ==
    \A k \in Identity : completions[k] # None =>
        /\ <<completions[k].operation, completions[k].revision>> \in presentAt
        /\ heads[k] # None
        /\ heads[k].operation = completions[k].operation
        /\ heads[k].decision = AcceptRemoteCommit
        /\ completions[k].revision <= heads[k].revision

-----------------------------------------------------------------------------
(* The parts the safety invariants need to be inductive. *)

\* presentAt is the provider's past, its last entry the present, and no revision
\* held two effects for one identity.
HistoryIsExact ==
    /\ \A op \in Operation, r \in Revision :
        <<op, r>> \in presentAt => r <= revision[op.provider]
    /\ \A op \in Operation :
        op \in effects <=> <<op, revision[op.provider]>> \in presentAt
    /\ \A op1, op2 \in Operation, r \in Revision :
        (/\ <<op1, r>> \in presentAt
         /\ <<op2, r>> \in presentAt
         /\ IdentityOf(op1) = IdentityOf(op2)) => op1 = op2

TrueReadback(ev) ==
    ev.revision # None =>
        /\ ev.revision <= revision[ev.provider]
        /\ \A op \in Operation :
            /\ AcceptsRemoteCommit(op, ev) => <<op, ev.revision>> \in presentAt
            /\ (BoundTo(op, ev) /\ ev.readback = "absent")
               => <<op, ev.revision>> \notin presentAt

ReadbacksWereTrue ==
    \A w \in Worker : readback[w] # None => TrueReadback(readback[w])

\* A worker holds the head or an older head of the same operation.
BehindHead(rec) ==
    LET head == heads[IdentityOf(rec.operation)] IN
    /\ head # None
    /\ head.operation = rec.operation
    /\ \/ rec = head
       \/ rec.revision < head.revision

HeldBehindHeads == \A w \in Worker : held[w] # None => BehindHead(held[w])

-----------------------------------------------------------------------------
Verdict(head) ==
    IF head = None THEN None
    ELSE IF head.decision = AcceptRemoteCommit
         THEN <<"accept", head.operation>>
         ELSE <<"retry", head.operation>>

Settlement(completion) == IF completion = None THEN None ELSE completion.operation

Contract == INSTANCE LostAckContract WITH
    everHeld <- {pair[1] : pair \in presentAt},
    verdict  <- [k \in Identity |-> Verdict(heads[k])],
    settled  <- [k \in Identity |-> Settlement(completions[k])]

\* The stores and workers implement LostAckContract: an operation is repeated
\* only under the durable verdict of an unsettled identity, and settled only
\* once its effect was seen.
ImplementsLostAckContract == Contract!Spec
=============================================================================
