--------------------------- MODULE ReconcilerLoop ---------------------------
(***************************************************************************)
(* The reconciliation loop the repository runs over the two stores         *)
(* (evaluation.py, _competing_retry_authorities_converge; the worker of    *)
(* test_competing_reconcilers.py): read the provider, record the readback, *)
(* apply the retry it authorises or mark the operation reconciled, and     *)
(* start again from a fresh read after every refusal.  The stores' actions *)
(* are those of Reconciler; this module adds each worker's control.        *)
(*                                                                         *)
(* The provider may disturb the workers only Disturbances times and a      *)
(* worker may crash only while the crash budget lasts: with unbounded      *)
(* interference no loop of this kind converges.                            *)
(***************************************************************************)
EXTENDS Reconciler

CONSTANTS
    Target,         \* the operation whose acknowledgement was lost
    Disturbances,   \* provider steps not made by a worker
    Crashes         \* worker crashes

\* Room for one repetition after every disturbance.
ASSUME LoopAssumption ==
    /\ Target \in Operation
    /\ Disturbances \in Nat
    /\ Crashes \in Nat
    /\ MaxRevision >= 2 * Disturbances + 1

VARIABLES
    pc,             \* [Worker -> {"read", "record", "dispatch", "done"}]
    disturbances,
    crashes

loopVars == <<vars, pc, disturbances, crashes>>

Goal == IdentityOf(Target)

LoopInit ==
    /\ Init
    /\ pc = [w \in Worker |-> "read"]
    /\ disturbances = 0
    /\ crashes = 0

Goto(w, label) ==
    /\ pc' = [pc EXCEPT ![w] = label]
    /\ UNCHANGED <<disturbances, crashes>>

\* A full readback; read raises on a conflicting effect, which is no step.
FullRead(w) == pc[w] = "read" /\ Read(w, Target) /\ Goto(w, "record")

WeakRead(w) == pc[w] = "read" /\ ReadWeak(w, Target) /\ Goto(w, "record")

RecordStep(w) ==
    /\ pc[w] = "record"
    /\ \E id \in EvidenceId : RecordReadback(w, Target, id)
    /\ Goto(w, "dispatch")

\* Seeded fault: a worker whose readback was superseded keeps recording it.
KeepsSuperseded(w) ==
    /\ pc[w] = "record"
    /\ \A id \in EvidenceId : ~ Recordable(Target, id, readback[w])
    /\ UNCHANGED vars
    /\ Goto(w, "record")

\* record raised: the readback is weak or superseded, read again.
RecordRefused(w) ==
    /\ pc[w] = "record"
    /\ \A id \in EvidenceId : ~ Recordable(Target, id, readback[w])
    /\ UNCHANGED vars
    /\ Goto(w, "read")

HoldsRetry(w) == held[w].decision.action = "retry_exact_operation"

\* Seeded fault: after its retry a worker takes the effect for reconciled.
StopsAfterRetry(w) ==
    /\ pc[w] = "dispatch"
    /\ HoldsRetry(w)
    /\ ApplyRetry(w, Target)
    /\ Goto(w, "done")

RetryStep(w) ==
    /\ pc[w] = "dispatch"
    /\ HoldsRetry(w)
    /\ ApplyRetry(w, Target)
    /\ Goto(w, "read")

\* conditional_apply raised StaleProviderReadback: reconcile again.
RetryRefused(w) ==
    /\ pc[w] = "dispatch"
    /\ HoldsRetry(w)
    /\ ~ RetryHonoured(Target, held[w].decision, revision[Target.provider], effects)
    /\ UNCHANGED vars
    /\ Goto(w, "read")

CompleteStep(w) == pc[w] = "dispatch" /\ Complete(w) /\ Goto(w, "done")

\* mark_reconciled raised: a newer head superseded the decision.
CompleteRefused(w) ==
    /\ pc[w] = "dispatch"
    /\ ~ HoldsRetry(w)
    /\ ~ Completable(Target, held[w].evidence_id, held[w].decision)
    /\ UNCHANGED vars
    /\ Goto(w, "read")

CrashStep(w) ==
    /\ crashes < Crashes
    /\ pc[w] # "done"
    /\ Crash(w)
    /\ crashes' = crashes + 1
    /\ pc' = [pc EXCEPT ![w] = "read"]
    /\ UNCHANGED disturbances

Disturb ==
    /\ disturbances < Disturbances
    /\ ProviderStep
    /\ disturbances' = disturbances + 1
    /\ UNCHANGED <<pc, crashes>>

\* What a worker does at "record" and "dispatch" needs no luck.
ProgressStep(w) ==
    \/ RecordStep(w)
    \/ RecordRefused(w)
    \/ RetryStep(w)
    \/ RetryRefused(w)
    \/ CompleteStep(w)
    \/ CompleteRefused(w)

LoopNext ==
    \/ \E w \in Worker : FullRead(w) \/ WeakRead(w) \/ ProgressStep(w) \/ CrashStep(w)
    \/ Disturb

\* A running worker makes its next call; a provider that is asked again and
\* again answers in full again and again.
Fairness ==
    \A w \in Worker : WF_loopVars(ProgressStep(w)) /\ SF_loopVars(FullRead(w))

LoopSpec == LoopInit /\ [][LoopNext]_loopVars

FairLoopSpec == LoopSpec /\ Fairness

-----------------------------------------------------------------------------
\* The lost acknowledgement is resolved: whatever crashes, outside commits,
\* dropped effects and weak readbacks come first, a completion is written.
EventuallyReconciled == <>(completions[Goal] # None)

\* If the provider keeps the effect from some time on, every worker gets
\* through its loop: being superseded by a peer is never a dead end.
EveryWorkerFinishes ==
    <>[](Target \in effects) => \A w \in Worker : <>(pc[w] = "done")
=============================================================================
