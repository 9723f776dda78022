# Verification of the coding-agent reliability lab

TLA+ modules, TLC configurations and TLAPS proofs about
`src/src/agent_reliability_lab`. Paths below are relative to that package unless
they start with `src/`. `PROJECT.json` maps each definition to the lines it
translates.

## 1. Inventory

| Part | Source | State | Operations | Correct when |
|---|---|---|---|---|
| Reconciliation decision | `reconciliation.py` 23-217 | none | `reconcile_lost_ack`, `apply_conditional_retry` | only a readback that proves presence, or absence with an exact idempotency binding and a revision, yields a decision; a retry is bound to effect and revision |
| Provider store | `reconciliation.py` 220-329 | `provider_revisions`, `provider_effects` | `read`, `conditional_apply`, `snapshot` | the write and the revision check are one step; one effect for each identity |
| Evidence store | `evidence_lineage.py` | `reconciliation_heads`, `reconciliation_completions` | `record`, `mark_reconciled`, `current`, `assert_current`, `completion`, `apply_retry` | the head only advances; a completion is final and ends retry authority |
| Competing reconcilers | `evaluation.py` 313-402, `src/tests/test_competing_reconcilers.py` | worker memory | read, record, retry, complete, restart | verdicts are true, superseded authority has no effect, the loop converges |
| Fencing | `fencing.py` | `fencing_store_metadata`, `fencing_state`, the generation cached by each store object | `acquire`, `write`, `state`, opening | epochs are unique, one token in authority, late writers are refused |
| Approval replay | `approvals.py` | requests, decisions, executed | `replay_approval` | exact binding, no reversal, no execution without approval |
| Durable sandbox | `durable.py` | `operations`, `notes`, the write lock | `request`, `decide`, `execute`, `notes` | effect and completion are atomic, at most one caller gets `True` |
| Checkpoint recovery | `recovery.py` | `recovery_runs`, `recovery_checkpoints` | `start`, `advance`, `resume`, `current` | the lineage is a chain, progress grows, stale checkpoints are refused |
| Event replay | `events.py`, `simulator.py` | `RunState` | `replay` | only the active turn counts, termination is final |
| Effect replay | `effects.py` | ledger | `replay_effects` | one application for each operation id |
| Trace integrity | `trace_integrity.py` | the local variables of `validate_trace` | `validate_trace`, `apply_mutation`, `evaluate_trace_corpus` | accepts the stores' traces, detects every frozen kind of corruption |
| Evaluation harness | `evaluation.py` | the results so far | `evaluate`, `run_scenario_manifest`, `summarize_results`, 11 scenario runners | "pass" means that every required check held |
| Source verifiers | `src/evals/reliability_v1`, `src/evals/trace_integrity_v1`: `verify_protocol.py`, `verify_results.py` | run artifacts and `RESULTS.json` in the working tree | scripts | a publication follows from byte-identical runs of the frozen protocol |
| Release gate | `src/evals/release_gate_v1`: `verify_protocol.py`, `evaluate.py`, `verify_results.py` | `EVIDENCE.json`, run artifacts and `RESULTS.json` in the working tree | scripts, `evaluate_source`, `evaluate_manifest` | ready only if every source is backed, verified only if every run says so |

How the parts interact. The stores are separate SQLite files. Each method opens
a connection and is one `BEGIN IMMEDIATE` transaction, so calls on one store are
serialized, while nothing serializes calls on two stores: a reconciler that goes
from the provider to the evidence store and back is exposed to everything other
processes do in between. Decisions, evidence records, tokens and checkpoints are
immutable values that callers keep and may present at any later time. Approval
replay and the sandbox state one lifecycle twice, in memory and in a database;
so do `acquire_authority` / `fenced_write` and `PersistentFencingStore`. The
trace validator is the only code that relates the layers: it reads what they
recorded about one operation. The scenarios, the corpus and the verifiers are
scripts over the files of a working tree, each of which reads the tree at its own
moment; people run them and write the publications.

The hard behaviour is therefore: values used after the state they were read from
has changed; processes that die between two transactions or inside one; calls
repeated because an answer was lost; a database file replaced under a process
that has it open; files edited between two scripts; a validator that reads each
record once; and convergence in spite of all this. The hazards in
`PROJECT.json` list it line by line.

## 2. Modules

| Module | Models | Depends on |
|---|---|---|
| `Reconciliation` | decision functions and value types | |
| `ProviderStore` | the provider's two tables | `Reconciliation` |
| `EvidenceStore` | the evidence store's two tables, and a specification of its own | `Reconciliation` |
| `LostAckContract` | abstract: what reconciliation promises | |
| `Reconciler` | worker processes over both stores | `ProviderStore`, `EvidenceStore`, `LostAckContract` |
| `ReconcilerLoop` | the workers' control, for liveness | `Reconciler` |
| `FencedAuthority` | abstract: the in-memory fencing functions | |
| `PersistentFencing` | the fencing store with processes and replaced files | `FencedAuthority` |
| `Approvals` | abstract: the approval replay loop | |
| `DurableSandbox` | the sandbox with processes that die inside `execute` | `Approvals` |
| `CheckpointStore` | checkpoint lineages | |
| `EventReplay` | the event reducer, naive and scoped | |
| `EffectReplay` | the effect ledger, naive and idempotent | |
| `TraceValidator` | the trace validator | |
| `TraceIntegrity` | the validator with any trace and the mutations it is evaluated with | `TraceValidator` |
| `CrossLayerTrace` | the layers of one operation, the trace of their commits, the validator | `Approvals`, `EvidenceStore`, `CheckpointStore`, `TraceValidator` |
| `Evaluation` | one run of the scenario manifest, from its items to the disposition | |
| `ReleaseGate` | the scripts of `src/evals` over a working tree | |
| `ReconcilerProofs` | theorems about the evidence store, the reconcilers and their loop | `ReconcilerLoop` |
| `ReleaseGateProofs` | theorems about the release gate and the evaluation harness | `ReleaseGate`, `Evaluation` |
| `CheckpointStoreProofs`, `PersistentFencingProofs`, `DurableSandboxProofs`, `EventReplayProofs`, `EffectReplayProofs` | theorems | the module of that name |
| `TraceProofs` | theorems about the validator | `CrossLayerTrace`, `TraceIntegrity` |
| `MC*` | instances for TLC | |

### How state and actions correspond to the code

* A table is a function from its primary key to a row or `None`, or a set of
  rows. A method is one action, because it is one transaction. `execute` is the
  exception: it has named stages at which tests kill the process, so the sandbox
  has the open transaction as a variable (`pending`) and one action per stage.
* A call that raises rolls back. It is not a step. `Recordable`, `Completable`,
  `RetryHonoured`, `Advances`, `Resumes` and the like say when a call returns.
  A call that times out waiting for the SQLite lock raises as well.
* `tool` and `payload` only matter as an exact pair, so they are one value. A
  SHA-256 digest is modelled by what it digests: no collisions.
* Worker memory is whatever the calls returned. In `Reconciler` a worker may
  make any legal call at any time with what it holds. Retries call the provider
  without the evidence store's check first, as the process test does: the check
  of `assert_current` narrows the window and cannot close it.
* What the code does not control is external: an outside client commits
  (`CommitElsewhere`), the provider drops an effect (`Forget`, `Remove`), gives
  an incomplete answer (`ReadWeak`), a process dies, a file is deleted.
* History variables (`presentAt`, `repeats`, `author`, `returned`, and the rows
  of removed files) are read by no action that models code.
* `OpenNew` and `OpenExisting` are single steps: the generation row is inserted
  with `INSERT OR IGNORE` and read in the same connection, so a concurrent
  opening sees the same generation. `acquire` and `write` on a missing file
  raise, since the empty file SQLite makes has no tables.
* `ReconcilerLoop` closes the straight-line sequences of `evaluation.py` 366-383
  and of the process test's worker into a loop: after every refusal, a fresh
  read. The error messages of the stores prescribe that ("retry must be
  reconciled again"); the repository itself runs it only once round. The test's
  worker would end with an exception where the loop goes on.
* `EventReplay` and `EffectReplay` fold one item a step, so that TLC builds every
  stream; an item's sequence number is its position, which is what the check of
  increasing numbers leaves of it. `turn` and `requests` keep the stream for the
  properties, which say what the result should be without the reducer.
* `validate_trace` is the fold `Accepted` over the records; its local variables
  are the record `Unread`. It reports every violation and goes on, and one is
  enough to reject the trace, so the fold stops at the first: what the variables
  hold after a violation never matters. The two checks it makes after its loop
  are made when their record is read. A missing field and a value of a wrong type
  are `None`.
* `CrossLayerTrace` instantiates the stores' modules. The recorder is not in the
  repository: one record for each commit, in the order of the commits, is what
  the baseline traces show. Calls that change nothing leave no record.
* In `Evaluation` a runner returns any result; safety, convergence and
  fail-closed checks are treated alike by the code and are the set `Check`.
* In `ReleaseGate` an edit may fall between any two steps, and one source is
  evaluated in one step. A script that only reads is a predicate where nothing
  depends on when it ran, and an action where something does (`VerifyBoundary`).
  What people write, `RESULTS.json` and `EVIDENCE.json`, may be wrong.
* `MCTrace` checks two specifications in one run: a behaviour is one of the stores
  with their trace (`CrossLayerTrace`) or one of a trace of any records
  (`TraceIntegrity`). They share the validator and no variable; the variables of
  the other one keep their initial values. The theorems are about each alone.
* Definitions commented "Seeded fault" are plausible bugs. No specification uses
  them; each breaks the property `PROJECT.json` pairs it with.

## 3. Runs

| Run | Instance | Shows |
|---|---|---|
| `reconciler` | 2 workers, 1 identity, 2 effects, 2 evidence ids, revisions 0..4 | races, crashes, outside commits and dropped effects; head and completion rules; refinement of the contract |
| `loop` | 2 workers, 1 operation, 2 disturbances, 1 crash | convergence |
| `fencing` | 2 processes, 1 resource, 2 operations, 3 generations, epochs 1..3 | fencing across crashes and two replacements |
| `sandbox` | 3 processes, 2 operations, 2 payloads | atomicity, single claim, approval lifecycle; an approved operation is executed |
| `checkpoints` | 2 runs, 4 ids, plans of 2 and 3 operations | linear lineage, monotonic progress |
| `events` | 2 runs x 2 turns, 3 kinds, 2 payloads (one empty), 5 events | strangers and late events change nothing; conflicts are raised exactly |
| `effects` | 3 operations, 2 effects, 5 requests | one application for each operation, exact conflicts |
| `checkpoint_replay` | as `checkpoints` | a violation, see below |
| `trace` | all 6 kinds of record, 2 ids, 2 payloads, numbers 0..1, 4 records, 1 mutation of traces of up to 3 | the validator accepts exactly the coherent traces, mutated or not; the frozen kinds of corruption are detected in every trace |
| | 1 operation, 2 effects, 2 evidence ids, 3 checkpoint ids, revisions 0..2 | what the stores commit, in whatever order, is a clean trace |
| `trace_schema` | 4 kinds of record, 2 records, 1 mutation | a violation, see below |
| `evaluation` | 2 kinds of check, 2 runners and an unknown one, 3 items | no vacuous pass |
| `release_gate` | 2 sources, 2 runs each, 2 runs of the gate, 2 slips | readiness and release are backed |

Why the bounds are enough. The guards compare a value with the current one
(revision, epoch, head), so what matters is "current", "older" and "older than
that". Four revisions allow retry, drop, outside commit and drop again after a
readback; three epochs and three generations allow a token that is one and two
behind, in the same and in another file; a plan of three operations allows
lineages of every length up to three advances. Two workers give every race of
two calls; a third process in the sandbox can claim, wait and die at once. Five
events allow output, a stranger, a termination, a repetition and a contradiction
in one stream, five requests a retry and a conflict between three operations.
Four records allow an approval, a denial, an effect and one more, or two readbacks
and a completion among others; the validator remembers the last approval, denial
and checkpoint and all evidence, so a third record of a kind shows what it has
forgotten of the first. Three items give a manifest a first, a middle
and a last scenario. Two slips let a false publication be covered by an edited
verifier or artifact; two runs are what the frozen protocols require.
`MaxRevision`, `MaxNumber`, `MaxEpoch`, `MaxSequence`, `MaxEvents`, `MaxRequests`,
`MaxRecords`, `MaxMutated`, `MaxItems`, `MaxSlips` and the finite `Generation`
are the bounds of the models; the code has none. One identity in
`reconciler` leaves out that all identities of a provider share its revision;
the theorems of section 4 cover any number of them, and any number of
contradictory readbacks for the evidence store. `Disturbances` and `Crashes` bound what
the environment does in the liveness run, where unbounded interference would
defeat any loop. The safety runs have no such bound.

Symmetry is used for workers, processes, ids, effects and values in safety
runs, where no constant is singled out. The liveness runs use none.

Deadlock. `loop` stops when all workers are done, `checkpoints` when all plans
are complete, `events` and `effects` at a conflict or at the end of the stream; a
trace ends at its bound or at its mutation, an evaluation when it has finished
or raised, a release when it is published: these turn deadlock checking off. The
others may always move.

Fairness. `FairLoopSpec`: a running worker makes its next call (weak fairness of
the step its program counter allows: the code has no waiting of its own), and a
provider that is asked again and again answers in full again and again (strong
fairness of `FullRead`; weak answers may come in between, any number of times).
`FairSpec` of the sandbox: a live process executes its next statement, and while
an approved operation is not completed some caller goes on calling `execute`.
`ApprovedIsExecuted` assumes in its statement that transactions do not abort for
ever. `EveryWorkerFinishes` assumes that the provider keeps the effect from some
time on. A worker faced with a *completed* operation whose effect was then
dropped has its absence readback refused for good: the code gives it no answer
but an exception, and no property claims it finishes.

### Findings

`checkpoint_replay`: the docstring of `advance` (`recovery.py:197`) and
`src/docs/SIMULATION_MILESTONES.md:68` say that exact replay of a committed
advance is idempotent. The code returns the stored checkpoint only while it is
still the head (line 227); one advance later the same call raises
`CheckpointConflict` with the message that the id is bound to different
progress. This is safe, as `checkpoints` shows, but is not what is said.

`trace_schema`: `validate_trace` accepts traces that
`src/evals/trace_integrity_v1/TRACE_SCHEMA.json` rules out. It reads fields with
`get`, a missing field is `None`, and `None` is reported only where something else
is asked for. The run's trace is one readback without its `effect_sha256`. The
ways to violate `AcceptedTracesAreConsistent` are

| Record | What the schema requires | Why the code accepts the trace |
|---|---|---|
| `provider_evidence` | `effect_sha256` (line 54) | compared only after an approval or effect (`trace_integrity.py:241`) |
| `reconciliation_completion` | `effect_sha256` (line 63) | the same (line 264), and the evidence it names may lack it too |
| root `checkpoint` | `parent_checkpoint_id` (line 31) | a missing parent is a null one (line 303) |
| `effect` | `idempotency_key` (line 44) | never read |
| `checkpoint` | a linear lineage (line 12) | a parent is compared with the checkpoint before (line 308), checkpoint ids never with each other |

What the validator does enforce is `Coherent`, which is `Consistent` without these five
demands; `AcceptsExactlyCoherentTraces` is about that, and shows that the other rules
are all enforced. No store of the repository writes such traces.

Two further observations have no run of their own:

* Evidence recorded before the first approval is never compared with the binding
  that follows. Neither `Coherent` nor the schema asks for it: line 10 binds
  approvals and effects to each other.
* `evaluate.py` counts the sources of the manifest it reads (line 236) without
  comparing their ids or the manifest's digest, and the gate's `verify_results.py`
  compares the digest of the manifest as it is *then*. A manifest that lists one
  source twice during the gate's runs, and is restored before verification, gives
  a release that verifies without the other source, which
  `src/evals/release_gate_v1/README.md:19` excludes. `VerifiedReleaseIsReproduced`
  shows what is left: all runs agree, and each source they list was backed.

## 4. Proofs

Assumptions: the bounds are natural numbers, every plan has an operation, the
gate's manifest lists each source once and is not empty, the loop's target is an
operation, `None` and `NotApplicable` differ from every value they stand in for, and
`Foreign` from the trace's own names (the named `ASSUME`s). The sets of processes, workers, ids, payloads and
generations are arbitrary, finite or not.

`ReconcilerProofs`, the evidence store. `EvidenceTypeOK` and `CompletedNeverRegainsRetry` are not
inductive alone: that a completion is at the head's revision or before it holds
only because each head and completion is stored under its own identity.
`EvidenceInv` adds that. Each of `Record` and `MarkReconciled` has one lemma.
`HeadsOnlyAdvance` and `CompletionIsFinal` follow step by step from the types.

`ReconcilerProofs`, the reconcilers. The invariant `ReconcilerInv` is the conjunction of

* `HistoryIsExact`: `presentAt` holds exactly the provider's past, so that "the
  provider held this effect at revision r" is a fact that never changes;
* `ReadbacksWereTrue`: what a worker has read was so at its revision;
* `VerdictsWereTrue`: what it has recorded was so, since only such readbacks
  pass `reconcile_lost_ack`;
* `HeldBehindHeads`: a worker holds the current head or an older one;
* `CompletionWasWitnessed`, with `TypeOK` and `EvidenceInv`.

`HonouredAuthorityIsCurrent` follows. If the provider would honour the authority
a worker holds, its revision is the one that was read. If the head were newer,
it would name a revision not after the present one (`VerdictsWereTrue`) and
after the one held (`HeldBehindHeads`), a contradiction; were the identity
completed, the head would accept, yet it is the retry held. So the unprotected
window between `assert_current` and the provider call is harmless because
`conditional_apply` compares the revision. `SameRevisionNeverConflicts` follows
from the same history. `Refinement` maps each step: a retry of a worker needs
the identity's durable verdict to be that retry and the identity unsettled, which
is what `HonouredAuthorityIsCurrent` says.
`UsesEvidenceStore` shows that the composition drives the evidence store only in
ways its own specification has, so its action theorems carry over.
`LoopIsReconciler` does the same one level up: each step of the workers' loop is a
step of `Reconciler` or leaves the stores alone, so all of the above holds of the
loop too, of which TLC checks the liveness. `FinishedWorkersReconciled` adds what
only the loop's control gives: a worker carries a record of its target from
`record` to the dispatch (`LoopInv`), so it stops only behind a completion of that
target, and `CompletionWasWitnessed` says that the target was there.

`CheckpointStoreProofs`. `LineageIsLinear` is inductive once the ids of a run are
known to differ (`IdsAreUnique`), for then the head names one checkpoint and the
checkpoint a caller advances from is the last of its chain (`ParentIsLast`).
That its sequence number plus one is free (`NoCollision`) follows, so the
constraints of the table are never what refuses an advance. A stale checkpoint
can only become current again if its id is used again, which `advance` excludes.

`PersistentFencingProofs`. The invariant `FencingInv` says that every token's
epoch has been reached by the row it came from and agrees with the row's operation
if it is the row's epoch (`TokensFollowRows`), the same of the token that wrote a
value (`AuthorsFollowRows`), and that no process and no token names a generation
that has not been drawn (`GenerationsAreUsed`). Without the last part a file
recreated under an old token could accept it. `StoreImplementsFencedAuthority`
maps `Acquire` and `Write` to the in-memory functions on the line of epochs of one
generation and resource; opening, crashing and removing the file are stutters.

`DurableSandboxProofs`. `Transaction` states, stage by stage, what the process that
holds the lock has written: the committed tables, then with the note, then with
note and mark. `ClaimsAreUnique` states that nobody has been told of an operation
without a note and that one process at most still is to be. Both need each
other and `EffectIsAtomicAndApproved`: the operation of an open transaction is
unmarked, hence without a note, hence unclaimed. `SandboxImplementsApprovals` maps
the commit of `execute` to the lifecycle's execution; its other stages, deaths
and the return of `True` are stutters.

`ReleaseGateProofs`. `PassingIsBacked` is the core: a verifier with the pinned bytes
derives the publication again from the artifacts, so a claim it confirms is true
of them at that moment. `EvaluationsAreHonest` carries this through the sources of
a run in progress and the finished runs. Neither the number of slips nor the
content of what is edited plays a part, so the bound `MaxSlips` of the run loses
nothing.

`EventReplayProofs`. The property compares the reducer's state with the turn's own
events up to its first terminal one, which it defines by a choice over the whole
stream. The invariant names the position of that event and says what the state is
before and after it; each event is one position more, so the choice is made again
only when the turn terminates. That `conflict` is raised exactly at a
contradiction, and that the naive reducer agrees on clean streams, are parts of
the same invariant.

`EffectReplayProofs`. The ledger is a digest of the requests (`LedgerInv`): an id has
an entry exactly when it was asked for, and until a request contradicts it the
entry is the effect of every request with that id. The property does not mention
the ledger; that the two lists enumerate the first requests and the repeated ones
follows because a new request has the greatest number (`EnumerationGrows`).

`TraceProofs`, the layers. The validator folds over the trace, the stores hold tables.
`CrossInv` says that what the validator remembers after the last record is what
the stores hold: the binding is the request, an approval or denial is the
decision, the last checkpoint is the head of the run, the last evidence is the
head of the identity, with every earlier revision at or below it, and there is a
completion only if the store has one. For each action that commits, the store's
guard then implies the validator's check of the record it leaves
(`DecideIsRead`, `ExecuteIsRead`, `ReadbackIsRead`, `CompleteIsRead`,
`CheckpointIsRead`), and the agreement is restored.

`TraceProofs`, any trace. `Coherent`, which is what the validator enforces of the
schema's `Consistent` (section 3), relates all records of a trace to each other; the
validator sees one at a time. The proof takes both apart in the same way:

* `Coherent` is `WellTyped` and `Ordered` and, for each record, `Linked` to the ones
  before it (`CoherentIsLinked`). For a record that was written and perhaps changed
  in one field (`Plausible`), `WellTyped` is what the validator checks of the record
  alone (`WellTypedIsSound`); this is where a field missing, `None`, foreign or moved
  to a record of another kind is dealt with, once for all kinds.
* `Tracked` says what the local variables hold of the records before: the set of
  event ids, the one binding, the numbers of the last approval and denial, the last
  checkpoint, all evidence. That so little is enough is a fact about coherent
  prefixes, for instance that a checkpoint which follows its predecessor follows
  all (`CheckpointIsSound`), or that a revision not below the last is below none
  (`EvidenceIsSound`). Hence the check of a record is exact (`RecordIsSoundExactly`)
  and a sound record is tracked too (`RecordIsTracked`).
* Induction over the prefixes of one trace gives `ReadingIsExact`. Numbers are
  compared between neighbours only, which `AdjacentIsEnough` extends to all.

`AcceptedIsCoherent` follows for every trace of plausible records. The invariant
`TraceInv` says that only such traces arise: what `Write` appends was written, and a
mutation changes one field of one written record or removes one. It is needed, for
the two do differ on other traces: a record changed in two fields, its kind and one
more, may hold a null in a field that its new kind does not have, where the
validator does not look and `WellTyped` does.
`CorruptionsAreDetected` then no longer mentions the validator: each kind of
corruption contradicts the coherence of the trace before it (`CorruptionIsIncoherent`,
with one lemma for each kind).

`ReleaseGateProofs`, the harness. A result is kept only if it has its item's runner
and applicable checks (`OwnResult`), so a rate counts what the manifest requires.
Two counts over the results are equal only if the sets are (`CountsAgree`), which
makes a rate of one a statement about every result, and a sum of violations is
zero only if each is (`CountsViolations`).

Folds. The library has no usable induction for `FoldLeft` or for a recursive sum:
its theorems take an operator as a parameter. Where a state component grows by
one item a step, the induction is the invariant's: `CrossInv` and `HarnessInv`
carry the *existence* of the function the fold is computed with (`Reads`,
`IsTotal`) and what its last value is, and one lemma (`ReadingGrows`, `CountGrows`)
extends the function by one item. A mutation changes a trace in the middle, so for
the validator the existence is a lemma about every sequence (`ReadOnce`, `ReadAppend`):
the set of lengths for which the fold is what it should be contains 0 and the
successor of each of its elements, hence is `Nat` (`InductionOverNat`, from the least
counterexample that `LeastNat` gives). That a finite set of positions has a greatest
element, which `FoldLeft` needs, is proved in the same way (`MaxExists`).

Only model-checked: liveness, which is outside the prover's reach, as is `ENABLED`.
`FairLoopSpec` implies `LoopSpec`, so safety carries over to the fair specifications
as it stands. The inductive invariants of the trace have quantifiers without a
bound and are proved, not run.

## 5. Not modelled

* The scenario runners of `evaluation.py` other than the reconciliation loop: each
  is one fixed execution of a store or reducer that is modelled for all of its
  executions. The package's `__init__.py` only re-exports.
* The counts of `evaluate_trace_corpus`, the command line and the output files.
  `detector_error_count` is a constant of the code: an exception of the validator
  (of the membership test on a list-valued `kind`,
  `event_kind`, `decision` or `readback`) ends the run instead of being counted.
* Edits while one source is being evaluated, edits of the gate's own evaluator and
  of the outputs of its runs; changes of committed Git objects.
* Runtime events in `CrossLayerTrace`: `replay` commits nothing.
* Validation of argument types and blank strings, `:memory:` and schema-version
  refusals: they reject before any state is touched.
* Power loss and disk corruption (SQLite with `synchronous=FULL` is trusted), a
  snapshot of a database restored with its old generation, a file replaced while
  a transaction is open in it, digest collisions.

## 6. Plan

Done: the modules above, in the order of the table of section 2, and a theorem for
every safety property the runs check.

1. `CrossLayerTrace` with an operation whose readbacks come from `ProviderStore`
   and whose retries are recorded effects.
