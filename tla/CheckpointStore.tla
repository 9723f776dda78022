--------------------------- MODULE CheckpointStore ---------------------------
(***************************************************************************)
(* CheckpointStore (recovery.py): the durable checkpoint lineage of        *)
(* recoverable runs.                                                       *)
(*                                                                         *)
(* Every method is one BEGIN IMMEDIATE transaction.  Its arguments are     *)
(* immutable values that any process may have kept from any earlier call,  *)
(* over crashes and restarts, or built itself, so start and advance are    *)
(* called here with every argument the types allow.  A call that raises    *)
(* and a call that only returns what is stored change nothing and are no   *)
(* steps; Returns predicates say when they return.                         *)
(*                                                                         *)
(* A plan is a value with a number of operations; plan_json and            *)
(* plan_sha256 identify it.                                                *)
(***************************************************************************)
EXTENDS Naturals

CONSTANTS
    RunId,
    CheckpointId,
    Plan,
    OperationCount,     \* [Plan -> number of operations, at least 1]
    MaxSequence,        \* bound on the length of a lineage
    None

ASSUME PlanAssumption == OperationCount \in [Plan -> Nat \ {0}]

ASSUME SequenceAssumption == MaxSequence \in Nat

ASSUME NoneAssumption == None \notin CheckpointId /\ None \notin [plan : Plan, head : CheckpointId]

VARIABLES
    runs,           \* recovery_runs: [RunId -> [plan, head] or None]
    checkpoints     \* recovery_checkpoints, a set of rows

vars == <<runs, checkpoints>>

\* completed_count is the caller's: any count up to one beyond the longest plan.
Count == UNION {0 .. OperationCount[plan] + 1 : plan \in Plan}

RecoveryCheckpoint ==
    [run_id          : RunId,
     checkpoint_id   : CheckpointId,
     sequence        : 0 .. MaxSequence,
     parent          : CheckpointId \cup {None},
     plan            : Plan,
     completed_count : Count]

Run == [plan : Plan, head : CheckpointId]

TypeOK ==
    /\ runs \in [RunId -> Run \cup {None}]
    /\ checkpoints \in SUBSET RecoveryCheckpoint

Init ==
    /\ runs = [r \in RunId |-> None]
    /\ checkpoints = {}

\* The row _load_checkpoint finds, as a set of at most one.
Loaded(r, id) == {c \in checkpoints : c.run_id = r /\ c.checkpoint_id = id}

Initial(r, id, plan) ==
    [run_id          |-> r,
     checkpoint_id   |-> id,
     sequence        |-> 0,
     parent          |-> None,
     plan            |-> plan,
     completed_count |-> 0]

\* Seeded fault: starting a run again moves its head back to the start.
StartRewinds(r, id, plan) ==
    /\ runs[r] # None => runs[r].plan = plan /\ Initial(r, id, plan) \in checkpoints
    /\ runs' = [runs EXCEPT ![r] = [plan |-> plan, head |-> id]]
    /\ checkpoints' = checkpoints \cup {Initial(r, id, plan)}

\* start on a run that does not exist yet.
Start(r, id, plan) ==
    /\ runs[r] = None
    /\ runs' = [runs EXCEPT ![r] = [plan |-> plan, head |-> id]]
    /\ checkpoints' = checkpoints \cup {Initial(r, id, plan)}

\* start on an existing run returns the exact initial checkpoint, also when the
\* head has moved on.
StartReturns(r, id, plan) ==
    \/ runs[r] = None
    \/ runs[r].plan = plan /\ Initial(r, id, plan) \in checkpoints

\* Seeded fault: the progress given is added to the parent's.
CountsFromParent(parent, id, count) ==
    [run_id          |-> parent.run_id,
     checkpoint_id   |-> id,
     sequence        |-> parent.sequence + 1,
     parent          |-> parent.checkpoint_id,
     plan            |-> runs[parent.run_id].plan,
     completed_count |-> parent.completed_count + count]

Candidate(parent, id, count) ==
    [run_id          |-> parent.run_id,
     checkpoint_id   |-> id,
     sequence        |-> parent.sequence + 1,
     parent          |-> parent.checkpoint_id,
     plan            |-> runs[parent.run_id].plan,
     completed_count |-> count]

\* Seeded fault: advance does not compare the parent with the head.
AcceptsAnyParent(parent, id, count) ==
    /\ runs[parent.run_id] # None
    /\ parent \in checkpoints
    /\ Loaded(parent.run_id, id) = {}
    /\ parent.plan = runs[parent.run_id].plan
    /\ count > parent.completed_count
    /\ count <= OperationCount[runs[parent.run_id].plan]

\* Seeded fault: progress beyond the plan passes.
AcceptsAnyProgress(parent, id, count) ==
    /\ runs[parent.run_id] # None
    /\ parent \in checkpoints
    /\ Loaded(parent.run_id, id) = {}
    /\ runs[parent.run_id].head = parent.checkpoint_id
    /\ parent.plan = runs[parent.run_id].plan
    /\ count # parent.completed_count

\* advance passes its checks and goes on to write.
Advances(parent, id, count) ==
    /\ runs[parent.run_id] # None
    /\ parent \in checkpoints
    /\ Loaded(parent.run_id, id) = {}
    /\ runs[parent.run_id].head = parent.checkpoint_id
    /\ parent.plan = runs[parent.run_id].plan
    /\ count > parent.completed_count
    /\ count <= OperationCount[runs[parent.run_id].plan]

\* The rows a new checkpoint would collide with under the table's constraints.
Colliding(c) ==
    {d \in checkpoints : d.run_id = c.run_id
        /\ (d.checkpoint_id = c.checkpoint_id \/ d.sequence = c.sequence)}

Advance(parent, id, count) ==
    /\ parent.sequence < MaxSequence
    /\ Advances(parent, id, count)
    /\ Colliding(Candidate(parent, id, count)) = {}
    /\ checkpoints' = checkpoints \cup {Candidate(parent, id, count)}
    /\ runs' = [runs EXCEPT ![parent.run_id].head = id]

\* advance returns without writing: the replay of the advance made last.
Replays(parent, id, count) ==
    /\ runs[parent.run_id] # None
    /\ parent \in checkpoints
    /\ Candidate(parent, id, count) \in Loaded(parent.run_id, id)
    /\ runs[parent.run_id].head = id

\* resume returns the plan's operations after completed_count.
Resumes(c, plan) ==
    /\ runs[c.run_id] # None
    /\ runs[c.run_id].plan = plan
    /\ c \in checkpoints
    /\ runs[c.run_id].head = c.checkpoint_id

Next ==
    \/ \E r \in RunId, id \in CheckpointId, plan \in Plan : Start(r, id, plan)
    \/ \E parent \in RecoveryCheckpoint, id \in CheckpointId, count \in Count :
        Advance(parent, id, count)

Spec == Init /\ [][Next]_vars

-----------------------------------------------------------------------------
\* The checkpoints of a run form one chain: started once, one child for each
\* parent, progress growing along it within the plan, the head at its end
\* (recovery.py:52, 197-200).
LineageIsLinear ==
    \A c \in checkpoints :
        /\ runs[c.run_id] # None
        /\ c.plan = runs[c.run_id].plan
        /\ c.completed_count <= OperationCount[c.plan]
        /\ c.sequence = 0 => c.parent = None /\ c.completed_count = 0
        /\ c.sequence # 0 =>
            \E p \in checkpoints :
                /\ p.run_id = c.run_id
                /\ p.checkpoint_id = c.parent
                /\ p.sequence = c.sequence - 1
                /\ p.completed_count < c.completed_count
        /\ \E h \in Loaded(c.run_id, runs[c.run_id].head) :
            c = h \/ (c.sequence < h.sequence /\ c.completed_count < h.completed_count)
        /\ \A d \in checkpoints :
            (d.run_id = c.run_id /\ d.sequence = c.sequence) => d = c

\* The insert of advance never fails on UNIQUE (run_id, sequence) or on the
\* primary key: advance's own checks imply them, so a refusal always has one of
\* the two errors advance names (lines 225-239).
AdvanceNeverCollides ==
    \A parent \in checkpoints, id \in CheckpointId, count \in Count :
        Advances(parent, id, count) => Colliding(Candidate(parent, id, count)) = {}

\* A checkpoint recovery may no longer resume from stays so: no later advance,
\* restart or reuse of an id makes a stale checkpoint current again.
StaleStaysStale ==
    [][\A c \in checkpoints : ~ Resumes(c, c.plan) => ~ Resumes(c, c.plan)']_vars

\* Recovery never goes back: what resume leaves out once, it always leaves out,
\* and a run's plan never changes under it.
ResumeFrom(r) == {c.completed_count : c \in {d \in checkpoints : Resumes(d, d.plan) /\ d.run_id = r}}

ProgressNeverRegresses ==
    [][\A r \in RunId : runs[r] # None =>
        /\ runs'[r] # None
        /\ runs'[r].plan = runs[r].plan
        /\ \A n \in ResumeFrom(r), m \in ResumeFrom(r)' : n <= m]_vars

\* recovery.py:197 "Exact replay of an already committed advance is idempotent":
\* the same call returns the same checkpoint.  It does so only until the next
\* advance; after that it raises CheckpointConflict.
ExactReplayIsIdempotent ==
    \A parent, c \in checkpoints :
        (c.run_id = parent.run_id /\ c.parent = parent.checkpoint_id)
            => Replays(parent, c.checkpoint_id, c.completed_count)
=============================================================================
