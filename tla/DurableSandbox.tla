--------------------------- MODULE DurableSandbox ---------------------------
(***************************************************************************)
(* DurableSandbox (durable.py): approvals and an inert local effect in one *)
(* SQLite file used by several processes.                                  *)
(*                                                                         *)
(* Every method runs in a BEGIN IMMEDIATE transaction.  execute is         *)
(* modelled statement by statement, at the four stages its _checkpoint     *)
(* callback names, because a process may die at each of them: what it has  *)
(* written is then in no committed table.  request and decide write with   *)
(* one statement, so dying before their commit is not having called them.  *)
(* A call that raises, or waits for the lock until it times out, changes   *)
(* nothing and is no step.                                                 *)
(***************************************************************************)
EXTENDS Naturals, FiniteSets

CONSTANTS Process, OperationId, Payload, None

ASSUME NoneAssumption ==
    /\ None \notin Process
    /\ None \notin OperationId
    /\ None \notin Payload
    /\ None \notin {"approved", "denied"}

VARIABLES
    operations, \* committed table operations: [OperationId -> Row or None]
    notes,      \* committed table notes: [OperationId -> Payload or None]
    lock,       \* the process inside a write transaction, None if there is none
    pending,    \* what that transaction has written: its two tables
    pc,         \* [Process -> "idle" or a stage of execute]
    current,    \* [Process -> the operation id execute was called with, or None]
    returned    \* history: how often execute returned True for each operation id

vars == <<operations, notes, lock, pending, pc, current, returned>>

Row ==
    [payload   : Payload,
     decision  : {"approved", "denied", None},
     completed : BOOLEAN]

ASSUME RowAssumption == None \notin Row

Tables ==
    [operations : [OperationId -> Row \cup {None}],
     notes      : [OperationId -> Payload \cup {None}]]

Stage == {"before_effect", "after_effect", "before_commit", "after_commit"}

Committed == [operations |-> operations, notes |-> notes]

TypeOK ==
    /\ Committed \in Tables
    /\ pending \in Tables
    /\ lock \in Process \cup {None}
    /\ pc \in [Process -> Stage \cup {"idle"}]
    /\ current \in [Process -> OperationId \cup {None}]
    /\ returned \in [OperationId -> Nat]
    /\ \A p \in Process : pc[p] = "idle" <=> current[p] = None
    /\ \A p \in Process : lock = p <=> pc[p] \in Stage \ {"after_commit"}

Init ==
    /\ operations = [id \in OperationId |-> None]
    /\ notes = [id \in OperationId |-> None]
    /\ lock = None
    /\ pending = Committed
    /\ pc = [p \in Process |-> "idle"]
    /\ current = [p \in Process |-> None]
    /\ returned = [id \in OperationId |-> 0]

\* _existing returns the row of the exact operation.
Existing(id, payload) ==
    operations[id] # None /\ operations[id].payload = payload

\* No transaction is open; the one that starts sees the committed tables.
Unlocked == lock = None

-----------------------------------------------------------------------------
\* An existing row of the same effect is left as it is.
Request(id, payload) ==
    /\ Unlocked
    /\ operations[id] = None
    /\ operations' = [operations EXCEPT ![id] =
        [payload |-> payload, decision |-> None, completed |-> FALSE]]
    /\ pending' = [pending EXCEPT !.operations = operations']
    /\ UNCHANGED <<notes, lock, pc, current, returned>>

\* Seeded fault: a later decision replaces an earlier one.
DecideAgain(id, payload, decision) ==
    /\ Unlocked
    /\ Existing(id, payload)
    /\ operations' = [operations EXCEPT ![id].decision = decision]
    /\ pending' = [pending EXCEPT !.operations = operations']
    /\ UNCHANGED <<notes, lock, pc, current, returned>>

\* A replay of the decision writes what is there.
Decide(id, payload, decision) ==
    /\ Unlocked
    /\ Existing(id, payload)
    /\ operations[id].decision \in {None, decision}
    /\ operations' = [operations EXCEPT ![id].decision = decision]
    /\ pending' = [pending EXCEPT !.operations = operations']
    /\ UNCHANGED <<notes, lock, pc, current, returned>>

\* Seeded fault: execute does not look at completed.
BeginAgain(p, id, payload) ==
    /\ pc[p] = "idle"
    /\ Unlocked
    /\ Existing(id, payload)
    /\ operations[id].decision = "approved"
    /\ lock' = p
    /\ pc' = [pc EXCEPT ![p] = "before_effect"]
    /\ current' = [current EXCEPT ![p] = id]
    /\ UNCHANGED <<operations, notes, pending, returned>>

\* Seeded fault: the replay of a completed operation returns True as well.
ReplayReturnsTrue(p, id, payload) ==
    /\ pc[p] = "idle"
    /\ Unlocked
    /\ Existing(id, payload)
    /\ operations[id].decision = "approved"
    /\ lock' = IF operations[id].completed THEN None ELSE p
    /\ pc' = [pc EXCEPT ![p] =
        IF operations[id].completed THEN "after_commit" ELSE "before_effect"]
    /\ current' = [current EXCEPT ![p] = id]
    /\ UNCHANGED <<operations, notes, pending, returned>>

\* execute, up to the first stage.  A completed operation returns False here,
\* an undecided or denied one raises.
Begin(p, id, payload) ==
    /\ pc[p] = "idle"
    /\ Unlocked
    /\ Existing(id, payload)
    /\ operations[id].decision = "approved"
    /\ ~ operations[id].completed
    /\ lock' = p
    /\ pc' = [pc EXCEPT ![p] = "before_effect"]
    /\ current' = [current EXCEPT ![p] = id]
    /\ UNCHANGED <<operations, notes, pending, returned>>

\* Seeded fault: the note is inserted on a connection that commits by itself.
InsertNoteCommitted(p) ==
    /\ pc[p] = "before_effect"
    /\ pending.notes[current[p]] = None
    /\ pending' = [pending EXCEPT !.notes[current[p]] =
        pending.operations[current[p]].payload]
    /\ notes' = pending'.notes
    /\ pc' = [pc EXCEPT ![p] = "after_effect"]
    /\ UNCHANGED <<operations, lock, current, returned>>

\* The insert raises on an existing note.
InsertNote(p) ==
    /\ pc[p] = "before_effect"
    /\ pending.notes[current[p]] = None
    /\ pending' = [pending EXCEPT !.notes[current[p]] =
        pending.operations[current[p]].payload]
    /\ pc' = [pc EXCEPT ![p] = "after_effect"]
    /\ UNCHANGED <<operations, notes, lock, current, returned>>

SetCompleted(p) ==
    /\ pc[p] = "after_effect"
    /\ pending' = [pending EXCEPT !.operations[current[p]].completed = TRUE]
    /\ pc' = [pc EXCEPT ![p] = "before_commit"]
    /\ UNCHANGED <<operations, notes, lock, current, returned>>

CommitExecute(p) ==
    /\ pc[p] = "before_commit"
    /\ operations' = pending.operations
    /\ notes' = pending.notes
    /\ lock' = None
    /\ pc' = [pc EXCEPT ![p] = "after_commit"]
    /\ UNCHANGED <<pending, current, returned>>

ReturnTrue(p) ==
    /\ pc[p] = "after_commit"
    /\ returned' = [returned EXCEPT ![current[p]] = @ + 1]
    /\ pc' = [pc EXCEPT ![p] = "idle"]
    /\ current' = [current EXCEPT ![p] = None]
    /\ UNCHANGED <<operations, notes, lock, pending>>

\* Seeded fault: a dead process keeps the lock.
CrashHoldingLock(p) ==
    /\ pc[p] # "idle"
    /\ pending' = Committed
    /\ pc' = [pc EXCEPT ![p] = "idle"]
    /\ current' = [current EXCEPT ![p] = None]
    /\ UNCHANGED <<operations, notes, lock, returned>>

\* The process dies, or its callback or a statement raises: the transaction, if
\* it is still open, is rolled back and the lock released.
Abort(p) ==
    /\ pc[p] # "idle"
    /\ lock' = IF lock = p THEN None ELSE lock
    /\ pending' = IF lock = p THEN Committed ELSE pending
    /\ pc' = [pc EXCEPT ![p] = "idle"]
    /\ current' = [current EXCEPT ![p] = None]
    /\ UNCHANGED <<operations, notes, returned>>

\* The statements of execute after the transaction has begun.
Proceed(p) ==
    \/ InsertNote(p)
    \/ SetCompleted(p)
    \/ CommitExecute(p)
    \/ ReturnTrue(p)

Next ==
    \/ \E id \in OperationId, payload \in Payload :
        \/ Request(id, payload)
        \/ \E decision \in {"approved", "denied"} : Decide(id, payload, decision)
        \/ \E p \in Process : Begin(p, id, payload)
    \/ \E p \in Process : Proceed(p) \/ Abort(p)

Spec == Init /\ [][Next]_vars

\* A live process executes its next statement, and as long as an approved
\* operation is not completed some caller calls execute for it.
Fairness ==
    /\ \A p \in Process : WF_vars(Proceed(p))
    /\ \A id \in OperationId :
        WF_vars(\E p \in Process, payload \in Payload : Begin(p, id, payload))

FairSpec == Spec /\ Fairness

-----------------------------------------------------------------------------
\* The note and the completion mark are committed together or not at all,
\* wherever a process dies, and only for an approved row of the same payload.
EffectIsAtomicAndApproved ==
    \A id \in OperationId :
        /\ notes[id] # None =>
            /\ operations[id] # None
            /\ operations[id].completed
            /\ operations[id].decision = "approved"
            /\ operations[id].payload = notes[id]
        /\ (operations[id] # None /\ operations[id].completed) => notes[id] # None

\* execute tells at most one caller that it made the effect: over all processes,
\* restarts and replays (test_durable_sandbox.py, six concurrent workers).
Claimants(id) == {p \in Process : pc[p] = "after_commit" /\ current[p] = id}

AtMostOneTrue ==
    \A id \in OperationId :
        /\ returned[id] + Cardinality(Claimants(id)) <= 1
        /\ notes[id] = None => returned[id] + Cardinality(Claimants(id)) = 0

\* The insert never meets an existing note, so execute never fails half way for
\* a reason of its own (durable.py:127-130).
InsertNeverCollides ==
    \A p \in Process : pc[p] = "before_effect" =>
        /\ lock = p
        /\ pending = Committed
        /\ notes[current[p]] = None

Gate == INSTANCE Approvals WITH
    Effect    <- Payload,
    requests  <- [id \in OperationId |->
                    IF operations[id] = None THEN None ELSE operations[id].payload],
    decisions <- [id \in OperationId |->
                    IF operations[id] = None THEN None ELSE operations[id].decision],
    executed  <- {id \in OperationId : notes[id] # None}

\* The committed tables go through the strict approval lifecycle: no rebinding,
\* no reversed decision, no effect without approval.
ImplementsApprovals == Gate!Spec

\* Unless processes die for ever, an approved operation gets its note: a dead
\* transaction blocks nobody and the contention for the lock ends.
ApprovedIsExecuted ==
    (<>[][\A p \in Process : ~ Abort(p)]_vars) =>
        \A id \in OperationId :
            (operations[id] # None /\ operations[id].decision = "approved")
                ~> (notes[id] # None)
=============================================================================
