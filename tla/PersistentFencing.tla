-------------------------- MODULE PersistentFencing --------------------------
(***************************************************************************)
(* PersistentFencingStore (fencing.py): fencing epochs in an SQLite file   *)
(* that several executor processes open, crash out of and reopen, and that *)
(* may be removed and recreated under them.                                *)
(*                                                                         *)
(* A file has a random generation; a store object caches it when it is     *)
(* opened and stamps it on the tokens it returns.  acquire and write are   *)
(* each one BEGIN IMMEDIATE transaction.  Tokens outlive the process that  *)
(* acquired them and anybody may present one.  rows keeps the contents of  *)
(* removed files too, as history: no action reads them.                    *)
(***************************************************************************)
EXTENDS Naturals

CONSTANTS Process, Resource, OperationId, Value, Generation, MaxEpoch, None

ASSUME BoundAssumption == MaxEpoch \in Nat

ASSUME NoneAssumption ==
    /\ None \notin OperationId
    /\ None \notin Value
    /\ None \notin Generation

VARIABLES
    installed,  \* the generation of the file at the path, None if there is none
    used,       \* generations drawn so far; randomblob(16) never repeats one
    rows,       \* fencing_state of every generation: [Generation -> [Resource -> Row]]
    opened,     \* store_generation cached by each process, None if not opened
    issued,     \* every token acquire returned
    author      \* history: the token that wrote the row's value, None if none

vars == <<installed, used, rows, opened, issued, author>>

FencingToken ==
    [resource         : Resource,
     operation_id     : OperationId,
     epoch            : 1 .. MaxEpoch,
     store_generation : Generation]

\* A missing row is what state() makes of it: epoch 0 and nothing else.
Row ==
    [epoch        : 0 .. MaxEpoch,
     operation_id : OperationId \cup {None},
     value        : Value \cup {None}]

NoRow == [epoch |-> 0, operation_id |-> None, value |-> None]

TypeOK ==
    /\ installed \in Generation \cup {None}
    /\ used \in SUBSET Generation
    /\ rows \in [Generation -> [Resource -> Row]]
    /\ opened \in [Process -> Generation \cup {None}]
    /\ issued \in SUBSET FencingToken
    /\ author \in [Generation -> [Resource -> FencingToken \cup {None}]]

Init ==
    /\ installed = None
    /\ used = {}
    /\ rows = [g \in Generation |-> [r \in Resource |-> NoRow]]
    /\ opened = [p \in Process |-> None]
    /\ issued = {}
    /\ author = [g \in Generation |-> [r \in Resource |-> None]]

-----------------------------------------------------------------------------
\* __init__ on a missing file creates it with a generation of its own.
OpenNew(p, g) ==
    /\ installed = None
    /\ g \notin used
    /\ installed' = g
    /\ used' = used \cup {g}
    /\ opened' = [opened EXCEPT ![p] = g]
    /\ UNCHANGED <<rows, issued, author>>

\* __init__ on an existing file caches the generation that is there.
OpenExisting(p) ==
    /\ installed # None
    /\ opened' = [opened EXCEPT ![p] = installed]
    /\ UNCHANGED <<installed, used, rows, issued, author>>

\* Seeded fault: the token carries the epoch read before the increment.
StaleToken(p, r, op) ==
    [resource         |-> r,
     operation_id     |-> op,
     epoch            |-> rows[installed][r].epoch,
     store_generation |-> opened[p]]

NewToken(p, r, op) ==
    [resource         |-> r,
     operation_id     |-> op,
     epoch            |-> rows[installed][r].epoch + 1,
     store_generation |-> opened[p]]

\* Seeded fault: acquire does not compare the cached generation.
AcquireUnchecked(p, r, op) ==
    /\ opened[p] # None
    /\ installed # None
    /\ rows[installed][r].epoch < MaxEpoch
    /\ rows' = [rows EXCEPT ![installed][r].epoch = @ + 1,
                            ![installed][r].operation_id = op]
    /\ issued' = issued \cup {NewToken(p, r, op)}
    /\ UNCHANGED <<installed, used, opened, author>>

\* Seeded fault: the conflict clause also resets the value.
AcquireResets(p, r, op) ==
    /\ opened[p] # None
    /\ installed = opened[p]
    /\ rows[installed][r].epoch < MaxEpoch
    /\ rows' = [rows EXCEPT ![installed][r] =
                    [epoch |-> @.epoch + 1, operation_id |-> op, value |-> None]]
    /\ issued' = issued \cup {NewToken(p, r, op)}
    /\ UNCHANGED <<installed, used, opened, author>>

\* acquire: the row's value survives, its epoch and operation are replaced.  A
\* crash after the commit only means that nobody presents the token.
Acquire(p, r, op) ==
    /\ opened[p] # None
    /\ installed = opened[p]
    /\ rows[installed][r].epoch < MaxEpoch
    /\ rows' = [rows EXCEPT ![installed][r].epoch = @ + 1,
                            ![installed][r].operation_id = op]
    /\ issued' = issued \cup {NewToken(p, r, op)}
    /\ UNCHANGED <<installed, used, opened, author>>

\* Seeded fault: write compares epoch and operation but not the generation.
WritableInAnyGeneration(token) ==
    /\ installed # None
    /\ token.epoch = rows[installed][token.resource].epoch
    /\ token.operation_id = rows[installed][token.resource].operation_id

\* Seeded fault: write compares the operation but not the epoch.
WritableByOperation(token) ==
    /\ installed # None
    /\ token.store_generation = installed
    /\ token.operation_id = rows[installed][token.resource].operation_id

\* write would commit with this token now.
Writable(token) ==
    /\ installed # None
    /\ token.store_generation = installed
    /\ token.epoch = rows[installed][token.resource].epoch
    /\ token.operation_id = rows[installed][token.resource].operation_id

Write(p, token, v) ==
    /\ opened[p] # None
    /\ Writable(token)
    /\ rows' = [rows EXCEPT ![installed][token.resource].value = v]
    /\ author' = [author EXCEPT ![installed][token.resource] = token]
    /\ UNCHANGED <<installed, used, opened, issued>>

Crash(p) ==
    /\ opened[p] # None
    /\ opened' = [opened EXCEPT ![p] = None]
    /\ UNCHANGED <<installed, used, rows, issued, author>>

\* The file is deleted under the processes; the next open recreates it.  The
\* second guard bounds the model: the last generation's file stays.
RemoveFile ==
    /\ installed # None
    /\ used # Generation
    /\ installed' = None
    /\ UNCHANGED <<used, rows, opened, issued, author>>

Next ==
    \/ RemoveFile
    \/ \E p \in Process :
        \/ \E g \in Generation : OpenNew(p, g)
        \/ OpenExisting(p)
        \/ Crash(p)
        \/ \E r \in Resource, op \in OperationId : Acquire(p, r, op)
        \/ \E token \in issued, v \in Value : Write(p, token, v)

Spec == Init /\ [][Next]_vars

-----------------------------------------------------------------------------
SameLine(t1, t2) ==
    t1.resource = t2.resource /\ t1.store_generation = t2.store_generation

\* No epoch is granted twice, whichever processes acquire, crash, reopen or keep
\* using an object opened before the file was replaced (fencing.py:119-149).
EpochsAreUnique ==
    \A t1, t2 \in issued : SameLine(t1, t2) /\ t1.epoch = t2.epoch => t1 = t2

\* A token write accepts is the newest ever returned for its resource, and the
\* only one it accepts: two executors are never both in authority.
OneTokenInAuthority ==
    \A t1, t2 \in issued :
        (Writable(t1) /\ t1.resource = t2.resource) =>
            /\ SameLine(t1, t2) => t2.epoch <= t1.epoch
            /\ Writable(t2) => t1 = t2

\* Authority lost is lost for good: no crash, reopening, replacement of the file
\* or new acquisition revives a token that write refuses.
AuthorityIsNotRevived ==
    [][\A t \in issued : ~ Writable(t) => ~ Writable(t)']_vars

\* Values of a resource are written in the order of their tokens' epochs, and by
\* tokens of the same file only: a delayed executor never overwrites a later one.
WritesFollowEpochs ==
    [][\A g \in Generation, r \in Resource :
        author'[g][r] # None =>
            /\ author'[g][r].store_generation = g
            /\ author[g][r] # None => author[g][r].epoch <= author'[g][r].epoch]_vars

Authority == INSTANCE FencedAuthority WITH
    Resource  <- Generation \X Resource,
    epoch     <- [l \in Generation \X Resource |-> rows[l[1]][l[2]].epoch],
    operation <- [l \in Generation \X Resource |-> rows[l[1]][l[2]].operation_id],
    value     <- [l \in Generation \X Resource |-> rows[l[1]][l[2]].value],
    tokens    <- {[resource     |-> <<t.store_generation, t.resource>>,
                   operation_id |-> t.operation_id,
                   epoch        |-> t.epoch] : t \in issued}

\* The store, its crashes and replacements implement the in-memory contract of
\* acquire_authority and fenced_write for every generation and resource.
ImplementsFencedAuthority == Authority!Spec
=============================================================================
