------------------------ MODULE DurableSandboxProofs ------------------------
(***************************************************************************)
(* Proofs about the durable sandbox, for any number of processes,          *)
(* operations and payloads.                                                *)
(*                                                                         *)
(* The invariant: whoever holds the lock works on an approved operation    *)
(* that is not completed, and what its transaction has written is the      *)
(* committed tables with exactly the statements of its stage applied.      *)
(* Rolling back or committing therefore leaves the note and the completion *)
(* mark together.  Since the note of that operation is missing until the   *)
(* commit, nobody has been told of it before, and only one process is.     *)
(***************************************************************************)
EXTENDS DurableSandbox, FiniteSetTheorems, TLAPS

\* What the transaction of process p has written at its stage.
Transaction(p) ==
    LET id == current[p]
        noted == [notes EXCEPT ![id] = operations[id].payload]
    IN  /\ operations[id] # None
        /\ operations[id].decision = "approved"
        /\ ~ operations[id].completed
        /\ pc[p] = "before_effect" => pending = Committed
        /\ pc[p] = "after_effect" => pending = [operations |-> operations, notes |-> noted]
        /\ pc[p] = "before_commit" =>
            pending = [operations |-> [operations EXCEPT ![id].completed = TRUE], notes |-> noted]

OneTransaction ==
    /\ lock = None => pending = Committed
    /\ \A p \in Process : lock = p => Transaction(p)

Claims(p, id) == pc[p] = "after_commit" /\ current[p] = id

ClaimsAreUnique ==
    \A id \in OperationId :
        /\ returned[id] \in {0, 1}
        /\ notes[id] = None => returned[id] = 0
        /\ \A p \in Process : Claims(p, id) => notes[id] # None /\ returned[id] = 0
        /\ \A p, q \in Process : Claims(p, id) /\ Claims(q, id) => p = q

SandboxInv ==
    /\ TypeOK
    /\ EffectIsAtomicAndApproved
    /\ OneTransaction
    /\ ClaimsAreUnique

LEMMA RowFields ==
    ASSUME NEW row \in Row
    PROVE  /\ row # None
           /\ row.payload \in Payload
           /\ row.decision \in {"approved", "denied", None}
           /\ row.completed \in BOOLEAN
  BY RowAssumption DEF Row

LEMMA TableFields ==
    ASSUME TypeOK
    PROVE  /\ operations \in [OperationId -> Row \cup {None}]
           /\ notes \in [OperationId -> Payload \cup {None}]
           /\ pending.operations \in [OperationId -> Row \cup {None}]
           /\ pending.notes \in [OperationId -> Payload \cup {None}]
           /\ pending = [operations |-> pending.operations, notes |-> pending.notes]
           /\ \A id \in OperationId : operations[id] # None =>
                /\ operations[id] \in Row
                /\ operations[id].payload \in Payload
                /\ operations[id].decision \in {"approved", "denied", None}
                /\ operations[id].completed \in BOOLEAN
  <1>1. /\ operations \in [OperationId -> Row \cup {None}]
        /\ notes \in [OperationId -> Payload \cup {None}]
    BY DEF TypeOK, Committed, Tables
  <1>2. /\ pending.operations \in [OperationId -> Row \cup {None}]
        /\ pending.notes \in [OperationId -> Payload \cup {None}]
        /\ pending = [operations |-> pending.operations, notes |-> pending.notes]
    BY DEF TypeOK, Tables
  <1> QED
    BY <1>1, <1>2, RowFields

\* The process of an operation under execution.
LEMMA HolderFields ==
    ASSUME TypeOK, NEW p \in Process, pc[p] # "idle"
    PROVE  current[p] \in OperationId
  BY NoneAssumption DEF TypeOK

LEMMA PendingUpdate ==
    ASSUME TypeOK, NEW tables
    PROVE  /\ [pending EXCEPT !.operations = tables]
                = [operations |-> tables, notes |-> pending.notes]
           /\ [pending EXCEPT !.notes = tables]
                = [operations |-> pending.operations, notes |-> tables]
  <1>1. pending = [operations |-> pending.operations, notes |-> pending.notes]
    BY TableFields
  <1> QED
    BY <1>1

-----------------------------------------------------------------------------
\* A statement outside execute changes one row, keeps its payload and completion
\* mark if it was there, and only when no transaction is open.
LEMMA RowStepPreserves ==
    ASSUME SandboxInv, Unlocked,
           NEW id \in OperationId, NEW row \in Row,
           operations' = [operations EXCEPT ![id] = row],
           pending' = [pending EXCEPT !.operations = operations'],
           UNCHANGED <<notes, lock, pc, current, returned>>,
           operations[id] = None => ~ row.completed,
           operations[id] # None => /\ row.payload = operations[id].payload
                                    /\ row.completed = operations[id].completed
                                    /\ operations[id].decision \in {None, row.decision}
    PROVE  SandboxInv'
  <1>1. TypeOK
    BY DEF SandboxInv
  <1>2. /\ operations' \in [OperationId -> Row \cup {None}]
        /\ operations'[id] = row
        /\ \A i \in OperationId \ {id} : operations'[i] = operations[i]
    BY <1>1, TableFields
  <1>3. pending' = [operations |-> operations', notes |-> notes']
    <2>1. pending.notes = notes
      BY DEF SandboxInv, OneTransaction, Unlocked, Committed
    <2> QED
      BY <1>1, <2>1, PendingUpdate
  <1>4. TypeOK'
    <2>1. (Committed \in Tables /\ pending \in Tables)'
      BY <1>1, <1>2, <1>3, TableFields DEF Committed, Tables
    <2> QED
      BY <1>1, <2>1 DEF TypeOK
  <1>5. EffectIsAtomicAndApproved'
    <2> SUFFICES ASSUME NEW i \in OperationId
                 PROVE  /\ notes[i] # None =>
                            /\ operations'[i] # None
                            /\ operations'[i].completed
                            /\ operations'[i].decision = "approved"
                            /\ operations'[i].payload = notes[i]
                        /\ (operations'[i] # None /\ operations'[i].completed) => notes[i] # None
      BY DEF EffectIsAtomicAndApproved
    <2>1. /\ notes[i] # None =>
                /\ operations[i] # None
                /\ operations[i].completed
                /\ operations[i].decision = "approved"
                /\ operations[i].payload = notes[i]
          /\ (operations[i] # None /\ operations[i].completed) => notes[i] # None
      BY DEF SandboxInv, EffectIsAtomicAndApproved
    <2>2. CASE i = id
      BY <1>2, <2>1, <2>2, RowFields, NoneAssumption
    <2>3. CASE i # id
      BY <1>2, <2>1, <2>3
    <2> QED
      BY <2>2, <2>3
  <1>6. OneTransaction'
    BY <1>3, NoneAssumption DEF OneTransaction, Unlocked, Committed
  <1>7. ClaimsAreUnique'
    BY DEF SandboxInv, ClaimsAreUnique, Claims
  <1> QED
    BY <1>4, <1>5, <1>6, <1>7 DEF SandboxInv

LEMMA RequestPreserves ==
    ASSUME SandboxInv, NEW id \in OperationId, NEW payload \in Payload, Request(id, payload)
    PROVE  SandboxInv'
  <1> DEFINE row == [payload |-> payload, decision |-> None, completed |-> FALSE]
  <1>1. row \in Row /\ ~ row.completed
    BY DEF Row
  <1>2. /\ operations' = [operations EXCEPT ![id] = row]
        /\ pending' = [pending EXCEPT !.operations = operations']
        /\ UNCHANGED <<notes, lock, pc, current, returned>>
        /\ Unlocked
        /\ operations[id] = None
    BY DEF Request
  <1> HIDE DEF row
  <1> QED
    BY <1>1, <1>2, RowStepPreserves

LEMMA DecideEffect ==
    ASSUME TypeOK, NEW id \in OperationId, NEW payload \in Payload,
           NEW decision \in {"approved", "denied"}, Decide(id, payload, decision),
           NEW row, row = [operations[id] EXCEPT !.decision = decision]
    PROVE  /\ row \in Row
           /\ row.payload = payload
           /\ row.decision = decision
           /\ row.completed = operations[id].completed
           /\ operations[id] # None
           /\ operations[id].payload = payload
           /\ operations[id].decision \in {None, decision}
           /\ operations' = [operations EXCEPT ![id] = row]
  <1>1. /\ operations[id] # None
        /\ operations[id].payload = payload
        /\ operations[id].decision \in {None, decision}
        /\ operations' = [operations EXCEPT ![id] = row]
    BY DEF Decide, Existing
  <1>2. operations[id] \in Row
    BY <1>1, TableFields
  <1> QED
    BY <1>1, <1>2 DEF Row

LEMMA DecidePreserves ==
    ASSUME SandboxInv, NEW id \in OperationId, NEW payload \in Payload,
           NEW decision \in {"approved", "denied"}, Decide(id, payload, decision)
    PROVE  SandboxInv'
  <1> DEFINE row == [operations[id] EXCEPT !.decision = decision]
  <1>1. row = [operations[id] EXCEPT !.decision = decision] /\ TypeOK
    BY DEF SandboxInv
  <1> HIDE DEF row
  <1>2. /\ row \in Row
        /\ row.decision = decision
        /\ row.payload = payload
        /\ row.completed = operations[id].completed
        /\ operations[id] # None
        /\ operations[id].payload = payload
        /\ operations[id].decision \in {None, decision}
        /\ operations' = [operations EXCEPT ![id] = row]
    BY <1>1, DecideEffect
  <1>3. /\ pending' = [pending EXCEPT !.operations = operations']
        /\ UNCHANGED <<notes, lock, pc, current, returned>>
        /\ Unlocked
    BY DEF Decide
  <1> QED
    BY <1>2, <1>3, RowStepPreserves

-----------------------------------------------------------------------------
(* execute, one statement after the other. *)

\* An approved operation without its mark has no note, and nobody was told of it.
LEMMA UnmarkedIsUnclaimed ==
    ASSUME SandboxInv, NEW id \in OperationId,
           operations[id] # None, ~ operations[id].completed
    PROVE  /\ notes[id] = None
           /\ returned[id] = 0
           /\ \A p \in Process : ~ Claims(p, id)
  BY DEF SandboxInv, EffectIsAtomicAndApproved, ClaimsAreUnique

LEMMA BeginPreserves ==
    ASSUME SandboxInv, NEW p \in Process, NEW id \in OperationId, NEW payload \in Payload,
           Begin(p, id, payload)
    PROVE  SandboxInv'
  <1>1. /\ TypeOK
        /\ lock = None /\ lock' = p
        /\ pc' = [pc EXCEPT ![p] = "before_effect"]
        /\ current' = [current EXCEPT ![p] = id]
        /\ UNCHANGED <<operations, notes, pending, returned>>
        /\ operations[id] # None
        /\ operations[id].decision = "approved"
        /\ ~ operations[id].completed
        /\ pc[p] = "idle"
    BY DEF SandboxInv, Begin, Unlocked, Existing
  <1>2. pending = Committed
    BY <1>1 DEF SandboxInv, OneTransaction
  <1>3. /\ pc'[p] = "before_effect" /\ current'[p] = id
        /\ \A q \in Process \ {p} : pc'[q] = pc[q] /\ current'[q] = current[q]
    BY <1>1 DEF TypeOK
  <1>4. TypeOK'
    <2>1. (Committed \in Tables /\ pending \in Tables /\ returned \in [OperationId -> Nat])'
      BY <1>1 DEF TypeOK, Committed
    <2>2. /\ lock' \in Process \cup {None}
          /\ pc' \in [Process -> Stage \cup {"idle"}]
          /\ current' \in [Process -> OperationId \cup {None}]
      BY <1>1 DEF TypeOK, Stage
    <2>3. \A q \in Process : pc'[q] = "idle" <=> current'[q] = None
      BY <1>1, <1>3, NoneAssumption DEF TypeOK
    <2>4. \A q \in Process : lock' = q <=> pc'[q] \in Stage \ {"after_commit"}
      BY <1>1, <1>3, NoneAssumption DEF TypeOK, Stage
    <2> QED
      BY <2>1, <2>2, <2>3, <2>4 DEF TypeOK
  <1>5. EffectIsAtomicAndApproved'
    BY <1>1 DEF SandboxInv, EffectIsAtomicAndApproved
  <1>6. OneTransaction'
    BY <1>1, <1>2, <1>3, NoneAssumption DEF OneTransaction, Transaction, Committed
  <1>7. ClaimsAreUnique'
    <2>1. \A q \in Process, i \in OperationId : Claims(q, i)' => Claims(q, i)
      BY <1>3 DEF Claims
    <2> QED
      BY <1>1, <2>1 DEF SandboxInv, ClaimsAreUnique
  <1> QED
    BY <1>4, <1>5, <1>6, <1>7 DEF SandboxInv

\* The lock holder writes into its transaction and moves to the next stage.
LEMMA StatementPreserves ==
    ASSUME SandboxInv, NEW p \in Process, NEW stage \in {"after_effect", "before_commit"},
           pc[p] \in {"before_effect", "after_effect"},
           pending' \in Tables,
           pc' = [pc EXCEPT ![p] = stage],
           UNCHANGED <<operations, notes, lock, current, returned>>,
           Transaction(p)'
    PROVE  SandboxInv'
  <1>1. TypeOK /\ lock = p
    BY DEF SandboxInv, TypeOK, Stage
  <1>2. /\ pc'[p] = stage
        /\ \A q \in Process \ {p} : pc'[q] = pc[q]
    BY <1>1 DEF TypeOK
  <1>3. TypeOK'
    <2>1. Committed' \in Tables /\ pending' \in Tables
      BY <1>1 DEF TypeOK, Committed
    <2>2. /\ pc' \in [Process -> Stage \cup {"idle"}]
          /\ \A q \in Process : pc'[q] = "idle" <=> current'[q] = None
          /\ \A q \in Process : lock' = q <=> pc'[q] \in Stage \ {"after_commit"}
      BY <1>1, <1>2 DEF TypeOK, Stage
    <2> QED
      BY <1>1, <2>1, <2>2 DEF TypeOK
  <1>4. EffectIsAtomicAndApproved'
    BY DEF SandboxInv, EffectIsAtomicAndApproved
  <1>5. OneTransaction'
    BY <1>1, NoneAssumption DEF OneTransaction
  <1>6. ClaimsAreUnique'
    <2>1. \A q \in Process, i \in OperationId : Claims(q, i)' => Claims(q, i)
      BY <1>2 DEF Claims
    <2> QED
      BY <2>1 DEF SandboxInv, ClaimsAreUnique
  <1> QED
    BY <1>3, <1>4, <1>5, <1>6 DEF SandboxInv

LEMMA InsertNotePreserves ==
    ASSUME SandboxInv, NEW p \in Process, InsertNote(p)
    PROVE  SandboxInv'
  <1> DEFINE id == current[p]
             noted == [notes EXCEPT ![id] = operations[id].payload]
  <1>1. /\ TypeOK
        /\ lock = p
        /\ id \in OperationId
        /\ Transaction(p)
        /\ pending = Committed
    <2>1. TypeOK /\ pc[p] = "before_effect"
      BY DEF SandboxInv, InsertNote
    <2>2. lock = p /\ id \in OperationId
      BY <2>1, HolderFields DEF TypeOK, Stage
    <2> QED
      BY <2>1, <2>2 DEF SandboxInv, OneTransaction, Transaction
  <1>2. operations[id] # None /\ operations[id].payload \in Payload
    BY <1>1, TableFields DEF Transaction
  <1>3. noted \in [OperationId -> Payload \cup {None}]
    BY <1>1, <1>2, TableFields
  <1>4. pending' = [operations |-> operations, notes |-> noted]
    <2>1. /\ pending.operations = operations
          /\ pending.notes = notes
      BY <1>1 DEF Committed
    <2>2. pending' = [pending EXCEPT !.notes = noted]
      BY <2>1 DEF InsertNote
    <2> HIDE DEF noted
    <2> QED
      BY <1>1, <2>1, <2>2, PendingUpdate
  <1>5. pending' \in Tables
    <2> HIDE DEF noted
    <2> QED
      BY <1>1, <1>3, <1>4, TableFields DEF Tables
  <1>6. /\ pc[p] = "before_effect"
        /\ pc' = [pc EXCEPT ![p] = "after_effect"]
        /\ UNCHANGED <<operations, notes, lock, current, returned>>
    BY DEF InsertNote
  <1>7. pc'[p] = "after_effect"
    BY <1>1, <1>6 DEF TypeOK
  <1>8. Transaction(p)'
    BY <1>1, <1>4, <1>6, <1>7 DEF Transaction
  <1> QED
    BY <1>5, <1>6, <1>8, StatementPreserves

LEMMA SetCompletedPreserves ==
    ASSUME SandboxInv, NEW p \in Process, SetCompleted(p)
    PROVE  SandboxInv'
  <1> DEFINE id == current[p]
             noted == [notes EXCEPT ![id] = operations[id].payload]
             marked == [operations EXCEPT ![id].completed = TRUE]
  <1>1. /\ TypeOK
        /\ lock = p
        /\ id \in OperationId
        /\ Transaction(p)
        /\ pending = [operations |-> operations, notes |-> noted]
    <2>1. TypeOK /\ pc[p] = "after_effect"
      BY DEF SandboxInv, SetCompleted
    <2>2. lock = p /\ id \in OperationId
      BY <2>1, HolderFields DEF TypeOK, Stage
    <2> QED
      BY <2>1, <2>2 DEF SandboxInv, OneTransaction, Transaction
  <1>2. operations[id] # None /\ operations[id] \in Row
    BY <1>1, TableFields DEF Transaction
  <1>3. marked \in [OperationId -> Row \cup {None}]
    <2> DEFINE row == [operations[id] EXCEPT !.completed = TRUE]
    <2>1. row \in Row
      BY <1>2 DEF Row
    <2>2. marked = [operations EXCEPT ![id] = row]
      OBVIOUS
    <2> HIDE DEF row, marked
    <2> QED
      BY <1>1, <2>1, <2>2, TableFields
  <1>4. pending' = [operations |-> marked, notes |-> noted]
    <2> HIDE DEF noted
    <2>1. pending.operations = operations /\ pending.notes = noted
      BY <1>1
    <2>2. pending' = [pending EXCEPT !.operations = marked]
      BY <2>1 DEF SetCompleted
    <2> HIDE DEF marked
    <2> QED
      BY <1>1, <2>1, <2>2, PendingUpdate
  <1>5. pending' \in Tables
    <2>1. noted \in [OperationId -> Payload \cup {None}]
      BY <1>1, <1>2, TableFields, RowFields
    <2> HIDE DEF noted, marked
    <2> QED
      BY <1>3, <1>4, <2>1 DEF Tables
  <1>6. /\ pc[p] = "after_effect"
        /\ pc' = [pc EXCEPT ![p] = "before_commit"]
        /\ UNCHANGED <<operations, notes, lock, current, returned>>
    BY DEF SetCompleted
  <1>7. pc'[p] = "before_commit"
    BY <1>1, <1>6 DEF TypeOK
  <1>8. Transaction(p)'
    BY <1>1, <1>4, <1>6, <1>7 DEF Transaction
  <1> QED
    BY <1>5, <1>6, <1>8, StatementPreserves

\* What a commit makes of the tables.
LEMMA CommitEffect ==
    ASSUME SandboxInv, NEW p \in Process, CommitExecute(p)
    PROVE  /\ current[p] \in OperationId
           /\ operations[current[p]] \in Row
           /\ operations[current[p]] # None
           /\ operations[current[p]].decision = "approved"
           /\ ~ operations[current[p]].completed
           /\ operations' = [operations EXCEPT ![current[p]] =
                                [operations[current[p]] EXCEPT !.completed = TRUE]]
           /\ notes' = [notes EXCEPT ![current[p]] = operations[current[p]].payload]
           /\ pending = Committed'
           /\ lock = p
  <1>1. TypeOK /\ pc[p] = "before_commit"
    BY DEF SandboxInv, CommitExecute
  <1>2. lock = p /\ current[p] \in OperationId
    BY <1>1, HolderFields DEF TypeOK, Stage
  <1>3. Transaction(p)
    BY <1>2 DEF SandboxInv, OneTransaction
  <1>4. operations[current[p]] # None /\ operations[current[p]] \in Row
    BY <1>1, <1>2, <1>3, TableFields DEF Transaction
  <1>5. pending.operations = [operations EXCEPT ![current[p]].completed = TRUE]
        /\ pending.notes = [notes EXCEPT ![current[p]] = operations[current[p]].payload]
    BY <1>1, <1>3 DEF Transaction
  <1>6. pending = [operations |-> pending.operations, notes |-> pending.notes]
    BY <1>1, TableFields
  <1>7. operations' = pending.operations /\ notes' = pending.notes
    BY DEF CommitExecute
  <1>8. pending = Committed'
    BY <1>6, <1>7 DEF Committed
  <1> QED
    BY <1>2, <1>3, <1>4, <1>5, <1>7, <1>8 DEF Transaction

LEMMA CommitPreserves ==
    ASSUME SandboxInv, NEW p \in Process, CommitExecute(p)
    PROVE  SandboxInv'
  <1> DEFINE id == current[p]
             row == [operations[id] EXCEPT !.completed = TRUE]
  <1>1. /\ id \in OperationId
        /\ operations[id] \in Row
        /\ operations[id] # None
        /\ operations[id].decision = "approved"
        /\ ~ operations[id].completed
        /\ operations' = [operations EXCEPT ![id] = row]
        /\ notes' = [notes EXCEPT ![id] = operations[id].payload]
        /\ pending = Committed'
        /\ lock = p
    BY CommitEffect
  <1>2. /\ TypeOK
        /\ pc[p] = "before_commit"
        /\ lock' = None
        /\ pc' = [pc EXCEPT ![p] = "after_commit"]
        /\ UNCHANGED <<pending, current, returned>>
    BY DEF SandboxInv, CommitExecute
  <1>3. /\ row \in Row
        /\ row # None
        /\ row.completed
        /\ row.decision = "approved"
        /\ row.payload = operations[id].payload
    <2>1. row \in Row /\ row.completed /\ row.decision = "approved"
          /\ row.payload = operations[id].payload
      BY <1>1 DEF Row
    <2> QED
      BY <2>1, RowAssumption
  <1>4. /\ operations[id].payload \in Payload
        /\ operations[id].payload # None
    BY <1>1, RowFields, NoneAssumption
  <1> HIDE DEF row
  <1>5. /\ operations'[id] = row
        /\ notes'[id] = operations[id].payload
        /\ \A i \in OperationId \ {id} : operations'[i] = operations[i] /\ notes'[i] = notes[i]
    BY <1>1, <1>2, TableFields
  <1>6. /\ pc'[p] = "after_commit"
        /\ \A q \in Process \ {p} : pc'[q] = pc[q]
    BY <1>2 DEF TypeOK
  <1>7. TypeOK'
    <2>1. Committed' \in Tables /\ pending' \in Tables
      BY <1>1, <1>2 DEF TypeOK
    <2>2. /\ pc' \in [Process -> Stage \cup {"idle"}]
          /\ \A q \in Process : pc'[q] = "idle" <=> current'[q] = None
          /\ \A q \in Process : lock' = q <=> pc'[q] \in Stage \ {"after_commit"}
      BY <1>1, <1>2, <1>6, NoneAssumption DEF TypeOK, Stage
    <2> QED
      BY <1>2, <2>1, <2>2 DEF TypeOK
  <1>8. EffectIsAtomicAndApproved'
    BY <1>3, <1>4, <1>5 DEF SandboxInv, EffectIsAtomicAndApproved
  <1>9. OneTransaction'
    <2>1. pending' = Committed'
      BY <1>1, <1>2
    <2> QED
      BY <2>1, <1>2, NoneAssumption DEF OneTransaction
  <1>10. ClaimsAreUnique'
    <2>1. notes[id] = None /\ returned[id] = 0 /\ \A q \in Process : ~ Claims(q, id)
      BY <1>1, UnmarkedIsUnclaimed
    <2>2. \A q \in Process, i \in OperationId :
              Claims(q, i)' => Claims(q, i) \/ (q = p /\ i = id)
      BY <1>2, <1>6 DEF Claims
    <2>3. \A i \in OperationId : notes'[i] = None => notes[i] = None
      BY <1>4, <1>5
    <2>4. \A i \in OperationId : notes[i] # None => notes'[i] # None
      BY <1>4, <1>5
    <2>5. ASSUME NEW i \in OperationId, NEW q \in Process, Claims(q, i)'
          PROVE  notes'[i] # None /\ returned[i] = 0
      BY <2>1, <2>2, <2>4, <2>5, <1>4, <1>5 DEF SandboxInv, ClaimsAreUnique
    <2>6. ASSUME NEW i \in OperationId, NEW q1 \in Process, NEW q2 \in Process,
                 Claims(q1, i)', Claims(q2, i)'
          PROVE  q1 = q2
      BY <2>1, <2>2, <2>6 DEF SandboxInv, ClaimsAreUnique
    <2> QED
      BY <2>3, <2>5, <2>6, <1>2 DEF SandboxInv, ClaimsAreUnique
  <1> QED
    BY <1>7, <1>8, <1>9, <1>10 DEF SandboxInv

LEMMA ReturnPreserves ==
    ASSUME SandboxInv, NEW p \in Process, ReturnTrue(p)
    PROVE  SandboxInv'
  <1> DEFINE id == current[p]
  <1>1. /\ TypeOK
        /\ pc[p] = "after_commit"
        /\ returned' = [returned EXCEPT ![id] = returned[id] + 1]
        /\ pc' = [pc EXCEPT ![p] = "idle"]
        /\ current' = [current EXCEPT ![p] = None]
        /\ UNCHANGED <<operations, notes, lock, pending>>
    BY DEF SandboxInv, ReturnTrue
  <1>2. id \in OperationId /\ lock # p
    BY <1>1, HolderFields DEF TypeOK, Stage
  <1>3. Claims(p, id)
    BY <1>1 DEF Claims
  <1>4. notes[id] # None /\ returned[id] = 0
    BY <1>2, <1>3 DEF SandboxInv, ClaimsAreUnique
  <1>5. /\ pc'[p] = "idle" /\ current'[p] = None
        /\ \A q \in Process \ {p} : pc'[q] = pc[q] /\ current'[q] = current[q]
    BY <1>1 DEF TypeOK
  <1>6. /\ returned'[id] = 1
        /\ \A i \in OperationId \ {id} : returned'[i] = returned[i]
        /\ returned' \in [OperationId -> Nat]
    BY <1>1, <1>2, <1>4 DEF TypeOK
  <1>7. TypeOK'
    <2>1. Committed' \in Tables /\ pending' \in Tables
      BY <1>1 DEF TypeOK, Committed
    <2>2. /\ pc' \in [Process -> Stage \cup {"idle"}]
          /\ current' \in [Process -> OperationId \cup {None}]
          /\ \A q \in Process : pc'[q] = "idle" <=> current'[q] = None
          /\ \A q \in Process : lock' = q <=> pc'[q] \in Stage \ {"after_commit"}
      BY <1>1, <1>2, <1>5 DEF TypeOK, Stage
    <2> QED
      BY <1>1, <1>6, <2>1, <2>2 DEF TypeOK
  <1>8. EffectIsAtomicAndApproved'
    BY <1>1 DEF SandboxInv, EffectIsAtomicAndApproved
  <1>9. OneTransaction'
    <2>1. \A q \in Process : lock = q => pc'[q] = pc[q] /\ current'[q] = current[q]
      BY <1>2, <1>5
    <2> QED
      BY <1>1, <2>1 DEF SandboxInv, OneTransaction, Transaction, Committed
  <1>10. ClaimsAreUnique'
    <2>1. \A q \in Process, i \in OperationId : Claims(q, i)' => Claims(q, i) /\ q # p
      BY <1>5 DEF Claims
    <2>2. \A q \in Process, i \in OperationId : Claims(q, i)' => i # id
      BY <2>1, <1>2, <1>3 DEF SandboxInv, ClaimsAreUnique
    <2> QED
      BY <2>1, <2>2, <1>1, <1>2, <1>4, <1>6 DEF SandboxInv, ClaimsAreUnique
  <1> QED
    BY <1>7, <1>8, <1>9, <1>10 DEF SandboxInv

\* Dying leaves the committed tables, and nobody's claim, wherever it happens.
LEMMA AbortPreserves ==
    ASSUME SandboxInv, NEW p \in Process, Abort(p)
    PROVE  SandboxInv'
  <1>1. /\ TypeOK
        /\ pc[p] # "idle"
        /\ lock' = IF lock = p THEN None ELSE lock
        /\ pending' = IF lock = p THEN Committed ELSE pending
        /\ pc' = [pc EXCEPT ![p] = "idle"]
        /\ current' = [current EXCEPT ![p] = None]
        /\ UNCHANGED <<operations, notes, returned>>
    BY DEF SandboxInv, Abort
  <1>2. /\ pc'[p] = "idle" /\ current'[p] = None
        /\ \A q \in Process \ {p} : pc'[q] = pc[q] /\ current'[q] = current[q]
    BY <1>1 DEF TypeOK
  <1>3. TypeOK'
    <2>1. Committed' \in Tables /\ pending' \in Tables
      BY <1>1 DEF TypeOK, Committed
    <2>2. lock' \in Process \cup {None} /\ lock' # p
      BY <1>1, NoneAssumption DEF TypeOK
    <2>3. /\ pc' \in [Process -> Stage \cup {"idle"}]
          /\ current' \in [Process -> OperationId \cup {None}]
          /\ \A q \in Process : pc'[q] = "idle" <=> current'[q] = None
      BY <1>1, <1>2 DEF TypeOK
    <2>4. \A q \in Process : lock' = q <=> pc'[q] \in Stage \ {"after_commit"}
      BY <1>1, <1>2, <2>2, NoneAssumption DEF TypeOK, Stage
    <2> QED
      BY <1>1, <2>1, <2>2, <2>3, <2>4 DEF TypeOK
  <1>4. EffectIsAtomicAndApproved'
    BY <1>1 DEF SandboxInv, EffectIsAtomicAndApproved
  <1>5. OneTransaction'
    <2>1. Committed' = Committed
      BY <1>1 DEF Committed
    <2>2. CASE lock = p
      BY <2>1, <2>2, <1>1, NoneAssumption DEF OneTransaction
    <2>3. CASE lock # p
      <3>1. \A q \in Process : lock' = q => lock = q /\ pc'[q] = pc[q] /\ current'[q] = current[q]
        BY <1>1, <1>2, <2>3
      <3>2. lock' = lock /\ pending' = pending
        BY <1>1, <2>3
      <3> QED
        BY <1>1, <2>1, <3>1, <3>2 DEF SandboxInv, OneTransaction, Transaction
    <2> QED
      BY <2>2, <2>3
  <1>6. ClaimsAreUnique'
    <2>1. \A q \in Process, i \in OperationId : Claims(q, i)' => Claims(q, i)
      BY <1>2 DEF Claims
    <2> QED
      BY <1>1, <2>1 DEF SandboxInv, ClaimsAreUnique
  <1> QED
    BY <1>3, <1>4, <1>5, <1>6 DEF SandboxInv

-----------------------------------------------------------------------------
\* The invariant holds through every statement of every process and every death.
THEOREM SandboxInvariant == Spec => []SandboxInv
  <1>1. Init => SandboxInv
    <2> SUFFICES ASSUME Init PROVE SandboxInv
      OBVIOUS
    <2>1. TypeOK
      BY NoneAssumption DEF Init, TypeOK, Committed, Tables, Stage
    <2>2. EffectIsAtomicAndApproved
      BY DEF Init, EffectIsAtomicAndApproved
    <2>3. OneTransaction
      BY NoneAssumption DEF Init, OneTransaction
    <2>4. ClaimsAreUnique
      BY DEF Init, ClaimsAreUnique, Claims
    <2> QED
      BY <2>1, <2>2, <2>3, <2>4 DEF SandboxInv
  <1>2. SandboxInv /\ [Next]_vars => SandboxInv'
    <2> SUFFICES ASSUME SandboxInv, [Next]_vars PROVE SandboxInv'
      OBVIOUS
    <2>1. CASE UNCHANGED vars
      BY <2>1 DEF vars, SandboxInv, TypeOK, Committed, EffectIsAtomicAndApproved,
          OneTransaction, Transaction, ClaimsAreUnique, Claims
    <2> QED
      BY <2>1, RequestPreserves, DecidePreserves, BeginPreserves, InsertNotePreserves,
          SetCompletedPreserves, CommitPreserves, ReturnPreserves, AbortPreserves
          DEF Next, Proceed
  <1> QED
    BY <1>1, <1>2, PTL DEF Spec

\* Tables, transaction and processes have their types (durable.py:36-137).
THEOREM SandboxTypeCorrect == Spec => []TypeOK
  <1>1. SandboxInv => TypeOK
    BY DEF SandboxInv
  <1> QED
    BY <1>1, SandboxInvariant, PTL

\* Wherever a process dies, note and completion mark are committed together or not
\* at all, and only for an approved row (durable.py:109-137).
THEOREM EffectsAreAtomicAndApproved == Spec => []EffectIsAtomicAndApproved
  <1>1. SandboxInv => EffectIsAtomicAndApproved
    BY DEF SandboxInv
  <1> QED
    BY <1>1, SandboxInvariant, PTL

\* The insert of execute never meets an existing note (durable.py:127-130).
THEOREM InsertsNeverCollide == Spec => []InsertNeverCollides
  <1>1. SandboxInv => InsertNeverCollides
    <2> SUFFICES ASSUME SandboxInv, NEW p \in Process, pc[p] = "before_effect"
                 PROVE  lock = p /\ pending = Committed /\ notes[current[p]] = None
      BY DEF InsertNeverCollides
    <2>1. TypeOK
      BY DEF SandboxInv
    <2>2. lock = p /\ current[p] \in OperationId
      BY <2>1, HolderFields DEF TypeOK, Stage
    <2>3. Transaction(p)
      BY <2>2 DEF SandboxInv, OneTransaction
    <2> QED
      BY <2>2, <2>3, UnmarkedIsUnclaimed DEF Transaction
  <1> QED
    BY <1>1, SandboxInvariant, PTL

\* Over all processes and replays at most one call of execute returns True for an
\* operation, and none before its note exists (durable.py:109-137).
THEOREM OneCallerIsTold == Spec => []AtMostOneTrue
  <1>1. SandboxInv => AtMostOneTrue
    <2> SUFFICES ASSUME SandboxInv, NEW id \in OperationId
                 PROVE  /\ returned[id] + Cardinality(Claimants(id)) <= 1
                        /\ notes[id] = None => returned[id] + Cardinality(Claimants(id)) = 0
      BY DEF AtMostOneTrue
    <2>1. \A p \in Process : p \in Claimants(id) <=> Claims(p, id)
      BY DEF Claimants, Claims
    <2>2. CASE Claimants(id) = {}
      BY <2>2, FS_EmptySet DEF SandboxInv, ClaimsAreUnique
    <2>3. CASE Claimants(id) # {}
      <3>1. PICK p \in Process : Claims(p, id)
        BY <2>1, <2>3 DEF Claimants
      <3>2. Claimants(id) = {p}
        <4>1. \A q \in Process : Claims(q, id) => q = p
          BY <3>1 DEF SandboxInv, ClaimsAreUnique
        <4> QED
          BY <2>1, <3>1, <4>1 DEF Claimants
      <3>3. returned[id] = 0 /\ notes[id] # None
        BY <3>1 DEF SandboxInv, ClaimsAreUnique
      <3>4. Cardinality({p}) = 1
        BY FS_Singleton, Zenon
      <3> QED
        BY <3>2, <3>3, <3>4
    <2> QED
      BY <2>2, <2>3
  <1> QED
    BY <1>1, SandboxInvariant, PTL

-----------------------------------------------------------------------------
(* The strict approval lifecycle, seen in the committed tables. *)

PayloadOf(row) == IF row = None THEN None ELSE row.payload

DecisionOf(row) == IF row = None THEN None ELSE row.decision

Requests == [i \in OperationId |-> PayloadOf(operations[i])]

Decisions == [i \in OperationId |-> DecisionOf(operations[i])]

Executed == {i \in OperationId : notes[i] # None}

\* How a change of one row looks to the lifecycle.
LEMMA RowProjection ==
    ASSUME TypeOK, NEW id \in OperationId, NEW row, row # None,
           operations' = [operations EXCEPT ![id] = row]
    PROVE  /\ Requests' = [Requests EXCEPT ![id] = row.payload]
           /\ Decisions' = [Decisions EXCEPT ![id] = row.decision]
  <1>1. /\ operations'[id] = row
        /\ \A i \in OperationId \ {id} : operations'[i] = operations[i]
    BY TableFields
  <1>2. PayloadOf(row) = row.payload /\ DecisionOf(row) = row.decision
    BY DEF PayloadOf, DecisionOf
  <1>3. /\ Requests' = [i \in OperationId |-> PayloadOf(operations'[i])]
        /\ Decisions' = [i \in OperationId |-> DecisionOf(operations'[i])]
    BY DEF Requests, Decisions, PayloadOf, DecisionOf
  <1>4. \A i \in OperationId :
            /\ Requests'[i] = IF i = id THEN row.payload ELSE Requests[i]
            /\ Decisions'[i] = IF i = id THEN row.decision ELSE Decisions[i]
    BY <1>1, <1>2, <1>3 DEF Requests, Decisions
  <1>5. /\ Requests' = [i \in OperationId |-> Requests'[i]]
        /\ Requests = [i \in OperationId |-> Requests[i]]
        /\ Decisions' = [i \in OperationId |-> Decisions'[i]]
        /\ Decisions = [i \in OperationId |-> Decisions[i]]
    BY <1>3 DEF Requests, Decisions
  <1> QED
    BY <1>4, <1>5

\* What the lifecycle sees of a row that is there.
LEMMA RowSeen ==
    ASSUME NEW id \in OperationId, operations[id] # None
    PROVE  Requests[id] = operations[id].payload /\ Decisions[id] = operations[id].decision
  BY DEF Requests, Decisions, PayloadOf, DecisionOf

LEMMA RequestImplements ==
    ASSUME SandboxInv, NEW id \in OperationId, NEW payload \in Payload, Request(id, payload)
    PROVE  Gate!Requested(id, payload)
  <1> DEFINE row == [payload |-> payload, decision |-> None, completed |-> FALSE]
  <1>1. /\ operations[id] = None
        /\ operations' = [operations EXCEPT ![id] = row]
        /\ UNCHANGED notes
        /\ TypeOK
    BY DEF Request, SandboxInv
  <1>2. row # None
    <2>1. row \in Row
      BY DEF Row
    <2> QED
      BY <2>1, RowAssumption
  <1>3. row.payload = payload /\ row.decision = None
    OBVIOUS
  <1> HIDE DEF row
  <1>4. Requests' = [Requests EXCEPT ![id] = payload]
    BY <1>1, <1>2, <1>3, RowProjection
  <1>5. Decisions' = [Decisions EXCEPT ![id] = None] /\ Decisions[id] = None
    BY <1>1, <1>2, <1>3, RowProjection DEF Decisions, DecisionOf
  <1>6. Decisions' = Decisions
    BY <1>5 DEF Decisions
  <1>7. Requests[id] = None
    BY <1>1 DEF Requests, PayloadOf
  <1>8. Executed' = Executed
    BY <1>1 DEF Executed
  <1> QED
    BY <1>4, <1>6, <1>7, <1>8 DEF Gate!Requested, Requests, Decisions, Executed, PayloadOf, DecisionOf

LEMMA DecideImplements ==
    ASSUME SandboxInv, NEW id \in OperationId, NEW payload \in Payload,
           NEW decision \in {"approved", "denied"}, Decide(id, payload, decision)
    PROVE  Gate!Decided(id, payload, decision)
  <1> DEFINE row == [operations[id] EXCEPT !.decision = decision]
  <1>1. row = [operations[id] EXCEPT !.decision = decision] /\ TypeOK
    BY DEF SandboxInv
  <1> HIDE DEF row
  <1>2. /\ row # None
        /\ row.payload = payload
        /\ row.decision = decision
        /\ operations[id] # None
        /\ operations[id].payload = payload
        /\ operations[id].decision \in {None, decision}
        /\ operations' = [operations EXCEPT ![id] = row]
    BY <1>1, DecideEffect, RowFields
  <1>3. Requests' = [Requests EXCEPT ![id] = payload] /\ Requests[id] = payload
    <2>1. Requests' = [Requests EXCEPT ![id] = row.payload]
      BY <1>2, RowProjection DEF SandboxInv
    <2>2. Requests[id] = operations[id].payload
      BY <1>2, RowSeen
    <2> QED
      BY <1>2, <2>1, <2>2
  <1>4. Requests' = Requests
    BY <1>3 DEF Requests
  <1>5. Decisions' = [Decisions EXCEPT ![id] = decision]
    <2>1. Decisions' = [Decisions EXCEPT ![id] = row.decision]
      BY <1>2, RowProjection DEF SandboxInv
    <2> QED
      BY <1>2, <2>1
  <1>6. Decisions[id] \in {None, decision}
    BY <1>2, RowSeen
  <1>7. Executed' = Executed
    BY DEF Decide, Executed
  <1> QED
    BY <1>3, <1>4, <1>5, <1>6, <1>7 DEF Gate!Decided, Requests, Decisions, Executed, PayloadOf, DecisionOf

LEMMA CommitImplements ==
    ASSUME SandboxInv, NEW p \in Process, CommitExecute(p),
           NEW id \in OperationId, NEW x \in Payload,
           id = current[p], x = operations[current[p]].payload
    PROVE  Gate!Execute(id, x)
  <1> DEFINE row == [operations[id] EXCEPT !.completed = TRUE]
  <1>1. /\ id \in OperationId
        /\ operations[id] \in Row
        /\ operations[id] # None
        /\ operations[id].decision = "approved"
        /\ operations' = [operations EXCEPT ![id] = row]
        /\ notes' = [notes EXCEPT ![id] = operations[id].payload]
        /\ TypeOK
    BY CommitEffect DEF SandboxInv
  <1>2. /\ row # None
        /\ row.payload = operations[id].payload
        /\ row.decision = "approved"
    BY <1>1, RowAssumption DEF Row
  <1> HIDE DEF row
  <1>3. /\ Requests' = [Requests EXCEPT ![id] = operations[id].payload]
        /\ Requests[id] = operations[id].payload
    <2>1. Requests' = [Requests EXCEPT ![id] = row.payload]
      BY <1>1, <1>2, RowProjection
    <2>2. Requests[id] = operations[id].payload
      BY <1>1, RowSeen
    <2> QED
      BY <1>2, <2>1, <2>2
  <1>4. Decisions' = [Decisions EXCEPT ![id] = "approved"] /\ Decisions[id] = "approved"
    <2>1. Decisions' = [Decisions EXCEPT ![id] = row.decision]
      BY <1>1, <1>2, RowProjection
    <2>2. Decisions[id] = operations[id].decision
      BY <1>1, RowSeen
    <2> QED
      BY <1>1, <1>2, <2>1, <2>2
  <1>5. Requests' = Requests /\ Decisions' = Decisions
    BY <1>3, <1>4 DEF Requests, Decisions
  <1>6. Executed' = Executed \cup {id}
    <2>1. operations[id].payload # None
      BY <1>1, RowFields, NoneAssumption
    <2>2. /\ notes'[id] # None
          /\ \A i \in OperationId \ {id} : notes'[i] = notes[i]
      BY <1>1, <2>1, TableFields
    <2> QED
      BY <1>1, <2>2 DEF Executed
  <1> QED
    BY <1>3, <1>4, <1>5, <1>6 DEF Gate!Execute, Requests, Decisions, Executed, PayloadOf, DecisionOf

\* The committed tables go through the strict approval lifecycle, for any number of
\* processes that die anywhere (approvals.py:54-125, durable.py:88-137).
THEOREM SandboxImplementsApprovals == Spec => ImplementsApprovals
  <1>1. Init => Gate!Init
    BY DEF Init, Gate!Init
  <1>2. SandboxInv /\ [Next]_vars => [Gate!Next]_(Gate!vars)
    <2> SUFFICES ASSUME SandboxInv, [Next]_vars PROVE Gate!Next \/ UNCHANGED Gate!vars
      OBVIOUS
    <2>1. ASSUME NEW id \in OperationId, NEW payload \in Payload, Request(id, payload)
          PROVE  Gate!Next
      BY <2>1, RequestImplements DEF Gate!Next
    <2>2. ASSUME NEW id \in OperationId, NEW payload \in Payload,
                 NEW decision \in {"approved", "denied"}, Decide(id, payload, decision)
          PROVE  Gate!Next
      BY <2>2, DecideImplements DEF Gate!Next
    <2>3. ASSUME NEW p \in Process, CommitExecute(p) PROVE Gate!Next
      <3>1. PICK id \in OperationId, x \in Payload :
                id = current[p] /\ x = operations[current[p]].payload
        BY <2>3, CommitEffect, RowFields
      <3>2. Gate!Execute(id, x)
        BY <2>3, <3>1, CommitImplements
      <3> QED
        BY <3>2 DEF Gate!Next
    <2>4. CASE UNCHANGED <<operations, notes>>
      BY <2>4 DEF Gate!vars
    <2> QED
      BY <2>1, <2>2, <2>3, <2>4
          DEF Next, vars, Begin, Proceed, InsertNote, SetCompleted, ReturnTrue, Abort
  <1> QED
    BY <1>1, <1>2, SandboxInvariant, PTL DEF Spec, ImplementsApprovals, Gate!Spec
=============================================================================
