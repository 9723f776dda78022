----------------------- MODULE PersistentFencingProofs -----------------------
(***************************************************************************)
(* Proofs about the durable fencing epochs, for any number of processes,   *)
(* resources, operations and generations of the file.                      *)
(*                                                                         *)
(* The invariant: every token carries an epoch its row has reached, and    *)
(* the row's operation if that is the row's epoch; and nothing anybody     *)
(* holds names a generation that has not been drawn yet.  The last part is *)
(* what makes a recreated file refuse everything older than itself.        *)
(***************************************************************************)
EXTENDS PersistentFencing, TLAPS

GenerationsAreUsed ==
    /\ installed # None => installed \in used
    /\ \A p \in Process : opened[p] # None => opened[p] \in used
    /\ \A t \in issued : t.store_generation \in used

\* The row a token was issued from.
RowOf(t) == rows[t.store_generation][t.resource]

TokensFollowRows ==
    \A t \in issued :
        /\ t.epoch <= RowOf(t).epoch
        /\ t.epoch = RowOf(t).epoch => t.operation_id = RowOf(t).operation_id

AuthorsFollowRows ==
    \A g \in Generation, r \in Resource :
        author[g][r] # None =>
            /\ author[g][r].store_generation = g
            /\ author[g][r].epoch \in Nat
            /\ author[g][r].epoch <= rows[g][r].epoch

FencingInv ==
    /\ TypeOK
    /\ GenerationsAreUsed
    /\ TokensFollowRows
    /\ EpochsAreUnique
    /\ AuthorsFollowRows

LEMMA TokenFields ==
    ASSUME NEW t \in FencingToken
    PROVE  /\ t.resource \in Resource
           /\ t.operation_id \in OperationId
           /\ t.epoch \in 1 .. MaxEpoch
           /\ t.epoch \in Nat
           /\ t.epoch # 0
           /\ t.store_generation \in Generation
  BY BoundAssumption DEF FencingToken

LEMMA RowFields ==
    ASSUME TypeOK, NEW g \in Generation, NEW r \in Resource
    PROVE  /\ rows[g][r] \in Row
           /\ rows[g][r].epoch \in 0 .. MaxEpoch
           /\ rows[g][r].epoch \in Nat
           /\ rows[g][r].operation_id \in OperationId \cup {None}
           /\ rows[g][r].value \in Value \cup {None}
  BY BoundAssumption DEF TypeOK, Row

LEMMA OperationUpdate ==
    ASSUME NEW e, NEW o, NEW v, NEW op, NEW row,
           row = [epoch |-> e, operation_id |-> o, value |-> v]
    PROVE  [row EXCEPT !.operation_id = op] = [epoch |-> e, operation_id |-> op, value |-> v]
  OBVIOUS

LEMMA EpochUpdate ==
    ASSUME NEW old \in Row, NEW e
    PROVE  [old EXCEPT !.epoch = e]
                = [epoch |-> e, operation_id |-> old.operation_id, value |-> old.value]
  <1>1. old = [epoch |-> old.epoch, operation_id |-> old.operation_id, value |-> old.value]
    BY DEF Row
  <1> QED
    BY <1>1

\* What acquire does to the rows and the tokens.
AcquireChanges(p, r, op) ==
    /\ installed \in Generation
    /\ opened[p] = installed
    /\ rows[installed][r].epoch + 1 \in 1 .. MaxEpoch
    /\ NewToken(p, r, op) \in FencingToken
    /\ NewToken(p, r, op).resource = r
    /\ NewToken(p, r, op).store_generation = installed
    /\ NewToken(p, r, op).operation_id = op
    /\ NewToken(p, r, op).epoch = rows[installed][r].epoch + 1
    /\ issued' = issued \cup {NewToken(p, r, op)}
    /\ rows' \in [Generation -> [Resource -> Row]]
    /\ rows'[installed][r].epoch = rows[installed][r].epoch + 1
    /\ rows'[installed][r].operation_id = op
    /\ rows'[installed][r].value = rows[installed][r].value
    /\ \A g \in Generation, s \in Resource :
         (g # installed \/ s # r) => rows'[g][s] = rows[g][s]

LEMMA AcquireEffect ==
    ASSUME TypeOK,
           NEW p \in Process, NEW r \in Resource, NEW op \in OperationId, Acquire(p, r, op)
    PROVE  AcquireChanges(p, r, op)
  <1> DEFINE new == [epoch |-> rows[installed][r].epoch + 1, operation_id |-> op,
                     value |-> rows[installed][r].value]
  <1>1. /\ installed \in Generation
        /\ opened[p] = installed
        /\ rows[installed][r].epoch < MaxEpoch
        /\ issued' = issued \cup {NewToken(p, r, op)}
    BY NoneAssumption DEF Acquire, TypeOK
  <1>2. /\ rows[installed][r] \in Row
        /\ rows[installed][r].epoch \in Nat
        /\ rows[installed][r].value \in Value \cup {None}
        /\ rows[installed][r].epoch + 1 \in 1 .. MaxEpoch
    BY <1>1, RowFields, BoundAssumption
  <1>3. new \in Row
    BY <1>2 DEF Row
  <1>4. rows' = [rows EXCEPT ![installed] = [rows[installed] EXCEPT ![r] = new]]
    <2> DEFINE newer == [rows[installed][r] EXCEPT !.epoch = rows[installed][r].epoch + 1]
               mid == [rows EXCEPT ![installed] = [rows[installed] EXCEPT ![r] = newer]]
    <2>1. rows' = [mid EXCEPT ![installed] = [mid[installed] EXCEPT ![r] =
                        [mid[installed][r] EXCEPT !.operation_id = op]]]
      BY DEF Acquire
    <2>2. newer = [epoch |-> rows[installed][r].epoch + 1,
                   operation_id |-> rows[installed][r].operation_id,
                   value |-> rows[installed][r].value]
      BY <1>2, EpochUpdate
    <2> HIDE DEF newer
    <2>3. [newer EXCEPT !.operation_id = op] = new
      BY <2>2, OperationUpdate
    <2> HIDE DEF new
    <2>4. mid[installed] = [rows[installed] EXCEPT ![r] = newer] /\ mid[installed][r] = newer
      BY <1>1 DEF TypeOK
    <2>5. rows' = [mid EXCEPT ![installed] = [mid[installed] EXCEPT ![r] = new]]
      BY <2>1, <2>3, <2>4
    <2>6. [mid[installed] EXCEPT ![r] = new] = [rows[installed] EXCEPT ![r] = new]
      BY <2>4, <1>1 DEF TypeOK
    <2> QED
      BY <2>5, <2>6, <1>1 DEF TypeOK
  <1>5. /\ rows' \in [Generation -> [Resource -> Row]]
        /\ rows'[installed][r] = new
        /\ \A g \in Generation, s \in Resource :
             (g # installed \/ s # r) => rows'[g][s] = rows[g][s]
    <2> HIDE DEF new
    <2> QED
      BY <1>1, <1>3, <1>4 DEF TypeOK
  <1>6. /\ NewToken(p, r, op) \in FencingToken
        /\ NewToken(p, r, op).resource = r
        /\ NewToken(p, r, op).store_generation = installed
        /\ NewToken(p, r, op).operation_id = op
        /\ NewToken(p, r, op).epoch = rows[installed][r].epoch + 1
    BY <1>1, <1>2 DEF NewToken, FencingToken
  <1> QED
    BY <1>1, <1>2, <1>5, <1>6 DEF AcquireChanges

\* What write does: only the value of the token's row, and who wrote it.
WriteChanges(token, v) ==
    /\ token \in FencingToken
    /\ installed \in Generation
    /\ token.store_generation = installed
    /\ token.epoch = rows[installed][token.resource].epoch
    /\ token.operation_id = rows[installed][token.resource].operation_id
    /\ rows' \in [Generation -> [Resource -> Row]]
    /\ rows'[installed][token.resource].value = v
    /\ \A g \in Generation, s \in Resource :
         /\ rows'[g][s].epoch = rows[g][s].epoch
         /\ rows'[g][s].operation_id = rows[g][s].operation_id
         /\ (g # installed \/ s # token.resource) => rows'[g][s] = rows[g][s]
    /\ author' \in [Generation -> [Resource -> FencingToken \cup {None}]]
    /\ author'[installed][token.resource] = token
    /\ \A g \in Generation, s \in Resource :
         (g # installed \/ s # token.resource) => author'[g][s] = author[g][s]

LEMMA WriteEffect ==
    ASSUME TypeOK,
           NEW p \in Process, NEW token \in issued, NEW v \in Value, Write(p, token, v)
    PROVE  WriteChanges(token, v)
  <1> DEFINE r == token.resource
             new == [rows[installed][r] EXCEPT !.value = v]
  <1>1. /\ token \in FencingToken
        /\ r \in Resource
        /\ installed \in Generation
        /\ token.store_generation = installed
        /\ token.epoch = rows[installed][r].epoch
        /\ token.operation_id = rows[installed][r].operation_id
    BY TokenFields DEF TypeOK, Write, Writable
  <1>2. /\ new \in Row
        /\ new.value = v
        /\ new.epoch = rows[installed][r].epoch
        /\ new.operation_id = rows[installed][r].operation_id
    BY <1>1, RowFields DEF Row
  <1>3. /\ rows' = [rows EXCEPT ![installed] = [rows[installed] EXCEPT ![r] = new]]
        /\ author' = [author EXCEPT ![installed] = [author[installed] EXCEPT ![r] = token]]
    BY DEF Write
  <1> HIDE DEF new
  <1>4. /\ rows' \in [Generation -> [Resource -> Row]]
        /\ rows'[installed][r] = new
        /\ \A g \in Generation, s \in Resource :
             (g # installed \/ s # r) => rows'[g][s] = rows[g][s]
    BY <1>1, <1>2, <1>3 DEF TypeOK
  <1>5. /\ author' \in [Generation -> [Resource -> FencingToken \cup {None}]]
        /\ author'[installed][r] = token
        /\ \A g \in Generation, s \in Resource :
             (g # installed \/ s # r) => author'[g][s] = author[g][s]
    BY <1>1, <1>3 DEF TypeOK
  <1>6. \A g \in Generation, s \in Resource :
            /\ rows'[g][s].epoch = rows[g][s].epoch
            /\ rows'[g][s].operation_id = rows[g][s].operation_id
    BY <1>2, <1>4
  <1> QED
    BY <1>1, <1>2, <1>4, <1>5, <1>6 DEF WriteChanges

-----------------------------------------------------------------------------
LEMMA AcquirePreserves ==
    ASSUME FencingInv,
           NEW p \in Process, NEW r \in Resource, NEW op \in OperationId, Acquire(p, r, op)
    PROVE  FencingInv'
  <1> DEFINE token == NewToken(p, r, op)
  <1>0. TypeOK
    BY DEF FencingInv
  <1>e. AcquireChanges(p, r, op)
    BY <1>0, AcquireEffect
  <1>1. /\ installed \in Generation
        /\ rows[installed][r].epoch + 1 \in 1 .. MaxEpoch
        /\ token \in FencingToken
        /\ token.resource = r
        /\ token.store_generation = installed
        /\ token.operation_id = op
        /\ token.epoch = rows[installed][r].epoch + 1
        /\ issued' = issued \cup {token}
        /\ rows' \in [Generation -> [Resource -> Row]]
    BY <1>e DEF AcquireChanges
  <1>2. rows'[installed][r].epoch = rows[installed][r].epoch + 1
    BY <1>e DEF AcquireChanges
  <1>3. rows'[installed][r].operation_id = op
    BY <1>e DEF AcquireChanges
  <1>4. \A g \in Generation, s \in Resource :
            (g # installed \/ s # r) => rows'[g][s] = rows[g][s]
    BY <1>e DEF AcquireChanges
  <1>5. UNCHANGED <<installed, used, opened, author>>
    BY DEF Acquire
  <1>6. /\ rows[installed][r].epoch \in Nat
        /\ \A t \in issued :
             /\ t \in FencingToken
             /\ t.resource \in Resource
             /\ t.store_generation \in Generation
             /\ t.epoch \in Nat
    BY <1>0, <1>1, RowFields, TokenFields DEF TypeOK
  <1> HIDE DEF token
  <1>7. TypeOK'
    BY <1>0, <1>1, <1>5 DEF TypeOK
  <1>8. GenerationsAreUsed'
    BY <1>1, <1>5, NoneAssumption DEF FencingInv, GenerationsAreUsed
  <1>9. \A t \in issued : SameLine(t, token) => t.epoch < token.epoch
    BY <1>1, <1>6 DEF SameLine, FencingInv, TokensFollowRows, RowOf
  <1>10. TokensFollowRows'
    <2> SUFFICES ASSUME NEW t \in issued'
                 PROVE  /\ t.epoch <= RowOf(t)'.epoch
                        /\ t.epoch = RowOf(t)'.epoch => t.operation_id = RowOf(t)'.operation_id
      BY DEF TokensFollowRows
    <2>1. CASE t = token
      BY <2>1, <1>1, <1>2, <1>3, <1>6 DEF RowOf
    <2>2. CASE t \in issued /\ SameLine(t, token)
      BY <2>2, <1>1, <1>2, <1>6, <1>9 DEF RowOf, SameLine
    <2>3. CASE t \in issued /\ ~ SameLine(t, token)
      <3>1. rows'[t.store_generation][t.resource] = rows[t.store_generation][t.resource]
        BY <2>3, <1>1, <1>4, <1>6 DEF SameLine
      <3> QED
        BY <2>3, <3>1 DEF RowOf, FencingInv, TokensFollowRows
    <2> QED
      BY <2>1, <2>2, <2>3, <1>1
  <1>11. EpochsAreUnique'
    <2> SUFFICES ASSUME NEW t1 \in issued', NEW t2 \in issued',
                        SameLine(t1, t2), t1.epoch = t2.epoch
                 PROVE  t1 = t2
      BY DEF EpochsAreUnique, SameLine
    <2>1. CASE t1 \in issued /\ t2 \in issued
      BY <2>1 DEF FencingInv, EpochsAreUnique
    <2>2. CASE t1 = token /\ t2 \in issued
      BY <2>2, <1>1, <1>6, <1>9 DEF SameLine
    <2>3. CASE t2 = token /\ t1 \in issued
      BY <2>3, <1>1, <1>6, <1>9 DEF SameLine
    <2> QED
      BY <2>1, <2>2, <2>3, <1>1
  <1>12. AuthorsFollowRows'
    <2> SUFFICES ASSUME NEW g \in Generation, NEW s \in Resource, author[g][s] # None
                 PROVE  /\ author[g][s].store_generation = g
                        /\ author[g][s].epoch \in Nat
                        /\ author[g][s].epoch <= rows'[g][s].epoch
      BY <1>5 DEF AuthorsFollowRows
    <2>1. /\ author[g][s].store_generation = g
          /\ author[g][s].epoch \in Nat
          /\ author[g][s].epoch <= rows[g][s].epoch
      BY DEF FencingInv, AuthorsFollowRows
    <2>2. CASE g = installed /\ s = r
      BY <2>1, <2>2, <1>2, <1>6
    <2>3. CASE g # installed \/ s # r
      BY <2>1, <2>3, <1>4
    <2> QED
      BY <2>2, <2>3
  <1> QED
    BY <1>7, <1>8, <1>10, <1>11, <1>12 DEF FencingInv

LEMMA WritePreserves ==
    ASSUME FencingInv,
           NEW p \in Process, NEW token \in issued, NEW v \in Value, Write(p, token, v)
    PROVE  FencingInv'
  <1>0. TypeOK
    BY DEF FencingInv
  <1>e. WriteChanges(token, v)
    BY <1>0, WriteEffect
  <1>1. /\ token \in FencingToken
        /\ installed \in Generation
        /\ token.store_generation = installed
        /\ token.epoch = rows[installed][token.resource].epoch
        /\ rows' \in [Generation -> [Resource -> Row]]
        /\ author' \in [Generation -> [Resource -> FencingToken \cup {None}]]
        /\ author'[installed][token.resource] = token
    BY <1>e DEF WriteChanges
  <1>2. \A g \in Generation, s \in Resource :
            /\ rows'[g][s].epoch = rows[g][s].epoch
            /\ rows'[g][s].operation_id = rows[g][s].operation_id
    BY <1>e DEF WriteChanges
  <1>3. \A g \in Generation, s \in Resource :
            (g # installed \/ s # token.resource) => author'[g][s] = author[g][s]
    BY <1>e DEF WriteChanges
  <1>4. UNCHANGED <<installed, used, opened, issued>>
    BY DEF Write
  <1>5. TypeOK'
    BY <1>0, <1>1, <1>4 DEF TypeOK
  <1>6. GenerationsAreUsed' /\ EpochsAreUnique'
    BY <1>4 DEF FencingInv, GenerationsAreUsed, EpochsAreUnique, SameLine
  <1>7. TokensFollowRows'
    <2>1. \A t \in issued : t.store_generation \in Generation /\ t.resource \in Resource
      BY <1>0, TokenFields DEF TypeOK
    <2> QED
      BY <2>1, <1>2, <1>4 DEF FencingInv, TokensFollowRows, RowOf
  <1>8. AuthorsFollowRows'
    <2> SUFFICES ASSUME NEW g \in Generation, NEW s \in Resource, author'[g][s] # None
                 PROVE  /\ author'[g][s].store_generation = g
                        /\ author'[g][s].epoch \in Nat
                        /\ author'[g][s].epoch <= rows'[g][s].epoch
      BY DEF AuthorsFollowRows
    <2>1. rows[g][s].epoch \in Nat /\ token.epoch \in Nat
      BY <1>0, <1>1, RowFields, TokenFields
    <2>2. CASE g = installed /\ s = token.resource
      BY <2>1, <2>2, <1>1, <1>2
    <2>3. CASE g # installed \/ s # token.resource
      <3>1. author'[g][s] = author[g][s]
        BY <2>3, <1>3
      <3> QED
        BY <3>1, <1>2 DEF FencingInv, AuthorsFollowRows
    <2> QED
      BY <2>2, <2>3
  <1> QED
    BY <1>5, <1>6, <1>7, <1>8 DEF FencingInv

\* The steps that open, close or replace the file touch neither rows nor tokens.
LEMMA FileStepPreserves ==
    ASSUME FencingInv,
           UNCHANGED <<rows, issued, author>>,
           TypeOK', GenerationsAreUsed'
    PROVE  FencingInv'
  BY DEF FencingInv, TokensFollowRows, RowOf, EpochsAreUnique, SameLine, AuthorsFollowRows

\* The invariant holds through every acquisition, write, crash, reopening and
\* replacement of the file.
THEOREM FencingInvariant == Spec => []FencingInv
  <1>1. Init => FencingInv
    BY BoundAssumption DEF Init, FencingInv, TypeOK, Row, NoRow, GenerationsAreUsed,
        TokensFollowRows, EpochsAreUnique, AuthorsFollowRows
  <1>2. FencingInv /\ [Next]_vars => FencingInv'
    <2> SUFFICES ASSUME FencingInv, [Next]_vars PROVE FencingInv'
      OBVIOUS
    <2>1. TypeOK /\ GenerationsAreUsed
      BY DEF FencingInv
    <2>2. CASE RemoveFile
      BY <2>1, <2>2, FileStepPreserves DEF RemoveFile, TypeOK, GenerationsAreUsed
    <2>3. ASSUME NEW p \in Process, NEW g \in Generation, OpenNew(p, g) PROVE FencingInv'
      BY <2>1, <2>3, FileStepPreserves DEF OpenNew, TypeOK, GenerationsAreUsed
    <2>4. ASSUME NEW p \in Process, OpenExisting(p) PROVE FencingInv'
      BY <2>1, <2>4, FileStepPreserves DEF OpenExisting, TypeOK, GenerationsAreUsed
    <2>5. ASSUME NEW p \in Process, Crash(p) PROVE FencingInv'
      BY <2>1, <2>5, FileStepPreserves DEF Crash, TypeOK, GenerationsAreUsed
    <2>6. CASE UNCHANGED vars
      BY <2>1, <2>6, FileStepPreserves DEF vars, TypeOK, GenerationsAreUsed
    <2> QED
      BY <2>2, <2>3, <2>4, <2>5, <2>6, AcquirePreserves, WritePreserves DEF Next
  <1> QED
    BY <1>1, <1>2, PTL DEF Spec

\* The file's rows, the caches of the processes and the tokens have their types
\* (fencing.py:24-49, 77-149).
THEOREM FencingTypeCorrect == Spec => []TypeOK
  <1>1. FencingInv => TypeOK
    BY DEF FencingInv
  <1> QED
    BY <1>1, FencingInvariant, PTL

\* No epoch is granted twice (fencing.py:119-149).
THEOREM NoEpochTwice == Spec => []EpochsAreUnique
  <1>1. FencingInv => EpochsAreUnique
    BY DEF FencingInv
  <1> QED
    BY <1>1, FencingInvariant, PTL

\* Two executors are never both in authority over a resource (fencing.py:151-183).
THEOREM AuthorityIsExclusive == Spec => []OneTokenInAuthority
  <1>1. FencingInv => OneTokenInAuthority
    <2> SUFFICES ASSUME FencingInv,
                        NEW t1 \in issued, NEW t2 \in issued,
                        Writable(t1), t1.resource = t2.resource
                 PROVE  /\ SameLine(t1, t2) => t2.epoch <= t1.epoch
                        /\ Writable(t2) => t1 = t2
      BY DEF OneTokenInAuthority
    <2>1. t1.store_generation = installed /\ t1.epoch = rows[installed][t1.resource].epoch
      BY DEF Writable
    <2>2. SameLine(t1, t2) => t2.epoch <= t1.epoch
      BY <2>1 DEF SameLine, FencingInv, TokensFollowRows, RowOf
    <2>3. Writable(t2) => SameLine(t1, t2) /\ t1.epoch = t2.epoch
      BY <2>1 DEF Writable, SameLine
    <2> QED
      BY <2>2, <2>3 DEF FencingInv, EpochsAreUnique
  <1> QED
    BY <1>1, FencingInvariant, PTL

-----------------------------------------------------------------------------
\* A token that is not writable names another generation or an epoch already
\* passed; the first is never installed again, the second never comes back.
LEMMA StepRevivesNothing ==
    FencingInv /\ [Next]_vars => \A t \in issued : ~ Writable(t) => ~ Writable(t)'
  <1> SUFFICES ASSUME FencingInv, [Next]_vars, NEW t \in issued, ~ Writable(t)
               PROVE  ~ Writable(t)'
    OBVIOUS
  <1>0. TypeOK
    BY DEF FencingInv
  <1>1. /\ t \in FencingToken
        /\ t.store_generation \in Generation
        /\ t.resource \in Resource
        /\ t.epoch \in Nat
        /\ t.store_generation \in used
    BY <1>0, TokenFields DEF TypeOK, FencingInv, GenerationsAreUsed
  <1>2. RowOf(t).epoch \in Nat
    BY <1>0, <1>1, RowFields DEF RowOf
  <1>3. t.store_generation # installed \/ t.epoch < RowOf(t).epoch
    BY <1>1, <1>2, NoneAssumption DEF Writable, FencingInv, TokensFollowRows, RowOf
  <1>4. CASE RemoveFile
    BY <1>4 DEF RemoveFile, Writable
  <1>5. ASSUME NEW p \in Process, NEW g \in Generation, OpenNew(p, g) PROVE ~ Writable(t)'
    BY <1>5, <1>1 DEF OpenNew, Writable
  <1>6. CASE UNCHANGED <<installed, rows>>
    BY <1>6 DEF Writable
  <1>7. ASSUME NEW p \in Process, NEW r \in Resource, NEW op \in OperationId, Acquire(p, r, op)
        PROVE  ~ Writable(t)'
    <2>0. AcquireChanges(p, r, op)
      BY <1>0, <1>7, AcquireEffect
    <2>1. /\ rows'[installed][r].epoch = rows[installed][r].epoch + 1
          /\ installed \in Generation
          /\ installed' = installed
      BY <2>0, <1>7 DEF AcquireChanges, Acquire
    <2>2. \A g \in Generation, s \in Resource :
              (g # installed \/ s # r) => rows'[g][s] = rows[g][s]
      BY <2>0 DEF AcquireChanges
    <2>3. CASE t.store_generation # installed
      BY <2>1, <2>3 DEF Writable
    <2>4. CASE t.store_generation = installed /\ t.resource = r
      BY <1>1, <1>2, <1>3, <2>1, <2>4 DEF Writable, RowOf
    <2>5. CASE t.store_generation = installed /\ t.resource # r
      BY <1>1, <1>2, <1>3, <2>1, <2>2, <2>5 DEF Writable, RowOf
    <2> QED
      BY <2>3, <2>4, <2>5
  <1>8. ASSUME NEW p \in Process, NEW token \in issued, NEW v \in Value, Write(p, token, v)
        PROVE  ~ Writable(t)'
    <2>0. WriteChanges(token, v)
      BY <1>0, <1>8, WriteEffect
    <2>1. \A g \in Generation, s \in Resource :
              /\ rows'[g][s].epoch = rows[g][s].epoch
              /\ rows'[g][s].operation_id = rows[g][s].operation_id
      BY <2>0 DEF WriteChanges
    <2>2. installed' = installed
      BY <1>8 DEF Write
    <2> QED
      BY <2>1, <2>2, <1>1 DEF Writable
  <1>9. ASSUME NEW p \in Process, OpenExisting(p) \/ Crash(p) PROVE ~ Writable(t)'
    BY <1>6, <1>9 DEF OpenExisting, Crash
  <1>10. CASE UNCHANGED vars
    BY <1>6, <1>10 DEF vars
  <1> QED
    BY <1>4, <1>5, <1>7, <1>8, <1>9, <1>10 DEF Next

\* Authority lost is lost for good (fencing.py:151-183).
THEOREM AuthorityIsLostForGood == Spec => AuthorityIsNotRevived
BY FencingInvariant, StepRevivesNothing, PTL DEF Spec, AuthorityIsNotRevived

LEMMA StepKeepsWriteOrder ==
    FencingInv /\ FencingInv' /\ [Next]_vars =>
        \A g \in Generation, r \in Resource :
            author'[g][r] # None =>
                /\ author'[g][r].store_generation = g
                /\ author[g][r] # None => author[g][r].epoch <= author'[g][r].epoch
  <1> SUFFICES ASSUME FencingInv, FencingInv', [Next]_vars,
                      NEW g \in Generation, NEW r \in Resource, author'[g][r] # None
               PROVE  /\ author'[g][r].store_generation = g
                      /\ author[g][r] # None => author[g][r].epoch <= author'[g][r].epoch
    OBVIOUS
  <1>0. TypeOK
    BY DEF FencingInv
  <1>1. author'[g][r].store_generation = g /\ author'[g][r].epoch \in Nat
    BY DEF FencingInv, AuthorsFollowRows
  <1>2. CASE author'[g][r] = author[g][r]
    BY <1>1, <1>2
  <1>3. CASE UNCHANGED author
    BY <1>2, <1>3
  <1>4. ASSUME NEW p \in Process, NEW token \in issued, NEW v \in Value, Write(p, token, v)
        PROVE  author[g][r] # None => author[g][r].epoch <= author'[g][r].epoch
    <2>0. WriteChanges(token, v)
      BY <1>0, <1>4, WriteEffect
    <2>1. /\ token.epoch = rows[installed][token.resource].epoch
          /\ author'[installed][token.resource] = token
      BY <2>0 DEF WriteChanges
    <2>2. \A h \in Generation, s \in Resource :
              (h # installed \/ s # token.resource) => author'[h][s] = author[h][s]
      BY <2>0 DEF WriteChanges
    <2>3. CASE g = installed /\ r = token.resource
      BY <2>1, <2>3 DEF FencingInv, AuthorsFollowRows
    <2>4. CASE g # installed \/ r # token.resource
      BY <1>2, <2>2, <2>4
    <2> QED
      BY <2>3, <2>4
  <1> QED
    BY <1>1, <1>3, <1>4 DEF Next, vars, RemoveFile, OpenNew, OpenExisting, Crash, Acquire

\* A delayed executor never overwrites a later one (fencing.py:151-183).
THEOREM WritesInOrder == Spec => WritesFollowEpochs
BY FencingInvariant, StepKeepsWriteOrder, PTL DEF Spec, WritesFollowEpochs

-----------------------------------------------------------------------------
(* The in-memory contract, on one line of epochs for each generation of the *)
(* file and resource.                                                       *)
Line == Generation \X Resource

Contract(t) ==
    [resource     |-> <<t.store_generation, t.resource>>,
     operation_id |-> t.operation_id,
     epoch        |-> t.epoch]

LEMMA LineFields ==
    \A l \in Line : l[1] \in Generation /\ l[2] \in Resource /\ l = <<l[1], l[2]>>
  <1> SUFFICES ASSUME NEW g \in Generation, NEW r \in Resource, NEW l, l = <<g, r>>
               PROVE  l[1] = g /\ l[2] = r /\ l = <<l[1], l[2]>>
    BY DEF Line
  <1> QED
    OBVIOUS

LEMMA AcquireImplements ==
    ASSUME FencingInv,
           NEW p \in Process, NEW r \in Resource, NEW op \in OperationId, Acquire(p, r, op)
    PROVE  Authority!AcquireAuthority(<<installed, r>>, op)
  <1> DEFINE at == <<installed, r>>
             epochs == [l \in Line |-> rows[l[1]][l[2]].epoch]
             operations == [l \in Line |-> rows[l[1]][l[2]].operation_id]
             values == [l \in Line |-> rows[l[1]][l[2]].value]
             contracts == {Contract(t) : t \in issued}
             token == NewToken(p, r, op)
  <1>0. TypeOK
    BY DEF FencingInv
  <1>e. AcquireChanges(p, r, op)
    BY <1>0, AcquireEffect
  <1>1. /\ installed \in Generation
        /\ rows[installed][r].epoch < MaxEpoch
        /\ token.resource = r
        /\ token.store_generation = installed
        /\ token.operation_id = op
        /\ token.epoch = rows[installed][r].epoch + 1
        /\ issued' = issued \cup {token}
    <2>1. rows[installed][r].epoch < MaxEpoch
      BY DEF Acquire
    <2> QED
      BY <1>e, <2>1 DEF AcquireChanges
  <1>2. /\ rows'[installed][r].epoch = rows[installed][r].epoch + 1
        /\ rows'[installed][r].operation_id = op
        /\ rows'[installed][r].value = rows[installed][r].value
    BY <1>e DEF AcquireChanges
  <1>3. \A g \in Generation, s \in Resource :
            (g # installed \/ s # r) => rows'[g][s] = rows[g][s]
    BY <1>e DEF AcquireChanges
  <1>4. at \in Line /\ at[1] = installed /\ at[2] = r
    BY <1>1 DEF Line
  <1>5. \A l \in Line : l # at => rows'[l[1]][l[2]] = rows[l[1]][l[2]]
    BY <1>3, <1>4, LineFields
  <1> HIDE DEF at, token
  <1>6. epochs[at] < MaxEpoch
    BY <1>1, <1>4
  <1>7. epochs' = [epochs EXCEPT ![at] = epochs[at] + 1]
    BY <1>2, <1>4, <1>5
  <1>8. operations' = [operations EXCEPT ![at] = op]
    BY <1>2, <1>4, <1>5
  <1>9. values' = values
    BY <1>2, <1>4, <1>5
  <1>10. contracts' = contracts \cup {[resource |-> at, operation_id |-> op, epoch |-> epochs[at] + 1]}
    <2>1. Contract(token) = [resource |-> at, operation_id |-> op, epoch |-> epochs[at] + 1]
      <3>1. epochs[at] = rows[installed][r].epoch
        BY <1>4
      <3>2. at = <<token.store_generation, token.resource>>
        BY <1>1 DEF at
      <3> QED
        BY <1>1, <3>1, <3>2 DEF Contract
    <2>2. contracts' = contracts \cup {Contract(token)}
      BY <1>1
    <2> QED
      BY <2>1, <2>2
  <1> QED
    BY <1>6, <1>7, <1>8, <1>9, <1>10 DEF Authority!AcquireAuthority, Line, Contract, at

LEMMA WriteImplements ==
    ASSUME FencingInv,
           NEW p \in Process, NEW token \in issued, NEW v \in Value, Write(p, token, v)
    PROVE  Authority!FencedWrite(Contract(token), v)
  <1> DEFINE at == <<installed, token.resource>>
             epochs == [l \in Line |-> rows[l[1]][l[2]].epoch]
             operations == [l \in Line |-> rows[l[1]][l[2]].operation_id]
             values == [l \in Line |-> rows[l[1]][l[2]].value]
             contracts == {Contract(t) : t \in issued}
  <1>0. TypeOK
    BY DEF FencingInv
  <1>e. WriteChanges(token, v)
    BY <1>0, WriteEffect
  <1>1. /\ token \in FencingToken
        /\ installed \in Generation
        /\ token.store_generation = installed
        /\ token.epoch = rows[installed][token.resource].epoch
        /\ token.operation_id = rows[installed][token.resource].operation_id
        /\ rows'[installed][token.resource].value = v
        /\ token.resource \in Resource
    BY <1>e, TokenFields DEF WriteChanges
  <1>2. \A g \in Generation, s \in Resource :
            /\ rows'[g][s].epoch = rows[g][s].epoch
            /\ rows'[g][s].operation_id = rows[g][s].operation_id
    BY <1>e DEF WriteChanges
  <1>3. \A g \in Generation, s \in Resource :
            (g # installed \/ s # token.resource) => rows'[g][s] = rows[g][s]
    BY <1>e DEF WriteChanges
  <1>4. at \in Line /\ at[1] = installed /\ at[2] = token.resource
    BY <1>1 DEF Line
  <1>5. \A l \in Line : l # at => rows'[l[1]][l[2]] = rows[l[1]][l[2]]
    BY <1>3, <1>4, LineFields
  <1>6. /\ Contract(token).resource = at
        /\ Contract(token).epoch = token.epoch
        /\ Contract(token).operation_id = token.operation_id
    BY <1>1 DEF Contract
  <1> HIDE DEF at
  <1>7. Contract(token).epoch = epochs[at] /\ Contract(token).operation_id = operations[at]
    BY <1>1, <1>4, <1>6
  <1>8. values' = [values EXCEPT ![at] = v]
    BY <1>1, <1>4, <1>5
  <1>9. epochs' = epochs /\ operations' = operations
    BY <1>2, LineFields
  <1>10. contracts' = contracts
    BY DEF Write
  <1> QED
    BY <1>6, <1>7, <1>8, <1>9, <1>10 DEF Authority!FencedWrite, Line, Contract

\* Every step of the store is an acquisition or a write of the in-memory contract,
\* or none that it can see: crashes, reopenings and a recreated file included
\* (fencing.py:53-74 and 77-183).
THEOREM StoreImplementsFencedAuthority == Spec => ImplementsFencedAuthority
  <1>1. Init => Authority!Init
    BY DEF Init, Authority!Init, NoRow
  <1>2. FencingInv /\ [Next]_vars => [Authority!Next]_(Authority!vars)
    <2> SUFFICES ASSUME FencingInv, [Next]_vars PROVE Authority!Next \/ UNCHANGED Authority!vars
      OBVIOUS
    <2>1. ASSUME NEW p \in Process, NEW r \in Resource, NEW op \in OperationId, Acquire(p, r, op)
          PROVE  Authority!Next
      <3>1. <<installed, r>> \in Generation \X Resource
        BY <2>1, NoneAssumption DEF FencingInv, TypeOK, Acquire
      <3>2. Authority!AcquireAuthority(<<installed, r>>, op)
        BY <2>1, AcquireImplements
      <3> QED
        BY <3>1, <3>2 DEF Authority!Next
    <2>2. ASSUME NEW p \in Process, NEW token \in issued, NEW v \in Value, Write(p, token, v)
          PROVE  Authority!Next
      <3>1. Authority!FencedWrite(Contract(token), v)
        BY <2>2, WriteImplements
      <3> QED
        BY <3>1 DEF Authority!Next, Contract
    <2>3. CASE UNCHANGED <<rows, issued>>
      BY <2>3 DEF Authority!vars
    <2> QED
      BY <2>1, <2>2, <2>3 DEF Next, vars, RemoveFile, OpenNew, OpenExisting, Crash
  <1> QED
    BY <1>1, <1>2, FencingInvariant, PTL DEF Spec, ImplementsFencedAuthority, Authority!Spec
=============================================================================
