------------------------ MODULE CheckpointStoreProofs ------------------------
(***************************************************************************)
(* Theorems of CheckpointStore, for any runs, plans and callers.           *)
(*                                                                         *)
(* LineageIsLinear is not inductive alone: that the head is one checkpoint *)
(* and not several of the same id holds because the ids of a run differ.   *)
(***************************************************************************)
EXTENDS CheckpointStore, TLAPS

\* checkpoint_id identifies a checkpoint within its run (recovery.py:68-74).
IdsAreUnique ==
    \A c, d \in checkpoints :
        c.run_id = d.run_id /\ c.checkpoint_id = d.checkpoint_id => c = d

CheckpointInv == TypeOK /\ LineageIsLinear /\ IdsAreUnique

\* Counts are natural numbers, and 0 is one of them for every plan.
LEMMA CountIsNat ==
    /\ \A count \in Count : count \in Nat
    /\ \A plan \in Plan : 0 \in Count
  BY PlanAssumption DEF Count

\* A checkpoint's fields have their types.
LEMMA CheckpointFields ==
    ASSUME NEW c \in RecoveryCheckpoint
    PROVE  /\ c.run_id \in RunId
           /\ c.checkpoint_id \in CheckpointId
           /\ c.sequence \in 0 .. MaxSequence
           /\ c.sequence \in Nat
           /\ c.plan \in Plan
           /\ c.completed_count \in Count
           /\ c.completed_count \in Nat
  BY CountIsNat, SequenceAssumption DEF RecoveryCheckpoint

\* Writing is possible only after the head, so a caller's parent is the end of
\* the chain and every other checkpoint of its run lies before it.
LEMMA ParentIsLast ==
    ASSUME CheckpointInv,
           NEW parent \in checkpoints,
           runs[parent.run_id] # None,
           runs[parent.run_id].head = parent.checkpoint_id
    PROVE  \A c \in checkpoints : c.run_id = parent.run_id =>
                c = parent \/ ( /\ c.sequence < parent.sequence
                                /\ c.completed_count < parent.completed_count)
  <1> TAKE c \in checkpoints
  <1> HAVE c.run_id = parent.run_id
  <1>1. PICK h \in Loaded(c.run_id, runs[c.run_id].head) :
            c = h \/ (c.sequence < h.sequence /\ c.completed_count < h.completed_count)
    BY DEF CheckpointInv, LineageIsLinear
  <1>2. h = parent
    BY <1>1 DEF Loaded, CheckpointInv, IdsAreUnique
  <1> QED
    BY <1>1, <1>2

\* advance's own checks imply the constraints of the table.
LEMMA NoCollision ==
    ASSUME CheckpointInv,
           NEW parent \in checkpoints, NEW id \in CheckpointId, NEW count \in Count,
           Advances(parent, id, count)
    PROVE  Colliding(Candidate(parent, id, count)) = {}
  <1> DEFINE new == Candidate(parent, id, count)
  <1>1. parent \in RecoveryCheckpoint /\ checkpoints \subseteq RecoveryCheckpoint
    BY DEF CheckpointInv, TypeOK
  <1>2. ASSUME NEW d \in checkpoints, d.run_id = parent.run_id
        PROVE  d.checkpoint_id # id /\ d.sequence # parent.sequence + 1
    <2>1. d.checkpoint_id # id
      BY <1>2 DEF Advances, Loaded
    <2>2. d = parent \/ d.sequence < parent.sequence
      BY <1>2, ParentIsLast DEF Advances
    <2> QED
      BY <2>1, <2>2, <1>1, CheckpointFields
  <1> QED
    BY <1>2 DEF Colliding, Candidate

LEMMA StartPreserves ==
    ASSUME CheckpointInv,
           NEW r \in RunId, NEW id \in CheckpointId, NEW plan \in Plan,
           Start(r, id, plan)
    PROVE  CheckpointInv'
  <1> DEFINE new == Initial(r, id, plan)
  <1> USE DEF Start
  <1>1. new \in RecoveryCheckpoint
    BY CountIsNat, SequenceAssumption DEF Initial, RecoveryCheckpoint
  <1>2. TypeOK'
    BY <1>1 DEF CheckpointInv, TypeOK, Run
  <1>3. \A c \in checkpoints : c.run_id # r /\ runs'[c.run_id] = runs[c.run_id]
    BY CheckpointFields DEF CheckpointInv, TypeOK, LineageIsLinear
  <1>4. runs'[r] = [plan |-> plan, head |-> id]
    BY DEF CheckpointInv, TypeOK
  <1>5. runs'[r] # None
    BY <1>4, NoneAssumption
  <1>6. IdsAreUnique'
    BY <1>3 DEF CheckpointInv, IdsAreUnique, Initial
  <1>7. LineageIsLinear'
    <2> SUFFICES ASSUME NEW c \in checkpoints'
                 PROVE  /\ runs'[c.run_id] # None
                        /\ c.plan = runs'[c.run_id].plan
                        /\ c.completed_count <= OperationCount[c.plan]
                        /\ c.sequence = 0 => c.parent = None /\ c.completed_count = 0
                        /\ c.sequence # 0 =>
                            \E p \in checkpoints' :
                                /\ p.run_id = c.run_id
                                /\ p.checkpoint_id = c.parent
                                /\ p.sequence = c.sequence - 1
                                /\ p.completed_count < c.completed_count
                        /\ \E h \in Loaded(c.run_id, runs[c.run_id].head)' :
                            c = h \/ (c.sequence < h.sequence /\ c.completed_count < h.completed_count)
                        /\ \A d \in checkpoints' :
                            (d.run_id = c.run_id /\ d.sequence = c.sequence) => d = c
      BY DEF LineageIsLinear
    <2>1. CASE c = new
      <3>1. c.run_id = r /\ c.checkpoint_id = id /\ c.plan = plan /\ c.sequence = 0
            /\ c.completed_count = 0 /\ c.parent = None
        BY <2>1 DEF Initial
      <3>2. 0 <= OperationCount[plan]
        BY PlanAssumption
      <3>3. c \in Loaded(c.run_id, runs[c.run_id].head)'
        BY <3>1, <1>4 DEF Loaded
      <3>4. \A d \in checkpoints' : d.run_id = c.run_id => d = c
        BY <3>1, <2>1, <1>3
      <3> QED
        BY <3>1, <3>2, <3>3, <3>4, <1>4, <1>5
    <2>2. CASE c \in checkpoints
      <3>1. c.run_id # r /\ runs'[c.run_id] = runs[c.run_id] /\ new.run_id = r
        BY <2>2, <1>3 DEF Initial
      <3>2. \A h \in Loaded(c.run_id, runs[c.run_id].head) :
                h \in Loaded(c.run_id, runs[c.run_id].head)'
        BY <3>1 DEF Loaded
      <3>3. \A d \in checkpoints' : d.run_id = c.run_id => d \in checkpoints
        BY <3>1
      <3> QED
        BY <2>2, <3>1, <3>2, <3>3 DEF CheckpointInv, LineageIsLinear
    <2> QED
      BY <2>1, <2>2
  <1> QED
    BY <1>2, <1>6, <1>7 DEF CheckpointInv

LEMMA AdvancePreserves ==
    ASSUME CheckpointInv,
           NEW parent \in RecoveryCheckpoint, NEW id \in CheckpointId, NEW count \in Count,
           Advance(parent, id, count)
    PROVE  CheckpointInv'
  <1> DEFINE new == Candidate(parent, id, count)
             r == parent.run_id
  <1>1. /\ parent \in checkpoints
        /\ runs[r] # None
        /\ runs[r].head = parent.checkpoint_id
        /\ parent.plan = runs[r].plan
        /\ count > parent.completed_count
        /\ count <= OperationCount[runs[r].plan]
        /\ checkpoints' = checkpoints \cup {new}
        /\ runs' = [runs EXCEPT ![r].head = id]
        /\ parent.sequence < MaxSequence
        /\ Loaded(r, id) = {}
    BY DEF Advance, Advances
  <1>2. r \in RunId /\ runs[r] \in Run /\ runs \in [RunId -> Run \cup {None}]
    BY <1>1, CheckpointFields DEF CheckpointInv, TypeOK
  <1>3. /\ new.run_id = r
        /\ new.checkpoint_id = id
        /\ new.sequence = parent.sequence + 1
        /\ new.parent = parent.checkpoint_id
        /\ new.plan = runs[r].plan
        /\ new.completed_count = count
    BY DEF Candidate
  <1>4. new \in RecoveryCheckpoint
    BY <1>1, <1>2, CheckpointFields, SequenceAssumption DEF Candidate, RecoveryCheckpoint, Run
  <1>5. /\ runs'[r] = [plan |-> runs[r].plan, head |-> id]
        /\ \A s \in RunId \ {r} : runs'[s] = runs[s]
    BY <1>1, <1>2 DEF Run
  <1>6. runs'[r] # None
    BY <1>2, <1>5, NoneAssumption DEF Run
  <1>7. TypeOK'
    BY <1>1, <1>2, <1>4, <1>5 DEF CheckpointInv, TypeOK, Run
  <1>8. checkpoints \subseteq RecoveryCheckpoint
    BY DEF CheckpointInv, TypeOK
  <1>9. \A c \in checkpoints : c.run_id = r =>
            /\ c.checkpoint_id # id
            /\ c.sequence < new.sequence
            /\ c.completed_count < count
    BY <1>1, <1>3, <1>8, ParentIsLast, CheckpointFields, CountIsNat DEF Loaded
  <1>10. IdsAreUnique'
    BY <1>1, <1>3, <1>9 DEF CheckpointInv, IdsAreUnique
  <1>11. LineageIsLinear'
    <2> SUFFICES ASSUME NEW c \in checkpoints'
                 PROVE  /\ runs'[c.run_id] # None
                        /\ c.plan = runs'[c.run_id].plan
                        /\ c.completed_count <= OperationCount[c.plan]
                        /\ c.sequence = 0 => c.parent = None /\ c.completed_count = 0
                        /\ c.sequence # 0 =>
                            \E p \in checkpoints' :
                                /\ p.run_id = c.run_id
                                /\ p.checkpoint_id = c.parent
                                /\ p.sequence = c.sequence - 1
                                /\ p.completed_count < c.completed_count
                        /\ \E h \in Loaded(c.run_id, runs[c.run_id].head)' :
                            c = h \/ (c.sequence < h.sequence /\ c.completed_count < h.completed_count)
                        /\ \A d \in checkpoints' :
                            (d.run_id = c.run_id /\ d.sequence = c.sequence) => d = c
      BY DEF LineageIsLinear
    <2>1. new \in Loaded(r, runs[r].head)'
      BY <1>1, <1>3, <1>5 DEF Loaded
    <2>2. CASE c = new
      <3>1. parent.sequence \in Nat /\ parent.completed_count < count
        BY <1>1, CheckpointFields, CountIsNat
      <3>2. new.sequence # 0 /\ parent.sequence = new.sequence - 1
        BY <3>1, <1>3
      <3>3. \A d \in checkpoints' : (d.run_id = r /\ d.sequence = new.sequence) => d = new
        BY <1>1, <1>9, <1>8, CheckpointFields
      <3> QED
        BY <2>1, <2>2, <3>1, <3>2, <3>3, <1>1, <1>3, <1>5, <1>6
    <2>3. CASE c \in checkpoints /\ c.run_id = r
      <3>1. c.sequence < new.sequence /\ c.completed_count < new.completed_count
        BY <2>3, <1>3, <1>9
      <3>2. \A d \in checkpoints' : d.sequence = c.sequence => d \in checkpoints
        BY <1>1, <3>1, <1>3, <1>8, <2>3, <1>4, CheckpointFields
      <3>3. /\ runs'[r] # None
            /\ runs'[r].plan = runs[r].plan
        BY <1>5, <1>6
      <3> QED
        BY <2>1, <2>3, <3>1, <3>2, <3>3, <1>1 DEF CheckpointInv, LineageIsLinear
    <2>4. CASE c \in checkpoints /\ c.run_id # r
      <3>1. runs'[c.run_id] = runs[c.run_id]
        BY <2>4, <1>5, <1>8, CheckpointFields
      <3>2. \A h \in Loaded(c.run_id, runs[c.run_id].head) :
                h \in Loaded(c.run_id, runs[c.run_id].head)'
        BY <3>1, <1>1 DEF Loaded
      <3>3. \A d \in checkpoints' : d.run_id = c.run_id => d \in checkpoints
        BY <1>1, <1>3, <2>4
      <3> QED
        BY <2>4, <3>1, <3>2, <3>3, <1>1 DEF CheckpointInv, LineageIsLinear
    <2> QED
      BY <2>2, <2>3, <2>4, <1>1
  <1> QED
    BY <1>7, <1>10, <1>11 DEF CheckpointInv

-----------------------------------------------------------------------------
\* Every interleaving of start and advance, with whatever arguments callers have
\* kept or made up, preserves the invariant.
THEOREM CheckpointInvariant == Spec => []CheckpointInv
  <1>1. Init => CheckpointInv
    BY DEF Init, CheckpointInv, TypeOK, LineageIsLinear, IdsAreUnique
  <1>2. CheckpointInv /\ [Next]_vars => CheckpointInv'
    <2> SUFFICES ASSUME CheckpointInv, [Next]_vars PROVE CheckpointInv'
      OBVIOUS
    <2>1. CASE Next
      BY <2>1, StartPreserves, AdvancePreserves DEF Next
    <2>2. CASE UNCHANGED vars
      BY <2>2 DEF vars, CheckpointInv, TypeOK, LineageIsLinear, IdsAreUnique, Loaded
    <2> QED
      BY <2>1, <2>2
  <1> QED
    BY <1>1, <1>2, PTL DEF Spec

\* The rows of both tables have their types (recovery.py:62-74).
THEOREM CheckpointTypeCorrect == Spec => []TypeOK
  <1>1. CheckpointInv => TypeOK
    BY DEF CheckpointInv
  <1> QED
    BY <1>1, CheckpointInvariant, PTL

\* The checkpoints of each run form one chain that ends at its head, for any number
\* of recoveries that continue from the same checkpoint (recovery.py:205-255).
THEOREM LineagesAreLinear == Spec => []LineageIsLinear
  <1>1. CheckpointInv => LineageIsLinear
    BY DEF CheckpointInv
  <1> QED
    BY <1>1, CheckpointInvariant, PTL

\* advance never fails on a constraint of the table (recovery.py:240-250).
THEOREM AdvancesNeverCollide == Spec => []AdvanceNeverCollides
  <1>1. CheckpointInv => AdvanceNeverCollides
    BY NoCollision DEF AdvanceNeverCollides
  <1> QED
    BY <1>1, CheckpointInvariant, PTL

-----------------------------------------------------------------------------
\* What an advance leaves of the checkpoints recovery may resume from.
HeadMoved(parent, id) ==
    /\ parent.run_id \in RunId
    /\ parent \in checkpoints
    /\ runs[parent.run_id] \in Run
    /\ runs'[parent.run_id] = [plan |-> runs[parent.run_id].plan, head |-> id]
    /\ \A s \in RunId \ {parent.run_id} : runs'[s] = runs[s]
    /\ \A c \in checkpoints : c.run_id = parent.run_id => c.checkpoint_id # id

LEMMA HeadMoves ==
    ASSUME CheckpointInv,
           NEW parent \in RecoveryCheckpoint, NEW id \in CheckpointId, NEW count \in Count,
           Advance(parent, id, count)
    PROVE  HeadMoved(parent, id)
  <1>1. parent \in checkpoints /\ runs[parent.run_id] # None /\ Loaded(parent.run_id, id) = {}
        /\ runs' = [runs EXCEPT ![parent.run_id].head = id]
    BY DEF Advance, Advances
  <1>2. parent.run_id \in RunId /\ runs[parent.run_id] \in Run
    BY <1>1, CheckpointFields DEF CheckpointInv, TypeOK
  <1> QED
    BY <1>1, <1>2 DEF HeadMoved, CheckpointInv, TypeOK, Run, Loaded

LEMMA StepKeepsStale ==
    CheckpointInv /\ [Next]_vars =>
        \A c \in checkpoints : ~ Resumes(c, c.plan) => ~ Resumes(c, c.plan)'
  <1> SUFFICES ASSUME CheckpointInv, [Next]_vars, NEW c \in checkpoints, ~ Resumes(c, c.plan)
               PROVE  ~ Resumes(c, c.plan)'
    OBVIOUS
  <1>1. c \in RecoveryCheckpoint /\ runs[c.run_id] # None /\ runs[c.run_id].plan = c.plan
    BY DEF CheckpointInv, TypeOK, LineageIsLinear
  <1>2. runs[c.run_id].head # c.checkpoint_id
    BY <1>1 DEF Resumes
  <1>3. CASE UNCHANGED vars
    BY <1>2, <1>3 DEF vars, Resumes
  <1>4. ASSUME NEW r \in RunId, NEW id \in CheckpointId, NEW plan \in Plan, Start(r, id, plan)
        PROVE  runs'[c.run_id].head # c.checkpoint_id
    BY <1>1, <1>2, <1>4, CheckpointFields DEF Start, CheckpointInv, TypeOK
  <1>5. ASSUME NEW parent \in RecoveryCheckpoint, NEW id \in CheckpointId, NEW count \in Count,
               Advance(parent, id, count)
        PROVE  runs'[c.run_id].head # c.checkpoint_id
    <2>0. HeadMoved(parent, id)
      BY <1>5, HeadMoves
    <2>1. runs'[parent.run_id] = [plan |-> runs[parent.run_id].plan, head |-> id]
      BY <2>0 DEF HeadMoved
    <2>2. \A s \in RunId \ {parent.run_id} : runs'[s] = runs[s]
      BY <2>0 DEF HeadMoved
    <2>3. \A d \in checkpoints : d.run_id = parent.run_id => d.checkpoint_id # id
      BY <2>0 DEF HeadMoved
    <2> QED
      BY <1>1, <1>2, <2>1, <2>2, <2>3, CheckpointFields
  <1> QED
    BY <1>3, <1>4, <1>5 DEF Next, Resumes

\* A checkpoint that resume refuses once is refused for ever (recovery.py:257-281).
THEOREM StaleCheckpointsStayStale == Spec => StaleStaysStale
BY CheckpointInvariant, StepKeepsStale, PTL DEF Spec, StaleStaysStale

\* There is at most one count to resume a run from, the head's.
LEMMA StepNeverRegresses ==
    CheckpointInv /\ CheckpointInv' /\ [Next]_vars =>
        \A r \in RunId : runs[r] # None =>
            /\ runs'[r] # None
            /\ runs'[r].plan = runs[r].plan
            /\ \A n \in ResumeFrom(r), m \in ResumeFrom(r)' : n <= m
  <1> SUFFICES ASSUME CheckpointInv, CheckpointInv', [Next]_vars, NEW r \in RunId, runs[r] # None
               PROVE  /\ runs'[r] # None
                      /\ runs'[r].plan = runs[r].plan
                      /\ \A n \in ResumeFrom(r), m \in ResumeFrom(r)' : n <= m
    OBVIOUS
  <1>1. \A n \in ResumeFrom(r) : \E c \in checkpoints :
            c.run_id = r /\ c.checkpoint_id = runs[r].head /\ n = c.completed_count
    BY DEF ResumeFrom, Resumes
  <1>2. \A m \in ResumeFrom(r)' : \E c \in checkpoints' :
            c.run_id = r /\ c.checkpoint_id = runs'[r].head /\ m = c.completed_count
    BY DEF ResumeFrom, Resumes
  <1>3. \A c, d \in checkpoints' : c.run_id = d.run_id /\ c.checkpoint_id = d.checkpoint_id => c = d
    BY DEF CheckpointInv, IdsAreUnique
  <1>4. \A c \in checkpoints' : c.completed_count \in Nat
    BY CheckpointFields DEF CheckpointInv, TypeOK
  <1>5. CASE runs'[r] = runs[r] /\ checkpoints \subseteq checkpoints'
    <2>1. \A n \in ResumeFrom(r), m \in ResumeFrom(r)' : n = m /\ n \in Nat
      BY <1>1, <1>2, <1>3, <1>4, <1>5
    <2> QED
      BY <2>1, <1>5
  <1>6. CASE UNCHANGED vars
    BY <1>5, <1>6 DEF vars
  <1>7. ASSUME NEW s \in RunId, NEW id \in CheckpointId, NEW plan \in Plan, Start(s, id, plan)
        PROVE  runs'[r] = runs[r] /\ checkpoints \subseteq checkpoints'
    BY <1>7 DEF Start, CheckpointInv, TypeOK
  <1>8. ASSUME NEW parent \in RecoveryCheckpoint, NEW id \in CheckpointId, NEW count \in Count,
               Advance(parent, id, count), parent.run_id = r
        PROVE  /\ runs'[r] # None
               /\ runs'[r].plan = runs[r].plan
               /\ \A n \in ResumeFrom(r), m \in ResumeFrom(r)' : n <= m
    <2>0. HeadMoved(parent, id)
      BY <1>8, HeadMoves
    <2>1. /\ parent \in checkpoints
          /\ parent.checkpoint_id = runs[r].head
          /\ count > parent.completed_count
          /\ checkpoints' = checkpoints \cup {Candidate(parent, id, count)}
      BY <1>8 DEF Advance, Advances
    <2>2. /\ runs'[r] = [plan |-> runs[r].plan, head |-> id]
          /\ \A c \in checkpoints : c.run_id = r => c.checkpoint_id # id
      BY <1>8, <2>0 DEF HeadMoved
    <2>3. \A n \in ResumeFrom(r) : n = parent.completed_count
      BY <1>1, <1>3, <1>8, <2>1
    <2>4. \A m \in ResumeFrom(r)' : m = count
      BY <1>2, <2>1, <2>2 DEF Candidate
    <2>5. parent.completed_count < count /\ parent.completed_count \in Nat /\ count \in Nat
      BY <2>1, <1>8, CheckpointFields, CountIsNat
    <2>6. runs'[r] # None
      <3>1. runs[r] \in Run
        BY <1>8, <2>0 DEF HeadMoved
      <3> QED
        BY <2>2, <3>1, NoneAssumption DEF Run
    <2> QED
      BY <2>2, <2>3, <2>4, <2>5, <2>6
  <1>9. ASSUME NEW parent \in RecoveryCheckpoint, NEW id \in CheckpointId, NEW count \in Count,
               Advance(parent, id, count), parent.run_id # r
        PROVE  runs'[r] = runs[r] /\ checkpoints \subseteq checkpoints'
    <2>0. HeadMoved(parent, id)
      BY <1>9, HeadMoves
    <2> QED
      BY <1>9, <2>0 DEF HeadMoved, Advance
  <1> QED
    BY <1>5, <1>6, <1>7, <1>8, <1>9 DEF Next

\* What resume leaves out once it always leaves out, and a run's plan never changes
\* under it (recovery.py:136-281).
THEOREM RecoveryNeverRegresses == Spec => ProgressNeverRegresses
BY CheckpointInvariant, StepNeverRegresses, PTL DEF Spec, ProgressNeverRegresses
=============================================================================
