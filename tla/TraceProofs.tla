----------------------- MODULE TraceProofs -----------------------
(***************************************************************************)
(* Proofs about the validator of cross-layer traces.                       *)
(*                                                                         *)
(* First, the traces the stores write are accepted, for every set of       *)
(* effects, ids and plans and every length of the trace.  The validator    *)
(* folds over the trace; the invariant relates what it remembers after the *)
(* last record to what the stores hold: the binding to the request, the    *)
(* approval to the decision, the last checkpoint to the head of the run,   *)
(* the last evidence to the head of the identity.  A store's guard then    *)
(* implies the validator's check of the next record.                       *)
(*                                                                         *)
(* Second, whatever is recorded and mutated, the validator accepts the     *)
(* coherent traces and no others.  What it checks of a record alone is     *)
(* compared with what makes the record well typed; what it checks against  *)
(* the records before, of which it remembers a summary, with the relations *)
(* between all records.  Induction over the prefixes of a trace puts the   *)
(* two together.                                                           *)
(***************************************************************************)
EXTENDS CrossLayerTrace, TraceIntegrity, FiniteSetTheorems, SequenceTheorems,
        WellFoundedInduction, TLAPS

\* f is the function the fold of validate_trace is computed with.
IsFold(f, t) ==
    f = [S \in SUBSET DOMAIN t |->
            IF S = {} THEN Unread
            ELSE ReadRecord(f[S \ {Max(S)}], t[Max(S)])]

\* The local variables of validate_trace after the trace t can be s.
Reads(s, t) == \E f : IsFold(f, t) /\ s = f[DOMAIN t]

LEMMA FoldReads ==
    ASSUME NEW t, \E s : Reads(s, t)
    PROVE  Reads(FoldLeft(ReadRecord, Unread, t), t)
<1>1. FoldLeft(ReadRecord, Unread, t)
        = (CHOOSE f : IsFold(f, t))[DOMAIN t]
  BY DEF FoldLeft, MapThenFoldSet, IsFold
<1>2. IsFold(CHOOSE f : IsFold(f, t), t)
  BY Zenon DEF Reads
<1> QED
  BY <1>1, <1>2, Zenon DEF Reads

LEMMA EmptyReads == \A s : Reads(s, <<>>) <=> s = Unread
<1>1. SUBSET DOMAIN <<>> = {{}} /\ DOMAIN <<>> = {}
  OBVIOUS
<1>2. ASSUME NEW f, IsFold(f, <<>>) PROVE f[{}] = Unread
  BY <1>1, <1>2 DEF IsFold
<1>3. IsFold([S \in {{}} |-> Unread], <<>>)
  BY <1>1, Zenon DEF IsFold
<1> QED
  BY <1>1, <1>2, <1>3, Zenon DEF Reads

LEMMA LeastNat ==
    ASSUME NEW T \in SUBSET Nat, T # {}
    PROVE  \E n \in T : \A m \in T : n <= m
<1> DEFINE R == {ss \in Nat \X Nat : ss[1] < ss[2]}
<1>1. IsWellFoundedOn(R, Nat)
  BY NatLessThanWellFounded, Zenon DEF OpToRel
<1>2. PICK n \in T : \A m \in T : ~ (<<m, n>> \in R)
  <2> HIDE DEF R
  <2> QED
    BY <1>1, WFMin
<1>3. \A m \in T : n <= m
  <2> TAKE m \in T
  <2>1. m < n => <<m, n>> \in R
    OBVIOUS
  <2> QED
    BY <1>2, <2>1
<1> QED
  BY <1>3

LEMMA InductionOverNat ==
    ASSUME NEW T \in SUBSET Nat, 0 \in T, \A n \in T : n + 1 \in T
    PROVE  T = Nat
<1> SUFFICES ASSUME Nat \ T # {}
             PROVE  FALSE
  OBVIOUS
<1>1. PICK n \in Nat \ T : \A m \in Nat \ T : n <= m
  BY LeastNat
<1>2. n - 1 \in Nat /\ n - 1 \notin Nat \ T
  BY <1>1
<1> QED
  BY <1>1, <1>2

\* A set of positions has a greatest one.
LEMMA MaxExists ==
    ASSUME NEW n \in Nat, NEW S \in SUBSET (1 .. n), S # {}
    PROVE  Max(S) \in S
<1> DEFINE T == {m \in Nat : \A y \in S : y <= m}
<1>1. n \in T
  OBVIOUS
<1>2. PICK m \in T : \A k \in T : m <= k
  <2>1. T \in SUBSET Nat /\ T # {}
    BY <1>1
  <2> HIDE DEF T
  <2> QED
    BY <2>1, LeastNat
<1>3. m \in S
  <2> SUFFICES ASSUME m \notin S
               PROVE  FALSE
    OBVIOUS
  <2>1. \A y \in S : y \in Nat /\ 1 <= y /\ y < m
    OBVIOUS
  <2>2. m - 1 \in T
    <3>1. PICK y \in S : TRUE
      OBVIOUS
    <3>2. m - 1 \in Nat
      BY <2>1, <3>1
    <3> QED
      BY <2>1, <3>2
  <2> QED
    BY <1>2, <2>2
<1>4. \E x \in S : \A y \in S : x >= y
  BY <1>3
<1> QED
  BY <1>4, Zenon DEF Max

LEMMA LastIsMax ==
    ASSUME NEW n \in Nat, NEW S \in SUBSET (1 .. n + 1), n + 1 \in S
    PROVE  Max(S) = n + 1
<1>1. \A y \in S : n + 1 >= y
  OBVIOUS
<1>2. Max(S) \in S /\ \A y \in S : Max(S) >= y
  BY <1>1, Zenon DEF Max
<1>3. Max(S) >= n + 1 /\ Max(S) \in 1 .. n + 1
  BY <1>2
<1> QED
  BY <1>3

\* Reading one record more is one more step of the fold.
LEMMA ReadingGrows ==
    ASSUME NEW X, NEW u \in Seq(X), NEW r \in X
    PROVE  /\ (\E s : Reads(s, u)) => \E s : Reads(s, Append(u, r))
           /\ \A s : Reads(s, Append(u, r)) =>
                \E s0 : Reads(s0, u) /\ s = ReadRecord(s0, r)
<1> DEFINE t == Append(u, r)
           n == Len(u)
           Step(f, v, S) == IF S = {} THEN Unread
                            ELSE ReadRecord(f[S \ {Max(S)}],
                                                      v[Max(S)])
<1>1. /\ n \in Nat
      /\ DOMAIN u = 1 .. n
      /\ DOMAIN t = 1 .. n + 1
      /\ t[n + 1] = r
      /\ \A i \in 1 .. n : t[i] = u[i]
  OBVIOUS
<1> HIDE DEF t, n
<1>2. \A f, v : IsFold(f, v) <=> f = [S \in SUBSET DOMAIN v |-> Step(f, v, S)]
  BY Zenon DEF IsFold
<1>3. ASSUME NEW f, NEW g, NEW S \in SUBSET (1 .. n),
             \A P \in SUBSET (1 .. n) : f[P] = g[P]
      PROVE  Step(f, t, S) = Step(g, u, S)
  <2>1. CASE S = {}
    BY <2>1
  <2>2. CASE S # {}
    <3>1. Max(S) \in 1 .. n
      BY <1>1, <2>2, MaxExists
    <3>2. t[Max(S)] = u[Max(S)]
      BY <1>1, <3>1
    <3>3. f[S \ {Max(S)}] = g[S \ {Max(S)}]
      BY <1>3
    <3> QED
      BY <3>2, <3>3
  <2> QED
    BY <2>1, <2>2
<1>4. /\ 1 .. n + 1 \in SUBSET (1 .. n + 1)
      /\ \A S \in SUBSET (1 .. n + 1) : n + 1 \notin S <=> S \in SUBSET (1 .. n)
      /\ SUBSET (1 .. n) \subseteq SUBSET (1 .. n + 1)
      /\ (1 .. n + 1) \ {n + 1} = 1 .. n
      /\ n + 1 \in 1 .. n + 1
  BY <1>1
<1>5. ASSUME NEW f, NEW S \in SUBSET (1 .. n + 1), n + 1 \in S
      PROVE  Step(f, t, S) = ReadRecord(f[S \ {n + 1}], r)
  <2>1. Max(S) = n + 1 /\ S # {}
    BY <1>1, <1>5, LastIsMax
  <2> QED
    BY <1>1, <2>1
<1> HIDE DEF Step
<1>6. ASSUME NEW g, IsFold(g, u)
      PROVE  \E f : IsFold(f, t)
  <2> DEFINE f == [S \in SUBSET (1 .. n + 1) |->
                     IF n + 1 \in S THEN ReadRecord(g[S \ {n + 1}], r) ELSE g[S]]
  <2>1. g = [S \in SUBSET (1 .. n) |-> Step(g, u, S)]
    BY <1>1, <1>2, <1>6
  <2>2. \A P \in SUBSET (1 .. n) : f[P] = g[P]
    BY <1>4
  <2>3. ASSUME NEW S \in SUBSET (1 .. n + 1)
        PROVE  f[S] = Step(f, t, S)
    <3>1. CASE n + 1 \in S
      <4>1. f[S] = ReadRecord(g[S \ {n + 1}], r)
        BY <3>1
      <4>2. f[S \ {n + 1}] = g[S \ {n + 1}]
        <5>1. S \ {n + 1} \in SUBSET (1 .. n)
          BY <1>4
        <5> QED
          BY <2>2, <5>1
      <4> HIDE DEF f
      <4> QED
        BY <1>5, <3>1, <4>1, <4>2
    <3>2. CASE n + 1 \notin S
      <4>1. S \in SUBSET (1 .. n)
        BY <1>4, <3>2
      <4>2. f[S] = g[S] /\ g[S] = Step(g, u, S)
        BY <2>1, <2>2, <4>1
      <4> HIDE DEF f
      <4>3. Step(f, t, S) = Step(g, u, S)
        BY <1>3, <2>2, <4>1
      <4> QED
        BY <4>2, <4>3
    <3> QED
      BY <3>1, <3>2
  <2>4. f = [S \in SUBSET (1 .. n + 1) |-> f[S]]
    OBVIOUS
  <2> HIDE DEF f
  <2>5. f = [S \in SUBSET (1 .. n + 1) |-> Step(f, t, S)]
    BY <2>3, <2>4
  <2>6. IsFold(f, t)
    BY <1>1, <1>2, <2>5
  <2> QED
    BY <2>6
<1>7. ASSUME NEW f, IsFold(f, t)
      PROVE  \E g : IsFold(g, u) /\ f[1 .. n + 1] = ReadRecord(g[1 .. n], r)
  <2> DEFINE g == [S \in SUBSET (1 .. n) |-> f[S]]
  <2>1. \A S \in SUBSET (1 .. n + 1) : f[S] = Step(f, t, S)
    BY <1>1, <1>2, <1>7
  <2>2. \A P \in SUBSET (1 .. n) : f[P] = g[P]
    OBVIOUS
  <2>3. g[1 .. n] = f[1 .. n]
    OBVIOUS
  <2>4. g = [S \in SUBSET (1 .. n) |-> g[S]]
    OBVIOUS
  <2> HIDE DEF g
  <2>5. ASSUME NEW S \in SUBSET (1 .. n)
        PROVE  g[S] = Step(g, u, S)
    <3>1. Step(f, t, S) = Step(g, u, S)
      BY <1>3, <2>2
    <3>2. f[S] = Step(f, t, S)
      BY <1>4, <2>1
    <3> QED
      BY <2>2, <3>1, <3>2
  <2>6. IsFold(g, u)
    <3>1. g = [S \in SUBSET (1 .. n) |-> Step(g, u, S)]
      BY <2>4, <2>5
    <3> QED
      BY <1>1, <1>2, <3>1
  <2>7. f[1 .. n + 1] = ReadRecord(f[1 .. n], r)
    <3>1. f[1 .. n + 1] = Step(f, t, 1 .. n + 1)
      BY <1>4, <2>1
    <3>2. Step(f, t, 1 .. n + 1) = ReadRecord(f[(1 .. n + 1) \ {n + 1}], r)
      BY <1>4, <1>5
    <3> QED
      BY <1>4, <3>1, <3>2
  <2> QED
    BY <2>3, <2>6, <2>7
<1>8. (\E s : Reads(s, u)) => \E s : Reads(s, t)
  BY <1>6 DEF Reads
<1>9. \A s : Reads(s, t) => \E s0 : Reads(s0, u) /\ s = ReadRecord(s0, r)
  BY <1>1, <1>7 DEF Reads
<1> QED
  BY <1>8, <1>9 DEF t

\* There is one way to read a trace.
LEMMA ReadOnce ==
    ASSUME NEW X, NEW t \in Seq(X)
    PROVE  \E s : \A q : Reads(q, t) <=> q = s
<1> DEFINE OneReading(u) == \E s : \A q : Reads(q, u) <=> q = s
           T == {n \in Nat : \A u \in Seq(X) : Len(u) = n => OneReading(u)}
<1>1. \A u \in Seq(X) : Len(u) = 0 => u = <<>>
  OBVIOUS
<1>2. OneReading(<<>>)
  BY EmptyReads
<1>4. ASSUME NEW u \in Seq(X), NEW r \in X, OneReading(u)
      PROVE  OneReading(Append(u, r))
  <2>1. PICK s : \A q : Reads(q, u) <=> q = s
    BY <1>4
  <2>2. \A q : Reads(q, Append(u, r)) => q = ReadRecord(s, r)
    BY <2>1, ReadingGrows
  <2>3. \E q : Reads(q, Append(u, r))
    BY <2>1, ReadingGrows
  <2> QED
    BY <2>2, <2>3
<1> HIDE DEF OneReading
<1>3. 0 \in T
  BY <1>1, <1>2
<1>5. ASSUME NEW n \in T
      PROVE  n + 1 \in T
  <2> SUFFICES ASSUME NEW u \in Seq(X), Len(u) = n + 1
               PROVE  OneReading(u)
    OBVIOUS
  <2>1. PICK v \in Seq(X), r \in X : u = Append(v, r)
    <3>1. u # <<>>
      OBVIOUS
    <3> QED
      BY <3>1, SequenceEmptyOrAppend
  <2>2. Len(v) = n
    BY <2>1
  <2> QED
    BY <1>4, <2>1, <2>2
<1>6. T = Nat
  <2>1. T \in SUBSET Nat
    OBVIOUS
  <2> HIDE DEF T
  <2> QED
    BY <1>3, <1>5, <2>1, InductionOverNat
<1>7. OneReading(t)
  BY <1>6
<1> QED
  BY <1>7 DEF OneReading

\* The local variables of validate_trace after the trace t.
Read(t) == FoldLeft(ReadRecord, Unread, t)

LEMMA ReadEmpty == Read(<<>>) = Unread
<1>1. \E s : Reads(s, <<>>)
  BY EmptyReads
<1>2. Reads(Read(<<>>), <<>>)
  BY <1>1, FoldReads DEF Read
<1> QED
  BY <1>2, EmptyReads

LEMMA ReadAppend ==
    ASSUME NEW X, NEW u \in Seq(X), NEW r \in X
    PROVE  Read(Append(u, r)) = ReadRecord(Read(u), r)
<1>1. Append(u, r) \in Seq(X)
  OBVIOUS
<1>2. (\E s : Reads(s, u)) /\ \E s : Reads(s, Append(u, r))
  BY <1>1, ReadOnce
<1>3. Reads(Read(u), u) /\ Reads(Read(Append(u, r)), Append(u, r))
  BY <1>2, FoldReads DEF Read
<1>4. PICK s : Reads(s, u) /\ Read(Append(u, r)) = ReadRecord(s, r)
  BY <1>3, ReadingGrows
<1>5. s = Read(u)
  BY <1>3, <1>4, ReadOnce
<1> QED
  BY <1>4, <1>5
-----------------------------------------------------------------------------
(* What the validator remembers, and what it has to do with the stores. *)

Asked == requests[operation_id]

Decision == decisions[operation_id]

Current == heads[Identity]

Completion == completions[Identity]

TheRun == runs["run"]

\* The local variables of validate_trace while there is no violation.
State(b, a, d, c, e, k) ==
    [sound |-> TRUE, event_ids |-> {}, binding |-> b, approved |-> a, denied |-> d,
     checkpoint |-> c, evidence |-> e, completions |-> k]

BindingAgrees(b) == b # None => Asked # None /\ b = <<"tool", Asked>>

DecisionAgrees(a, d) ==
    /\ Decision # "denied" => d = None
    /\ Decision = "approved" => a \in 1 .. Len(trace)

CheckpointAgrees(c) ==
    /\ TheRun = None => c = None
    /\ TheRun # None =>
        /\ c \in CheckpointRecords
        /\ \E k \in checkpoints :
            /\ k.checkpoint_id = TheRun.head
            /\ c.checkpoint_id = k.checkpoint_id
            /\ c.checkpoint_sequence = k.sequence
            /\ c.plan_sha256 = k.plan
            /\ c.completed_count = k.completed_count

ReadbackRecords ==
    [kind : {"provider_evidence"}, record_id : Nat, sequence : Nat,
     provider : {"provider"}, operation_id : {operation_id},
     effect_sha256 : {Digest(x) : x \in Effect},
     evidence_id : EvidenceId, revision : Nat, readback : {"present", "absent"}]

\* The last evidence record is the one the head was made of.
LastAgrees(last) ==
    /\ last.evidence_id = Current.evidence_id
    /\ last.revision = Current.revision
    /\ last.effect_sha256 = Digest(Asked)
    /\ last.readback = "present" <=> Current.decision.action = "accept_remote_commit"

EvidenceAgrees(e) ==
    /\ e \in Seq(ReadbackRecords)
    /\ Current = None => e = <<>>
    /\ Current # None => e # <<>> /\ LastAgrees(e[Len(e)])
    /\ \A i \in DOMAIN e : e[i].evidence_id \in UsedIds /\ e[i].revision <= Current.revision

CompletionAgrees(k) == Completion = None => k = 0

Agree(b, a, d, c, e, k) ==
    /\ BindingAgrees(b)
    /\ DecisionAgrees(a, d)
    /\ CheckpointAgrees(c)
    /\ EvidenceAgrees(e)
    /\ CompletionAgrees(k)

Remembers(s) == \E b, a, d, c, e, k : s = State(b, a, d, c, e, k) /\ Agree(b, a, d, c, e, k)

ApprovalOK ==
    /\ requests \in [{operation_id} -> Effect \cup {None}]
    /\ decisions \in [{operation_id} -> {"approved", "denied", None}]

EvidenceOK ==
    /\ heads \in [{Identity} -> Evidence!EvidenceRecord \cup {None}]
    /\ completions \in [{Identity} -> Evidence!CompletionRecord \cup {None}]
    /\ Current # None => Asked # None /\ Current.operation = Operation(Asked)

CheckpointOK ==
    /\ runs \in [{"run"} -> Recovery!Run \cup {None}]
    /\ checkpoints \in SUBSET Recovery!RecoveryCheckpoint
    /\ TheRun = None => checkpoints = {}
    /\ \A c, d \in checkpoints : c.checkpoint_id = d.checkpoint_id => c = d

StoresOK == ApprovalOK /\ EvidenceOK /\ CheckpointOK

TraceOK ==
    /\ \E X : trace \in Seq(X)
    /\ \A i \in DOMAIN trace : trace[i].sequence = i /\ trace[i].record_id = i

ReadingOK == \E s : s = Read(trace) /\ Remembers(s)

CrossInv == StoresOK /\ TraceOK /\ ReadingOK
-----------------------------------------------------------------------------
(* One more record. *)

LEMMA RecordRead ==
    ASSUME TraceOK, ReadingOK, NEW r, trace' = Append(trace, r),
           r.sequence = Number, r.record_id = Number,
           \A s : Remembers(s) => /\ RecordSound(s, r)
                                  /\ Remembers(Remembered(s, r))'
    PROVE  TraceOK' /\ ReadingOK'
<1>1. PICK X : trace \in Seq(X)
  BY DEF TraceOK
<1>2. trace \in Seq(X \cup {r}) /\ r \in X \cup {r}
  BY <1>1
<1>3. /\ Len(trace) \in Nat
      /\ trace' \in Seq(X \cup {r})
      /\ DOMAIN trace = 1 .. Len(trace)
      /\ DOMAIN trace' = 1 .. Len(trace) + 1
      /\ trace'[Len(trace) + 1] = r
      /\ \A i \in 1 .. Len(trace) : trace'[i] = trace[i]
  BY <1>2
<1>4. TraceOK'
  <2>1. \A i \in DOMAIN trace' : trace'[i].sequence = i /\ trace'[i].record_id = i
    BY <1>3 DEF TraceOK, Number
  <2> QED
    BY <1>3, <2>1 DEF TraceOK
<1>5. Read(trace') = ReadRecord(Read(trace), r)
  BY <1>2, ReadAppend
<1>6. PICK s : s = Read(trace) /\ Remembers(s)
  BY DEF ReadingOK
<1>7. s.sound
  BY <1>6 DEF Remembers, State
<1>8. Read(trace') = Remembered(s, r)
  BY <1>5, <1>6, <1>7 DEF ReadRecord
<1>9. Remembers(Remembered(s, r))'
  BY <1>6
<1> QED
  BY <1>4, <1>8, <1>9 DEF ReadingOK, Read

LEMMA RememberedIs ==
    ASSUME NEW r, NEW b, NEW a, NEW d, NEW c, NEW e, NEW k, NEW s, s = State(b, a, d, c, e, k)
    PROVE  /\ r.kind = "checkpoint" =>
                Remembered(s, r) = State(b, a, d, r, e, k)
           /\ r.kind = "effect" =>
                Remembered(s, r) = State(Bound(s, r), a, d, c, e, k)
           /\ r.kind = "approval" =>
                Remembered(s, r)
                  = State(Bound(s, r),
                          IF r.decision = "approved" THEN r.sequence ELSE a,
                          IF r.decision = "denied" THEN r.sequence ELSE d, c, e, k)
           /\ r.kind = "provider_evidence" =>
                Remembered(s, r) = State(b, a, d, c, Append(e, r), k)
           /\ r.kind = "reconciliation_completion" =>
                Remembered(s, r) = State(b, a, d, c, e, k + 1)
<1>1. CASE r.kind = "checkpoint"
  BY <1>1 DEF Remembered, State
<1>2. CASE r.kind = "effect"
  BY <1>2 DEF Remembered, State
<1>3. CASE r.kind = "approval"
  BY <1>3 DEF Remembered, State
<1>4. CASE r.kind = "provider_evidence"
  BY <1>4 DEF Remembered, State
<1>5. CASE r.kind = "reconciliation_completion"
  BY <1>5 DEF Remembered, State
<1> QED
  BY <1>1, <1>2, <1>3, <1>4, <1>5, Zenon

LEMMA TraceGrows ==
    ASSUME TraceOK, NEW r, trace' = Append(trace, r)
    PROVE  /\ Len(trace) \in Nat
           /\ Len(trace') = Len(trace) + 1
           /\ Number \in Nat
           /\ UsedIds \subseteq UsedIds'
           /\ r.kind = "provider_evidence" => r.evidence_id \in UsedIds'
<1>1. PICK X : trace \in Seq(X)
  BY DEF TraceOK
<1>2. trace \in Seq(X \cup {r}) /\ r \in X \cup {r}
  BY <1>1
<1>3. /\ Len(trace) \in Nat
      /\ Len(trace') = Len(trace) + 1
      /\ DOMAIN trace = 1 .. Len(trace)
      /\ DOMAIN trace' = 1 .. Len(trace) + 1
      /\ trace'[Len(trace) + 1] = r
      /\ \A i \in 1 .. Len(trace) : trace'[i] = trace[i]
  BY <1>2
<1>4. UsedIds \subseteq UsedIds'
  BY <1>3 DEF UsedIds
<1>5. r.kind = "provider_evidence" => r.evidence_id \in UsedIds'
  <2>1. Len(trace) + 1 \in DOMAIN trace'
    BY <1>3
  <2> QED
    BY <1>3, <2>1 DEF UsedIds
<1> QED
  BY <1>3, <1>4, <1>5 DEF Number

(* What a store does not touch stays in agreement. *)

LEMMA BindingKept ==
    ASSUME UNCHANGED requests, NEW b, BindingAgrees(b)
    PROVE  BindingAgrees(b)'
  BY DEF BindingAgrees, Asked

LEMMA DecisionKept ==
    ASSUME UNCHANGED decisions, Len(trace) \in Nat, Len(trace') \in Nat, Len(trace) <= Len(trace'),
           NEW a, NEW d, DecisionAgrees(a, d)
    PROVE  DecisionAgrees(a, d)'
  BY DEF DecisionAgrees, Decision

LEMMA CheckpointKept ==
    ASSUME UNCHANGED <<runs, checkpoints>>, NEW c, CheckpointAgrees(c)
    PROVE  CheckpointAgrees(c)'
  BY DEF CheckpointAgrees, TheRun

LEMMA EvidenceKept ==
    ASSUME UNCHANGED <<requests, heads>>, UsedIds \subseteq UsedIds', NEW e, EvidenceAgrees(e)
    PROVE  EvidenceAgrees(e)'
<1>1. Current' = Current /\ Asked' = Asked
  BY DEF Current, Asked
<1>2. \A last : LastAgrees(last)' <=> LastAgrees(last)
  BY <1>1 DEF LastAgrees
<1> QED
  BY <1>1, <1>2 DEF EvidenceAgrees

LEMMA CompletionKept ==
    ASSUME UNCHANGED completions, NEW k, CompletionAgrees(k)
    PROVE  CompletionAgrees(k)'
  BY DEF CompletionAgrees, Completion
-----------------------------------------------------------------------------
(* Approvals and effects. *)

LEMMA BindingIsSound ==
    ASSUME NEW x \in Effect, Asked = x, NEW r, NEW s, NEW b, s.binding = b, BindingAgrees(b),
           {"tool", "payload_sha256", "effect_sha256"} \subseteq DOMAIN r,
           r.tool = "tool", r.payload_sha256 = x, r.effect_sha256 = Digest(x)
    PROVE  /\ BindingSound(s, r)
           /\ Bound(s, r) = <<"tool", x>>
<1>1. /\ Get(r, "tool") = "tool"
      /\ Get(r, "payload_sha256") = x
      /\ Get(r, "effect_sha256") = Digest(x)
  BY DEF Get
<1>2. Bound(s, r) = <<"tool", x>>
  BY <1>1 DEF Bound, BindingAgrees
<1>3. "tool" # None
  BY NoneAssumption
<1> QED
  BY <1>1, <1>2, <1>3, PayloadAssumption DEF BindingSound, Digest

LEMMA DecideEffect ==
    ASSUME StoresOK, NEW x \in Effect, NEW decision \in {"approved", "denied"},
           Decide(x, decision)
    PROVE  /\ Asked = x
           /\ Decision = None
           /\ Decision' = decision
           /\ StoresOK'
           /\ UNCHANGED <<requests, heads, completions, runs, checkpoints>>
<1>1. /\ Asked = x
      /\ decisions[operation_id] \in {None, decision}
      /\ decisions' = [decisions EXCEPT ![operation_id] = decision]
      /\ decisions' # decisions
      /\ UNCHANGED <<requests, heads, completions, runs, checkpoints>>
  BY DEF Decide, Approval!Decided, Asked
<1>2. decisions \in [{operation_id} -> {"approved", "denied", None}]
  BY DEF StoresOK, ApprovalOK
<1>3. decisions[operation_id] # decision
  BY <1>1, <1>2
<1>4. Decision = None /\ Decision' = decision
  BY <1>1, <1>2, <1>3 DEF Decision
<1>5. ApprovalOK'
  BY <1>1, <1>2 DEF StoresOK, ApprovalOK
<1>6. EvidenceOK' /\ CheckpointOK'
  BY <1>1 DEF StoresOK, EvidenceOK, CheckpointOK, Current, Asked, TheRun
<1> QED
  BY <1>1, <1>4, <1>5, <1>6 DEF StoresOK

LEMMA DecideIsRead ==
    ASSUME CrossInv, NEW x \in Effect, NEW decision \in {"approved", "denied"},
           Decide(x, decision)
    PROVE  CrossInv'
<1>1. StoresOK /\ TraceOK /\ ReadingOK
  BY DEF CrossInv
<1>2. /\ Asked = x
      /\ Decision = None
      /\ Decision' = decision
      /\ StoresOK'
      /\ UNCHANGED <<requests, heads, completions, runs, checkpoints>>
  BY <1>1, DecideEffect
<1> SUFFICES ASSUME NEW r, r = ApprovalRecord(x, decision)
             PROVE  CrossInv'
  OBVIOUS
<1>3. trace' = Append(trace, r)
  BY DEF Decide, Recorded
<1>4. /\ DOMAIN r = {"kind", "record_id", "sequence", "provider", "operation_id",
                     "effect_sha256", "tool", "payload_sha256", "decision"}
      /\ r.kind = "approval"
      /\ r.record_id = Number
      /\ r.sequence = Number
      /\ r.provider = "provider"
      /\ r.operation_id = operation_id
      /\ r.effect_sha256 = Digest(x)
      /\ r.tool = "tool"
      /\ r.payload_sha256 = x
      /\ r.decision = decision
  BY DEF ApprovalRecord
<1>5. /\ Len(trace) \in Nat
      /\ Len(trace') = Len(trace) + 1
      /\ Number \in Nat \ {0}
      /\ UsedIds \subseteq UsedIds'
  BY <1>1, <1>3, TraceGrows DEF Number
<1>6. ASSUME NEW s, Remembers(s)
      PROVE  /\ RecordSound(s, r)
             /\ Remembers(Remembered(s, r))'
  <2>1. PICK b, a, d, c, e, k : s = State(b, a, d, c, e, k) /\ Agree(b, a, d, c, e, k)
    BY <1>6 DEF Remembers
  <2>2. BindingSound(s, r) /\ Bound(s, r) = <<"tool", x>>
    <3>1. s.binding = b /\ BindingAgrees(b)
      BY <2>1 DEF State, Agree
    <3> QED
      BY <1>2, <1>4, <3>1, BindingIsSound
  <2>3. RecordSound(s, r)
    BY <1>4, <1>5, <2>2, NoneAssumption
       DEF RecordSound, ApprovalSound, Get, HasScope,
           scope, _RECORD_KINDS, operation_id
  <2>4. PICK b1, a1, d1 : /\ Remembered(s, r) = State(b1, a1, d1, c, e, k)
                          /\ b1 = <<"tool", x>>
                          /\ a1 = IF decision = "approved" THEN Number ELSE a
                          /\ d1 = IF decision = "denied" THEN Number ELSE d
    BY <1>4, <2>1, <2>2, RememberedIs
  <2>5. BindingAgrees(b1)'
    BY <1>2, <2>4, NoneAssumption DEF BindingAgrees, Asked
  <2>6. DecisionAgrees(a1, d1)'
    BY <1>2, <1>5, <2>1, <2>4, NoneAssumption DEF Agree, DecisionAgrees, Number
  <2>7. CheckpointAgrees(c)' /\ EvidenceAgrees(e)' /\ CompletionAgrees(k)'
    BY <1>2, <1>5, <2>1, CheckpointKept, EvidenceKept, CompletionKept DEF Agree
  <2>8. Agree(b1, a1, d1, c, e, k)'
    BY <2>5, <2>6, <2>7 DEF Agree
  <2> QED
    BY <2>3, <2>4, <2>8 DEF Remembers
<1>7. TraceOK' /\ ReadingOK'
  BY <1>1, <1>3, <1>4, <1>6, RecordRead
<1> QED
  BY <1>2, <1>7 DEF CrossInv

LEMMA ExecuteIsRead ==
    ASSUME CrossInv, NEW x \in Effect, Execute(x)
    PROVE  CrossInv'
<1>1. StoresOK /\ TraceOK /\ ReadingOK
  BY DEF CrossInv
<1>2. /\ Asked = x
      /\ Decision = "approved"
      /\ UNCHANGED <<requests, decisions, heads, completions, runs, checkpoints>>
  BY DEF Execute, Approval!Execute, Asked, Decision
<1>3. StoresOK'
  BY <1>1, <1>2 DEF StoresOK, ApprovalOK, EvidenceOK, CheckpointOK, Current, Asked, TheRun
<1> SUFFICES ASSUME NEW r, r = EffectRecord(x)
             PROVE  CrossInv'
  OBVIOUS
<1>4. trace' = Append(trace, r)
  BY DEF Execute, Recorded
<1>5. /\ DOMAIN r = {"kind", "record_id", "sequence", "provider", "operation_id",
                     "effect_sha256", "tool", "payload_sha256", "idempotency_key"}
      /\ r.kind = "effect"
      /\ r.record_id = Number
      /\ r.sequence = Number
      /\ r.provider = "provider"
      /\ r.operation_id = operation_id
      /\ r.effect_sha256 = Digest(x)
      /\ r.tool = "tool"
      /\ r.payload_sha256 = x
  BY DEF EffectRecord
<1>6. /\ Len(trace) \in Nat
      /\ Len(trace') = Len(trace) + 1
      /\ Number \in Nat \ {0}
      /\ Number = Len(trace) + 1
      /\ UsedIds \subseteq UsedIds'
  BY <1>1, <1>4, TraceGrows DEF Number
<1>7. ASSUME NEW s, Remembers(s)
      PROVE  /\ RecordSound(s, r)
             /\ Remembers(Remembered(s, r))'
  <2>1. PICK b, a, d, c, e, k : s = State(b, a, d, c, e, k) /\ Agree(b, a, d, c, e, k)
    BY <1>7 DEF Remembers
  <2>2. s.binding = b /\ s.approved = a /\ s.denied = d
    BY <2>1 DEF State
  <2>3. BindingSound(s, r) /\ Bound(s, r) = <<"tool", x>>
    <3>1. BindingAgrees(b)
      BY <2>1 DEF Agree
    <3> QED
      BY <1>2, <1>5, <2>2, <3>1, BindingIsSound
  <2>4. a \in 1 .. Len(trace) /\ d = None
    BY <1>2, <2>1 DEF Agree, DecisionAgrees
  <2>5. EffectSound(s, r)
    <3>1. a # None /\ a < Number
      BY <1>6, <2>4, NoneAssumption
    <3> QED
      BY <1>5, <2>2, <2>3, <2>4, <3>1 DEF EffectSound
  <2>6. RecordSound(s, r)
    BY <1>5, <1>6, <2>5, NoneAssumption
       DEF RecordSound, Get, HasScope,
           scope, _RECORD_KINDS, operation_id
  <2>7. Remembered(s, r) = State(<<"tool", x>>, a, d, c, e, k)
    BY <1>5, <2>1, <2>3, RememberedIs
  <2>8. BindingAgrees(<<"tool", x>>)'
    BY <1>2, NoneAssumption DEF BindingAgrees, Asked
  <2>9. /\ DecisionAgrees(a, d)'
        /\ CheckpointAgrees(c)'
        /\ EvidenceAgrees(e)'
        /\ CompletionAgrees(k)'
    BY <1>2, <1>6, <2>1, DecisionKept, CheckpointKept, EvidenceKept, CompletionKept DEF Agree
  <2> QED
    BY <2>6, <2>7, <2>8, <2>9 DEF Remembers, Agree
<1>8. TraceOK' /\ ReadingOK'
  BY <1>1, <1>4, <1>5, <1>7, RecordRead
<1> QED
  BY <1>3, <1>8 DEF CrossInv

\* A request is not recorded.
LEMMA RequestIsUnread ==
    ASSUME CrossInv, NEW x \in Effect, Request(x)
    PROVE  CrossInv'
<1>1. StoresOK /\ TraceOK /\ ReadingOK
  BY DEF CrossInv
<1>2. /\ Asked \in {None, x}
      /\ Asked' = x
      /\ requests' \in [{operation_id} -> Effect \cup {None}]
      /\ x # None
      /\ UNCHANGED <<decisions, executed, heads, completions, runs, checkpoints, trace>>
  BY <1>1, NoneAssumption DEF Request, Approval!Requested, Asked, StoresOK, ApprovalOK
<1>3. StoresOK'
  <2>1. Current' = Current /\ TheRun' = TheRun
    BY <1>2 DEF Current, TheRun
  <2>2. EvidenceOK'
    BY <1>1, <1>2, <2>1 DEF StoresOK, EvidenceOK
  <2> QED
    BY <1>1, <1>2, <2>1, <2>2 DEF StoresOK, ApprovalOK, CheckpointOK
<1>4. ASSUME NEW s, Remembers(s)
      PROVE  Remembers(s)'
  <2>1. PICK b, a, d, c, e, k : s = State(b, a, d, c, e, k) /\ Agree(b, a, d, c, e, k)
    BY <1>4 DEF Remembers
  <2>2. BindingAgrees(b)'
    BY <1>2, <2>1 DEF Agree, BindingAgrees
  <2>3. EvidenceAgrees(e)'
    <3>1. Current' = Current /\ UsedIds' = UsedIds
      BY <1>2 DEF Current, UsedIds
    <3>2. CASE Current = None
      BY <2>1, <3>1, <3>2 DEF Agree, EvidenceAgrees
    <3>3. CASE Current # None
      <4>1. Asked' = Asked
        BY <1>1, <1>2, <3>3 DEF StoresOK, EvidenceOK
      <4>2. \A last : LastAgrees(last)' <=> LastAgrees(last)
        BY <3>1, <4>1 DEF LastAgrees
      <4> QED
        BY <2>1, <3>1, <4>2 DEF Agree, EvidenceAgrees
    <3> QED
      BY <3>2, <3>3
  <2>4. DecisionAgrees(a, d)' /\ CheckpointAgrees(c)' /\ CompletionAgrees(k)'
    BY <1>2, <2>1 DEF Agree, DecisionAgrees, Decision, CheckpointAgrees, TheRun,
                      CompletionAgrees, Completion
  <2> QED
    BY <2>1, <2>2, <2>3, <2>4 DEF Remembers, Agree
<1>5. TraceOK' /\ ReadingOK'
  BY <1>1, <1>2, <1>4 DEF TraceOK, ReadingOK
<1> QED
  BY <1>3, <1>5 DEF CrossInv
-----------------------------------------------------------------------------
(* Evidence and completions. *)

\* What a recorded readback does to the head.
NewHead(x, id, ev) ==
    /\ Asked = x
    /\ ev.revision \in Nat
    /\ ev.readback \in {"present", "absent"}
    /\ Current # None => ev.revision > Current.revision
    /\ Current' # None
    /\ Current'.operation = Operation(x)
    /\ Current'.evidence_id = id
    /\ Current'.revision = ev.revision
    /\ Current'.decision.action = "accept_remote_commit" <=> ev.readback = "present"
    /\ UNCHANGED <<requests, decisions, executed, completions, runs, checkpoints>>

LEMMA CandidateIs ==
    ASSUME NEW x \in Effect, NEW id \in EvidenceId, NEW ev \in Evidence!ProviderEvidence,
           ev.revision # None, Evidence!Reconcilable(Operation(x), ev),
           NEW new, new = Evidence!Candidate(Operation(x), id, ev)
    PROVE  /\ new \in Evidence!EvidenceRecord
           /\ new.operation = Operation(x)
           /\ new.evidence_id = id
           /\ new.revision = ev.revision
           /\ ev.revision \in Nat
           /\ ev.readback \in {"present", "absent"}
           /\ new.decision.action = "accept_remote_commit" <=> ev.readback = "present"
<1>1. Operation(x) \in Evidence!Operation
  BY DEF Operation, Evidence!Operation
<1>2. ev.revision \in Evidence!Revision /\ ev.revision \in Nat
  BY BoundAssumption DEF Evidence!ProviderEvidence, Evidence!Revision
<1>3. CASE Evidence!AcceptsRemoteCommit(Operation(x), ev)
  <2>1. ev.readback = "present"
    BY <1>3 DEF Evidence!AcceptsRemoteCommit
  <2>2. Evidence!ReconcileLostAck(Operation(x), ev) = Evidence!AcceptRemoteCommit
    BY <1>3 DEF Evidence!ReconcileLostAck
  <2>3. Evidence!AcceptRemoteCommit \in Evidence!ReconciliationDecision
    BY DEF Evidence!AcceptRemoteCommit, Evidence!ReconciliationDecision
  <2>4. Evidence!AcceptRemoteCommit.action = "accept_remote_commit"
    BY DEF Evidence!AcceptRemoteCommit
  <2> QED
    BY <1>1, <1>2, <2>1, <2>2, <2>3, <2>4 DEF Evidence!Candidate, Evidence!EvidenceRecord
<1>4. CASE ~ Evidence!AcceptsRemoteCommit(Operation(x), ev)
  <2>1. ev.readback = "absent"
    BY <1>4 DEF Evidence!Reconcilable, Evidence!AuthorizesRetry
  <2>2. Evidence!ReconcileLostAck(Operation(x), ev)
          = Evidence!RetryExactOperation(Operation(x), ev.revision)
    BY <1>4 DEF Evidence!ReconcileLostAck
  <2>3. Evidence!RetryExactOperation(Operation(x), ev.revision) \in Evidence!ReconciliationDecision
    BY <1>1, <1>2 DEF Evidence!RetryExactOperation, Evidence!ReconciliationDecision
  <2>4. Evidence!RetryExactOperation(Operation(x), ev.revision).action = "retry_exact_operation"
    BY DEF Evidence!RetryExactOperation
  <2> QED
    BY <1>1, <1>2, <2>1, <2>2, <2>3, <2>4 DEF Evidence!Candidate, Evidence!EvidenceRecord
<1> QED
  BY <1>3, <1>4

LEMMA ReadbackEffect ==
    ASSUME StoresOK, NEW x \in Effect, NEW id \in EvidenceId,
           NEW ev \in Evidence!ProviderEvidence, RecordReadback(x, id, ev)
    PROVE  NewHead(x, id, ev) /\ StoresOK'
<1> SUFFICES ASSUME NEW new, new = Evidence!Candidate(Operation(x), id, ev)
             PROVE  NewHead(x, id, ev) /\ StoresOK'
  OBVIOUS
<1>1. /\ Asked = x
      /\ Evidence!Record(Operation(x), id, ev)
      /\ heads' # heads
      /\ UNCHANGED <<requests, decisions, executed, completions, runs, checkpoints>>
  BY DEF RecordReadback, Asked, Evidence!Record
<1>2. Evidence!IdentityOf(Operation(x)) = Identity
  BY DEF Evidence!IdentityOf, Operation, Identity
<1>3. /\ ev.revision # None
      /\ Evidence!Reconcilable(Operation(x), ev)
      /\ Evidence!HeadAllows(new, Current)
      /\ heads' = [heads EXCEPT ![Identity] = Evidence!Persisted(new, Current)]
  BY <1>1, <1>2 DEF Evidence!Record, Evidence!Recordable, Evidence!RecordResult, Current
<1>4. /\ new \in Evidence!EvidenceRecord
      /\ new.operation = Operation(x)
      /\ new.evidence_id = id
      /\ new.revision = ev.revision
      /\ ev.revision \in Nat
      /\ ev.readback \in {"present", "absent"}
      /\ new.decision.action = "accept_remote_commit" <=> ev.readback = "present"
  BY <1>3, CandidateIs
<1>5. heads \in [{Identity} -> Evidence!EvidenceRecord \cup {None}]
  BY DEF StoresOK, EvidenceOK
<1>6. Current' = Evidence!Persisted(new, Current) /\ Evidence!Persisted(new, Current) # Current
  BY <1>1, <1>3, <1>5 DEF Current
<1>7. ~ (Current # None /\ Current.revision = new.revision) /\ Current' = new
  BY <1>6 DEF Evidence!Persisted
<1>8. Current # None => ev.revision > Current.revision
  BY <1>3, <1>4, <1>7 DEF Evidence!HeadAllows
<1>9. new # None
  BY <1>4, NoneAssumption
<1>10. NewHead(x, id, ev)
  BY <1>1, <1>4, <1>7, <1>8, <1>9 DEF NewHead
<1>11. heads' \in [{Identity} -> Evidence!EvidenceRecord \cup {None}]
  BY <1>3, <1>4, <1>5, <1>6, <1>7
<1>12. Asked' = x /\ x # None
  BY <1>1, NoneAssumption DEF Asked
<1>13. EvidenceOK'
  BY <1>1, <1>4, <1>7, <1>11, <1>12 DEF StoresOK, EvidenceOK
<1>14. ApprovalOK' /\ CheckpointOK'
  BY <1>1 DEF StoresOK, ApprovalOK, CheckpointOK, TheRun
<1> QED
  BY <1>10, <1>13, <1>14 DEF StoresOK

LEMMA ReadbackIsRead ==
    ASSUME CrossInv, NEW x \in Effect, NEW id \in EvidenceId,
           NEW ev \in Evidence!ProviderEvidence, RecordReadback(x, id, ev)
    PROVE  CrossInv'
<1>1. StoresOK /\ TraceOK /\ ReadingOK
  BY DEF CrossInv
<1>2. NewHead(x, id, ev) /\ StoresOK' /\ id \notin UsedIds
  BY <1>1, ReadbackEffect DEF RecordReadback
<1> SUFFICES ASSUME NEW r, r = ReadbackRecord(x, id, ev)
             PROVE  CrossInv'
  OBVIOUS
<1>3. trace' = Append(trace, r)
  BY DEF RecordReadback, Recorded
<1>4. /\ DOMAIN r = {"kind", "record_id", "sequence", "provider", "operation_id",
                     "effect_sha256", "evidence_id", "revision", "readback"}
      /\ r.kind = "provider_evidence"
      /\ r.record_id = Number
      /\ r.sequence = Number
      /\ r.provider = "provider"
      /\ r.operation_id = operation_id
      /\ r.effect_sha256 = Digest(x)
      /\ r.evidence_id = id
      /\ r.revision = ev.revision
      /\ r.readback = ev.readback
  BY DEF ReadbackRecord
<1>5. /\ Len(trace) \in Nat
      /\ Len(trace') = Len(trace) + 1
      /\ Number \in Nat \ {0}
      /\ UsedIds \subseteq UsedIds'
      /\ id \in UsedIds'
  BY <1>1, <1>3, <1>4, TraceGrows DEF Number
<1>6. r \in ReadbackRecords
  BY <1>2, <1>4, <1>5 DEF ReadbackRecords, ReadbackRecord, NewHead
<1>7. ASSUME NEW s, Remembers(s)
      PROVE  /\ RecordSound(s, r)
             /\ Remembers(Remembered(s, r))'
  <2>1. PICK b, a, d, c, e, k : s = State(b, a, d, c, e, k) /\ Agree(b, a, d, c, e, k)
    BY <1>7 DEF Remembers
  <2>2. s.binding = b /\ s.evidence = e
    BY <2>1 DEF State
  <2>3. /\ e \in Seq(ReadbackRecords)
        /\ Len(e) \in Nat
        /\ DOMAIN e = 1 .. Len(e)
        /\ \A i \in DOMAIN e : e[i] \in ReadbackRecords /\ e[i].evidence_id \in UsedIds
    BY <2>1 DEF Agree, EvidenceAgrees
  <2>4. Fingerprinted(s, r)
    BY <1>2, <1>4, <2>1, <2>2
       DEF Fingerprinted, Get, Agree, BindingAgrees, NewHead, Digest
  <2>5. \A i \in DOMAIN e : Get(e[i], "evidence_id") # id
    BY <1>2, <2>3 DEF Get, ReadbackRecords
  <2>6. id \notin {Get(q, "evidence_id") : q \in ToSet(e)} \cup {None}
    BY <2>5, NoneAssumption DEF ToSet
  <2>7. e # <<>> => r.revision > e[Len(e)].revision
    BY <1>2, <1>4, <2>1 DEF Agree, EvidenceAgrees, LastAgrees, NewHead
  <2>8. EvidenceSound(s, r)
    BY <1>2, <1>4, <2>2, <2>4, <2>6, <2>7
       DEF EvidenceSound, Get, Last, NewHead
  <2>9. RecordSound(s, r)
    BY <1>4, <1>5, <2>8, NoneAssumption
       DEF RecordSound, Get, HasScope,
           scope, _RECORD_KINDS, operation_id
  <2>10. Remembered(s, r) = State(b, a, d, c, Append(e, r), k)
    BY <1>4, <2>1, RememberedIs
  <2>11. EvidenceAgrees(Append(e, r))'
    <3>1. /\ Append(e, r) \in Seq(ReadbackRecords)
          /\ Len(Append(e, r)) = Len(e) + 1
          /\ DOMAIN Append(e, r) = 1 .. Len(e) + 1
          /\ Append(e, r)[Len(e) + 1] = r
          /\ \A i \in 1 .. Len(e) : Append(e, r)[i] = e[i]
          /\ Append(e, r) # <<>>
      BY <1>6, <2>3
    <3>2. Asked' = x
      BY <1>2 DEF NewHead, Asked
    <3>3. LastAgrees(r)'
      BY <1>2, <1>4, <3>2 DEF LastAgrees, NewHead
    <3>4. \A i \in DOMAIN Append(e, r) :
            Append(e, r)[i].evidence_id \in UsedIds' /\ Append(e, r)[i].revision <= Current'.revision
      <4>1. \A i \in 1 .. Len(e) : e[i].evidence_id \in UsedIds' /\ e[i].revision <= r.revision
        <5>1. \A i \in 1 .. Len(e) : e[i].revision \in Nat
          BY <2>3 DEF ReadbackRecords
        <5>2. r.revision \in Nat /\ (e # <<>> => Current # None /\ Current.revision \in Nat)
          <6>1. e # <<>> => Current # None /\ e[Len(e)].revision = Current.revision
            BY <2>1 DEF Agree, EvidenceAgrees, LastAgrees
          <6>2. e # <<>> => e[Len(e)].revision \in Nat
            BY <2>3, <5>1
          <6> QED
            BY <1>2, <1>4, <6>1, <6>2 DEF NewHead
        <5>3. \A i \in 1 .. Len(e) : e # <<>> /\ e[i].revision <= Current.revision
          BY <2>1, <2>3 DEF Agree, EvidenceAgrees
        <5>4. e # <<>> => r.revision > Current.revision
          BY <1>2, <1>4, <5>2 DEF NewHead
        <5> QED
          BY <1>5, <2>3, <5>1, <5>2, <5>3, <5>4
      <4>2. r.evidence_id \in UsedIds' /\ Current'.revision = r.revision /\ r.revision \in Nat
        BY <1>2, <1>4, <1>5 DEF NewHead
      <4> QED
        BY <2>3, <3>1, <4>1, <4>2
    <3>5. Current' # None
      BY <1>2 DEF NewHead
    <3> QED
      BY <3>1, <3>3, <3>4, <3>5 DEF EvidenceAgrees
  <2>12. /\ BindingAgrees(b)'
         /\ DecisionAgrees(a, d)'
         /\ CheckpointAgrees(c)'
         /\ CompletionAgrees(k)'
    BY <1>2, <1>5, <2>1, BindingKept, DecisionKept, CheckpointKept, CompletionKept
       DEF Agree, NewHead
  <2> QED
    BY <2>9, <2>10, <2>11, <2>12 DEF Remembers, Agree
<1>8. TraceOK' /\ ReadingOK'
  BY <1>1, <1>3, <1>4, <1>7, RecordRead
<1> QED
  BY <1>2, <1>8 DEF CrossInv

LEMMA GreatestIsMax ==
    ASSUME NEW S \in SUBSET Nat, NEW n \in S, \A m \in S : m <= n
    PROVE  Max(S) = n
<1>1. \A m \in S : n >= m
  OBVIOUS
<1>2. Max(S) \in S /\ \A m \in S : Max(S) >= m
  BY <1>1, Zenon DEF Max
<1>3. Max(S) >= n /\ n >= Max(S) /\ Max(S) \in Nat
  BY <1>1, <1>2
<1> QED
  BY <1>3

\* What mark_reconciled finds, and what it writes.
Reconciled(x, id) ==
    /\ Current # None
    /\ Current.evidence_id = id
    /\ Current.decision.action = "accept_remote_commit"
    /\ Asked = x
    /\ Completion = None
    /\ Completion' # None
    /\ Completion'.revision = Current.revision
    /\ UNCHANGED <<requests, decisions, executed, heads, runs, checkpoints>>

LEMMA CompleteEffect ==
    ASSUME StoresOK, NEW x \in Effect, NEW id \in EvidenceId, NEW decision,
           Complete(x, id, decision)
    PROVE  Reconciled(x, id) /\ StoresOK'
<1>1. /\ Evidence!MarkReconciled(Operation(x), id, decision)
      /\ completions' # completions
      /\ UNCHANGED <<requests, decisions, executed, heads, runs, checkpoints>>
  BY DEF Complete, Evidence!MarkReconciled
<1>2. Evidence!IdentityOf(Operation(x)) = Identity
  BY DEF Evidence!IdentityOf, Operation, Identity
<1>3. /\ Current # None
      /\ Current.operation = Operation(x)
      /\ Current.evidence_id = id
      /\ Current.decision.action = "accept_remote_commit"
      /\ completions' = [completions EXCEPT ![Identity]
                           = IF Completion # None THEN Completion
                             ELSE Evidence!Completion(Operation(x), id)]
  BY <1>1, <1>2 DEF Evidence!MarkReconciled, Evidence!Completable, Evidence!AssertCurrent,
                    Evidence!HasCurrent, Evidence!CompletionResult, Current, Completion
<1>4. completions \in [{Identity} -> Evidence!CompletionRecord \cup {None}]
  BY DEF StoresOK, EvidenceOK
<1>5. Completion = None
  <2>1. SUFFICES ASSUME Completion # None
                 PROVE  completions' = completions
    BY <1>1
  <2> QED
    BY <1>3, <1>4, <2>1 DEF Completion
<1>6. Completion' = Evidence!Completion(Operation(x), id)
  BY <1>3, <1>4, <1>5 DEF Completion
<1>7. Current.revision \in Evidence!Revision
  BY <1>3 DEF StoresOK, EvidenceOK, Current, Evidence!EvidenceRecord
<1>8. /\ Evidence!Completion(Operation(x), id) \in Evidence!CompletionRecord
      /\ Evidence!Completion(Operation(x), id).revision = Current.revision
  <2>1. Operation(x) \in Evidence!Operation
    BY DEF Operation, Evidence!Operation
  <2>2. heads[Evidence!IdentityOf(Operation(x))] = Current
    BY <1>2 DEF Current
  <2> QED
    BY <1>7, <2>1, <2>2 DEF Evidence!Completion, Evidence!CompletionRecord
<1>9. Asked = x
  <2>1. Operation(Asked) = Operation(x)
    BY <1>3 DEF StoresOK, EvidenceOK
  <2>2. Operation(Asked).effect = Asked /\ Operation(x).effect = x
    BY DEF Operation
  <2> QED
    BY <2>1, <2>2
<1>10. Reconciled(x, id)
  BY <1>1, <1>3, <1>5, <1>6, <1>8, <1>9, NoneAssumption DEF Reconciled
<1>11. completions' \in [{Identity} -> Evidence!CompletionRecord \cup {None}]
  BY <1>3, <1>4, <1>5, <1>8
<1>12. StoresOK'
  BY <1>1, <1>11 DEF StoresOK, ApprovalOK, EvidenceOK, CheckpointOK, Current, Asked, TheRun
<1> QED
  BY <1>10, <1>12

LEMMA CompleteIsRead ==
    ASSUME CrossInv, NEW x \in Effect, NEW id \in EvidenceId, NEW decision,
           Complete(x, id, decision)
    PROVE  CrossInv'
<1>1. StoresOK /\ TraceOK /\ ReadingOK
  BY DEF CrossInv
<1>2. Reconciled(x, id) /\ StoresOK'
  BY <1>1, CompleteEffect
<1> SUFFICES ASSUME NEW r, r = CompletedRecord(x, id, Current.revision)
             PROVE  CrossInv'
  OBVIOUS
<1>3. trace' = Append(trace, r)
  BY <1>2 DEF Complete, Recorded, Reconciled, Completion
<1>4. /\ DOMAIN r = {"kind", "record_id", "sequence", "provider", "operation_id",
                     "effect_sha256", "evidence_id", "revision"}
      /\ r.kind = "reconciliation_completion"
      /\ r.record_id = Number
      /\ r.sequence = Number
      /\ r.provider = "provider"
      /\ r.operation_id = operation_id
      /\ r.effect_sha256 = Digest(x)
      /\ r.evidence_id = id
      /\ r.revision = Current.revision
  BY DEF CompletedRecord
<1>5. /\ Len(trace) \in Nat
      /\ Len(trace') = Len(trace) + 1
      /\ Number \in Nat \ {0}
      /\ UsedIds \subseteq UsedIds'
  BY <1>1, <1>3, TraceGrows DEF Number
<1>6. ASSUME NEW s, Remembers(s)
      PROVE  /\ RecordSound(s, r)
             /\ Remembers(Remembered(s, r))'
  <2>1. PICK b, a, d, c, e, k : s = State(b, a, d, c, e, k) /\ Agree(b, a, d, c, e, k)
    BY <1>6 DEF Remembers
  <2>2. s.binding = b /\ s.evidence = e /\ s.completions = 0
    BY <1>2, <2>1 DEF State, Agree, CompletionAgrees, Reconciled
  <2>3. /\ e \in Seq(ReadbackRecords)
        /\ e # <<>>
        /\ Len(e) \in DOMAIN e
        /\ LastAgrees(e[Len(e)])
        /\ \A i \in DOMAIN e : e[i] \in ReadbackRecords /\ e[i].revision <= Current.revision
    BY <1>2, <2>1 DEF Agree, EvidenceAgrees, Reconciled
  <2>4. Fingerprinted(s, r)
    BY <1>2, <1>4, <2>1, <2>2
       DEF Fingerprinted, Get, Agree, BindingAgrees, Reconciled, Digest
  <2>5. PICK last \in ToSet(e) : last = e[Len(e)]
    BY <2>3 DEF ToSet
  <2>6. /\ last.evidence_id = id
        /\ last.readback = "present"
        /\ last.revision = Current.revision
        /\ last.effect_sha256 = Digest(x)
        /\ "effect_sha256" \in DOMAIN last
    BY <1>2, <2>3, <2>5 DEF LastAgrees, Reconciled, ReadbackRecords
  <2>7. Max({q.revision : q \in ToSet(e)}) = Current.revision
    <3> DEFINE S == {q.revision : q \in ToSet(e)}
    <3>1. \A i \in DOMAIN e : e[i].revision \in Nat /\ e[i].revision <= Current.revision
      BY <2>3 DEF ReadbackRecords
    <3>2. S = {e[i].revision : i \in DOMAIN e}
      BY DEF ToSet
    <3>3. S \in SUBSET Nat /\ \A m \in S : m <= Current.revision
      BY <3>1, <3>2
    <3>4. Current.revision \in S
      BY <2>5, <2>6
    <3> HIDE DEF S
    <3>5. Max(S) = Current.revision
      BY <3>3, <3>4, GreatestIsMax
    <3> QED
      BY <3>5 DEF S
  <2>8. CompletionSound(s, r)
    <3>1. /\ Get(r, "evidence_id") = id
          /\ Get(r, "revision") = Current.revision
          /\ Get(r, "effect_sha256") = Digest(x)
          /\ Get(last, "effect_sha256") = Digest(x)
      BY <1>4, <2>6 DEF Get
    <3> QED
      BY <2>2, <2>4, <2>5, <2>6, <2>7, <3>1 DEF CompletionSound
  <2>9. RecordSound(s, r)
    BY <1>4, <1>5, <2>8, NoneAssumption
       DEF RecordSound, Get, HasScope,
           scope, _RECORD_KINDS, operation_id
  <2>10. Remembered(s, r) = State(b, a, d, c, e, k + 1)
    BY <1>4, <2>1, RememberedIs
  <2>11. CompletionAgrees(k + 1)'
    BY <1>2 DEF CompletionAgrees, Reconciled
  <2>12. /\ BindingAgrees(b)'
         /\ DecisionAgrees(a, d)'
         /\ CheckpointAgrees(c)'
         /\ EvidenceAgrees(e)'
    BY <1>2, <1>5, <2>1, BindingKept, DecisionKept, CheckpointKept, EvidenceKept
       DEF Agree, Reconciled
  <2> QED
    BY <2>9, <2>10, <2>11, <2>12 DEF Remembers, Agree
<1>7. TraceOK' /\ ReadingOK'
  BY <1>1, <1>3, <1>4, <1>6, RecordRead
<1> QED
  BY <1>2, <1>7 DEF CrossInv
-----------------------------------------------------------------------------
(* Checkpoints. *)

LEMMA CheckpointTyped ==
    ASSUME NEW q \in Recovery!RecoveryCheckpoint
    PROVE  /\ q.run_id = "run"
           /\ q.checkpoint_id \in CheckpointId
           /\ q.sequence \in Nat
           /\ q.parent \in CheckpointId \cup {None}
           /\ q.plan \in Plan
           /\ q.completed_count \in Nat
<1>1. \A n \in Recovery!Count : n \in Nat
  BY BoundAssumption DEF Recovery!Count
<1>2. q.completed_count \in Recovery!Count /\ q.sequence \in 0 .. MaxSequence
  BY DEF Recovery!RecoveryCheckpoint
<1> QED
  BY <1>1, <1>2, BoundAssumption DEF Recovery!RecoveryCheckpoint

\* The checkpoint q becomes the head of the run.
NewCheckpoint(q) ==
    /\ q \in Recovery!RecoveryCheckpoint
    /\ q \in checkpoints'
    /\ checkpoints \subseteq checkpoints'
    /\ TheRun' # None
    /\ TheRun'.head = q.checkpoint_id
    /\ TheRun = None => q.parent = None /\ q.sequence = 0
    /\ TheRun # None => \E p \in checkpoints :
        /\ p.checkpoint_id = TheRun.head
        /\ q.parent = p.checkpoint_id
        /\ q.sequence = p.sequence + 1
        /\ q.plan = p.plan
        /\ q.completed_count > p.completed_count
    /\ trace' = Append(trace, CheckpointRecord(q))
    /\ UNCHANGED <<requests, decisions, executed, heads, completions>>

LEMMA OnlyNewIsRecorded ==
    ASSUME NEW q, checkpoints' = checkpoints \cup {q}, RecordedCheckpoint
    PROVE  trace' = Append(trace, CheckpointRecord(q))
<1>1. PICK c \in checkpoints' \ checkpoints : trace' = Append(trace, CheckpointRecord(c))
  BY DEF RecordedCheckpoint, Recorded
<1>2. c = q
  BY <1>1
<1> QED
  BY <1>1, <1>2

LEMMA StartEffect ==
    ASSUME StoresOK, NEW id \in CheckpointId, NEW plan \in Plan, Start(id, plan)
    PROVE  StoresOK' /\ \E q : NewCheckpoint(q)
<1> SUFFICES ASSUME NEW q, q = Recovery!Initial("run", id, plan)
             PROVE  StoresOK' /\ NewCheckpoint(q)
  OBVIOUS
<1>1. /\ TheRun = None
      /\ runs' = [runs EXCEPT !["run"] = [plan |-> plan, head |-> id]]
      /\ checkpoints' = checkpoints \cup {q}
      /\ RecordedCheckpoint
      /\ UNCHANGED <<requests, decisions, executed, heads, completions>>
  BY DEF Start, Recovery!Start, TheRun
<1>2. /\ runs \in [{"run"} -> Recovery!Run \cup {None}]
      /\ checkpoints = {}
  BY <1>1 DEF StoresOK, CheckpointOK
<1>3. /\ q.run_id = "run"
      /\ q.checkpoint_id = id
      /\ q.sequence = 0
      /\ q.parent = None
      /\ q.plan = plan
      /\ q.completed_count = 0
      /\ q \in Recovery!RecoveryCheckpoint
  <2>1. 0 \in 0 .. MaxSequence
    BY BoundAssumption
  <2>2. 0 \in Recovery!Count
    <3>1. OperationCount[plan] \in Nat
      BY BoundAssumption
    <3>2. 0 \in 0 .. OperationCount[plan] + 1
      BY <3>1
    <3> QED
      BY <3>2 DEF Recovery!Count
  <2> QED
    BY <2>1, <2>2 DEF Recovery!Initial, Recovery!RecoveryCheckpoint
<1>4. [plan |-> plan, head |-> id] \in Recovery!Run
  BY DEF Recovery!Run
<1>5. TheRun' = [plan |-> plan, head |-> id] /\ TheRun' # None
  BY <1>1, <1>2, <1>4, NoneAssumption DEF TheRun
<1>6. CheckpointOK'
  <2>1. runs' \in [{"run"} -> Recovery!Run \cup {None}]
    BY <1>1, <1>2, <1>4
  <2>2. checkpoints' = {q}
    BY <1>1, <1>2
  <2> QED
    BY <1>3, <1>5, <2>1, <2>2 DEF CheckpointOK
<1>7. ApprovalOK' /\ EvidenceOK'
  BY <1>1 DEF StoresOK, ApprovalOK, EvidenceOK, Current, Asked
<1>8. NewCheckpoint(q)
  BY <1>1, <1>3, <1>5, OnlyNewIsRecorded DEF NewCheckpoint
<1> QED
  BY <1>6, <1>7, <1>8 DEF StoresOK

LEMMA AdvanceEffect ==
    ASSUME StoresOK, NEW parent \in checkpoints, NEW id \in CheckpointId,
           NEW count \in Recovery!Count, Advance(parent, id, count)
    PROVE  StoresOK' /\ \E q : NewCheckpoint(q)
<1> SUFFICES ASSUME NEW q, q = Recovery!Candidate(parent, id, count)
             PROVE  StoresOK' /\ NewCheckpoint(q)
  OBVIOUS
<1>1. /\ runs \in [{"run"} -> Recovery!Run \cup {None}]
      /\ checkpoints \in SUBSET Recovery!RecoveryCheckpoint
      /\ parent \in Recovery!RecoveryCheckpoint
      /\ parent.run_id = "run"
      /\ parent.sequence \in Nat
  BY CheckpointTyped DEF StoresOK, CheckpointOK
<1>2. /\ parent.sequence < MaxSequence
      /\ TheRun # None
      /\ Recovery!Loaded("run", id) = {}
      /\ TheRun.head = parent.checkpoint_id
      /\ parent.plan = TheRun.plan
      /\ count > parent.completed_count
      /\ checkpoints' = checkpoints \cup {q}
      /\ runs' = [runs EXCEPT !["run"].head = id]
      /\ RecordedCheckpoint
      /\ UNCHANGED <<requests, decisions, executed, heads, completions>>
  BY <1>1 DEF Advance, Recovery!Advance, Recovery!Advances, TheRun
<1>3. TheRun \in Recovery!Run
  BY <1>1, <1>2 DEF TheRun
<1>4. /\ q.run_id = "run"
      /\ q.checkpoint_id = id
      /\ q.sequence = parent.sequence + 1
      /\ q.parent = parent.checkpoint_id
      /\ q.plan = TheRun.plan
      /\ q.completed_count = count
      /\ q \in Recovery!RecoveryCheckpoint
  <2>1. parent.sequence + 1 \in 0 .. MaxSequence
    BY <1>1, <1>2, BoundAssumption
  <2>2. TheRun.plan \in Plan /\ parent.checkpoint_id \in CheckpointId
    BY <1>1, <1>3 DEF Recovery!Run, Recovery!RecoveryCheckpoint
  <2> QED
    BY <1>1, <2>1, <2>2 DEF Recovery!Candidate, Recovery!RecoveryCheckpoint, TheRun
<1>5. /\ runs' \in [{"run"} -> Recovery!Run \cup {None}]
      /\ TheRun' \in Recovery!Run
      /\ TheRun'.head = id
  <2>1. [TheRun EXCEPT !.head = id] \in Recovery!Run /\ [TheRun EXCEPT !.head = id].head = id
    BY <1>3 DEF Recovery!Run
  <2>2. runs' = [runs EXCEPT !["run"] = [TheRun EXCEPT !.head = id]]
    BY <1>2, <1>1 DEF TheRun
  <2>3. TheRun' = [TheRun EXCEPT !.head = id]
    BY <1>1, <2>2 DEF TheRun
  <2> QED
    BY <1>1, <2>1, <2>2, <2>3
<1>6. CheckpointOK'
  <2>1. \A c \in checkpoints : c.checkpoint_id # id
    BY <1>1, <1>2, CheckpointTyped DEF Recovery!Loaded
  <2>2. \A c, d \in checkpoints' : c.checkpoint_id = d.checkpoint_id => c = d
    BY <1>2, <1>4, <2>1 DEF StoresOK, CheckpointOK
  <2>3. TheRun' # None
    BY <1>5, NoneAssumption
  <2>4. checkpoints' \in SUBSET Recovery!RecoveryCheckpoint
    BY <1>1, <1>2, <1>4
  <2> QED
    BY <1>5, <2>2, <2>3, <2>4 DEF CheckpointOK
<1>7. ApprovalOK' /\ EvidenceOK'
  BY <1>2 DEF StoresOK, ApprovalOK, EvidenceOK, Current, Asked
<1>8. NewCheckpoint(q)
  BY <1>2, <1>4, <1>5, NoneAssumption, OnlyNewIsRecorded DEF NewCheckpoint
<1> QED
  BY <1>6, <1>7, <1>8 DEF StoresOK

LEMMA CheckpointIsRead ==
    ASSUME CrossInv, StoresOK', NEW q, NewCheckpoint(q)
    PROVE  CrossInv'
<1>1. StoresOK /\ TraceOK /\ ReadingOK
  BY DEF CrossInv
<1> SUFFICES ASSUME NEW r, r = CheckpointRecord(q)
             PROVE  CrossInv'
  OBVIOUS
<1>2. trace' = Append(trace, r)
  BY DEF NewCheckpoint
<1>3. /\ DOMAIN r = {"kind", "record_id", "sequence", "run_id", "checkpoint_id",
                     "parent_checkpoint_id", "checkpoint_sequence", "plan_sha256",
                     "completed_count"}
      /\ r.kind = "checkpoint"
      /\ r.record_id = Number
      /\ r.sequence = Number
      /\ r.run_id = q.run_id
      /\ r.checkpoint_id = q.checkpoint_id
      /\ r.parent_checkpoint_id = q.parent
      /\ r.checkpoint_sequence = q.sequence
      /\ r.plan_sha256 = q.plan
      /\ r.completed_count = q.completed_count
  BY DEF CheckpointRecord
<1>4. /\ Len(trace) \in Nat
      /\ Len(trace') = Len(trace) + 1
      /\ Number \in Nat \ {0}
      /\ UsedIds \subseteq UsedIds'
  BY <1>1, <1>2, TraceGrows DEF Number
<1>5. /\ q.run_id = "run"
      /\ q.checkpoint_id \in CheckpointId
      /\ q.sequence \in Nat
      /\ q.parent \in CheckpointId \cup {None}
      /\ q.plan \in Plan
      /\ q.completed_count \in Nat
  BY CheckpointTyped DEF NewCheckpoint
<1>6. r \in CheckpointRecords
  BY <1>3, <1>4, <1>5 DEF CheckpointRecords, CheckpointRecord
<1>7. ASSUME NEW s, Remembers(s)
      PROVE  /\ RecordSound(s, r)
             /\ Remembers(Remembered(s, r))'
  <2>1. PICK b, a, d, c, e, k : s = State(b, a, d, c, e, k) /\ Agree(b, a, d, c, e, k)
    BY <1>7 DEF Remembers
  <2>2. s.checkpoint = c
    BY <2>1 DEF State
  <2>3. IF c = None
        THEN q.parent = None /\ q.sequence = 0
        ELSE /\ q.parent = c.checkpoint_id
             /\ q.sequence = c.checkpoint_sequence + 1
             /\ q.plan = c.plan_sha256
             /\ q.completed_count >= c.completed_count
    <3>1. CASE TheRun = None
      BY <2>1, <3>1 DEF Agree, CheckpointAgrees, NewCheckpoint
    <3>2. CASE TheRun # None
      <4>1. PICK p \in checkpoints :
                /\ p.checkpoint_id = TheRun.head
                /\ q.parent = p.checkpoint_id
                /\ q.sequence = p.sequence + 1
                /\ q.plan = p.plan
                /\ q.completed_count > p.completed_count
        BY <3>2 DEF NewCheckpoint
      <4>2. PICK h \in checkpoints :
                /\ h.checkpoint_id = TheRun.head
                /\ c.checkpoint_id = h.checkpoint_id
                /\ c.checkpoint_sequence = h.sequence
                /\ c.plan_sha256 = h.plan
                /\ c.completed_count = h.completed_count
        BY <2>1, <3>2 DEF Agree, CheckpointAgrees
      <4>3. h = p
        BY <1>1, <4>1, <4>2 DEF StoresOK, CheckpointOK
      <4>4. c # None
        BY <2>1, <3>2, NoneAssumption DEF Agree, CheckpointAgrees
      <4>5. p.completed_count \in Nat
        BY <1>1, CheckpointTyped DEF StoresOK, CheckpointOK
      <4>6. q.completed_count >= p.completed_count
        BY <1>5, <4>1, <4>5
      <4> QED
        BY <4>1, <4>2, <4>3, <4>4, <4>6
    <3> QED
      BY <3>1, <3>2
  <2>4. CheckpointSound(s, r)
    <3>1. /\ HasScope(r, {"run_id"})
          /\ Get(r, "checkpoint_id") = q.checkpoint_id
          /\ Get(r, "checkpoint_sequence") = q.sequence
          /\ Get(r, "completed_count") = q.completed_count
          /\ Get(r, "plan_sha256") = q.plan
          /\ Get(r, "parent_checkpoint_id") = q.parent
      BY <1>3, <1>5 DEF Get, HasScope, scope
    <3>2. q.checkpoint_id # None
      BY <1>5, NoneAssumption
    <3> QED
      BY <1>3, <1>5, <2>2, <2>3, <3>1, <3>2, PayloadAssumption DEF CheckpointSound
  <2>5. RecordSound(s, r)
    BY <1>3, <1>4, <2>4, NoneAssumption
       DEF RecordSound, Get, _RECORD_KINDS
  <2>6. Remembered(s, r) = State(b, a, d, r, e, k)
    BY <1>3, <2>1, RememberedIs
  <2>7. CheckpointAgrees(r)'
    BY <1>3, <1>6 DEF CheckpointAgrees, NewCheckpoint
  <2>8. /\ BindingAgrees(b)'
        /\ DecisionAgrees(a, d)'
        /\ EvidenceAgrees(e)'
        /\ CompletionAgrees(k)'
    BY <1>4, <2>1, BindingKept, DecisionKept, EvidenceKept, CompletionKept
       DEF Agree, NewCheckpoint
  <2> QED
    BY <2>5, <2>6, <2>7, <2>8 DEF Remembers, Agree
<1>8. TraceOK' /\ ReadingOK'
  BY <1>1, <1>2, <1>3, <1>7, RecordRead
<1> QED
  BY <1>8 DEF CrossInv
-----------------------------------------------------------------------------
LEMMA InitCross == Init => CrossInv
<1> SUFFICES ASSUME Init
             PROVE  CrossInv
  OBVIOUS
<1>1. /\ requests = [id \in {operation_id} |-> None]
      /\ decisions = [id \in {operation_id} |-> None]
      /\ runs = [id \in {"run"} |-> None]
      /\ checkpoints = {}
      /\ trace = <<>>
  BY DEF Init, Approval!Init, Recovery!Init
<1>2. Evidence!Identity = {Identity}
  BY DEF Evidence!Identity, Identity
<1>3. /\ heads = [id \in {Identity} |-> None]
      /\ completions = [id \in {Identity} |-> None]
  BY <1>2 DEF Init, Evidence!EvidenceInit
<1>4. /\ Asked = None
      /\ Decision = None
      /\ Current = None
      /\ Completion = None
      /\ TheRun = None
  BY <1>1, <1>3 DEF Asked, Decision, Current, Completion, TheRun
<1>5. StoresOK
  BY <1>1, <1>3, <1>4 DEF StoresOK, ApprovalOK, EvidenceOK, CheckpointOK
<1>6. TraceOK
  BY <1>1 DEF TraceOK
<1>7. Agree(None, None, None, None, <<>>, 0)
  <2>1. EvidenceAgrees(<<>>)
    BY <1>4 DEF EvidenceAgrees
  <2>2. DecisionAgrees(None, None)
    BY <1>4, NoneAssumption DEF DecisionAgrees
  <2> QED
    BY <1>4, <2>1, <2>2 DEF Agree, BindingAgrees, CheckpointAgrees, CompletionAgrees
<1>8. Unread = State(None, None, None, None, <<>>, 0)
  BY DEF Unread, State
<1>9. ReadingOK
  BY <1>1, <1>7, <1>8, ReadEmpty DEF ReadingOK, Remembers
<1> QED
  BY <1>5, <1>6, <1>9 DEF CrossInv

LEMMA StepCross == CrossInv /\ [Next]_vars => CrossInv'
<1> SUFFICES ASSUME CrossInv, [Next]_vars
             PROVE  CrossInv'
  OBVIOUS
<1>1. StoresOK
  BY DEF CrossInv
<1>2. ASSUME NEW x \in Effect, Request(x) PROVE CrossInv'
  BY <1>2, RequestIsUnread
<1>3. ASSUME NEW x \in Effect, NEW decision \in {"approved", "denied"}, Decide(x, decision)
      PROVE  CrossInv'
  BY <1>3, DecideIsRead
<1>4. ASSUME NEW x \in Effect, Execute(x) PROVE CrossInv'
  BY <1>4, ExecuteIsRead
<1>5. ASSUME NEW x \in Effect, NEW id \in EvidenceId, NEW evidence \in Evidence!ProviderEvidence,
             RecordReadback(x, id, evidence)
      PROVE  CrossInv'
  BY <1>5, ReadbackIsRead
<1>6. ASSUME NEW x \in Effect, NEW id \in EvidenceId,
             NEW decision \in Evidence!ReconciliationDecision, Complete(x, id, decision)
      PROVE  CrossInv'
  BY <1>6, CompleteIsRead
<1>7. ASSUME NEW id \in CheckpointId, NEW plan \in Plan, Start(id, plan)
      PROVE  CrossInv'
  BY <1>1, <1>7, StartEffect, CheckpointIsRead
<1>8. ASSUME NEW parent \in checkpoints, NEW id \in CheckpointId, NEW count \in Recovery!Count,
             Advance(parent, id, count)
      PROVE  CrossInv'
  BY <1>1, <1>8, AdvanceEffect, CheckpointIsRead
<1>9. CASE UNCHANGED vars
  <2> USE <1>9 DEF vars
  <2>1. StoresOK'
    BY <1>1 DEF StoresOK, ApprovalOK, EvidenceOK, CheckpointOK, Asked, Current, TheRun
  <2>2. TraceOK'
    BY DEF CrossInv, TraceOK
  <2>3. /\ \A b : BindingAgrees(b)' <=> BindingAgrees(b)
        /\ \A a, d : DecisionAgrees(a, d)' <=> DecisionAgrees(a, d)
        /\ \A c : CheckpointAgrees(c)' <=> CheckpointAgrees(c)
        /\ \A k : CompletionAgrees(k)' <=> CompletionAgrees(k)
    BY DEF BindingAgrees, DecisionAgrees, CheckpointAgrees, CompletionAgrees,
           Asked, Decision, Completion, TheRun
  <2>4. \A e : EvidenceAgrees(e)' <=> EvidenceAgrees(e)
    BY DEF EvidenceAgrees, LastAgrees, UsedIds, Asked, Current
  <2>5. \A s : Remembers(s)' <=> Remembers(s)
    BY <2>3, <2>4 DEF Remembers, Agree
  <2>6. ReadingOK'
    BY <2>5 DEF CrossInv, ReadingOK
  <2> QED
    BY <2>1, <2>2, <2>6 DEF CrossInv
<1> QED
  BY <1>2, <1>3, <1>4, <1>5, <1>6, <1>7, <1>8, <1>9 DEF Next

\* The inductive invariant: what validate_trace remembers of the trace written so
\* far (trace_integrity.py:102-324) is what the three stores hold.
THEOREM ValidatorFollowsTheStores == Spec => []CrossInv
  BY InitCross, StepCross, PTL DEF Spec

\* Whatever order the approval layer, the evidence store and the checkpoint store
\* commit in, and whatever readbacks the provider gives, the validator accepts the
\* trace of their commits: it has no false positives on them
\* (trace_integrity.py:102-324; approvals.py, evidence_lineage.py, recovery.py).
THEOREM CleanTracesAreAccepted == Spec => []StoresWriteCleanTraces
<1>1. CrossInv => StoresWriteCleanTraces
  <2> SUFFICES ASSUME CrossInv
               PROVE  StoresWriteCleanTraces
    OBVIOUS
  <2>1. PICK X : trace \in Seq(X)
    BY DEF CrossInv, TraceOK
  <2>2. /\ DOMAIN trace = 1 .. Len(trace)
        /\ Len(trace) \in Nat
        /\ \A i \in DOMAIN trace : trace[i].sequence = i /\ trace[i].record_id = i
    BY <2>1 DEF CrossInv, TraceOK
  <2>3. Read(trace).sound
    BY DEF CrossInv, ReadingOK, Remembers, State
  <2>5. StrictlyIncreasing(trace)
    BY <2>2 DEF StrictlyIncreasing
  <2>6. IsInjective([i \in DOMAIN trace |-> trace[i].record_id])
    BY <2>2 DEF IsInjective
  <2> QED
    BY <2>3, <2>5, <2>6 DEF StoresWriteCleanTraces, Accepted, Read
<1> QED
  BY <1>1, ValidatorFollowsTheStores, PTL

-----------------------------------------------------------------------------
(* The records of a trace: what a recorder writes, and what a mutation makes of it. *)

\* The fields of a record of each kind.
EventFields ==
    {"kind", "sequence", "record_id", "run_id", "turn_id", "event_id", "event_kind",
     "payload_sha256"}

ApprovalFields ==
    {"kind", "sequence", "record_id", "provider", "operation_id", "tool", "payload_sha256",
     "effect_sha256", "decision"}

EffectFields ==
    {"kind", "sequence", "record_id", "provider", "operation_id", "tool", "payload_sha256",
     "effect_sha256", "idempotency_key"}

EvidenceFields ==
    {"kind", "sequence", "record_id", "provider", "operation_id", "evidence_id", "revision",
     "readback", "effect_sha256"}

CompletionFields ==
    {"kind", "sequence", "record_id", "provider", "operation_id", "evidence_id", "revision",
     "effect_sha256"}

FieldsOf(kind) ==
    CASE kind = "runtime_event" -> EventFields
      [] kind = "checkpoint" -> CheckpointFields
      [] kind = "approval" -> ApprovalFields
      [] kind = "effect" -> EffectFields
      [] kind = "provider_evidence" -> EvidenceFields
      [] OTHER -> CompletionFields

HasFieldsOfItsKind(q) == q.kind \in _RECORD_KINDS /\ DOMAIN q = FieldsOf(q.kind)

\* The values a recorder writes.
HasWrittenValues(q) ==
    /\ \A f \in DOMAIN q \cap DOMAIN scope : q[f] = scope[f]
    /\ \A f \in DOMAIN q \cap {"event_id", "evidence_id", "checkpoint_id"} : q[f] \in Id
    /\ "parent_checkpoint_id" \in DOMAIN q => q.parent_checkpoint_id \in Id \cup {None}
    /\ \A f \in DOMAIN q \cap {"payload_sha256", "plan_sha256"} : q[f] \in Payload
    /\ "effect_sha256" \in DOMAIN q => q.effect_sha256 \in EffectDigest
    /\ \A f \in DOMAIN q \cap {"revision", "checkpoint_sequence", "completed_count"} : q[f] \in Nat
    /\ \A f \in DOMAIN q \cap {"sequence", "record_id"} : q[f] \in Nat \ {0}
    /\ "decision" \in DOMAIN q => q.decision \in {"approved", "denied"}
    /\ "readback" \in DOMAIN q => q.readback \in {"present", "absent"}
    /\ "tool" \in DOMAIN q => q.tool = "tool"
    /\ "event_kind" \in DOMAIN q => q.event_kind = "output"
    /\ "idempotency_key" \in DOMAIN q => q.idempotency_key = "key"

Written(q) == HasFieldsOfItsKind(q) /\ HasWrittenValues(q)

\* r is q but for the field f.
DiffersIn(r, q, f) ==
    /\ DOMAIN r \in {DOMAIN q, DOMAIN q \ {f}}
    /\ \A g \in DOMAIN r : g # f => r[g] = q[g]
    /\ f \in DOMAIN r => r[f] = q[f] \/ r[f] \in Values(f)

\* A record that was written and may have been changed in one field.
Plausible(r) ==
    /\ r \in [DOMAIN r -> Value]
    /\ \E q : Written(q) /\ \E f \in DOMAIN q : DiffersIn(r, q, f)

LEMMA ScopeIs ==
    /\ DOMAIN scope = {"run_id", "turn_id", "provider", "operation_id"}
    /\ scope["run_id"] = "run"
    /\ scope["turn_id"] = "turn"
    /\ scope["provider"] = "provider"
    /\ scope["operation_id"] = "operation"
  BY DEF scope

\* The record p with its number.
Numbered(p, n) == Extended(p, [sequence |-> n, record_id |-> n])

\* u has the fields of p and those in S of the scope, q has the number n in addition.
IsNumbered(q, u, p, S, n) ==
    /\ DOMAIN u = DOMAIN p \cup S
    /\ \A f \in DOMAIN p : u[f] = p[f]
    /\ DOMAIN q = DOMAIN p \cup S \cup {"sequence", "record_id"}
    /\ \A f \in DOMAIN p : q[f] = p[f]
    /\ \A f \in S : q[f] = scope[f]
    /\ q["sequence"] = n /\ q["record_id"] = n

IsUnnumbered(p) == DOMAIN p \cap (DOMAIN scope \cup {"sequence", "record_id"}) = {}

\* None is none of the values of a record.
LEMMA NoneIsMissing ==
    /\ None \notin Int \cup Payload \cup Id \cup EffectDigest
    /\ None \notin {"runtime_event", "approval", "effect", "checkpoint", "provider_evidence",
                   "reconciliation_completion", "run", "turn", "provider", "operation",
                   "tool", "key", "output", "completed", "failed", "approved", "denied",
                   "present", "absent", "ambiguous"}
  BY MissingAssumption, ScopeIs DEF Name, _RECORD_KINDS

LEMMA NumberedRecord ==
    ASSUME NEW p, NEW n \in Nat \ {0}, NEW S \in SUBSET DOMAIN scope, NEW q,
           q = Numbered(Extended(p, InScope(S)), n),
           IsUnnumbered(p)
    PROVE  IsNumbered(q, Extended(p, InScope(S)), p, S, n)
<1>1. "sequence" \notin DOMAIN scope /\ "record_id" \notin DOMAIN scope
  BY ScopeIs
<1>2. /\ DOMAIN InScope(S) = S
      /\ \A f \in S : InScope(S)[f] = scope[f]
  BY DEF InScope
<1> DEFINE u == Extended(p, InScope(S))
<1>3. /\ DOMAIN u = DOMAIN p \cup S
      /\ \A f \in DOMAIN p : u[f] = p[f]
      /\ \A f \in S : u[f] = scope[f]
  BY <1>2 DEF Extended, IsUnnumbered
<1> DEFINE v == [sequence |-> n, record_id |-> n]
<1>4. DOMAIN v = {"sequence", "record_id"} /\ v["sequence"] = n /\ v["record_id"] = n
  OBVIOUS
<1> HIDE DEF u, v
<1>5. q = Extended(u, v)
  BY DEF u, v, Numbered
<1> QED
  <2>1. IsNumbered(q, u, p, S, n)
    BY <1>1, <1>3, <1>4, <1>5 DEF Extended, IsNumbered, IsUnnumbered
  <2> QED
    BY <2>1 DEF u

\* What is written is written.
LEMMA RequiredIsWritten ==
    ASSUME NEW p \in RequiredFields, NEW n \in Nat \ {0}, NEW q,
           q = Numbered(p, n)
    PROVE  /\ Written(q)
           /\ q.sequence = n /\ q.record_id = n /\ q.kind = p.kind
           /\ DOMAIN p = DOMAIN q \ {"sequence", "record_id"}
<1> USE ScopeIs
<1>1. CASE \E r \in [kind : {"runtime_event"}, event_id : Id, event_kind : {"output"},
                     payload_sha256 : Payload] : p = Extended(r, InScope({"run_id", "turn_id"}))
  <2>1. PICK r \in [kind : {"runtime_event"}, event_id : Id, event_kind : {"output"},
                    payload_sha256 : Payload] : p = Extended(r, InScope({"run_id", "turn_id"}))
    BY <1>1
  <2>2. DOMAIN r = {"kind", "event_id", "event_kind", "payload_sha256"}
    OBVIOUS
  <2>3. /\ DOMAIN p = DOMAIN r \cup {"run_id", "turn_id"}
        /\ p["kind"] = r["kind"]
        /\ DOMAIN q = DOMAIN r \cup {"run_id", "turn_id"} \cup {"sequence", "record_id"}
        /\ \A f \in DOMAIN r : q[f] = r[f]
        /\ \A f \in {"run_id", "turn_id"} : q[f] = scope[f]
        /\ q["sequence"] = n /\ q["record_id"] = n
    <3> DEFINE S == {"run_id", "turn_id"}
    <3>1. S \in SUBSET DOMAIN scope /\ IsUnnumbered(r)
      BY <2>2 DEF IsUnnumbered
    <3>2. q = Numbered(Extended(r, InScope(S)), n)
      BY <2>1
    <3> HIDE DEF S
    <3>3. IsNumbered(q, Extended(r, InScope(S)), r, S, n)
      BY <3>1, <3>2, NumberedRecord, Zenon
    <3> QED
      BY <2>1, <2>2, <3>3 DEF S, IsNumbered
  <2> QED
    BY <2>2, <2>3 DEF Written, HasFieldsOfItsKind, HasWrittenValues, FieldsOf, _RECORD_KINDS, EventFields
<1>2. CASE \E r \in [kind : {"checkpoint"}, checkpoint_id : Id,
                     parent_checkpoint_id : Id \cup {None}, checkpoint_sequence : 0 .. MaxNumber,
                     plan_sha256 : Payload, completed_count : 0 .. 1] :
                p = Extended(r, InScope({"run_id"}))
  <2>1. PICK r \in [kind : {"checkpoint"}, checkpoint_id : Id,
                     parent_checkpoint_id : Id \cup {None}, checkpoint_sequence : 0 .. MaxNumber,
                     plan_sha256 : Payload, completed_count : 0 .. 1] :
                p = Extended(r, InScope({"run_id"}))
    BY <1>2
  <2>2. DOMAIN r = {"kind", "checkpoint_id", "parent_checkpoint_id", "checkpoint_sequence",
                    "plan_sha256", "completed_count"}
    OBVIOUS
  <2>3. /\ DOMAIN p = DOMAIN r \cup {"run_id"}
        /\ p["kind"] = r["kind"]
        /\ DOMAIN q = DOMAIN r \cup {"run_id"} \cup {"sequence", "record_id"}
        /\ \A f \in DOMAIN r : q[f] = r[f]
        /\ \A f \in {"run_id"} : q[f] = scope[f]
        /\ q["sequence"] = n /\ q["record_id"] = n
    <3> DEFINE S == {"run_id"}
    <3>1. S \in SUBSET DOMAIN scope /\ IsUnnumbered(r)
      BY <2>2 DEF IsUnnumbered
    <3>2. q = Numbered(Extended(r, InScope(S)), n)
      BY <2>1
    <3> HIDE DEF S
    <3>3. IsNumbered(q, Extended(r, InScope(S)), r, S, n)
      BY <3>1, <3>2, NumberedRecord, Zenon
    <3> QED
      BY <2>1, <2>2, <3>3 DEF S, IsNumbered
  <2>4. r.checkpoint_sequence \in Nat /\ r.completed_count \in Nat
    BY LengthAssumption
  <2> QED
    BY <2>2, <2>3, <2>4 DEF Written, HasFieldsOfItsKind, HasWrittenValues, FieldsOf, _RECORD_KINDS, CheckpointFields
<1>3. CASE \E r \in
        [kind : {"approval"}, tool : {"tool"}, payload_sha256 : Payload,
               effect_sha256 : EffectDigest, decision : {"approved", "denied"}] :
            p = Extended(r, InScope({"provider", "operation_id"}))
  <2>1. PICK r \in
        [kind : {"approval"}, tool : {"tool"}, payload_sha256 : Payload,
               effect_sha256 : EffectDigest, decision : {"approved", "denied"}] :
            p = Extended(r, InScope({"provider", "operation_id"}))
    BY <1>3
  <2>2. DOMAIN r = {"kind", "tool", "payload_sha256", "effect_sha256", "decision"}
    OBVIOUS
  <2>3. /\ DOMAIN p = DOMAIN r \cup {"provider", "operation_id"}
        /\ p["kind"] = r["kind"]
        /\ DOMAIN q = DOMAIN r \cup {"provider", "operation_id"} \cup {"sequence", "record_id"}
        /\ \A f \in DOMAIN r : q[f] = r[f]
        /\ \A f \in {"provider", "operation_id"} : q[f] = scope[f]
        /\ q["sequence"] = n /\ q["record_id"] = n
    <3> DEFINE S == {"provider", "operation_id"}
    <3>1. S \in SUBSET DOMAIN scope /\ IsUnnumbered(r)
      BY <2>2 DEF IsUnnumbered
    <3>2. q = Numbered(Extended(r, InScope(S)), n)
      BY <2>1
    <3> HIDE DEF S
    <3>3. IsNumbered(q, Extended(r, InScope(S)), r, S, n)
      BY <3>1, <3>2, NumberedRecord, Zenon
    <3> QED
      BY <2>1, <2>2, <3>3 DEF S, IsNumbered
  <2> QED
    BY <2>2, <2>3 DEF Written, HasFieldsOfItsKind, HasWrittenValues, FieldsOf, _RECORD_KINDS, ApprovalFields
<1>4. CASE \E r \in
        [kind : {"effect"}, tool : {"tool"}, payload_sha256 : Payload,
               effect_sha256 : EffectDigest, idempotency_key : {"key"}] :
            p = Extended(r, InScope({"provider", "operation_id"}))
  <2>1. PICK r \in
        [kind : {"effect"}, tool : {"tool"}, payload_sha256 : Payload,
               effect_sha256 : EffectDigest, idempotency_key : {"key"}] :
            p = Extended(r, InScope({"provider", "operation_id"}))
    BY <1>4
  <2>2. DOMAIN r = {"kind", "tool", "payload_sha256", "effect_sha256", "idempotency_key"}
    OBVIOUS
  <2>3. /\ DOMAIN p = DOMAIN r \cup {"provider", "operation_id"}
        /\ p["kind"] = r["kind"]
        /\ DOMAIN q = DOMAIN r \cup {"provider", "operation_id"} \cup {"sequence", "record_id"}
        /\ \A f \in DOMAIN r : q[f] = r[f]
        /\ \A f \in {"provider", "operation_id"} : q[f] = scope[f]
        /\ q["sequence"] = n /\ q["record_id"] = n
    <3> DEFINE S == {"provider", "operation_id"}
    <3>1. S \in SUBSET DOMAIN scope /\ IsUnnumbered(r)
      BY <2>2 DEF IsUnnumbered
    <3>2. q = Numbered(Extended(r, InScope(S)), n)
      BY <2>1
    <3> HIDE DEF S
    <3>3. IsNumbered(q, Extended(r, InScope(S)), r, S, n)
      BY <3>1, <3>2, NumberedRecord, Zenon
    <3> QED
      BY <2>1, <2>2, <3>3 DEF S, IsNumbered
  <2> QED
    BY <2>2, <2>3 DEF Written, HasFieldsOfItsKind, HasWrittenValues, FieldsOf, _RECORD_KINDS, EffectFields
<1>5. CASE \E r \in
        [kind : {"provider_evidence"}, evidence_id : Id, revision : 0 .. MaxNumber,
               readback : {"present", "absent"}, effect_sha256 : EffectDigest] :
            p = Extended(r, InScope({"provider", "operation_id"}))
  <2>1. PICK r \in
        [kind : {"provider_evidence"}, evidence_id : Id, revision : 0 .. MaxNumber,
               readback : {"present", "absent"}, effect_sha256 : EffectDigest] :
            p = Extended(r, InScope({"provider", "operation_id"}))
    BY <1>5
  <2>2. DOMAIN r = {"kind", "evidence_id", "revision", "readback", "effect_sha256"}
    OBVIOUS
  <2>3. /\ DOMAIN p = DOMAIN r \cup {"provider", "operation_id"}
        /\ p["kind"] = r["kind"]
        /\ DOMAIN q = DOMAIN r \cup {"provider", "operation_id"} \cup {"sequence", "record_id"}
        /\ \A f \in DOMAIN r : q[f] = r[f]
        /\ \A f \in {"provider", "operation_id"} : q[f] = scope[f]
        /\ q["sequence"] = n /\ q["record_id"] = n
    <3> DEFINE S == {"provider", "operation_id"}
    <3>1. S \in SUBSET DOMAIN scope /\ IsUnnumbered(r)
      BY <2>2 DEF IsUnnumbered
    <3>2. q = Numbered(Extended(r, InScope(S)), n)
      BY <2>1
    <3> HIDE DEF S
    <3>3. IsNumbered(q, Extended(r, InScope(S)), r, S, n)
      BY <3>1, <3>2, NumberedRecord, Zenon
    <3> QED
      BY <2>1, <2>2, <3>3 DEF S, IsNumbered
  <2>4. r.revision \in Nat
    BY LengthAssumption
  <2> QED
    BY <2>2, <2>3, <2>4 DEF Written, HasFieldsOfItsKind, HasWrittenValues, FieldsOf, _RECORD_KINDS, EvidenceFields
<1>6. CASE \E r \in
        [kind : {"reconciliation_completion"}, evidence_id : Id,
               revision : 0 .. MaxNumber, effect_sha256 : EffectDigest] :
            p = Extended(r, InScope({"provider", "operation_id"}))
  <2>1. PICK r \in
        [kind : {"reconciliation_completion"}, evidence_id : Id,
               revision : 0 .. MaxNumber, effect_sha256 : EffectDigest] :
            p = Extended(r, InScope({"provider", "operation_id"}))
    BY <1>6
  <2>2. DOMAIN r = {"kind", "evidence_id", "revision", "effect_sha256"}
    OBVIOUS
  <2>3. /\ DOMAIN p = DOMAIN r \cup {"provider", "operation_id"}
        /\ p["kind"] = r["kind"]
        /\ DOMAIN q = DOMAIN r \cup {"provider", "operation_id"} \cup {"sequence", "record_id"}
        /\ \A f \in DOMAIN r : q[f] = r[f]
        /\ \A f \in {"provider", "operation_id"} : q[f] = scope[f]
        /\ q["sequence"] = n /\ q["record_id"] = n
    <3> DEFINE S == {"provider", "operation_id"}
    <3>1. S \in SUBSET DOMAIN scope /\ IsUnnumbered(r)
      BY <2>2 DEF IsUnnumbered
    <3>2. q = Numbered(Extended(r, InScope(S)), n)
      BY <2>1
    <3> HIDE DEF S
    <3>3. IsNumbered(q, Extended(r, InScope(S)), r, S, n)
      BY <3>1, <3>2, NumberedRecord, Zenon
    <3> QED
      BY <2>1, <2>2, <3>3 DEF S, IsNumbered
  <2>4. r.revision \in Nat
    BY LengthAssumption
  <2> QED
    BY <2>2, <2>3, <2>4 DEF Written, HasFieldsOfItsKind, HasWrittenValues, FieldsOf, _RECORD_KINDS, CompletionFields
<1> QED
  BY <1>1, <1>2, <1>3, <1>4, <1>5, <1>6, Zenon DEF RequiredFields

-----------------------------------------------------------------------------
(* What the validator checks of a record alone. *)

\* What validate_trace checks of a record alone.
LocallySound(r) ==
    LET kind == Get(r, "kind")
    IN /\ Get(r, "record_id") # None
       /\ Get(r, "sequence") \in Nat \ {0}
       /\ kind \in _RECORD_KINDS
       /\ kind \notin {"runtime_event", "checkpoint"} => HasScope(r, {"operation_id", "provider"})
       /\ kind = "runtime_event" =>
            /\ HasScope(r, {"run_id", "turn_id"})
            /\ Get(r, "event_id") # None
            /\ Get(r, "event_kind") \in {"output", "completed", "failed"}
            /\ Get(r, "payload_sha256") \in Payload
       /\ kind = "checkpoint" =>
            /\ HasScope(r, {"run_id"})
            /\ Get(r, "checkpoint_id") # None
            /\ Get(r, "checkpoint_sequence") \in Nat
            /\ Get(r, "completed_count") \in Nat
            /\ Get(r, "plan_sha256") \in Payload
       /\ kind \in {"approval", "effect"} =>
            Get(r, "tool") # None /\ Get(r, "payload_sha256") \in Payload
       /\ kind = "approval" => Get(r, "decision") \in {"approved", "denied"}
       /\ kind = "provider_evidence" =>
            /\ Get(r, "evidence_id") # None
            /\ Get(r, "revision") \in Nat
            /\ Get(r, "readback") \in {"present", "absent", "ambiguous"}
       /\ kind = "reconciliation_completion" =>
            Get(r, "evidence_id") # None /\ Get(r, "revision") \in Nat

\* The values a record that was written and changed in one field may have.
HasPlausibleValues(r) ==
    /\ \A f \in DOMAIN r \cap DOMAIN scope : r[f] \in {scope[f], Foreign, None}
    /\ \A f \in DOMAIN r \cap {"event_id", "evidence_id", "checkpoint_id", "parent_checkpoint_id"} :
        r[f] \in Id \cup {None}
    /\ \A f \in DOMAIN r \cap {"payload_sha256", "plan_sha256"} : r[f] \in Payload \cup {None}
    /\ "effect_sha256" \in DOMAIN r => r["effect_sha256"] \in EffectDigest \cup {None}
    /\ \A f \in DOMAIN r \cap {"revision", "checkpoint_sequence", "completed_count"} :
        r[f] \in Int \cup {None}
    /\ \A f \in DOMAIN r \cap {"sequence", "record_id"} : r[f] \in Nat \cup {None}
    /\ "decision" \in DOMAIN r => r["decision"] \in {"approved", "denied", None}
    /\ "readback" \in DOMAIN r => r["readback"] \in {"present", "absent", None}
    /\ "tool" \in DOMAIN r => r["tool"] \in {"tool", Foreign, None}
    /\ "event_kind" \in DOMAIN r => r["event_kind"] \in {"output", Foreign, None}
    /\ "kind" \in DOMAIN r => r["kind"] \in _RECORD_KINDS \cup {None}

\* The values a mutation gives to a field.
LEMMA NumericValues ==
    ASSUME NEW f \in {"revision", "checkpoint_sequence", "completed_count"}
    PROVE  Values(f) \subseteq Int \cup {None}
<1>1. f \notin DOMAIN scope
  BY ScopeIs
<1> QED
  BY <1>1, LengthAssumption DEF Values

LEMMA NumberValues ==
    ASSUME NEW f \in {"sequence", "record_id"}
    PROVE  Values(f) \subseteq Nat \cup {None}
<1>1. f \notin DOMAIN scope
  BY ScopeIs
<1> QED
  BY <1>1, LengthAssumption DEF Values

LEMMA ScopeValues ==
    ASSUME NEW f \in DOMAIN scope
    PROVE  Values(f) = {None, scope[f], Foreign}
<1>1. f \in {"run_id", "turn_id", "provider", "operation_id"}
  BY ScopeIs
<1> QED
  BY <1>1 DEF Values

LEMMA IdValues ==
    ASSUME NEW f \in {"event_id", "evidence_id", "checkpoint_id", "parent_checkpoint_id"}
    PROVE  Values(f) = Id \cup {None}
<1>1. f \notin DOMAIN scope
  BY ScopeIs
<1> QED
  BY <1>1 DEF Values

LEMMA PayloadValues ==
    ASSUME NEW f \in {"payload_sha256", "plan_sha256"}
    PROVE  Values(f) = Payload \cup {None}
<1>1. f \notin DOMAIN scope
  BY ScopeIs
<1> QED
  BY <1>1 DEF Values

LEMMA NamedValues ==
    /\ Values("effect_sha256") = EffectDigest \cup {None}
    /\ Values("decision") = {None, "approved", "denied"}
    /\ Values("readback") = {None, "present", "absent"}
    /\ Values("tool") = {None, Foreign}
    /\ Values("event_kind") = {None, Foreign}
    /\ Values("kind") \subseteq _RECORD_KINDS \cup {None}
<1>1. DOMAIN scope \cap {"effect_sha256", "decision", "readback", "tool", "event_kind", "kind"} = {}
  BY ScopeIs
<1>2. Values("effect_sha256") = EffectDigest \cup {None}
  BY <1>1 DEF Values
<1>3. Values("decision") = {None, "approved", "denied"}
  BY <1>1 DEF Values
<1>4. Values("readback") = {None, "present", "absent"}
  BY <1>1 DEF Values
<1>5. Values("tool") = {None, Foreign}
  BY <1>1 DEF Values
<1>6. Values("event_kind") = {None, Foreign}
  BY <1>1 DEF Values
<1>7. Values("kind") \subseteq _RECORD_KINDS \cup {None}
  BY <1>1, KindAssumption DEF Values
<1> QED
  BY <1>2, <1>3, <1>4, <1>5, <1>6, <1>7

LEMMA PlausibleValues ==
    ASSUME NEW r, Plausible(r)
    PROVE  HasPlausibleValues(r)
<1>1. PICK q : Written(q) /\ \E f \in DOMAIN q : DiffersIn(r, q, f)
  BY DEF Plausible
<1>2. PICK f \in DOMAIN q : DiffersIn(r, q, f)
  BY <1>1
<1>3. /\ DOMAIN r \subseteq DOMAIN q
      /\ \A g \in DOMAIN r : r[g] = q[g] \/ r[g] \in Values(g)
  BY <1>2 DEF DiffersIn
<1>4. HasWrittenValues(q) /\ q["kind"] \in _RECORD_KINDS
  BY <1>1 DEF Written, HasFieldsOfItsKind
<1>5. \A g \in DOMAIN r \cap DOMAIN scope : r[g] \in {scope[g], Foreign, None}
  BY <1>3, <1>4, ScopeValues DEF HasWrittenValues
<1>6. \A g \in DOMAIN r \cap {"event_id", "evidence_id", "checkpoint_id", "parent_checkpoint_id"} :
        r[g] \in Id \cup {None}
  BY <1>3, <1>4, IdValues DEF HasWrittenValues
<1>7. \A g \in DOMAIN r \cap {"payload_sha256", "plan_sha256"} : r[g] \in Payload \cup {None}
  BY <1>3, <1>4, PayloadValues DEF HasWrittenValues
<1>8. \A g \in DOMAIN r \cap {"revision", "checkpoint_sequence", "completed_count"} :
        r[g] \in Int \cup {None}
  BY <1>3, <1>4, NumericValues DEF HasWrittenValues
<1>9. \A g \in DOMAIN r \cap {"sequence", "record_id"} : r[g] \in Nat \cup {None}
  BY <1>3, <1>4, NumberValues DEF HasWrittenValues
<1>10. /\ "effect_sha256" \in DOMAIN r => r["effect_sha256"] \in EffectDigest \cup {None}
       /\ "decision" \in DOMAIN r => r["decision"] \in {"approved", "denied", None}
       /\ "readback" \in DOMAIN r => r["readback"] \in {"present", "absent", None}
       /\ "tool" \in DOMAIN r => r["tool"] \in {"tool", Foreign, None}
       /\ "event_kind" \in DOMAIN r => r["event_kind"] \in {"output", Foreign, None}
       /\ "kind" \in DOMAIN r => r["kind"] \in _RECORD_KINDS \cup {None}
  BY <1>3, <1>4, NamedValues DEF HasWrittenValues
<1> QED
  BY <1>5, <1>6, <1>7, <1>8, <1>9, <1>10 DEF HasPlausibleValues

\* A field beyond those of the record's kind is right wherever it came from.
Harmless(r, f) ==
    /\ r[f] # None
    /\ f \in DOMAIN scope => r[f] = scope[f]
    /\ f \in {"revision", "checkpoint_sequence", "completed_count"} => r[f] \in Nat
    /\ f = "event_kind" => r[f] = "output"

LEMMA WrittenIsHarmless ==
    ASSUME NEW q, Written(q), NEW f \in DOMAIN q \ Optional
    PROVE  Harmless(q, f)
<1>1. DOMAIN q = FieldsOf(q.kind) /\ q.kind \in _RECORD_KINDS /\ HasWrittenValues(q)
  BY DEF Written, HasFieldsOfItsKind
<1>2. f \in {"kind", "sequence", "record_id", "run_id", "turn_id", "provider", "operation_id",
              "event_id", "event_kind", "payload_sha256", "tool", "decision", "evidence_id",
              "revision", "readback", "checkpoint_id", "checkpoint_sequence", "plan_sha256",
              "completed_count"}
  BY <1>1 DEF FieldsOf, EventFields, CheckpointFields, ApprovalFields, EffectFields,
        EvidenceFields, CompletionFields, Optional, _RECORD_KINDS
<1>4. f \in DOMAIN scope => q[f] = scope[f] /\ scope[f] # None
  BY <1>1, NoneIsMissing, ScopeIs DEF HasWrittenValues
<1>5. f = "kind" => q[f] # None
  BY <1>1, NoneIsMissing DEF _RECORD_KINDS
<1>6. q[f] # None
  BY <1>1, <1>2, <1>4, <1>5, NoneIsMissing, ScopeIs DEF HasWrittenValues
<1> QED
  BY <1>1, <1>4, <1>6 DEF Harmless, HasWrittenValues

LEMMA ExtraFieldsAreHarmless ==
    ASSUME NEW r, Plausible(r), "kind" \in DOMAIN r, r["kind"] \in _RECORD_KINDS,
           NEW f \in DOMAIN r \ FieldsOf(r["kind"]), f \notin Optional
    PROVE  Harmless(r, f)
<1>1. PICK q : Written(q) /\ \E g \in DOMAIN q : DiffersIn(r, q, g)
  BY DEF Plausible
<1>2. PICK g \in DOMAIN q : DiffersIn(r, q, g)
  BY <1>1
<1>3. "kind" \in FieldsOf(r["kind"])
  BY DEF FieldsOf, EventFields, CheckpointFields, ApprovalFields, EffectFields,
        EvidenceFields, CompletionFields
<1>4. f \in DOMAIN q /\ f # "kind"
  BY <1>2, <1>3 DEF DiffersIn
<1>5. g = "kind"
  <2>1. SUFFICES ASSUME g # "kind" PROVE FALSE
    OBVIOUS
  <2>2. r["kind"] = q["kind"]
    BY <1>2, <2>1 DEF DiffersIn
  <2> QED
    BY <1>1, <1>4, <2>2 DEF Written, HasFieldsOfItsKind
<1>6. r[f] = q[f]
  BY <1>2, <1>4, <1>5 DEF DiffersIn
<1>7. Harmless(q, f)
  BY <1>1, <1>4, WrittenIsHarmless
<1> QED
  BY <1>6, <1>7 DEF Harmless

-----------------------------------------------------------------------------
(* What makes a record coherent alone: the fields of its kind, with right values. *)

LEMMA RequiredKind ==
    ASSUME NEW p \in RequiredFields
    PROVE  p["kind"] \in _RECORD_KINDS /\ DOMAIN p = FieldsOf(p["kind"]) \ {"sequence", "record_id"}
<1> DEFINE q == Numbered(p, 1)
<1>1. /\ Written(q)
      /\ q["kind"] = p["kind"]
      /\ DOMAIN p = DOMAIN q \ {"sequence", "record_id"}
  <2> HIDE DEF q
  <2>1. q = Numbered(p, 1)
    BY DEF q
  <2> QED
    BY <2>1, RequiredIsWritten
<1> QED
  BY <1>1 DEF Written, HasFieldsOfItsKind

LEMMA PayloadExists ==
    ASSUME NEW r, Plausible(r)
    PROVE  Payload # {}
<1>1. PICK q : Written(q)
  BY DEF Plausible
<1>2. DOMAIN q = FieldsOf(q["kind"]) /\ HasWrittenValues(q)
  BY <1>1 DEF Written, HasFieldsOfItsKind
<1>3. {"payload_sha256", "plan_sha256", "effect_sha256"} \cap DOMAIN q # {}
  BY <1>2 DEF FieldsOf, EventFields, CheckpointFields, ApprovalFields, EffectFields,
        EvidenceFields, CompletionFields
<1> QED
  BY <1>2, <1>3 DEF HasWrittenValues, EffectDigest

LEMMA ExtendedField ==
    ASSUME NEW r, NEW more, NEW f \in DOMAIN r
    PROVE  Extended(r, more)[f] = r[f]
  BY DEF Extended

LEMMA RequiredExists ==
    ASSUME NEW kind \in _RECORD_KINDS, Payload # {},
           kind \in {"approval", "effect"} \/ Id # {}
    PROVE  \E p \in RequiredFields : p["kind"] = kind
<1>1. PICK x : x \in Payload
  OBVIOUS
<1>2. EffectFingerprint(<<"tool", x>>) \in EffectDigest
  BY <1>1 DEF EffectDigest
<1>3. 0 \in 0 .. MaxNumber /\ 0 \in 0 .. 1
  BY LengthAssumption
<1>4. CASE kind = "runtime_event"
  <2>1. PICK i : i \in Id
    BY <1>4
  <2> DEFINE r == [kind |-> "runtime_event", event_id |-> i, event_kind |-> "output",
                   payload_sha256 |-> x]
  <2>2. Extended(r, InScope({"run_id", "turn_id"})) \in RequiredFields
    BY <1>1, <2>1 DEF RequiredFields
  <2>3. "kind" \in DOMAIN r /\ r["kind"] = kind
    BY <1>4
  <2> HIDE DEF r
  <2> QED
    BY <2>2, <2>3, ExtendedField
<1>5. CASE kind = "checkpoint"
  <2>1. PICK i : i \in Id
    BY <1>5
  <2> DEFINE r == [kind |-> "checkpoint", checkpoint_id |-> i, parent_checkpoint_id |-> i,
                   checkpoint_sequence |-> 0, plan_sha256 |-> x, completed_count |-> 0]
  <2>2. Extended(r, InScope({"run_id"})) \in RequiredFields
    BY <1>1, <1>3, <2>1 DEF RequiredFields
  <2>3. "kind" \in DOMAIN r /\ r["kind"] = kind
    BY <1>5
  <2> HIDE DEF r
  <2> QED
    BY <2>2, <2>3, ExtendedField
<1>6. CASE kind = "approval"
  <2> DEFINE r == [kind |-> "approval", tool |-> "tool", payload_sha256 |-> x,
                   effect_sha256 |-> EffectFingerprint(<<"tool", x>>), decision |-> "denied"]
  <2>2. Extended(r, InScope({"provider", "operation_id"})) \in RequiredFields
    BY <1>1, <1>2 DEF RequiredFields
  <2>3. "kind" \in DOMAIN r /\ r["kind"] = kind
    BY <1>6
  <2> HIDE DEF r
  <2> QED
    BY <2>2, <2>3, ExtendedField
<1>7. CASE kind = "effect"
  <2> DEFINE r == [kind |-> "effect", tool |-> "tool", payload_sha256 |-> x,
                   effect_sha256 |-> EffectFingerprint(<<"tool", x>>), idempotency_key |-> "key"]
  <2>2. Extended(r, InScope({"provider", "operation_id"})) \in RequiredFields
    BY <1>1, <1>2 DEF RequiredFields
  <2>3. "kind" \in DOMAIN r /\ r["kind"] = kind
    BY <1>7
  <2> HIDE DEF r
  <2> QED
    BY <2>2, <2>3, ExtendedField
<1>8. CASE kind = "provider_evidence"
  <2>1. PICK i : i \in Id
    BY <1>8
  <2> DEFINE r == [kind |-> "provider_evidence", evidence_id |-> i, revision |-> 0,
                   readback |-> "present", effect_sha256 |-> EffectFingerprint(<<"tool", x>>)]
  <2>2. Extended(r, InScope({"provider", "operation_id"})) \in RequiredFields
    BY <1>2, <1>3, <2>1 DEF RequiredFields
  <2>3. "kind" \in DOMAIN r /\ r["kind"] = kind
    BY <1>8
  <2> HIDE DEF r
  <2> QED
    BY <2>2, <2>3, ExtendedField
<1>9. CASE kind = "reconciliation_completion"
  <2>1. PICK i : i \in Id
    BY <1>9
  <2> DEFINE r == [kind |-> "reconciliation_completion", evidence_id |-> i, revision |-> 0,
                   effect_sha256 |-> EffectFingerprint(<<"tool", x>>)]
  <2>2. Extended(r, InScope({"provider", "operation_id"})) \in RequiredFields
    BY <1>2, <1>3, <2>1 DEF RequiredFields
  <2>3. "kind" \in DOMAIN r /\ r["kind"] = kind
    BY <1>9
  <2> HIDE DEF r
  <2> QED
    BY <2>2, <2>3, ExtendedField
<1> QED
  BY <1>4, <1>5, <1>6, <1>7, <1>8, <1>9 DEF _RECORD_KINDS

\* The fields of the record's kind are all there and right.
HasRightFields(r) ==
    /\ \A f \in FieldsOf(r["kind"]) \ Optional : f \in DOMAIN r /\ Harmless(r, f)
    /\ r["sequence"] \in Nat \ {0}

CommonFields == {"kind", "sequence", "record_id"}

LEMMA CommonFieldsOf ==
    ASSUME NEW kind
    PROVE  CommonFields \subseteq FieldsOf(kind) \ Optional
  BY DEF CommonFields, FieldsOf, EventFields, CheckpointFields, ApprovalFields, EffectFields,
        EvidenceFields, CompletionFields, Optional

LEMMA IdExists ==
    ASSUME NEW r, Plausible(r), "kind" \in DOMAIN r, r["kind"] \in _RECORD_KINDS, HasRightFields(r)
    PROVE  r["kind"] \in {"approval", "effect"} \/ Id # {}
<1>1. HasPlausibleValues(r)
  BY PlausibleValues
<1>2. SUFFICES ASSUME r["kind"] \notin {"approval", "effect"} PROVE Id # {}
  OBVIOUS
<1>3. {"event_id", "checkpoint_id", "evidence_id"} \cap (FieldsOf(r["kind"]) \ Optional) # {}
  BY <1>2 DEF FieldsOf, EventFields, CheckpointFields, EvidenceFields, CompletionFields, Optional,
              _RECORD_KINDS
<1>4. PICK f \in {"event_id", "checkpoint_id", "evidence_id"} : f \in DOMAIN r /\ Harmless(r, f)
  BY <1>3 DEF HasRightFields
<1> QED
  BY <1>1, <1>4 DEF HasPlausibleValues, Harmless

LEMMA WellTypedIsRight ==
    ASSUME NEW r, Plausible(r), "kind" \in DOMAIN r, r["kind"] \in _RECORD_KINDS
    PROVE  RecordIsWellTyped(r) /\ r["sequence"] > 0 <=> HasRightFields(r)
<1> DEFINE kind == r["kind"]
<1>1. HasPlausibleValues(r)
  BY PlausibleValues
<1>2. Get(r, "kind") = kind
  BY DEF Get
<1>3. ASSUME RecordIsWellTyped(r), r["sequence"] > 0
      PROVE  HasRightFields(r)
  <2>1. PICK p \in RequiredFields : kind = p["kind"] /\ DOMAIN p \ DOMAIN r \subseteq Optional
    BY <1>2, <1>3 DEF RecordIsWellTyped
  <2>2. DOMAIN p = FieldsOf(kind) \ {"sequence", "record_id"}
    BY <2>1, RequiredKind
  <2>3. ASSUME NEW f \in FieldsOf(kind) \ Optional PROVE f \in DOMAIN r
    BY <1>3, <2>1, <2>2, <2>3 DEF RecordIsWellTyped
  <2>4. ASSUME NEW f \in DOMAIN r \ Optional PROVE Harmless(r, f)
    <3>1. r[f] # None /\ (f \in DOMAIN scope => r[f] = scope[f])
      BY <1>3 DEF RecordIsWellTyped
    <3>2. f \in {"revision", "checkpoint_sequence", "completed_count"} => r[f] \in Nat
      BY <1>1, <1>3, <3>1 DEF RecordIsWellTyped, HasPlausibleValues
    <3>3. f = "event_kind" => r[f] = "output"
      BY <1>1, <1>3, <3>1 DEF RecordIsWellTyped, HasPlausibleValues, Get
    <3> QED
      BY <3>1, <3>2, <3>3 DEF Harmless
  <2>5. "sequence" \in DOMAIN r \ Optional
    BY <1>3 DEF RecordIsWellTyped, Optional
  <2>6. r["sequence"] \in Nat
    BY <1>1, <2>5, <2>4 DEF HasPlausibleValues, Harmless
  <2> QED
    BY <1>3, <2>3, <2>4, <2>6 DEF HasRightFields
<1>4. ASSUME HasRightFields(r)
      PROVE  RecordIsWellTyped(r) /\ r["sequence"] > 0
  <2>1. ASSUME NEW f \in DOMAIN r \ Optional PROVE Harmless(r, f)
    BY <1>4, ExtraFieldsAreHarmless DEF HasRightFields
  <2>2. PICK p \in RequiredFields : p["kind"] = kind
    BY <1>4, PayloadExists, IdExists, RequiredExists
  <2>3. DOMAIN p \ DOMAIN r \subseteq Optional
    BY <1>4, <2>2, RequiredKind DEF HasRightFields
  <2>4. {"record_id", "sequence"} \subseteq DOMAIN r
    BY <1>4, CommonFieldsOf DEF HasRightFields, CommonFields
  <2>5. Get(r, "event_kind") # Foreign
    BY <2>1, ForeignAssumption DEF Get, Harmless, Optional
  <2>6. \A f \in DOMAIN r \cap DOMAIN scope : r[f] = scope[f]
    BY <2>1, ScopeIs DEF Harmless, Optional
  <2>7. \A f \in DOMAIN r \cap {"revision", "checkpoint_sequence", "completed_count"} : r[f] >= 0
    BY <2>1 DEF Harmless, Optional
  <2>8. \A f \in DOMAIN r \ Optional : r[f] # None
    BY <2>1 DEF Harmless
  <2> QED
    BY <1>2, <1>4, <2>2, <2>3, <2>4, <2>5, <2>6, <2>7, <2>8 DEF RecordIsWellTyped, HasRightFields
<1> QED
  BY <1>3, <1>4

-----------------------------------------------------------------------------
(* The checks of a record alone are exact. *)

LEMMA RightFieldIs ==
    ASSUME NEW r, HasPlausibleValues(r)
    PROVE  /\ \A f \in {"event_id", "evidence_id", "checkpoint_id", "record_id", "tool", "kind"} :
                f \in DOMAIN r /\ Harmless(r, f) <=> Get(r, f) # None
           /\ \A f \in {"payload_sha256", "plan_sha256"} :
                f \in DOMAIN r /\ Harmless(r, f) <=> Get(r, f) \in Payload
           /\ \A f \in {"revision", "checkpoint_sequence", "completed_count"} :
                f \in DOMAIN r /\ Harmless(r, f) <=> Get(r, f) \in Nat
           /\ \A f \in DOMAIN scope : f \in DOMAIN r /\ Harmless(r, f) <=> Get(r, f) = scope[f]
           /\ "sequence" \in DOMAIN r /\ Harmless(r, "sequence") <=> Get(r, "sequence") \in Nat
           /\ "decision" \in DOMAIN r /\ Harmless(r, "decision")
                <=> Get(r, "decision") \in {"approved", "denied"}
           /\ "readback" \in DOMAIN r /\ Harmless(r, "readback")
                <=> Get(r, "readback") \in {"present", "absent", "ambiguous"}
           /\ "event_kind" \in DOMAIN r /\ Harmless(r, "event_kind")
                <=> Get(r, "event_kind") \in {"output", "completed", "failed"}
<1> USE DEF Get, Harmless
<1>1. ASSUME NEW f \in {"event_id", "evidence_id", "checkpoint_id", "record_id", "tool", "kind"}
      PROVE  f \in DOMAIN r /\ Harmless(r, f) <=> Get(r, f) # None
  BY ScopeIs
<1>2. ASSUME NEW f \in {"payload_sha256", "plan_sha256"}
      PROVE  f \in DOMAIN r /\ Harmless(r, f) <=> Get(r, f) \in Payload
  BY ScopeIs, NoneIsMissing DEF HasPlausibleValues
<1>3. ASSUME NEW f \in {"revision", "checkpoint_sequence", "completed_count"}
      PROVE  f \in DOMAIN r /\ Harmless(r, f) <=> Get(r, f) \in Nat
  BY ScopeIs, NoneIsMissing
<1>4. ASSUME NEW f \in DOMAIN scope
      PROVE  f \in DOMAIN r /\ Harmless(r, f) <=> Get(r, f) = scope[f]
  BY ScopeIs, NoneIsMissing
<1>5. "sequence" \in DOMAIN r /\ Harmless(r, "sequence") <=> Get(r, "sequence") \in Nat
  BY ScopeIs, NoneIsMissing DEF HasPlausibleValues
<1>6. "decision" \in DOMAIN r /\ Harmless(r, "decision")
        <=> Get(r, "decision") \in {"approved", "denied"}
  BY ScopeIs, NoneIsMissing DEF HasPlausibleValues
<1>7. "readback" \in DOMAIN r /\ Harmless(r, "readback")
        <=> Get(r, "readback") \in {"present", "absent", "ambiguous"}
  BY ScopeIs, NoneIsMissing DEF HasPlausibleValues
<1>8. "event_kind" \in DOMAIN r /\ Harmless(r, "event_kind")
        <=> Get(r, "event_kind") \in {"output", "completed", "failed"}
  BY ScopeIs, NoneIsMissing, ForeignAssumption DEF HasPlausibleValues
<1> QED
  BY <1>1, <1>2, <1>3, <1>4, <1>5, <1>6, <1>7, <1>8

LEMMA RightIsSound ==
    ASSUME NEW r, HasPlausibleValues(r), "kind" \in DOMAIN r, r["kind"] \in _RECORD_KINDS
    PROVE  HasRightFields(r) <=> LocallySound(r)
<1> DEFINE kind == r["kind"]
           Right(f) == f \in DOMAIN r /\ Harmless(r, f)
<1>1. Get(r, "kind") = kind
  BY DEF Get
<1>2. Right("sequence") => Get(r, "sequence") = r["sequence"]
  BY DEF Get
<1>3. /\ \A f \in {"event_id", "evidence_id", "checkpoint_id", "record_id", "tool", "kind"} :
            Right(f) <=> Get(r, f) # None
      /\ \A f \in {"payload_sha256", "plan_sha256"} : Right(f) <=> Get(r, f) \in Payload
      /\ \A f \in {"revision", "checkpoint_sequence", "completed_count"} :
            Right(f) <=> Get(r, f) \in Nat
      /\ \A f \in DOMAIN scope : Right(f) <=> Get(r, f) = scope[f]
      /\ Right("sequence") <=> Get(r, "sequence") \in Nat
      /\ Right("decision") <=> Get(r, "decision") \in {"approved", "denied"}
      /\ Right("readback") <=> Get(r, "readback") \in {"present", "absent", "ambiguous"}
      /\ Right("event_kind") <=> Get(r, "event_kind") \in {"output", "completed", "failed"}
  BY RightFieldIs
<1>4. HasRightFields(r)
        <=> (\A f \in FieldsOf(kind) \ Optional : Right(f)) /\ Get(r, "sequence") \in Nat \ {0}
  <2>1. "sequence" \in FieldsOf(kind) \ Optional
    BY CommonFieldsOf DEF CommonFields
  <2> QED
    BY <1>2, <2>1 DEF HasRightFields
<1>5. Right("kind")
  BY <1>1, <1>3, NoneIsMissing DEF _RECORD_KINDS
<1>6. \A f \in DOMAIN scope : Right(f) <=> HasScope(r, {f})
  BY <1>3 DEF HasScope
<1> HIDE DEF Right
<1>7. CASE kind = "runtime_event"
  <2>1. FieldsOf(kind) \ Optional = EventFields
    BY <1>7 DEF FieldsOf, EventFields, Optional
  <2> QED
    BY <1>1, <1>3, <1>4, <1>5, <1>7, <2>1, ScopeIs DEF EventFields, LocallySound, HasScope, _RECORD_KINDS
<1>8. CASE kind = "checkpoint"
  <2>1. FieldsOf(kind) \ Optional = CheckpointFields \ {"parent_checkpoint_id"}
    BY <1>8 DEF FieldsOf, CheckpointFields, Optional
  <2> QED
    BY <1>1, <1>3, <1>4, <1>5, <1>8, <2>1, ScopeIs DEF CheckpointFields, LocallySound, HasScope, _RECORD_KINDS
<1>9. CASE kind = "approval"
  <2>1. FieldsOf(kind) \ Optional = ApprovalFields \ {"effect_sha256"}
    BY <1>9 DEF FieldsOf, ApprovalFields, Optional
  <2> QED
    BY <1>1, <1>3, <1>4, <1>5, <1>9, <2>1, ScopeIs DEF ApprovalFields, LocallySound, HasScope, _RECORD_KINDS
<1>10. CASE kind = "effect"
  <2>1. FieldsOf(kind) \ Optional = EffectFields \ {"effect_sha256", "idempotency_key"}
    BY <1>10 DEF FieldsOf, EffectFields, Optional
  <2> QED
    BY <1>1, <1>3, <1>4, <1>5, <1>10, <2>1, ScopeIs DEF EffectFields, LocallySound, HasScope, _RECORD_KINDS
<1>11. CASE kind = "provider_evidence"
  <2>1. FieldsOf(kind) \ Optional = EvidenceFields \ {"effect_sha256"}
    BY <1>11 DEF FieldsOf, EvidenceFields, Optional
  <2> QED
    BY <1>1, <1>3, <1>4, <1>5, <1>11, <2>1, ScopeIs DEF EvidenceFields, LocallySound, HasScope, _RECORD_KINDS
<1>12. CASE kind = "reconciliation_completion"
  <2>1. FieldsOf(kind) \ Optional = CompletionFields \ {"effect_sha256"}
    BY <1>12 DEF FieldsOf, CompletionFields, Optional
  <2> QED
    BY <1>1, <1>3, <1>4, <1>5, <1>12, <2>1, ScopeIs DEF CompletionFields, LocallySound, HasScope, _RECORD_KINDS
<1> QED
  BY <1>7, <1>8, <1>9, <1>10, <1>11, <1>12 DEF _RECORD_KINDS

\* What makes a record coherent alone is what the validator checks of it alone.
LEMMA WellTypedIsSound ==
    ASSUME NEW r, Plausible(r)
    PROVE  RecordIsWellTyped(r) /\ r["sequence"] > 0 <=> LocallySound(r)
<1>1. HasPlausibleValues(r)
  BY PlausibleValues
<1>2. CASE "kind" \in DOMAIN r /\ r["kind"] \in _RECORD_KINDS
  BY <1>1, <1>2, WellTypedIsRight, RightIsSound
<1>3. CASE ~ ("kind" \in DOMAIN r /\ r["kind"] \in _RECORD_KINDS)
  <2>1. Get(r, "kind") \notin _RECORD_KINDS
    BY <1>3, NoneIsMissing DEF Get, _RECORD_KINDS
  <2>2. ~ RecordIsWellTyped(r)
    BY <2>1, RequiredKind DEF RecordIsWellTyped
  <2> QED
    BY <2>1, <2>2 DEF LocallySound
<1> QED
  BY <1>2, <1>3

-----------------------------------------------------------------------------
(* What makes a record coherent with the records before it. *)

\* The records of these kinds before m.
Before(t, m, kinds) == {j \in At(t, kinds) : j < m}

\* What makes record i coherent with the records before it.
Linked(t, i) ==
    LET r == t[i]
        earlier(kinds) == Before(t, i, kinds)
    IN /\ r.kind = "runtime_event" =>
            \A j \in earlier({"runtime_event"}) : t[j].event_id # r.event_id
       /\ r.kind \in {"approval", "effect"} =>
            Get(r, "effect_sha256") = EffectFingerprint(<<r.tool, r.payload_sha256>>)
       /\ r.kind \notin {"runtime_event", "checkpoint"} =>
            \A j \in earlier({"approval", "effect"}) :
                Get(t[j], "effect_sha256") = Get(r, "effect_sha256")
       /\ r.kind = "effect" =>
            /\ \E j \in earlier({"approval"}) : t[j].decision = "approved"
            /\ \A j \in earlier({"approval"}) : t[j].decision = "approved"
       /\ r.kind = "checkpoint" =>
            /\ r.checkpoint_sequence = Cardinality(earlier({"checkpoint"}))
            /\ Get(r, "parent_checkpoint_id")
                = IF earlier({"checkpoint"}) = {} THEN None
                  ELSE t[Max(earlier({"checkpoint"}))].checkpoint_id
            /\ \A j \in earlier({"checkpoint"}) :
                /\ t[j].plan_sha256 = r.plan_sha256
                /\ t[j].completed_count <= r.completed_count
       /\ r.kind = "provider_evidence" =>
            \A j \in earlier({"provider_evidence"}) :
                /\ t[j].evidence_id # r.evidence_id
                /\ t[j].revision <= r.revision
                /\ t[j].revision = r.revision =>
                        /\ t[j].readback = r.readback
                        /\ Get(t[j], "effect_sha256") = Get(r, "effect_sha256")
       /\ r.kind = "reconciliation_completion" =>
            /\ earlier({"reconciliation_completion"}) = {}
            /\ \E j \in earlier({"provider_evidence"}) :
                /\ t[j].readback = "present"
                /\ t[j].evidence_id = r.evidence_id
                /\ t[j].revision = r.revision
                /\ Get(t[j], "effect_sha256") = Get(r, "effect_sha256")
            /\ \A j \in earlier({"provider_evidence"}) : t[j].revision <= r.revision

\* A set of positions has at most one element if none is before another.
LEMMA AtMostOne ==
    ASSUME NEW n \in Nat, NEW S \in SUBSET (1 .. n)
    PROVE  Cardinality(S) <= 1 <=> \A i, j \in S : ~ (j < i)
<1>1. IsFiniteSet(S)
  <2>1. IsFiniteSet(1 .. n)
    BY FS_Interval
  <2> QED
    BY <2>1, FS_Subset
<1>2. ASSUME Cardinality(S) <= 1, NEW i \in S, NEW j \in S, j < i PROVE FALSE
  <2>1. IsFiniteSet({i}) /\ Cardinality({i}) = 1
    BY FS_Singleton
  <2>2. Cardinality({i} \cup {j}) = 2
    BY <1>2, <2>1, FS_AddElement
  <2>3. {i} \cup {j} \subseteq S
    BY <1>2
  <2> QED
    BY <1>1, <1>2, <2>2, <2>3, FS_Subset, FS_CardinalityType
<1>3. ASSUME \A i, j \in S : ~ (j < i) PROVE Cardinality(S) <= 1
  <2>1. CASE S = {}
    BY <2>1, FS_EmptySet
  <2>2. CASE S # {}
    <3>1. PICK i : i \in S
      BY <2>2
    <3>2. ASSUME NEW j \in S PROVE j = i
      <4>1. j \in Int /\ i \in Int
        BY <3>1
      <4> QED
        BY <1>3, <3>1, <4>1
    <3>3. S = {i}
      BY <3>1, <3>2
    <3> QED
      BY <3>3, FS_Singleton
  <2> QED
    BY <2>1, <2>2
<1> QED
  BY <1>2, <1>3

\* The relations between all records of a trace are those of each to the ones before it.
LEMMA CoherentIsLinked ==
    ASSUME NEW t, NEW n \in Nat, DOMAIN t = 1 .. n
    PROVE  Coherent(t) <=> WellTyped(t) /\ Ordered(t) /\ \A i \in DOMAIN t : Linked(t, i)
<1>1. EventsAreDistinct(t)
        <=> \A i \in DOMAIN t : t[i].kind = "runtime_event" =>
                \A j \in Before(t, i, {"runtime_event"}) : t[j].event_id # t[i].event_id
  BY DEF EventsAreDistinct, At, Before
<1>2. OneEffectIsApproved(t)
        <=> \A i \in DOMAIN t :
                /\ t[i].kind \in {"approval", "effect"} =>
                    Get(t[i], "effect_sha256") = EffectFingerprint(<<t[i].tool, t[i].payload_sha256>>)
                /\ t[i].kind \notin {"runtime_event", "checkpoint"} =>
                    \A j \in Before(t, i, {"approval", "effect"}) :
                        Get(t[j], "effect_sha256") = Get(t[i], "effect_sha256")
                /\ t[i].kind = "effect" =>
                    /\ \E j \in Before(t, i, {"approval"}) : t[j].decision = "approved"
                    /\ \A j \in Before(t, i, {"approval"}) : t[j].decision = "approved"
  <2>1. (\A i \in Bindings(t) : Get(t[i], "effect_sha256")
                                = EffectFingerprint(<<t[i].tool, t[i].payload_sha256>>))
        <=> \A i \in DOMAIN t : t[i].kind \in {"approval", "effect"} =>
                Get(t[i], "effect_sha256") = EffectFingerprint(<<t[i].tool, t[i].payload_sha256>>)
    BY DEF Bindings, At
  <2>2. (\A i \in Bindings(t), j \in DOMAIN t \ At(t, {"runtime_event", "checkpoint"}) :
            i < j => Get(t[i], "effect_sha256") = Get(t[j], "effect_sha256"))
        <=> \A i \in DOMAIN t : t[i].kind \notin {"runtime_event", "checkpoint"} =>
                \A j \in Before(t, i, {"approval", "effect"}) :
                    Get(t[j], "effect_sha256") = Get(t[i], "effect_sha256")
    BY DEF Bindings, At, Before
  <2>3. (\A i \in At(t, {"effect"}) :
            /\ \E j \in At(t, {"approval"}) : j < i /\ t[j].decision = "approved"
            /\ \A j \in At(t, {"approval"}) : j < i => t[j].decision = "approved")
        <=> \A i \in DOMAIN t : t[i].kind = "effect" =>
                    /\ \E j \in Before(t, i, {"approval"}) : t[j].decision = "approved"
                    /\ \A j \in Before(t, i, {"approval"}) : t[j].decision = "approved"
    BY DEF At, Before
  <2> QED
    BY <2>1, <2>2, <2>3 DEF OneEffectIsApproved
<1>3. CheckpointsFormALineage(t)
        <=> \A i \in DOMAIN t : t[i].kind = "checkpoint" =>
            /\ t[i].checkpoint_sequence = Cardinality(Before(t, i, {"checkpoint"}))
            /\ Get(t[i], "parent_checkpoint_id")
                = IF Before(t, i, {"checkpoint"}) = {} THEN None
                  ELSE t[Max(Before(t, i, {"checkpoint"}))].checkpoint_id
            /\ \A j \in Before(t, i, {"checkpoint"}) :
                /\ t[j].plan_sha256 = t[i].plan_sha256
                /\ t[j].completed_count <= t[i].completed_count
  BY DEF CheckpointsFormALineage, At, Before
<1>4. EvidenceIsMonotonic(t)
        <=> \A i \in DOMAIN t : t[i].kind = "provider_evidence" =>
            \A j \in Before(t, i, {"provider_evidence"}) :
                /\ t[j].evidence_id # t[i].evidence_id
                /\ t[j].revision <= t[i].revision
                /\ t[j].revision = t[i].revision =>
                        /\ t[j].readback = t[i].readback
                        /\ Get(t[j], "effect_sha256") = Get(t[i], "effect_sha256")
  BY DEF EvidenceIsMonotonic, At, Before
<1>5. CompletionBindsLatestEvidence(t)
        <=> \A i \in DOMAIN t : t[i].kind = "reconciliation_completion" =>
            /\ Before(t, i, {"reconciliation_completion"}) = {}
            /\ \E j \in Before(t, i, {"provider_evidence"}) :
                /\ t[j].readback = "present"
                /\ t[j].evidence_id = t[i].evidence_id
                /\ t[j].revision = t[i].revision
                /\ Get(t[j], "effect_sha256") = Get(t[i], "effect_sha256")
            /\ \A j \in Before(t, i, {"provider_evidence"}) : t[j].revision <= t[i].revision
  <2>1. Cardinality(At(t, {"reconciliation_completion"})) <= 1
        <=> \A i, j \in At(t, {"reconciliation_completion"}) : ~ (j < i)
    BY AtMostOne DEF At
  <2>2. Cardinality(At(t, {"reconciliation_completion"})) <= 1
        <=> \A i \in DOMAIN t : t[i].kind = "reconciliation_completion" =>
                Before(t, i, {"reconciliation_completion"}) = {}
    BY <2>1 DEF At, Before
  <2>3. (\A i \in At(t, {"reconciliation_completion"}) :
            /\ \E j \in At(t, {"provider_evidence"}) :
                /\ j < i
                /\ t[j].readback = "present"
                /\ t[j].evidence_id = t[i].evidence_id
                /\ t[j].revision = t[i].revision
                /\ Get(t[j], "effect_sha256") = Get(t[i], "effect_sha256")
            /\ \A j \in At(t, {"provider_evidence"}) : j < i => t[j].revision <= t[i].revision)
        <=> \A i \in DOMAIN t : t[i].kind = "reconciliation_completion" =>
            /\ \E j \in Before(t, i, {"provider_evidence"}) :
                /\ t[j].readback = "present"
                /\ t[j].evidence_id = t[i].evidence_id
                /\ t[j].revision = t[i].revision
                /\ Get(t[j], "effect_sha256") = Get(t[i], "effect_sha256")
            /\ \A j \in Before(t, i, {"provider_evidence"}) : t[j].revision <= t[i].revision
    BY DEF At, Before
  <2> QED
    BY <2>2, <2>3 DEF CompletionBindsLatestEvidence
<1> QED
  BY <1>1, <1>2, <1>3, <1>4, <1>5 DEF Coherent, Linked

\* Record i is sound alone and coherent with the records before it.
Fits(t, i) == LocallySound(t[i]) /\ Linked(t, i)

\* A trace of plausible records is coherent if each record is sound alone, fits to the
\* records before it, and has a greater number and another id than these.
LEMMA CoherentIs ==
    ASSUME NEW t, NEW n \in Nat, DOMAIN t = 1 .. n, \A i \in DOMAIN t : Plausible(t[i])
    PROVE  Coherent(t)
            <=> /\ \A i \in DOMAIN t : Fits(t, i)
                /\ \A i, j \in DOMAIN t :
                    i < j => /\ t[i].sequence < t[j].sequence
                             /\ t[i].record_id # t[j].record_id
<1>1. \A i \in DOMAIN t : RecordIsWellTyped(t[i]) /\ t[i].sequence > 0 <=> LocallySound(t[i])
  BY WellTypedIsSound
<1> QED
  BY <1>1, CoherentIsLinked DEF Fits, WellTyped, Ordered

-----------------------------------------------------------------------------
(* What the validator remembers of the records before one, and its checks against it:
   events, the binding, approvals and effects. *)

\* Records of one fingerprint have one tool and one payload (effect_fingerprint).
LEMMA FingerprintIsInjective ==
    ASSUME NEW x, NEW y, NEW z, NEW w,
           EffectFingerprint(<<x, y>>) = EffectFingerprint(<<z, w>>)
    PROVE  x = z /\ y = w
<1> DEFINE s == <<scope.provider, scope.operation_id>>
<1>1. ASSUME NEW u, NEW v
      PROVE  (s \o <<u, v>>)[3] = u /\ (s \o <<u, v>>)[4] = v
  <2> DEFINE X == {scope.provider, scope.operation_id, u, v}
             p == <<u, v>>
  <2>1. s \in Seq(X) /\ Len(s) = 2
    OBVIOUS
  <2>2. p \in Seq(X) /\ Len(p) = 2 /\ p[1] = u /\ p[2] = v
    OBVIOUS
  <2> HIDE DEF s, p, X
  <2>3. (s \o p)[3] = p[1] /\ (s \o p)[4] = p[2]
    <3>1. \A i \in 1 .. Len(s) + Len(p) :
            (s \o p)[i] = IF i <= Len(s) THEN s[i] ELSE p[i - Len(s)]
      BY <2>1, <2>2, ConcatProperties, Zenon
    <3>2. 3 \in 1 .. Len(s) + Len(p) /\ 4 \in 1 .. Len(s) + Len(p)
      BY <2>1, <2>2
    <3>3. ~ (3 <= Len(s)) /\ ~ (4 <= Len(s))
      BY <2>1
    <3>4. (s \o p)[3] = p[3 - Len(s)] /\ (s \o p)[4] = p[4 - Len(s)]
      BY <3>1, <3>2, <3>3, Zenon
    <3> QED
      BY <2>1, <3>4
  <2> QED
    BY <2>2, <2>3 DEF p
<1> HIDE DEF s
<1> QED
  BY <1>1 DEF EffectFingerprint, s

\* A trace of n records.
IsTrace(t, n) == n \in Nat /\ DOMAIN t = 1 .. n /\ \A i \in DOMAIN t : Plausible(t[i])

Increasing(t) == \A i, j \in DOMAIN t : i < j => t[i].sequence < t[j].sequence

\* The records before m are sound.
FitBefore(t, m) == \A i \in DOMAIN t : i < m => Fits(t, i)

\* A sound record has the fields of its kind, with values of their types.
LEMMA FittingRecord ==
    ASSUME NEW r, Plausible(r), LocallySound(r)
    PROVE  /\ {"kind", "sequence", "record_id"} \subseteq DOMAIN r
           /\ r.kind \in _RECORD_KINDS /\ Get(r, "kind") = r.kind
           /\ r.sequence \in Nat \ {0}
           /\ r.kind \in {"approval", "effect"} =>
                /\ {"tool", "payload_sha256"} \subseteq DOMAIN r
                /\ r.tool \in {"tool", Foreign} /\ r.payload_sha256 \in Payload
           /\ r.kind = "approval" => "decision" \in DOMAIN r /\ r.decision \in {"approved", "denied"}
           /\ r.kind = "runtime_event" => "event_id" \in DOMAIN r /\ r.event_id # None
           /\ r.kind = "provider_evidence" =>
                /\ {"evidence_id", "revision", "readback"} \subseteq DOMAIN r
                /\ r.evidence_id # None /\ r.revision \in Nat
           /\ r.kind = "checkpoint" =>
                /\ r \in [CheckpointFields -> Value]
                         \cup [CheckpointFields \ {"parent_checkpoint_id"} -> Value]
                /\ {"checkpoint_id", "checkpoint_sequence", "plan_sha256", "completed_count"}
                        \subseteq DOMAIN r
                /\ r.checkpoint_sequence \in Nat /\ r.completed_count \in Nat
<1>1. HasPlausibleValues(r)
  BY PlausibleValues
<1>2. "kind" \in DOMAIN r /\ r.kind \in _RECORD_KINDS /\ Get(r, "kind") = r.kind
  BY NoneIsMissing DEF LocallySound, Get, _RECORD_KINDS
<1>3. "sequence" \in DOMAIN r /\ "record_id" \in DOMAIN r /\ r.sequence \in Nat \ {0}
  BY NoneIsMissing DEF LocallySound, Get
<1>4. r.kind \in {"approval", "effect"} =>
                /\ {"tool", "payload_sha256"} \subseteq DOMAIN r
                /\ r.tool \in {"tool", Foreign} /\ r.payload_sha256 \in Payload
  BY <1>1, <1>2, NoneIsMissing DEF LocallySound, Get, HasPlausibleValues
<1>5. r.kind = "approval" => "decision" \in DOMAIN r /\ r.decision \in {"approved", "denied"}
  BY <1>2, NoneIsMissing DEF LocallySound, Get
<1>6. r.kind = "runtime_event" => "event_id" \in DOMAIN r /\ r.event_id # None
  BY <1>2, NoneIsMissing DEF LocallySound, Get
<1>7. r.kind = "provider_evidence" =>
                /\ {"evidence_id", "revision", "readback"} \subseteq DOMAIN r
                /\ r.evidence_id # None /\ r.revision \in Nat
  BY <1>2, NoneIsMissing DEF LocallySound, Get
<1>8. ASSUME r.kind = "checkpoint"
      PROVE  /\ r \in [CheckpointFields -> Value]
                      \cup [CheckpointFields \ {"parent_checkpoint_id"} -> Value]
             /\ {"checkpoint_id", "checkpoint_sequence", "plan_sha256", "completed_count"}
                        \subseteq DOMAIN r
             /\ r.checkpoint_sequence \in Nat /\ r.completed_count \in Nat
  <2>1. /\ {"checkpoint_id", "checkpoint_sequence", "plan_sha256", "completed_count", "run_id"}
                \subseteq DOMAIN r
        /\ r.checkpoint_sequence \in Nat /\ r.completed_count \in Nat
    BY <1>2, <1>8, NoneIsMissing, ScopeIs DEF LocallySound, Get, HasScope
  <2>2. PICK q : Written(q) /\ \E f \in DOMAIN q : DiffersIn(r, q, f)
    BY DEF Plausible
  <2>3. DOMAIN r \subseteq DOMAIN q /\ DOMAIN q = FieldsOf(q.kind) /\ q.kind \in _RECORD_KINDS
    BY <2>2 DEF Written, HasFieldsOfItsKind, DiffersIn
  <2>4. DOMAIN q = CheckpointFields
    BY <2>1, <2>3 DEF FieldsOf, EventFields, ApprovalFields, EffectFields, EvidenceFields,
          CompletionFields, _RECORD_KINDS
  <2>5. DOMAIN r = CheckpointFields \/ DOMAIN r = CheckpointFields \ {"parent_checkpoint_id"}
    BY <1>2, <1>3, <2>1, <2>3, <2>4 DEF CheckpointFields
  <2>6. r \in [DOMAIN r -> Value]
    BY DEF Plausible
  <2> QED
    BY <2>1, <2>5, <2>6
<1> QED
  BY <1>2, <1>3, <1>4, <1>5, <1>6, <1>7, <1>8

\* The local variables of validate_trace while there is no violation.
Locals(v, b, a, d, c, e, k) ==
    [sound |-> TRUE, event_ids |-> v, binding |-> b, approved |-> a, denied |-> d,
     checkpoint |-> c, evidence |-> e, completions |-> k]

EventsTracked(t, m, v) == v = {t[j].event_id : j \in Before(t, m, {"runtime_event"})}

BindingTracked(t, m, b) ==
    LET earlier == Before(t, m, {"approval", "effect"})
    IN /\ b = None <=> earlier = {}
       /\ \A j \in earlier : /\ <<t[j].tool, t[j].payload_sha256>> = b
                             /\ Get(t[j], "effect_sha256") = EffectFingerprint(b)

DecisionTracked(t, m, a, decision) ==
    LET earlier == {j \in Before(t, m, {"approval"}) : t[j].decision = decision}
    IN /\ a = None <=> earlier = {}
       /\ a # None => \E j \in earlier : a = t[j].sequence

CheckpointTracked(t, m, c) ==
    LET earlier == Before(t, m, {"checkpoint"})
    IN /\ c = None <=> earlier = {}
       /\ c # None => \E p \in earlier : c = t[p] /\ \A j \in earlier : j <= p

EvidenceTracked(t, m, e) ==
    LET earlier == Before(t, m, {"provider_evidence"})
    IN /\ \E X : e \in Seq(X)
       /\ ToSet(e) = {t[j] : j \in earlier}
       /\ e # <<>> => \E p \in earlier : Last(e) = t[p] /\ \A j \in earlier : j <= p

CompletionsTracked(t, m, k) ==
    k \in Nat /\ (k = 0 <=> Before(t, m, {"reconciliation_completion"}) = {})

\* What the validator remembers of the records before m.
Tracked(t, m, s) ==
    \E v, b, a, d, c, e, k :
        /\ s = Locals(v, b, a, d, c, e, k)
        /\ EventsTracked(t, m, v)
        /\ BindingTracked(t, m, b)
        /\ DecisionTracked(t, m, a, "approved")
        /\ DecisionTracked(t, m, d, "denied")
        /\ CheckpointTracked(t, m, c)
        /\ EvidenceTracked(t, m, e)
        /\ CompletionsTracked(t, m, k)

\* The ids remembered are enough to find a repeated event.
LEMMA EventIsSound ==
    ASSUME NEW t, NEW m, NEW s, EventsTracked(t, m, s.event_ids)
    PROVE  EventSound(s, t[m])
            <=> /\ HasScope(t[m], {"run_id", "turn_id"})
                /\ Get(t[m], "event_id") # None
                /\ Get(t[m], "event_kind") \in {"output", "completed", "failed"}
                /\ Get(t[m], "payload_sha256") \in Payload
                /\ \A j \in Before(t, m, {"runtime_event"}) : t[j].event_id # t[m].event_id
<1>1. Get(t[m], "event_id") # None => Get(t[m], "event_id") = t[m].event_id
  BY DEF Get
<1> QED
  BY <1>1 DEF EventSound, EventsTracked

\* The first binding is enough to compare a record with all before it.
LEMMA BindingIsSoundExactly ==
    ASSUME NEW t, NEW m, NEW s, BindingTracked(t, m, s.binding)
    PROVE  BindingSound(s, t[m])
            <=> /\ Get(t[m], "tool") # None
                /\ Get(t[m], "payload_sha256") \in Payload
                /\ Get(t[m], "effect_sha256")
                    = EffectFingerprint(<<t[m].tool, t[m].payload_sha256>>)
                /\ \A j \in Before(t, m, {"approval", "effect"}) :
                    Get(t[j], "effect_sha256") = Get(t[m], "effect_sha256")
<1> DEFINE r == t[m]
           earlier == Before(t, m, {"approval", "effect"})
<1>1. SUFFICES ASSUME Get(r, "tool") # None, Get(r, "payload_sha256") \in Payload
               PROVE  /\ Bound(s, r) = <<r.tool, r.payload_sha256>>
                      /\ Get(r, "effect_sha256") = EffectFingerprint(Bound(s, r))
                      <=>
                      /\ Get(r, "effect_sha256") = EffectFingerprint(<<r.tool, r.payload_sha256>>)
                      /\ \A j \in earlier : Get(t[j], "effect_sha256") = Get(r, "effect_sha256")
  BY DEF BindingSound
<1>2. Get(r, "tool") = r.tool /\ Get(r, "payload_sha256") = r.payload_sha256
  BY <1>1, NoneIsMissing DEF Get
<1>3. CASE s.binding = None
  BY <1>2, <1>3 DEF Bound, BindingTracked
<1>4. CASE s.binding # None
  <2>1. Bound(s, r) = s.binding /\ earlier # {}
    BY <1>4 DEF Bound, BindingTracked
  <2>2. PICK j \in earlier : TRUE
    BY <2>1
  <2>3. /\ s.binding = <<t[j].tool, t[j].payload_sha256>>
        /\ \A i \in earlier : Get(t[i], "effect_sha256") = EffectFingerprint(s.binding)
    BY <2>2 DEF BindingTracked
  <2> HIDE DEF earlier, r
  <2>4. EffectFingerprint(<<r.tool, r.payload_sha256>>) = EffectFingerprint(s.binding)
            => <<r.tool, r.payload_sha256>> = s.binding
    BY <2>3, FingerprintIsInjective
  <2> QED
    BY <2>1, <2>2, <2>3, <2>4
<1> QED
  BY <1>3, <1>4

LEMMA FingerprintedExactly ==
    ASSUME NEW t, NEW m, NEW s, BindingTracked(t, m, s.binding)
    PROVE  Fingerprinted(s, t[m])
            <=> \A j \in Before(t, m, {"approval", "effect"}) :
                    Get(t[j], "effect_sha256") = Get(t[m], "effect_sha256")
  BY DEF Fingerprinted, BindingTracked

\* The last approval and the last denial are enough to find a denial before an effect,
\* as sequence numbers increase.
LEMMA EffectIsSound ==
    ASSUME NEW t, NEW n, IsTrace(t, n), Increasing(t), NEW m \in DOMAIN t, FitBefore(t, m), NEW s,
           BindingTracked(t, m, s.binding), t[m].sequence \in Nat,
           DecisionTracked(t, m, s.approved, "approved"), DecisionTracked(t, m, s.denied, "denied")
    PROVE  EffectSound(s, t[m])
            <=> /\ BindingSound(s, t[m])
                /\ \E j \in Before(t, m, {"approval"}) : t[j].decision = "approved"
                /\ \A j \in Before(t, m, {"approval"}) : t[j].decision = "approved"
<1>1. ASSUME NEW j \in Before(t, m, {"approval"})
      PROVE  /\ t[j].decision \in {"approved", "denied"}
             /\ t[j].sequence \in Nat /\ t[j].sequence < t[m].sequence
  <2>1. j \in DOMAIN t /\ j < m /\ t[j].kind = "approval"
    BY <1>1 DEF Before, At
  <2> QED
    BY <2>1, FittingRecord DEF IsTrace, Increasing, FitBefore, Fits
<1>2. s.approved # None /\ s.approved < t[m].sequence
        <=> \E j \in Before(t, m, {"approval"}) : t[j].decision = "approved"
  BY <1>1 DEF DecisionTracked
<1>3. (s.denied # None => s.denied >= t[m].sequence)
        <=> \A j \in Before(t, m, {"approval"}) : t[j].decision = "approved"
  BY <1>1 DEF DecisionTracked
<1> QED
  BY <1>2, <1>3 DEF EffectSound

-----------------------------------------------------------------------------
(* Checkpoints, evidence and completions. *)

LEMMA BeforeIsFinite ==
    ASSUME NEW t, NEW n, IsTrace(t, n), NEW m, NEW kinds
    PROVE  /\ Before(t, m, kinds) \in SUBSET (1 .. n)
           /\ IsFiniteSet(Before(t, m, kinds))
<1>1. Before(t, m, kinds) \in SUBSET (1 .. n) /\ n \in Nat
  BY DEF Before, At, IsTrace
<1>2. IsFiniteSet(1 .. n)
  BY <1>1, FS_Interval
<1> QED
  BY <1>1, <1>2, FS_Subset

\* The last checkpoint is enough to compare a checkpoint with all before it.
LEMMA CheckpointIsSound ==
    ASSUME NEW t, NEW n, IsTrace(t, n), NEW m \in DOMAIN t, FitBefore(t, m), NEW s,
           CheckpointTracked(t, m, s.checkpoint)
    PROVE  CheckpointSound(s, t[m])
            <=> /\ HasScope(t[m], {"run_id"})
                /\ Get(t[m], "checkpoint_id") # None
                /\ Get(t[m], "checkpoint_sequence") \in Nat
                /\ Get(t[m], "completed_count") \in Nat
                /\ Get(t[m], "plan_sha256") \in Payload
                /\ t[m].checkpoint_sequence = Cardinality(Before(t, m, {"checkpoint"}))
                /\ Get(t[m], "parent_checkpoint_id")
                    = IF Before(t, m, {"checkpoint"}) = {} THEN None
                      ELSE t[Max(Before(t, m, {"checkpoint"}))].checkpoint_id
                /\ \A j \in Before(t, m, {"checkpoint"}) :
                    /\ t[j].plan_sha256 = t[m].plan_sha256
                    /\ t[j].completed_count <= t[m].completed_count
<1> DEFINE r == t[m]
           earlier == Before(t, m, {"checkpoint"})
           parent == Get(r, "parent_checkpoint_id")
<1>1. SUFFICES ASSUME Get(r, "checkpoint_id") # None,
                      Get(r, "checkpoint_sequence") \in Nat,
                      Get(r, "completed_count") \in Nat
               PROVE  (IF s.checkpoint = None
                       THEN parent = None /\ r.checkpoint_sequence = 0
                       ELSE /\ parent = s.checkpoint.checkpoint_id
                            /\ r.checkpoint_sequence = s.checkpoint.checkpoint_sequence + 1
                            /\ r.plan_sha256 = s.checkpoint.plan_sha256
                            /\ r.completed_count >= s.checkpoint.completed_count)
                      <=> /\ r.checkpoint_sequence = Cardinality(earlier)
                          /\ parent = IF earlier = {} THEN None ELSE t[Max(earlier)].checkpoint_id
                          /\ \A j \in earlier : /\ t[j].plan_sha256 = r.plan_sha256
                                                /\ t[j].completed_count <= r.completed_count
  BY DEF CheckpointSound
<1>2. r.checkpoint_sequence \in Nat /\ r.completed_count \in Nat
  BY <1>1, NoneIsMissing DEF Get
<1>3. CASE s.checkpoint = None
  <2>1. earlier = {}
    BY <1>3 DEF CheckpointTracked
  <2>2. Cardinality(earlier) = 0
    BY <2>1, FS_EmptySet
  <2> QED
    BY <1>3, <2>1, <2>2
<1>4. CASE s.checkpoint # None
  <2>1. PICK p \in earlier : s.checkpoint = t[p] /\ \A j \in earlier : j <= p
    BY <1>4 DEF CheckpointTracked
  <2>2. p \in DOMAIN t /\ p < m /\ t[p].kind = "checkpoint"
    BY <2>1 DEF Before, At
  <2>3. Fits(t, p) /\ Plausible(t[p])
    BY <2>2 DEF FitBefore, IsTrace
  <2>4. t[p].checkpoint_sequence \in Nat /\ t[p].completed_count \in Nat
    BY <2>2, <2>3, FittingRecord DEF Fits
  <2>5. /\ t[p].checkpoint_sequence = Cardinality(Before(t, p, {"checkpoint"}))
        /\ \A j \in Before(t, p, {"checkpoint"}) :
            /\ t[j].plan_sha256 = t[p].plan_sha256
            /\ t[j].completed_count <= t[p].completed_count
    BY <2>2, <2>3 DEF Fits, Linked
  <2>6. earlier = Before(t, p, {"checkpoint"}) \cup {p} /\ p \notin Before(t, p, {"checkpoint"})
    <3>1. At(t, {"checkpoint"}) \in SUBSET Int /\ m \in Int /\ p \in Int
      BY <2>2 DEF At, IsTrace
    <3>2. \A j \in At(t, {"checkpoint"}) : j < m <=> j < p \/ j = p
      BY <2>1, <2>2, <3>1 DEF Before
    <3>3. p \in At(t, {"checkpoint"})
      BY <2>1 DEF Before
    <3> QED
      BY <3>1, <3>2, <3>3 DEF Before
  <2>7. Cardinality(earlier) = t[p].checkpoint_sequence + 1
    BY <2>5, <2>6, BeforeIsFinite, FS_AddElement
  <2>8. Max(earlier) = p
    <3>1. earlier \in SUBSET Nat
      BY BeforeIsFinite
    <3> HIDE DEF earlier
    <3> QED
      BY <2>1, <3>1, GreatestIsMax
  <2>9. \A j \in earlier : t[j].completed_count \in Nat
    <3> TAKE j \in earlier
    <3>1. j \in DOMAIN t /\ j < m /\ t[j].kind = "checkpoint"
      BY DEF Before, At
    <3> QED
      BY <3>1, FittingRecord DEF FitBefore, IsTrace, Fits
  <2>10. (\A j \in earlier : /\ t[j].plan_sha256 = r.plan_sha256
                             /\ t[j].completed_count <= r.completed_count)
         <=> r.plan_sha256 = t[p].plan_sha256 /\ r.completed_count >= t[p].completed_count
    <3> HIDE DEF earlier, r
    <3> QED
      BY <1>2, <2>1, <2>4, <2>5, <2>6, <2>9
  <2> HIDE DEF earlier, r
  <2> QED
    BY <1>2, <1>4, <2>1, <2>4, <2>7, <2>8, <2>10
<1> QED
  BY <1>3, <1>4

\* The evidence before record m, and the last of it.
LEMMA EarlierEvidence ==
    ASSUME NEW t, NEW n, IsTrace(t, n), NEW m \in DOMAIN t, FitBefore(t, m),
           NEW j \in Before(t, m, {"provider_evidence"})
    PROVE  /\ Get(t[j], "evidence_id") = t[j].evidence_id /\ t[j].revision \in Nat
           /\ \A i \in Before(t, m, {"provider_evidence"}) : i < j =>
                /\ t[i].revision <= t[j].revision
                /\ t[i].revision = t[j].revision =>
                        /\ t[i].readback = t[j].readback
                        /\ Get(t[i], "effect_sha256") = Get(t[j], "effect_sha256")
<1>1. j \in DOMAIN t /\ j < m /\ t[j].kind = "provider_evidence"
  BY DEF Before, At
<1>2. Fits(t, j) /\ Plausible(t[j])
  BY <1>1 DEF FitBefore, IsTrace
<1>3. Get(t[j], "evidence_id") = t[j].evidence_id /\ t[j].revision \in Nat
  BY <1>1, <1>2, FittingRecord DEF Fits, Get
<1>4. \A i \in Before(t, m, {"provider_evidence"}) : i < j => i \in Before(t, j, {"provider_evidence"})
  BY DEF Before
<1> QED
  BY <1>1, <1>2, <1>3, <1>4 DEF Fits, Linked

\* The last evidence is enough to compare the revision with all before it.
LEMMA EvidenceIsSound ==
    ASSUME NEW t, NEW n, IsTrace(t, n), NEW m \in DOMAIN t, FitBefore(t, m), NEW s,
           EvidenceTracked(t, m, s.evidence)
    PROVE  EvidenceSound(s, t[m])
            <=> /\ Get(t[m], "evidence_id") # None
                /\ Get(t[m], "revision") \in Nat
                /\ Get(t[m], "readback") \in {"present", "absent", "ambiguous"}
                /\ Fingerprinted(s, t[m])
                /\ \A j \in Before(t, m, {"provider_evidence"}) :
                    /\ t[j].evidence_id # t[m].evidence_id
                    /\ t[j].revision <= t[m].revision
                    /\ t[j].revision = t[m].revision =>
                        /\ t[j].readback = t[m].readback
                        /\ Get(t[j], "effect_sha256") = Get(t[m], "effect_sha256")
<1> DEFINE r == t[m]
           earlier == Before(t, m, {"provider_evidence"})
           After(p) == \/ r.revision > p.revision
                       \/ /\ r.revision = p.revision
                          /\ r.readback = p.readback
                          /\ Get(r, "effect_sha256") = Get(p, "effect_sha256")
<1>1. SUFFICES ASSUME Get(r, "evidence_id") # None, Get(r, "revision") \in Nat
               PROVE  /\ Get(r, "evidence_id") \notin {Get(e, "evidence_id") : e \in ToSet(s.evidence)}
                      /\ s.evidence # <<>> => After(Last(s.evidence))
                      <=> \A j \in earlier :
                            /\ t[j].evidence_id # r.evidence_id
                            /\ t[j].revision <= r.revision
                            /\ t[j].revision = r.revision =>
                                /\ t[j].readback = r.readback
                                /\ Get(t[j], "effect_sha256") = Get(r, "effect_sha256")
  BY DEF EvidenceSound
<1>2. Get(r, "evidence_id") = r.evidence_id /\ r.revision \in Nat
  BY <1>1, NoneIsMissing DEF Get
<1>3. \A j \in earlier : Get(t[j], "evidence_id") = t[j].evidence_id /\ t[j].revision \in Nat
  BY EarlierEvidence
<1>4. ToSet(s.evidence) = {t[j] : j \in earlier}
  BY DEF EvidenceTracked
<1>5. Get(r, "evidence_id") \notin {Get(e, "evidence_id") : e \in ToSet(s.evidence)}
        <=> \A j \in earlier : t[j].evidence_id # r.evidence_id
  BY <1>2, <1>3, <1>4
<1>6. (s.evidence # <<>> => After(Last(s.evidence)))
        <=> \A j \in earlier :
                /\ t[j].revision <= r.revision
                /\ t[j].revision = r.revision =>
                    /\ t[j].readback = r.readback
                    /\ Get(t[j], "effect_sha256") = Get(r, "effect_sha256")
  <2>1. CASE s.evidence = <<>>
    <3>1. ToSet(s.evidence) = {}
      BY <2>1 DEF ToSet
    <3> QED
      BY <1>4, <2>1, <3>1
  <2>2. CASE s.evidence # <<>>
    <3>1. PICK p \in earlier : Last(s.evidence) = t[p] /\ \A j \in earlier : j <= p
      BY <2>2 DEF EvidenceTracked
    <3>2. \A j \in earlier : j # p =>
                /\ t[j].revision <= t[p].revision
                /\ t[j].revision = t[p].revision =>
                        /\ t[j].readback = t[p].readback
                        /\ Get(t[j], "effect_sha256") = Get(t[p], "effect_sha256")
      <4>1. \A j \in earlier : j # p => j < p
        BY <3>1, BeforeIsFinite
      <4> QED
        BY <4>1, EarlierEvidence
    <3> HIDE DEF earlier, r
    <3> QED
      BY <1>2, <1>3, <2>2, <3>1, <3>2
  <2> QED
    BY <2>1, <2>2
<1> QED
  BY <1>5, <1>6

\* The greatest revision and the evidence named are found in what is remembered.
LEMMA CompletionIsSound ==
    ASSUME NEW t, NEW n, IsTrace(t, n), NEW m \in DOMAIN t, FitBefore(t, m), NEW s,
           EvidenceTracked(t, m, s.evidence), CompletionsTracked(t, m, s.completions),
           Plausible(t[m])
    PROVE  CompletionSound(s, t[m])
            <=> /\ Get(t[m], "evidence_id") # None
                /\ Get(t[m], "revision") \in Nat
                /\ Fingerprinted(s, t[m])
                /\ Before(t, m, {"reconciliation_completion"}) = {}
                /\ \E j \in Before(t, m, {"provider_evidence"}) :
                    /\ t[j].readback = "present"
                    /\ t[j].evidence_id = t[m].evidence_id
                    /\ t[j].revision = t[m].revision
                    /\ Get(t[j], "effect_sha256") = Get(t[m], "effect_sha256")
                /\ \A j \in Before(t, m, {"provider_evidence"}) : t[j].revision <= t[m].revision
<1> DEFINE r == t[m]
           earlier == Before(t, m, {"provider_evidence"})
           Names(e, id, revision) ==
               /\ e.evidence_id = id
               /\ e.readback = "present"
               /\ e.revision = revision
               /\ Get(e, "effect_sha256") = Get(r, "effect_sha256")
           S == {e.revision : e \in ToSet(s.evidence)}
<1>1. s.completions = 0 <=> Before(t, m, {"reconciliation_completion"}) = {}
  BY DEF CompletionsTracked
<1>2. ToSet(s.evidence) = {t[j] : j \in earlier}
  BY DEF EvidenceTracked
<1>3. \A j \in earlier : /\ Get(t[j], "evidence_id") = t[j].evidence_id
                         /\ t[j].evidence_id # None
                         /\ t[j].revision \in Nat
  <2> TAKE j \in earlier
  <2>1. j \in DOMAIN t /\ j < m /\ t[j].kind = "provider_evidence"
    BY DEF Before, At
  <2>2. LocallySound(t[j]) /\ Plausible(t[j])
    BY <2>1 DEF FitBefore, IsTrace, Fits
  <2> QED
    BY <2>1, <2>2, FittingRecord DEF Get
<1>4. (\E e \in ToSet(s.evidence) : Names(e, Get(r, "evidence_id"), Get(r, "revision")))
        <=> \E j \in earlier : Names(t[j], Get(r, "evidence_id"), Get(r, "revision"))
  BY <1>2
<1>5. ASSUME \E j \in earlier : Names(t[j], Get(r, "evidence_id"), Get(r, "revision"))
      PROVE  /\ Get(r, "evidence_id") # None /\ Get(r, "revision") \in Nat
             /\ Get(r, "evidence_id") = r.evidence_id /\ Get(r, "revision") = r.revision
  BY <1>3, <1>5, NoneIsMissing DEF Get
<1>6. ASSUME Get(r, "evidence_id") # None, Get(r, "revision") \in Nat
      PROVE  Get(r, "evidence_id") = r.evidence_id /\ Get(r, "revision") = r.revision
  BY <1>6, NoneIsMissing DEF Get
<1>7. ASSUME NEW j \in earlier, r.revision = t[j].revision
      PROVE  r.revision = Max(S) <=> \A i \in earlier : t[i].revision <= r.revision
  <2>1. S \in SUBSET Nat /\ r.revision \in S
    BY <1>2, <1>3, <1>7
  <2>2. S = {t[i].revision : i \in earlier}
    BY <1>2
  <2>3. ASSUME \A i \in earlier : t[i].revision <= r.revision PROVE r.revision = Max(S)
    <3>1. \A x \in S : x <= r.revision
      BY <2>2, <2>3
    <3> HIDE DEF S
    <3> QED
      BY <2>1, <3>1, GreatestIsMax
  <2>4. ASSUME r.revision = Max(S) PROVE \A i \in earlier : t[i].revision <= r.revision
    <3>1. s.evidence # <<>>
      <4>1. t[j] \in ToSet(s.evidence)
        BY <1>2, <1>7
      <4> QED
        BY <4>1 DEF ToSet
    <3>2. PICK p \in earlier : \A i \in earlier : i <= p
      BY <3>1 DEF EvidenceTracked
    <3>3. \A i \in earlier : i # p => i < p
      BY <3>2, BeforeIsFinite
    <3>4. \A i \in earlier : t[i].revision <= t[p].revision
      BY <1>3, <3>3, EarlierEvidence
    <3>5. t[p].revision \in S /\ \A x \in S : x <= t[p].revision
      BY <2>2, <3>4
    <3>6. Max(S) = t[p].revision
      <4> HIDE DEF S
      <4> QED
        BY <2>1, <3>5, GreatestIsMax
    <3> QED
      BY <2>4, <3>4, <3>6
  <2> QED
    BY <2>3, <2>4
<1>8. CompletionSound(s, r)
        <=> /\ Before(t, m, {"reconciliation_completion"}) = {}
            /\ Fingerprinted(s, r)
            /\ \E j \in earlier : Names(t[j], Get(r, "evidence_id"), Get(r, "revision"))
            /\ Get(r, "revision") = Max(S)
  BY <1>1, <1>4 DEF CompletionSound
<1> HIDE DEF earlier, S
<1> QED
  BY <1>5, <1>6, <1>7, <1>8 DEF earlier

-----------------------------------------------------------------------------
(* The check of a record is exact. *)

LEMMA TrackedParts ==
    ASSUME NEW t, NEW m, NEW s, Tracked(t, m, s)
    PROVE  /\ s = Locals(s.event_ids, s.binding, s.approved, s.denied, s.checkpoint, s.evidence,
                         s.completions)
           /\ s.sound
           /\ EventsTracked(t, m, s.event_ids)
           /\ BindingTracked(t, m, s.binding)
           /\ DecisionTracked(t, m, s.approved, "approved")
           /\ DecisionTracked(t, m, s.denied, "denied")
           /\ CheckpointTracked(t, m, s.checkpoint)
           /\ EvidenceTracked(t, m, s.evidence)
           /\ CompletionsTracked(t, m, s.completions)
  BY DEF Tracked, Locals

\* With what it remembers of the records before, the validator finds record m sound if and
\* only if it is.
LEMMA RecordIsSoundExactly ==
    ASSUME NEW t, NEW n, IsTrace(t, n), Increasing(t), NEW m \in DOMAIN t, FitBefore(t, m),
           NEW s, Tracked(t, m, s)
    PROVE  RecordSound(s, t[m]) <=> Fits(t, m)
<1> DEFINE r == t[m]
           Common == /\ Get(r, "record_id") # None
                     /\ Get(r, "sequence") \in Nat \ {0}
                     /\ HasScope(r, {"operation_id", "provider"})
<1>1. Plausible(r)
  BY DEF IsTrace
<1>2. Get(r, "sequence") \in Nat => r.sequence \in Nat
  BY NoneIsMissing DEF Get
<1>3. ASSUME NEW k \in _RECORD_KINDS, Get(r, "kind") = k PROVE r.kind = k
  BY <1>3, NoneIsMissing DEF Get, _RECORD_KINDS
<1>4. CASE Get(r, "kind") = "runtime_event"
  <2>1. r.kind = "runtime_event"
    BY <1>3, <1>4 DEF _RECORD_KINDS
  <2>2. EventSound(s, r)
            <=> /\ HasScope(r, {"run_id", "turn_id"})
                /\ Get(r, "event_id") # None
                /\ Get(r, "event_kind") \in {"output", "completed", "failed"}
                /\ Get(r, "payload_sha256") \in Payload
                /\ \A j \in Before(t, m, {"runtime_event"}) : t[j].event_id # r.event_id
    BY TrackedParts, EventIsSound
  <2> HIDE DEF r
  <2>3. RecordSound(s, r) <=> /\ Get(r, "record_id") # None
                              /\ Get(r, "sequence") \in Nat \ {0}
                              /\ EventSound(s, r)
    BY <1>4 DEF RecordSound, _RECORD_KINDS
  <2>4. Linked(t, m) <=> \A j \in Before(t, m, {"runtime_event"}) : t[j].event_id # r.event_id
    BY <2>1 DEF r, Linked
  <2> QED
    BY <1>4, <2>2, <2>3, <2>4 DEF Fits, LocallySound, r, _RECORD_KINDS
<1>5. CASE Get(r, "kind") = "checkpoint"
  <2>1. r.kind = "checkpoint"
    BY <1>3, <1>5 DEF _RECORD_KINDS
  <2> DEFINE L == /\ r.checkpoint_sequence = Cardinality(Before(t, m, {"checkpoint"}))
                  /\ Get(r, "parent_checkpoint_id")
                      = IF Before(t, m, {"checkpoint"}) = {} THEN None
                        ELSE t[Max(Before(t, m, {"checkpoint"}))].checkpoint_id
                  /\ \A j \in Before(t, m, {"checkpoint"}) :
                      /\ t[j].plan_sha256 = r.plan_sha256
                      /\ t[j].completed_count <= r.completed_count
  <2>2. CheckpointSound(s, r)
            <=> /\ HasScope(r, {"run_id"})
                /\ Get(r, "checkpoint_id") # None
                /\ Get(r, "checkpoint_sequence") \in Nat
                /\ Get(r, "completed_count") \in Nat
                /\ Get(r, "plan_sha256") \in Payload
                /\ L
    BY TrackedParts, CheckpointIsSound
  <2>4. Linked(t, m) <=> L
    BY <2>1 DEF Linked
  <2> HIDE DEF r, L
  <2>3. RecordSound(s, r) <=> /\ Get(r, "record_id") # None
                              /\ Get(r, "sequence") \in Nat \ {0}
                              /\ CheckpointSound(s, r)
    BY <1>5 DEF RecordSound, _RECORD_KINDS
  <2> QED
    BY <1>5, <2>2, <2>3, <2>4 DEF Fits, LocallySound, r, _RECORD_KINDS
<1>6. BindingSound(s, r)
        <=> /\ Get(r, "tool") # None
            /\ Get(r, "payload_sha256") \in Payload
            /\ Get(r, "effect_sha256") = EffectFingerprint(<<r.tool, r.payload_sha256>>)
            /\ \A j \in Before(t, m, {"approval", "effect"}) :
                Get(t[j], "effect_sha256") = Get(r, "effect_sha256")
  BY TrackedParts, BindingIsSoundExactly
<1>7. Fingerprinted(s, r)
        <=> \A j \in Before(t, m, {"approval", "effect"}) :
                Get(t[j], "effect_sha256") = Get(r, "effect_sha256")
  BY TrackedParts, FingerprintedExactly
<1>8. CASE Get(r, "kind") = "approval"
  <2>1. r.kind = "approval"
    BY <1>3, <1>8 DEF _RECORD_KINDS
  <2>4. Linked(t, m)
        <=> /\ Get(r, "effect_sha256") = EffectFingerprint(<<r.tool, r.payload_sha256>>)
            /\ \A j \in Before(t, m, {"approval", "effect"}) :
                Get(t[j], "effect_sha256") = Get(r, "effect_sha256")
    BY <2>1 DEF Linked
  <2> HIDE DEF r
  <2>3. RecordSound(s, r) <=> Common /\ ApprovalSound(s, r)
    BY <1>8 DEF RecordSound, _RECORD_KINDS
  <2>5. LocallySound(r) <=> /\ Common
                            /\ Get(r, "tool") # None /\ Get(r, "payload_sha256") \in Payload
                            /\ Get(r, "decision") \in {"approved", "denied"}
    BY <1>8 DEF LocallySound, _RECORD_KINDS
  <2> HIDE DEF Common
  <2> QED
    BY <1>6, <2>3, <2>4, <2>5 DEF Fits, r, ApprovalSound
<1>9. CASE Get(r, "kind") = "effect"
  <2>1. r.kind = "effect"
    BY <1>3, <1>9 DEF _RECORD_KINDS
  <2> DEFINE Approved == /\ \E j \in Before(t, m, {"approval"}) : t[j].decision = "approved"
                         /\ \A j \in Before(t, m, {"approval"}) : t[j].decision = "approved"
  <2>4. Linked(t, m)
        <=> /\ Get(r, "effect_sha256") = EffectFingerprint(<<r.tool, r.payload_sha256>>)
            /\ \A j \in Before(t, m, {"approval", "effect"}) :
                Get(t[j], "effect_sha256") = Get(r, "effect_sha256")
            /\ Approved
    BY <2>1 DEF Linked
  <2>6. r.sequence \in Nat => (EffectSound(s, r) <=> BindingSound(s, r) /\ Approved)
    BY TrackedParts, EffectIsSound
  <2> HIDE DEF r, Approved
  <2>3. RecordSound(s, r) <=> Common /\ EffectSound(s, r)
    BY <1>9 DEF RecordSound, _RECORD_KINDS
  <2>5. LocallySound(r) <=> /\ Common
                            /\ Get(r, "tool") # None /\ Get(r, "payload_sha256") \in Payload
    BY <1>9 DEF LocallySound, _RECORD_KINDS
  <2>7. Common => r.sequence \in Nat
    BY <1>2
  <2> HIDE DEF Common
  <2> QED
    BY <1>6, <2>3, <2>4, <2>5, <2>6, <2>7 DEF Fits, r
<1>10. CASE Get(r, "kind") = "provider_evidence"
  <2>1. r.kind = "provider_evidence"
    BY <1>3, <1>10 DEF _RECORD_KINDS
  <2> DEFINE L == \A j \in Before(t, m, {"provider_evidence"}) :
                    /\ t[j].evidence_id # r.evidence_id
                    /\ t[j].revision <= r.revision
                    /\ t[j].revision = r.revision =>
                        /\ t[j].readback = r.readback
                        /\ Get(t[j], "effect_sha256") = Get(r, "effect_sha256")
  <2>4. Linked(t, m)
        <=> /\ \A j \in Before(t, m, {"approval", "effect"}) :
                Get(t[j], "effect_sha256") = Get(r, "effect_sha256")
            /\ L
    BY <2>1 DEF Linked
  <2>6. EvidenceSound(s, r) <=> /\ Get(r, "evidence_id") # None
                                /\ Get(r, "revision") \in Nat
                                /\ Get(r, "readback") \in {"present", "absent", "ambiguous"}
                                /\ Fingerprinted(s, r)
                                /\ L
    BY TrackedParts, EvidenceIsSound
  <2> HIDE DEF r, L
  <2>3. RecordSound(s, r) <=> Common /\ EvidenceSound(s, r)
    BY <1>10 DEF RecordSound, _RECORD_KINDS
  <2>5. LocallySound(r) <=> /\ Common
                            /\ Get(r, "evidence_id") # None
                            /\ Get(r, "revision") \in Nat
                            /\ Get(r, "readback") \in {"present", "absent", "ambiguous"}
    BY <1>10 DEF LocallySound, _RECORD_KINDS
  <2> HIDE DEF Common
  <2> QED
    BY <1>7, <2>3, <2>4, <2>5, <2>6 DEF Fits, r
<1>11. CASE Get(r, "kind") = "reconciliation_completion"
  <2>1. r.kind = "reconciliation_completion"
    BY <1>3, <1>11 DEF _RECORD_KINDS
  <2> DEFINE L == /\ Before(t, m, {"reconciliation_completion"}) = {}
                  /\ \E j \in Before(t, m, {"provider_evidence"}) :
                    /\ t[j].readback = "present"
                    /\ t[j].evidence_id = r.evidence_id
                    /\ t[j].revision = r.revision
                    /\ Get(t[j], "effect_sha256") = Get(r, "effect_sha256")
                  /\ \A j \in Before(t, m, {"provider_evidence"}) : t[j].revision <= r.revision
  <2>4. Linked(t, m)
        <=> /\ \A j \in Before(t, m, {"approval", "effect"}) :
                Get(t[j], "effect_sha256") = Get(r, "effect_sha256")
            /\ L
    BY <2>1 DEF Linked
  <2>6. CompletionSound(s, r) <=> /\ Get(r, "evidence_id") # None
                                  /\ Get(r, "revision") \in Nat
                                  /\ Fingerprinted(s, r)
                                  /\ L
    BY <1>1, TrackedParts, CompletionIsSound
  <2> HIDE DEF r, L
  <2>3. RecordSound(s, r) <=> Common /\ CompletionSound(s, r)
    BY <1>11 DEF RecordSound, _RECORD_KINDS
  <2>5. LocallySound(r) <=> /\ Common
                            /\ Get(r, "evidence_id") # None
                            /\ Get(r, "revision") \in Nat
    BY <1>11 DEF LocallySound, _RECORD_KINDS
  <2> HIDE DEF Common
  <2> QED
    BY <1>7, <2>3, <2>4, <2>5, <2>6 DEF Fits, r
<1>12. CASE Get(r, "kind") \notin _RECORD_KINDS
  BY <1>12 DEF RecordSound, Fits, LocallySound
<1> QED
  BY <1>4, <1>5, <1>8, <1>9, <1>10, <1>11, <1>12 DEF _RECORD_KINDS

-----------------------------------------------------------------------------
(* What the validator remembers after a sound record. *)

\* The records before m + 1 are those before m and m itself.
LEMMA BeforeNext ==
    ASSUME NEW t, NEW n, IsTrace(t, n), NEW m \in DOMAIN t, NEW kinds
    PROVE  /\ t[m].kind \in kinds => Before(t, m + 1, kinds) = Before(t, m, kinds) \cup {m}
           /\ t[m].kind \notin kinds => Before(t, m + 1, kinds) = Before(t, m, kinds)
           /\ m \notin Before(t, m, kinds)
           /\ \A j \in Before(t, m, kinds) : j <= m
<1>1. DOMAIN t \in SUBSET Int
  BY DEF IsTrace
<1>2. \A j \in DOMAIN t : j < m + 1 <=> j < m \/ j = m
  BY <1>1
<1>3. \A j \in DOMAIN t : j < m => j <= m /\ j # m
  BY <1>1
<1> QED
  BY <1>2, <1>3 DEF Before, At

LEMMA BindingNext ==
    ASSUME NEW t, NEW n, IsTrace(t, n), NEW m \in DOMAIN t, NEW s,
           BindingTracked(t, m, s.binding), Fits(t, m), t[m].kind \in {"approval", "effect"}
    PROVE  BindingTracked(t, m + 1, Bound(s, t[m]))
<1> DEFINE r == t[m]
           earlier == Before(t, m, {"approval", "effect"})
           pair == <<r.tool, r.payload_sha256>>
<1>1. /\ Before(t, m + 1, {"approval", "effect"}) = earlier \cup {m}
      /\ \A j \in earlier : j # m
  BY BeforeNext
<1>2. /\ {"tool", "payload_sha256"} \subseteq DOMAIN r
      /\ r.tool \in {"tool", Foreign} /\ r.payload_sha256 \in Payload
  BY FittingRecord DEF IsTrace, Fits
<1>3. pair # None
  BY <1>2, MissingAssumption
<1>4. /\ Get(r, "effect_sha256") = EffectFingerprint(pair)
      /\ \A j \in earlier : Get(t[j], "effect_sha256") = Get(r, "effect_sha256")
  BY DEF Fits, Linked
<1>5. Get(r, "tool") = r.tool /\ Get(r, "payload_sha256") = r.payload_sha256
  BY <1>2 DEF Get
<1>6. Bound(s, r) = pair
  <2>1. CASE s.binding = None
    BY <1>5, <2>1 DEF Bound
  <2>2. CASE s.binding # None
    <3>1. PICK j \in earlier : /\ <<t[j].tool, t[j].payload_sha256>> = s.binding
                               /\ Get(t[j], "effect_sha256") = EffectFingerprint(s.binding)
      BY <2>2 DEF BindingTracked
    <3> HIDE DEF r, earlier
    <3>2. EffectFingerprint(<<t[j].tool, t[j].payload_sha256>>) = EffectFingerprint(pair)
      BY <1>4, <3>1
    <3>3. s.binding = pair
      BY <3>1, <3>2, FingerprintIsInjective
    <3> QED
      BY <2>2, <3>3 DEF Bound
  <2> QED
    BY <2>1, <2>2
<1>7. ASSUME NEW j \in earlier
      PROVE  /\ <<t[j].tool, t[j].payload_sha256>> = pair
             /\ Get(t[j], "effect_sha256") = EffectFingerprint(pair)
  <2>1. s.binding # None
    BY DEF BindingTracked
  <2>2. Bound(s, r) = s.binding
    BY <2>1 DEF Bound
  <2> QED
    BY <1>6, <2>2 DEF BindingTracked
<1> HIDE DEF earlier
<1> QED
  BY <1>1, <1>3, <1>4, <1>6, <1>7 DEF BindingTracked

LEMMA DecisionNext ==
    ASSUME NEW t, NEW n, IsTrace(t, n), NEW m \in DOMAIN t, NEW a, NEW decision,
           DecisionTracked(t, m, a, decision), t[m].kind = "approval", t[m].sequence \in Nat
    PROVE  DecisionTracked(t, m + 1, IF t[m].decision = decision THEN t[m].sequence ELSE a, decision)
<1>1. Before(t, m + 1, {"approval"}) = Before(t, m, {"approval"}) \cup {m}
  BY BeforeNext
<1>2. CASE t[m].decision = decision
  BY <1>1, <1>2, NoneIsMissing DEF DecisionTracked
<1>3. CASE t[m].decision # decision
  BY <1>1, <1>3 DEF DecisionTracked
<1> QED
  BY <1>2, <1>3

LEMMA CheckpointNext ==
    ASSUME NEW t, NEW n, IsTrace(t, n), NEW m \in DOMAIN t, Fits(t, m), t[m].kind = "checkpoint"
    PROVE  CheckpointTracked(t, m + 1, t[m])
<1>1. /\ Before(t, m + 1, {"checkpoint"}) = Before(t, m, {"checkpoint"}) \cup {m}
      /\ \A j \in Before(t, m, {"checkpoint"}) : j <= m
      /\ m <= m
  <2>1. m \in Nat
    BY DEF IsTrace
  <2> QED
    BY <2>1, BeforeNext
<1>2. t[m] # None
  BY FittingRecord, MissingAssumption DEF IsTrace, Fits
<1> QED
  BY <1>1, <1>2 DEF CheckpointTracked

LEMMA EvidenceNext ==
    ASSUME NEW t, NEW n, IsTrace(t, n), NEW m \in DOMAIN t, NEW e, EvidenceTracked(t, m, e),
           t[m].kind = "provider_evidence"
    PROVE  EvidenceTracked(t, m + 1, Append(e, t[m]))
<1> DEFINE earlier == Before(t, m, {"provider_evidence"})
           u == Append(e, t[m])
<1>1. /\ Before(t, m + 1, {"provider_evidence"}) = earlier \cup {m}
      /\ \A j \in earlier : j <= m
      /\ m <= m
  <2>1. m \in Nat
    BY DEF IsTrace
  <2> QED
    BY <2>1, BeforeNext
<1>2. PICK X : e \in Seq(X)
  BY DEF EvidenceTracked
<1>3. e \in Seq(X \cup {t[m]}) /\ t[m] \in X \cup {t[m]}
  BY <1>2
<1>4. /\ u \in Seq(X \cup {t[m]})
      /\ DOMAIN u = 1 .. Len(e) + 1 /\ DOMAIN e = 1 .. Len(e) /\ Len(e) \in Nat
      /\ Len(u) = Len(e) + 1
      /\ u[Len(e) + 1] = t[m]
      /\ \A i \in DOMAIN e : u[i] = e[i]
  BY <1>3
<1>5. ToSet(u) = ToSet(e) \cup {t[m]}
  <2>1. DOMAIN u = DOMAIN e \cup {Len(e) + 1}
    BY <1>4
  <2> HIDE DEF u
  <2> QED
    BY <1>4, <2>1 DEF ToSet
<1>6. ToSet(u) = {t[j] : j \in earlier \cup {m}}
  BY <1>5 DEF EvidenceTracked
<1>7. Last(u) = t[m]
  BY <1>4 DEF Last
<1> HIDE DEF earlier, u
<1> QED
  BY <1>1, <1>4, <1>6, <1>7 DEF EvidenceTracked, u

LEMMA CompletionsNext ==
    ASSUME NEW t, NEW n, IsTrace(t, n), NEW m \in DOMAIN t, NEW k, CompletionsTracked(t, m, k),
           t[m].kind = "reconciliation_completion"
    PROVE  CompletionsTracked(t, m + 1, k + 1)
<1>1. Before(t, m + 1, {"reconciliation_completion"})
        = Before(t, m, {"reconciliation_completion"}) \cup {m}
  BY BeforeNext
<1> QED
  BY <1>1 DEF CompletionsTracked

\* A record of another kind changes nothing.
LEMMA OthersKept ==
    ASSUME NEW t, NEW n, IsTrace(t, n), NEW m \in DOMAIN t, NEW v, NEW b, NEW a, NEW decision,
           NEW c, NEW e, NEW k
    PROVE  LET kind == t[m].kind
           IN /\ kind # "runtime_event" /\ EventsTracked(t, m, v) => EventsTracked(t, m + 1, v)
              /\ kind \notin {"approval", "effect"} /\ BindingTracked(t, m, b)
                    => BindingTracked(t, m + 1, b)
              /\ kind # "approval" /\ DecisionTracked(t, m, a, decision)
                    => DecisionTracked(t, m + 1, a, decision)
              /\ kind # "checkpoint" /\ CheckpointTracked(t, m, c) => CheckpointTracked(t, m + 1, c)
              /\ kind # "provider_evidence" /\ EvidenceTracked(t, m, e)
                    => EvidenceTracked(t, m + 1, e)
              /\ kind # "reconciliation_completion" /\ CompletionsTracked(t, m, k)
                    => CompletionsTracked(t, m + 1, k)
<1>1. \A kinds : t[m].kind \notin kinds => Before(t, m + 1, kinds) = Before(t, m, kinds)
  BY BeforeNext
<1>2. t[m].kind # "runtime_event" /\ EventsTracked(t, m, v) => EventsTracked(t, m + 1, v)
  BY <1>1 DEF EventsTracked
<1>3. t[m].kind \notin {"approval", "effect"} /\ BindingTracked(t, m, b)
                    => BindingTracked(t, m + 1, b)
  BY <1>1 DEF BindingTracked
<1>4. t[m].kind # "approval" /\ DecisionTracked(t, m, a, decision)
                    => DecisionTracked(t, m + 1, a, decision)
  BY <1>1 DEF DecisionTracked
<1>5. t[m].kind # "checkpoint" /\ CheckpointTracked(t, m, c) => CheckpointTracked(t, m + 1, c)
  BY <1>1 DEF CheckpointTracked
<1>6. t[m].kind # "provider_evidence" /\ EvidenceTracked(t, m, e)
                    => EvidenceTracked(t, m + 1, e)
  BY <1>1 DEF EvidenceTracked
<1>7. t[m].kind # "reconciliation_completion" /\ CompletionsTracked(t, m, k)
                    => CompletionsTracked(t, m + 1, k)
  BY <1>1 DEF CompletionsTracked
<1> QED
  BY <1>2, <1>3, <1>4, <1>5, <1>6, <1>7

\* After a sound record the validator remembers this one too.
LEMMA RecordIsTracked ==
    ASSUME NEW t, NEW n, IsTrace(t, n), NEW m \in DOMAIN t, NEW s, Tracked(t, m, s), Fits(t, m)
    PROVE  Tracked(t, m + 1, Remembered(s, t[m]))
<1> DEFINE r == t[m]
<1>1. r.kind \in _RECORD_KINDS /\ r.sequence \in Nat
  BY FittingRecord DEF IsTrace, Fits
<1>2. PICK v, b, a, d, c, e, k :
        /\ s = Locals(v, b, a, d, c, e, k)
        /\ EventsTracked(t, m, v)
        /\ BindingTracked(t, m, b)
        /\ DecisionTracked(t, m, a, "approved")
        /\ DecisionTracked(t, m, d, "denied")
        /\ CheckpointTracked(t, m, c)
        /\ EvidenceTracked(t, m, e)
        /\ CompletionsTracked(t, m, k)
  BY DEF Tracked
<1>10. s = Locals(v, b, a, d, c, e, k)
  BY <1>2
<1>3. s.binding = b
  BY <1>2 DEF Locals
<1>4. CASE r.kind = "runtime_event"
  <2>1. EventsTracked(t, m + 1, v \cup {r.event_id})
    <3>1. Before(t, m + 1, {"runtime_event"}) = Before(t, m, {"runtime_event"}) \cup {m}
      BY <1>4, BeforeNext
    <3> QED
      BY <1>2, <3>1 DEF EventsTracked
  <2>2. /\ BindingTracked(t, m + 1, b)
        /\ DecisionTracked(t, m + 1, a, "approved") /\ DecisionTracked(t, m + 1, d, "denied")
        /\ CheckpointTracked(t, m + 1, c) /\ EvidenceTracked(t, m + 1, e)
        /\ CompletionsTracked(t, m + 1, k)
    BY <1>2, <1>4, OthersKept
  <2>3. Remembered(s, r) = Locals(v \cup {r.event_id}, b, a, d, c, e, k)
    BY <1>10, <1>4 DEF Remembered, Locals
  <2> QED
    BY <2>1, <2>2, <2>3 DEF Tracked
<1>5. CASE r.kind = "checkpoint"
  <2>1. CheckpointTracked(t, m + 1, r)
    BY <1>5, CheckpointNext
  <2>2. /\ EventsTracked(t, m + 1, v) /\ BindingTracked(t, m + 1, b)
        /\ DecisionTracked(t, m + 1, a, "approved") /\ DecisionTracked(t, m + 1, d, "denied")
        /\ EvidenceTracked(t, m + 1, e) /\ CompletionsTracked(t, m + 1, k)
    BY <1>2, <1>5, OthersKept
  <2>3. Remembered(s, r) = Locals(v, b, a, d, r, e, k)
    BY <1>10, <1>5 DEF Remembered, Locals
  <2> QED
    BY <2>1, <2>2, <2>3 DEF Tracked
<1>6. CASE r.kind = "approval"
  <2>1. BindingTracked(t, m + 1, Bound(s, r))
    BY <1>2, <1>3, <1>6, BindingNext
  <2>2. /\ DecisionTracked(t, m + 1, IF r.decision = "approved" THEN r.sequence ELSE a, "approved")
        /\ DecisionTracked(t, m + 1, IF r.decision = "denied" THEN r.sequence ELSE d, "denied")
    BY <1>1, <1>2, <1>6, DecisionNext
  <2>3. /\ EventsTracked(t, m + 1, v)
        /\ CheckpointTracked(t, m + 1, c) /\ EvidenceTracked(t, m + 1, e)
        /\ CompletionsTracked(t, m + 1, k)
    BY <1>2, <1>6, OthersKept
  <2>4. Remembered(s, r)
            = Locals(v, Bound(s, r),
                     IF r.decision = "approved" THEN r.sequence ELSE a,
                     IF r.decision = "denied" THEN r.sequence ELSE d, c, e, k)
    BY <1>10, <1>6 DEF Remembered, Locals
  <2> HIDE DEF r
  <2> QED
    BY <2>1, <2>2, <2>3, <2>4, Zenon DEF Tracked, r
<1>7. CASE r.kind = "effect"
  <2>1. BindingTracked(t, m + 1, Bound(s, r))
    BY <1>2, <1>3, <1>7, BindingNext
  <2>2. /\ EventsTracked(t, m + 1, v)
        /\ DecisionTracked(t, m + 1, a, "approved") /\ DecisionTracked(t, m + 1, d, "denied")
        /\ CheckpointTracked(t, m + 1, c) /\ EvidenceTracked(t, m + 1, e)
        /\ CompletionsTracked(t, m + 1, k)
    BY <1>2, <1>7, OthersKept
  <2>3. Remembered(s, r) = Locals(v, Bound(s, r), a, d, c, e, k)
    BY <1>10, <1>7 DEF Remembered, Locals
  <2> QED
    BY <2>1, <2>2, <2>3 DEF Tracked
<1>8. CASE r.kind = "provider_evidence"
  <2>1. EvidenceTracked(t, m + 1, Append(e, r))
    BY <1>2, <1>8, EvidenceNext
  <2>2. /\ EventsTracked(t, m + 1, v) /\ BindingTracked(t, m + 1, b)
        /\ DecisionTracked(t, m + 1, a, "approved") /\ DecisionTracked(t, m + 1, d, "denied")
        /\ CheckpointTracked(t, m + 1, c) /\ CompletionsTracked(t, m + 1, k)
    BY <1>2, <1>8, OthersKept
  <2>3. Remembered(s, r) = Locals(v, b, a, d, c, Append(e, r), k)
    BY <1>10, <1>8 DEF Remembered, Locals
  <2> QED
    BY <2>1, <2>2, <2>3 DEF Tracked
<1>9. CASE r.kind = "reconciliation_completion"
  <2>1. CompletionsTracked(t, m + 1, k + 1)
    BY <1>2, <1>9, CompletionsNext
  <2>2. /\ EventsTracked(t, m + 1, v) /\ BindingTracked(t, m + 1, b)
        /\ DecisionTracked(t, m + 1, a, "approved") /\ DecisionTracked(t, m + 1, d, "denied")
        /\ CheckpointTracked(t, m + 1, c) /\ EvidenceTracked(t, m + 1, e)
    BY <1>2, <1>9, OthersKept
  <2>3. Remembered(s, r) = Locals(v, b, a, d, c, e, k + 1)
    BY <1>10, <1>9 DEF Remembered, Locals
  <2> QED
    BY <2>1, <2>2, <2>3 DEF Tracked
<1> QED
  BY <1>1, <1>4, <1>5, <1>6, <1>7, <1>8, <1>9 DEF _RECORD_KINDS

-----------------------------------------------------------------------------
(* By induction over its prefixes, a trace is accepted if and only if it is coherent. *)

\* The first m records.
Prefix(t, m) == SubSeq(t, 1, m)

LEMMA PrefixGrows ==
    ASSUME NEW X, NEW t \in Seq(X), NEW m \in Nat, m + 1 <= Len(t)
    PROVE  /\ Prefix(t, m) \in Seq(X)
           /\ t[m + 1] \in X
           /\ Prefix(t, m + 1) = Append(Prefix(t, m), t[m + 1])
  BY DEF Prefix

LEMMA PrefixRead ==
    ASSUME NEW X, NEW t \in Seq(X), NEW m \in Nat, m + 1 <= Len(t)
    PROVE  Read(Prefix(t, m + 1)) = ReadRecord(Read(Prefix(t, m)), t[m + 1])
<1> DEFINE u == Prefix(t, m)
           r == t[m + 1]
<1>1. u \in Seq(X) /\ r \in X /\ Prefix(t, m + 1) = Append(u, r)
  BY PrefixGrows
<1> HIDE DEF u, r
<1>2. Read(Append(u, r)) = ReadRecord(Read(u), r)
  BY <1>1, ReadAppend
<1> QED
  BY <1>1, <1>2 DEF u, r

LEMMA PrefixIs ==
    ASSUME NEW X, NEW t \in Seq(X)
    PROVE  Prefix(t, 0) = <<>> /\ Prefix(t, Len(t)) = t
  BY DEF Prefix

\* After every prefix the validator remembers the prefix, or has rejected it.
Follows(t, m) ==
    LET s == Read(Prefix(t, m))
    IN /\ FitBefore(t, m + 1) => Tracked(t, m + 1, s)
       /\ ~ FitBefore(t, m + 1) => "sound" \in DOMAIN s /\ ~ s["sound"]

LEMMA FollowsAtFirst ==
    ASSUME NEW X, NEW t \in Seq(X), NEW n, IsTrace(t, n)
    PROVE  Follows(t, 0)
<1>1. Read(Prefix(t, 0)) = Unread
  BY PrefixIs, ReadEmpty
<1>2. \A kinds : Before(t, 0 + 1, kinds) = {}
  BY DEF Before, At, IsTrace
<1>3. Unread = Locals({}, None, None, None, None, <<>>, 0)
  BY DEF Unread, Locals
<1>4. EventsTracked(t, 0 + 1, {})
  BY <1>2 DEF EventsTracked
<1>5. BindingTracked(t, 0 + 1, None)
  BY <1>2 DEF BindingTracked
<1>6. DecisionTracked(t, 0 + 1, None, "approved") /\ DecisionTracked(t, 0 + 1, None, "denied")
  BY <1>2 DEF DecisionTracked
<1>7. CheckpointTracked(t, 0 + 1, None)
  BY <1>2 DEF CheckpointTracked
<1>8. EvidenceTracked(t, 0 + 1, <<>>)
  <2>1. <<>> \in Seq({}) /\ ToSet(<<>>) = {}
    BY DEF ToSet
  <2> QED
    BY <1>2, <2>1 DEF EvidenceTracked
<1>9. CompletionsTracked(t, 0 + 1, 0)
  BY <1>2 DEF CompletionsTracked
<1>10. FitBefore(t, 0 + 1)
  BY DEF FitBefore, IsTrace
<1>11. Tracked(t, 0 + 1, Unread)
  BY <1>3, <1>4, <1>5, <1>6, <1>7, <1>8, <1>9 DEF Tracked
<1> QED
  BY <1>1, <1>10, <1>11 DEF Follows

LEMMA FollowsNext ==
    ASSUME NEW X, NEW t \in Seq(X), IsTrace(t, Len(t)), Increasing(t), NEW m \in Nat,
           m + 1 <= Len(t), Follows(t, m)
    PROVE  Follows(t, m + 1)
<1> DEFINE s == Read(Prefix(t, m))
           r == t[m + 1]
<1>1. m + 1 \in DOMAIN t
  BY DEF IsTrace
<1>2. Read(Prefix(t, m + 1)) = ReadRecord(s, r)
  BY PrefixRead
<1>3. FitBefore(t, m + 1 + 1) <=> FitBefore(t, m + 1) /\ Fits(t, m + 1)
  <2>1. \A i \in DOMAIN t : i < m + 1 + 1 <=> i < m + 1 \/ i = m + 1
    BY DEF IsTrace
  <2> QED
    BY <1>1, <2>1 DEF FitBefore
<1> HIDE DEF s
<1>4. CASE FitBefore(t, m + 1)
  <2>1. Tracked(t, m + 1, s)
    BY <1>4 DEF Follows, s
  <2>2. s.sound /\ "sound" \in DOMAIN s
    BY <2>1, TrackedParts DEF Locals
  <2>3. RecordSound(s, r) <=> Fits(t, m + 1)
    BY <1>1, <1>4, <2>1, RecordIsSoundExactly
  <2>4. CASE Fits(t, m + 1)
    <3>1. Read(Prefix(t, m + 1)) = Remembered(s, r)
      BY <1>2, <2>2, <2>3, <2>4 DEF ReadRecord
    <3>2. Tracked(t, m + 1 + 1, Remembered(s, r))
      BY <1>1, <2>1, <2>4, RecordIsTracked
    <3> QED
      BY <1>3, <1>4, <2>4, <3>1, <3>2 DEF Follows
  <2>5. CASE ~ Fits(t, m + 1)
    <3>1. Read(Prefix(t, m + 1)) = [s EXCEPT !.sound = FALSE]
      BY <1>2, <2>3, <2>5 DEF ReadRecord
    <3> QED
      BY <1>3, <2>2, <2>5, <3>1 DEF Follows
  <2> QED
    BY <2>4, <2>5
<1>5. CASE ~ FitBefore(t, m + 1)
  <2>1. "sound" \in DOMAIN s /\ ~ s["sound"]
    BY <1>5 DEF Follows, s
  <2>2. Read(Prefix(t, m + 1)) = [s EXCEPT !.sound = FALSE]
    BY <1>2, <2>1 DEF ReadRecord
  <2> QED
    BY <1>3, <1>5, <2>1, <2>2 DEF Follows
<1> QED
  BY <1>4, <1>5

\* The loop of validate_trace finds no violation if and only if every record is sound.
LEMMA ReadingIsExact ==
    ASSUME NEW X, NEW t \in Seq(X), IsTrace(t, Len(t)), Increasing(t)
    PROVE  Read(t).sound <=> \A i \in DOMAIN t : Fits(t, i)
<1> DEFINE T == {m \in Nat : m <= Len(t) => Follows(t, m)}
<1>1. Len(t) \in Nat
  OBVIOUS
<1>2. T = Nat
  <2>1. 0 \in T
    BY FollowsAtFirst
  <2>2. ASSUME NEW m \in T PROVE m + 1 \in T
    <3>1. m \in Nat /\ m + 1 \in Nat /\ (m <= Len(t) => Follows(t, m))
      OBVIOUS
    <3>2. ASSUME m + 1 <= Len(t) PROVE Follows(t, m + 1)
      <4>1. m <= Len(t)
        BY <1>1, <3>1, <3>2
      <4> QED
        BY <3>1, <3>2, <4>1, FollowsNext
    <3> QED
      BY <3>1, <3>2
  <2>3. T \in SUBSET Nat
    OBVIOUS
  <2> HIDE DEF T
  <2> QED
    BY <2>1, <2>2, <2>3, InductionOverNat
<1>3. Follows(t, Len(t))
  BY <1>1, <1>2
<1>4. FitBefore(t, Len(t) + 1) <=> \A i \in DOMAIN t : Fits(t, i)
  BY DEF FitBefore, IsTrace
<1>5. Prefix(t, Len(t)) = t
  BY PrefixIs
<1> QED
  BY <1>3, <1>4, <1>5, TrackedParts DEF Follows

LEMMA RememberedKeepsFields ==
    ASSUME NEW s, NEW r
    PROVE  DOMAIN Remembered(s, r) = DOMAIN s
<1>1. CASE r.kind = "checkpoint"
  BY <1>1 DEF Remembered
<1>2. CASE r.kind = "effect"
  BY <1>2 DEF Remembered
<1>3. CASE r.kind = "approval"
  BY <1>3 DEF Remembered
<1>4. CASE r.kind = "provider_evidence"
  BY <1>4 DEF Remembered
<1>5. CASE r.kind = "runtime_event"
  BY <1>5 DEF Remembered
<1>6. CASE r.kind \notin {"checkpoint", "effect", "approval", "provider_evidence", "runtime_event"}
  BY <1>6 DEF Remembered
<1> QED
  BY <1>1, <1>2, <1>3, <1>4, <1>5, <1>6

\* A trace that is read without a violation is numbered, in whatever order.
LEMMA SoundIsNumbered ==
    ASSUME NEW X, NEW t \in Seq(X), Read(t).sound
    PROVE  \A i \in DOMAIN t : t[i].sequence \in Nat
<1> DEFINE Counts(m) ==
             LET s == Read(Prefix(t, m))
             IN /\ "sound" \in DOMAIN s
                /\ s["sound"] => \A i \in 1 .. m : t[i].sequence \in Nat
           T == {m \in Nat : m <= Len(t) => Counts(m)}
<1>1. Len(t) \in Nat /\ DOMAIN t = 1 .. Len(t)
  OBVIOUS
<1>2. Counts(0)
  BY PrefixIs, ReadEmpty DEF Unread
<1>3. ASSUME NEW m \in Nat, m + 1 <= Len(t), Counts(m)
      PROVE  Counts(m + 1)
  <2> DEFINE s == Read(Prefix(t, m))
             r == t[m + 1]
  <2>1. Read(Prefix(t, m + 1)) = ReadRecord(s, r)
    BY <1>3, PrefixRead
  <2>2. "sound" \in DOMAIN s /\ (s["sound"] => \A i \in 1 .. m : t[i].sequence \in Nat)
    BY <1>3
  <2> HIDE DEF s
  <2>3. CASE s.sound /\ RecordSound(s, r)
    <3>1. Get(r, "sequence") \in Nat
      BY <2>3 DEF RecordSound
    <3>2. r.sequence \in Nat
      BY <3>1, NoneIsMissing DEF Get
    <3>3. \A i \in 1 .. m + 1 : t[i].sequence \in Nat
      <4>1. \A i \in 1 .. m + 1 : i \in 1 .. m \/ i = m + 1
        OBVIOUS
      <4> QED
        BY <2>2, <2>3, <3>2, <4>1
    <3>4. "sound" \in DOMAIN Read(Prefix(t, m + 1))
      BY <2>1, <2>2, <2>3, RememberedKeepsFields DEF ReadRecord
    <3> QED
      BY <3>3, <3>4
  <2>4. CASE ~ (s.sound /\ RecordSound(s, r))
    <3>1. Read(Prefix(t, m + 1)) = [s EXCEPT !.sound = FALSE]
      BY <2>1, <2>4 DEF ReadRecord
    <3> QED
      BY <2>2, <3>1
  <2> QED
    BY <2>3, <2>4
<1> HIDE DEF Counts
<1>4. T = Nat
  <2>1. 0 \in T
    BY <1>2
  <2>2. ASSUME NEW m \in T PROVE m + 1 \in T
    <3>1. m \in Nat /\ m + 1 \in Nat /\ (m <= Len(t) => Counts(m))
      OBVIOUS
    <3>2. ASSUME m + 1 <= Len(t) PROVE Counts(m + 1)
      <4>1. m <= Len(t)
        BY <1>1, <3>1, <3>2
      <4> QED
        BY <1>3, <3>1, <3>2, <4>1
    <3> QED
      BY <3>1, <3>2
  <2>3. T \in SUBSET Nat
    OBVIOUS
  <2> HIDE DEF T
  <2> QED
    BY <2>1, <2>2, <2>3, InductionOverNat
<1>5. Counts(Len(t))
  BY <1>1, <1>4
<1>6. Prefix(t, Len(t)) = t
  BY PrefixIs
<1> QED
  BY <1>1, <1>5, <1>6 DEF Counts

\* The validator compares neighbours only.
LEMMA AdjacentIsEnough ==
    ASSUME NEW X, NEW t \in Seq(X), StrictlyIncreasing(t),
           \A i \in DOMAIN t : t[i].sequence \in Nat
    PROVE  Increasing(t)
<1> DEFINE T == {d \in Nat : \A i, j \in DOMAIN t : i < j /\ j <= i + d
                                                     => t[i].sequence < t[j].sequence}
<1>1. Len(t) \in Nat /\ DOMAIN t = 1 .. Len(t)
  OBVIOUS
<1>2. 0 \in T
  BY <1>1
<1>3. ASSUME NEW d \in T PROVE d + 1 \in T
  <2> SUFFICES ASSUME NEW i \in DOMAIN t, NEW j \in DOMAIN t, i < j, j <= i + (d + 1)
               PROVE  t[i].sequence < t[j].sequence
    OBVIOUS
  <2>1. j \in 2 .. Len(t) /\ j - 1 \in DOMAIN t
    BY <1>1
  <2>2. t[j - 1].sequence < t[j].sequence
    BY <2>1 DEF StrictlyIncreasing
  <2>3. i = j - 1 \/ (i < j - 1 /\ j - 1 <= i + d)
    BY <1>1
  <2>4. i < j - 1 /\ j - 1 <= i + d => t[i].sequence < t[j - 1].sequence
    BY <2>1
  <2>5. /\ t[i].sequence \in Nat /\ t[j].sequence \in Nat /\ t[j - 1].sequence \in Nat
    BY <2>1
  <2> HIDE DEF T
  <2>6. ASSUME NEW x \in Nat, NEW y \in Nat, NEW z \in Nat, x < y, y < z PROVE x < z
    BY <2>6
  <2>7. CASE i = j - 1
    BY <2>2, <2>7
  <2>8. CASE i < j - 1 /\ j - 1 <= i + d
    BY <2>2, <2>4, <2>5, <2>6, <2>8
  <2> QED
    BY <2>3, <2>7, <2>8
<1>4. T = Nat
  <2>1. T \in SUBSET Nat
    OBVIOUS
  <2> HIDE DEF T
  <2> QED
    BY <1>2, <1>3, <2>1, InductionOverNat
<1>5. ASSUME NEW i \in DOMAIN t, NEW j \in DOMAIN t, i < j
      PROVE  t[i].sequence < t[j].sequence
  <2>1. j - i \in T /\ j <= i + (j - i)
    BY <1>1, <1>4, <1>5
  <2> QED
    BY <1>5, <2>1
<1> QED
  BY <1>5 DEF Increasing

\* A trace of plausible records is accepted if and only if it is coherent.
LEMMA AcceptedIsCoherent ==
    ASSUME NEW X, NEW t \in Seq(X), \A i \in DOMAIN t : Plausible(t[i])
    PROVE  Accepted(t) <=> Coherent(t)
<1>1. IsTrace(t, Len(t)) /\ DOMAIN t \in SUBSET Int
  BY DEF IsTrace
<1>2. Coherent(t)
        <=> /\ \A i \in DOMAIN t : Fits(t, i)
            /\ Increasing(t)
            /\ \A i, j \in DOMAIN t : i < j => t[i].record_id # t[j].record_id
  <2>1. Len(t) \in Nat /\ DOMAIN t = 1 .. Len(t)
    OBVIOUS
  <2> QED
    BY <2>1, CoherentIs DEF Increasing
<1>3. IsInjective([i \in DOMAIN t |-> t[i].record_id])
        <=> \A i, j \in DOMAIN t : i < j => t[i].record_id # t[j].record_id
  <2>1. \A i, j \in DOMAIN t : i < j \/ j < i \/ i = j
    BY <1>1
  <2>2. \A i, j \in DOMAIN t : i < j => i # j
    BY <1>1
  <2> QED
    BY <2>1, <2>2 DEF IsInjective
<1>4. ASSUME Increasing(t) PROVE StrictlyIncreasing(t)
  <2>1. \A i \in 2 .. Len(t) : i \in DOMAIN t /\ i - 1 \in DOMAIN t /\ i - 1 < i
    OBVIOUS
  <2> QED
    BY <1>4, <2>1 DEF Increasing, StrictlyIncreasing
<1>5. ASSUME Read(t).sound, StrictlyIncreasing(t) PROVE Increasing(t)
  BY <1>5, SoundIsNumbered, AdjacentIsEnough
<1>6. ASSUME Increasing(t) PROVE Read(t).sound <=> \A i \in DOMAIN t : Fits(t, i)
  BY <1>1, <1>6, ReadingIsExact
<1>7. Accepted(t) <=> /\ Read(t).sound
                      /\ StrictlyIncreasing(t)
                      /\ IsInjective([i \in DOMAIN t |-> t[i].record_id])
  BY DEF Accepted, Read
<1> QED
  BY <1>2, <1>3, <1>4, <1>5, <1>6, <1>7

-----------------------------------------------------------------------------
(* The traces that are recorded and mutated. *)

IsRecord(r) == r \in [DOMAIN r -> Value]

AllWritten(t) ==
    /\ \E X : t \in Seq(X)
    /\ \A i \in DOMAIN t : Written(t[i]) /\ IsRecord(t[i])

AllPlausible(t) ==
    /\ \E X : t \in Seq(X)
    /\ \A i \in DOMAIN t : Plausible(t[i])

\* If the mutation m of t replaces a value, u is t with that value replaced.
Replaced(t, m, u) ==
    m.operator = "replace" =>
        /\ AllWritten(t) /\ Coherent(t)
        /\ m.index \in DOMAIN t /\ m.field \in DOMAIN t[m.index]
        /\ m.value \in Values(m.field)
        /\ u = [t EXCEPT ![m.index][m.field] = m.value]
        /\ u # t

\* The inductive invariant.  Until it is mutated each record is as it was written, and
\* afterwards each is plausible; a trace in which a value is replaced was coherent.
TraceInv ==
    /\ AllPlausible(records)
    /\ mutation = None => AllWritten(records)
    /\ mutation # None => Replaced(base, mutation, records)

LEMMA ValuesAreValues ==
    ASSUME NEW f
    PROVE  Values(f) \subseteq Value
<1> USE ScopeIs
<1>1. CASE f \in DOMAIN scope
  BY <1>1, ScopeValues DEF Value, Name
<1>2. CASE f \in {"event_id", "evidence_id", "checkpoint_id", "parent_checkpoint_id"}
  BY <1>2, IdValues DEF Value
<1>3. CASE f \in {"payload_sha256", "plan_sha256"}
  BY <1>3, PayloadValues DEF Value
<1>4. CASE f \in {"effect_sha256", "decision", "readback", "kind"}
  BY <1>4, NamedValues DEF Value, Name
<1>5. CASE f \in {"revision", "checkpoint_sequence", "completed_count"}
  BY <1>5, NumericValues DEF Value
<1>6. CASE f \in {"sequence", "record_id"}
  BY <1>6, NumberValues DEF Value
<1>7. CASE f \notin DOMAIN scope \cup {"event_id", "evidence_id", "checkpoint_id",
                    "parent_checkpoint_id", "payload_sha256", "plan_sha256", "effect_sha256",
                    "decision", "readback", "kind", "revision", "checkpoint_sequence",
                    "completed_count", "sequence", "record_id"}
  BY <1>7 DEF Values, Value
<1> QED
  BY <1>1, <1>2, <1>3, <1>4, <1>5, <1>6, <1>7

LEMMA WrittenFields ==
    ASSUME NEW q, Written(q)
    PROVE  DOMAIN q \subseteq FieldName /\ "kind" \in DOMAIN q
  BY ScopeIs DEF Written, HasFieldsOfItsKind, FieldsOf, EventFields, CheckpointFields,
        ApprovalFields, EffectFields, EvidenceFields, CompletionFields, FieldName

LEMMA WrittenIsRecord ==
    ASSUME NEW q, Written(q), NEW g, q = [f \in DOMAIN q |-> g[f]]
    PROVE  IsRecord(q)
<1>1. HasWrittenValues(q) /\ q["kind"] \in _RECORD_KINDS
  BY DEF Written, HasFieldsOfItsKind
<1>2. ASSUME NEW f \in DOMAIN q PROVE q[f] \in Value
  <2>1. f \in FieldName
    BY WrittenFields
  <2>2. CASE f \in DOMAIN scope
    BY <1>1, <2>2, ScopeIs DEF HasWrittenValues, Value, Name
  <2>3. CASE f \in {"event_id", "evidence_id", "checkpoint_id", "parent_checkpoint_id",
                    "payload_sha256", "plan_sha256", "effect_sha256", "revision",
                    "checkpoint_sequence", "completed_count", "sequence", "record_id"}
    BY <1>1, <2>3 DEF HasWrittenValues, Value
  <2>4. CASE f \in {"kind", "decision", "readback", "tool", "event_kind", "idempotency_key"}
    BY <1>1, <2>4 DEF HasWrittenValues, Value, Name
  <2> QED
    BY <2>1, <2>2, <2>3, <2>4, ScopeIs DEF FieldName, CheckpointFields
<1> QED
  BY <1>2 DEF IsRecord

LEMMA WrittenIsPlausible ==
    ASSUME NEW q, Written(q), IsRecord(q)
    PROVE  Plausible(q)
<1>1. "kind" \in DOMAIN q /\ DiffersIn(q, q, "kind")
  BY WrittenFields DEF DiffersIn
<1> QED
  BY <1>1 DEF Plausible, IsRecord

LEMMA InitTrace == TraceInit => TraceInv
<1> SUFFICES ASSUME TraceInit PROVE TraceInv
  OBVIOUS
<1>1. records = <<>> /\ mutation = None
  BY DEF TraceInit
<1>2. records \in Seq({}) /\ DOMAIN records = {}
  BY <1>1
<1> QED
  BY <1>1, <1>2 DEF TraceInv, AllPlausible, AllWritten

LEMMA WriteKeepsInv ==
    ASSUME TraceInv, NEW p \in RequiredFields, Write(p)
    PROVE  TraceInv'
<1> DEFINE n == Len(records) + 1
           q == Numbered(p, n)
<1>1. mutation = None /\ mutation' = None /\ records' = Append(records, q)
  BY DEF Write, Numbered
<1>2. AllWritten(records)
  BY <1>1 DEF TraceInv
<1>3. PICK X : records \in Seq(X)
  BY <1>2 DEF AllWritten
<1>4. n \in Nat \ {0}
  BY <1>3
<1>5. q = [f \in DOMAIN q |-> q[f]]
  BY DEF Numbered, Extended
<1>6. Written(q)
  <2>1. \A x : x = Numbered(p, n) => Written(x)
    BY <1>4, RequiredIsWritten
  <2> QED
    BY <2>1
<1>7. IsRecord(q)
  <2> HIDE DEF q
  <2> QED
    BY <1>5, <1>6, WrittenIsRecord
<1> HIDE DEF q
<1>8. records \in Seq(X \cup {q}) /\ q \in X \cup {q}
  BY <1>3
<1>9. /\ records' \in Seq(X \cup {q})
      /\ DOMAIN records' = 1 .. n /\ DOMAIN records = 1 .. Len(records)
      /\ records'[n] = q
      /\ \A i \in 1 .. Len(records) : records'[i] = records[i]
  BY <1>1, <1>8
<1>10. \A i \in 1 .. n : i \in 1 .. Len(records) \/ i = n
  BY <1>3
<1>11. \A i \in DOMAIN records' : Written(records'[i]) /\ IsRecord(records'[i])
  BY <1>2, <1>6, <1>7, <1>9, <1>10 DEF AllWritten
<1>12. AllWritten(records')
  BY <1>9, <1>11 DEF AllWritten
<1>13. AllPlausible(records')
  BY <1>9, <1>11, WrittenIsPlausible DEF AllPlausible
<1> QED
  BY <1>1, <1>12, <1>13 DEF TraceInv

LEMMA WrittenTraceIsPlausible ==
    ASSUME NEW t, AllWritten(t)
    PROVE  AllPlausible(t)
  BY WrittenIsPlausible DEF AllWritten, AllPlausible

\* The mutation is one of three, and is not None.
LEMMA MutationIs ==
    ASSUME AllWritten(records), NEW m \in Mutation
    PROVE  /\ m # None
           /\ m.index \in DOMAIN records
           /\ \/ m.operator = "remove" /\ "field" \notin DOMAIN m
              \/ m.operator = "remove" /\ "field" \in DOMAIN m
              \/ m.operator = "replace" /\ "field" \in DOMAIN m /\ m.value \in Values(m.field)
<1>1. PICK X : records \in Seq(X)
  BY DEF AllWritten
<1>2. DOMAIN records \in SUBSET Nat
  BY <1>1
<1>3. \A j \in DOMAIN records : DOMAIN records[j] \subseteq FieldName
  BY WrittenFields DEF AllWritten
<1>4. CASE m \in [operator : {"remove"}, index : DOMAIN records]
  <2>1. m \in [operator : {"remove"}, index : Nat]
    BY <1>2, <1>4
  <2>2. m # None
    BY <2>1, MissingAssumption
  <2> QED
    BY <1>4, <2>2
<1>5. ASSUME NEW i \in DOMAIN records, NEW f \in FieldName,
             m \in [operator : {"replace"}, index : {i}, field : {f}, value : Values(f)]
      PROVE  /\ m # None /\ m.index \in DOMAIN records
             /\ m.operator = "replace" /\ "field" \in DOMAIN m /\ m.value \in Values(m.field)
  <2>1. m \in [operator : {"replace"}, index : Nat, field : FieldName, value : Value]
    <3>1. Values(f) \subseteq Value
      BY ValuesAreValues
    <3> QED
      BY <1>2, <1>5, <3>1
  <2>2. m # None
    BY <2>1, MissingAssumption
  <2> QED
    BY <1>5, <2>2
<1>6. ASSUME NEW i \in DOMAIN records, NEW f \in FieldName,
             m \in [operator : {"remove"}, index : {i}, field : {f}]
      PROVE  /\ m # None /\ m.index \in DOMAIN records
             /\ m.operator = "remove" /\ "field" \in DOMAIN m
  <2>1. m \in [operator : {"remove"}, index : Nat, field : FieldName]
    BY <1>2, <1>6
  <2>2. m # None
    BY <2>1, MissingAssumption
  <2> QED
    BY <1>6, <2>2
<1>7. \/ m \in [operator : {"remove"}, index : DOMAIN records]
      \/ \E i \in DOMAIN records, f \in FieldName :
            \/ m \in [operator : {"replace"}, index : {i}, field : {f}, value : Values(f)]
            \/ m \in [operator : {"remove"}, index : {i}, field : {f}]
  <2> DEFINE fields == UNION {DOMAIN records[j] : j \in DOMAIN records}
             Of(i, f) == [operator : {"replace"}, index : {i}, field : {f}, value : Values(f)]
                         \cup [operator : {"remove"}, index : {i}, field : {f}]
  <2>1. fields \subseteq FieldName
    BY <1>3
  <2> DEFINE Whole == [operator : {"remove"}, index : DOMAIN records]
             InField == {Of(i, f) : i \in DOMAIN records, f \in fields}
  <2>2. Mutation = Whole \cup UNION InField
    BY DEF Mutation
  <2>3. m \in UNION InField \/ m \in Whole
    <3> HIDE DEF InField, Whole
    <3> QED
      BY <2>2
  <2>4. \A S \in InField : \E i \in DOMAIN records, f \in fields : S = Of(i, f)
    OBVIOUS
  <2> HIDE DEF fields, Of, InField, Whole
  <2>5. \/ m \in Whole
        \/ \E i \in DOMAIN records, f \in fields : m \in Of(i, f)
    BY <2>3, <2>4
  <2> QED
    BY <2>1, <2>5 DEF Of, Whole
<1> QED
  BY <1>4, <1>5, <1>6, <1>7

LEMMA RemovalIsPlausible ==
    ASSUME NEW t, AllWritten(t), NEW i \in DOMAIN t
    PROVE  AllPlausible(RemoveAt(t, i))
<1>1. PICK X : t \in Seq(X)
  BY DEF AllWritten
<1>2. AllPlausible(t)
  BY WrittenTraceIsPlausible
<1>3. /\ Len(t) \in Nat /\ i \in 1 .. Len(t) /\ DOMAIN t = 1 .. Len(t)
  BY <1>1
<1> DEFINE u == SubSeq(t, 1, i - 1)
           w == SubSeq(t, i + 1, Len(t))
<1>4. /\ u \in Seq(X) /\ Len(u) = i - 1 /\ \A j \in 1 .. i - 1 : u[j] = t[j]
      /\ w \in Seq(X) /\ Len(w) = Len(t) - i /\ \A j \in 1 .. Len(t) - i : w[j] = t[j + i]
  <2>1. u \in Seq(X) /\ Len(u) = i - 1 /\ \A j \in 1 .. i - 1 : u[j] = t[j]
    BY <1>1, <1>3
  <2>2. w \in Seq(X) /\ Len(w) = Len(t) - i /\ \A j \in 1 .. Len(t) - i : w[j] = t[j + i]
    BY <1>1, <1>3
  <2> QED
    BY <2>1, <2>2
<1> HIDE DEF u, w
<1>5. /\ u \o w \in Seq(X)
      /\ DOMAIN (u \o w) = 1 .. Len(t) - 1
      /\ \A j \in 1 .. Len(t) - 1 : (u \o w)[j] = IF j <= i - 1 THEN t[j] ELSE t[j + 1]
  <2>1. /\ u \o w \in Seq(X)
        /\ Len(u \o w) = Len(u) + Len(w)
        /\ \A j \in 1 .. Len(u) + Len(w) :
            (u \o w)[j] = IF j <= Len(u) THEN u[j] ELSE w[j - Len(u)]
    BY <1>4, ConcatProperties, Zenon
  <2>2. Len(u) + Len(w) = Len(t) - 1
    BY <1>3, <1>4
  <2>4. DOMAIN (u \o w) = 1 .. Len(u \o w)
    BY <2>1, LenProperties
  <2>3. ASSUME NEW j \in 1 .. Len(t) - 1
        PROVE  (u \o w)[j] = IF j <= i - 1 THEN t[j] ELSE t[j + 1]
    <3>1. (u \o w)[j] = IF j <= i - 1 THEN u[j] ELSE w[j - (i - 1)]
      BY <1>4, <2>1, <2>2
    <3>2. CASE j <= i - 1
      BY <1>3, <1>4, <3>1, <3>2
    <3>3. CASE ~ (j <= i - 1)
      <4>1. j - (i - 1) \in 1 .. Len(t) - i /\ j - (i - 1) + i = j + 1
        BY <1>3, <3>3
      <4> QED
        BY <1>4, <3>1, <3>3, <4>1
    <3> QED
      BY <3>2, <3>3
  <2> QED
    BY <2>1, <2>2, <2>3, <2>4
<1>6. \A j \in DOMAIN (u \o w) : Plausible((u \o w)[j])
  <2> TAKE j \in DOMAIN (u \o w)
  <2>1. j \in 1 .. Len(t) - 1
    BY <1>5
  <2>2. j \in DOMAIN t /\ j + 1 \in DOMAIN t
    BY <1>3, <2>1
  <2> QED
    BY <1>2, <1>5, <2>1, <2>2 DEF AllPlausible
<1> QED
  BY <1>5, <1>6 DEF RemoveAt, u, w, AllPlausible

LEMMA ChangeIsPlausible ==
    ASSUME NEW t, AllWritten(t), NEW i \in DOMAIN t, NEW r, Plausible(r)
    PROVE  AllPlausible([t EXCEPT ![i] = r])
<1>1. PICK X : t \in Seq(X)
  BY DEF AllWritten
<1>2. AllPlausible(t)
  BY WrittenTraceIsPlausible
<1>3. [t EXCEPT ![i] = r] \in Seq(X \cup {r})
  <2>1. t \in Seq(X \cup {r})
    BY <1>1
  <2> QED
    BY <2>1
<1> QED
  BY <1>2, <1>3 DEF AllPlausible

\* A mutation takes a record away, or changes one field of one record.
LEMMA MutateKeepsInv ==
    ASSUME TraceInv, NEW m \in Mutation, Mutate(m)
    PROVE  TraceInv'
<1>1. /\ mutation = None /\ mutation' = m /\ base' = records /\ records' # records
      /\ Accepted(records)
      /\ records' = ApplyMutation(m)
      /\ "field" \in DOMAIN m => m.field \in DOMAIN records[m.index]
  BY DEF Mutate
<1>2. AllWritten(records)
  BY <1>1 DEF TraceInv
<1>3. Coherent(records)
  <2>1. AllPlausible(records)
    BY DEF TraceInv
  <2> QED
    BY <1>1, <2>1, AcceptedIsCoherent DEF AllPlausible
<1>4. /\ m # None
      /\ m.index \in DOMAIN records
      /\ \/ m.operator = "remove" /\ "field" \notin DOMAIN m
         \/ m.operator = "remove" /\ "field" \in DOMAIN m
         \/ m.operator = "replace" /\ "field" \in DOMAIN m /\ m.value \in Values(m.field)
  BY <1>2, MutationIs
<1> DEFINE q == records[m.index]
<1>5. Written(q) /\ IsRecord(q)
  BY <1>2, <1>4 DEF AllWritten
<1>6. Replaced(base', m, records')
  BY <1>1, <1>2, <1>3, <1>4 DEF Replaced, ApplyMutation
<1>7. AllPlausible(records')
  <2>1. CASE "field" \notin DOMAIN m
    BY <1>1, <1>2, <1>4, <2>1, RemovalIsPlausible DEF ApplyMutation
  <2>2. CASE m.operator = "remove" /\ "field" \in DOMAIN m
    <3> DEFINE r == Restrict(q, DOMAIN q \ {m.field})
    <3>1. /\ DOMAIN r = DOMAIN q \ {m.field}
          /\ \A g \in DOMAIN r : r[g] = q[g]
          /\ r \in [DOMAIN r -> Value]
      BY <1>5 DEF Restrict, IsRecord
    <3>2. m.field \in DOMAIN q
      BY <1>1, <2>2
    <3>3. records' = [records EXCEPT ![m.index] = r]
      BY <1>1, <2>2 DEF ApplyMutation
    <3> HIDE DEF r
    <3>4. DiffersIn(r, q, m.field)
      BY <3>1, <3>2 DEF DiffersIn
    <3>5. Plausible(r)
      BY <1>5, <3>1, <3>2, <3>4 DEF Plausible
    <3> QED
      BY <1>2, <1>4, <3>3, <3>5, ChangeIsPlausible
  <2>3. CASE m.operator = "replace" /\ "field" \in DOMAIN m /\ m.value \in Values(m.field)
    <3> DEFINE r == [q EXCEPT ![m.field] = m.value]
    <3>1. m.field \in DOMAIN q /\ m.value \in Value
      BY <1>1, <2>3, ValuesAreValues
    <3>2. /\ DOMAIN r = DOMAIN q
          /\ r[m.field] = m.value
          /\ \A g \in DOMAIN r : g # m.field => r[g] = q[g]
          /\ r \in [DOMAIN r -> Value]
      BY <1>5, <3>1 DEF IsRecord
    <3>3. records' = [records EXCEPT ![m.index] = r]
      BY <1>1, <2>3 DEF ApplyMutation
    <3> HIDE DEF r
    <3>4. DiffersIn(r, q, m.field)
      BY <2>3, <3>1, <3>2 DEF DiffersIn
    <3>5. Plausible(r)
      BY <1>5, <3>1, <3>2, <3>4 DEF Plausible
    <3> QED
      BY <1>2, <1>4, <3>3, <3>5, ChangeIsPlausible
  <2> QED
    BY <1>4, <2>1, <2>2, <2>3
<1> QED
  BY <1>1, <1>4, <1>6, <1>7 DEF TraceInv

LEMMA StepTrace == TraceInv /\ [TraceNext]_traceVars => TraceInv'
<1> SUFFICES ASSUME TraceInv, [TraceNext]_traceVars PROVE TraceInv'
  OBVIOUS
<1>1. CASE \E r \in RequiredFields : r.kind \in RecordKind /\ Write(r)
  BY <1>1, WriteKeepsInv
<1>2. CASE \E m \in Mutation : Mutate(m)
  BY <1>2, MutateKeepsInv
<1>3. CASE UNCHANGED traceVars
  BY <1>3 DEF traceVars, TraceInv
<1> QED
  BY <1>1, <1>2, <1>3 DEF TraceNext

\* Whatever is recorded and whichever mutation is made, every record of the trace is one
\* that a recorder writes or differs from it in one field, and a trace in which a value is
\* replaced was coherent and is changed in that value only (trace_integrity.py:68-99;
\* evals/trace_integrity_v1/MUTATIONS.json).
THEOREM TraceIsWrittenOrMutated == TraceSpec => []TraceInv
  BY InitTrace, StepTrace, PTL DEF TraceSpec

\* For every trace that can be recorded, of any length and with any ids, payloads and
\* numbers, and for every mutation of one of its records, validate_trace reports a violation
\* if and only if the trace is incoherent: reading each record once and remembering ids,
\* a binding and the last checkpoint, evidence and decisions it misses no incoherence and
\* makes up none (trace_integrity.py:102-324).
THEOREM ValidatorIsExact == TraceSpec => []AcceptsExactlyCoherentTraces
<1>1. TraceInv => AcceptsExactlyCoherentTraces
  BY AcceptedIsCoherent DEF TraceInv, AllPlausible, AcceptsExactlyCoherentTraces
<1> QED
  BY <1>1, TraceIsWrittenOrMutated, PTL

-----------------------------------------------------------------------------
(* The frozen corruptions: a trace and one with a corrupted record are not both coherent. *)

\* u is t with the value of the field f of record i replaced by v.
ChangedIn(t, i, f, v, u) ==
    /\ DOMAIN u = DOMAIN t
    /\ \A j \in DOMAIN t \ {i} : u[j] = t[j]
    /\ DOMAIN u[i] = DOMAIN t[i] /\ u[i][f] = v
    /\ \A g \in DOMAIN t[i] \ {f} : u[i][g] = t[i][g]
    /\ t[i][f] # v

LEMMA ReplacedIsChanged ==
    ASSUME NEW t, NEW m, NEW u, Replaced(t, m, u), m.operator = "replace"
    PROVE  ChangedIn(t, m.index, m.field, m.value, u)
<1> DEFINE i == m.index
           f == m.field
           r == [t[i] EXCEPT ![f] = m.value]
<1>1. /\ AllWritten(t)
      /\ i \in DOMAIN t /\ f \in DOMAIN t[i]
      /\ u = [t EXCEPT ![i] = r]
      /\ u # t
  BY DEF Replaced
<1>2. PICK X : t \in Seq(X)
  BY <1>1 DEF AllWritten
<1>3. IsRecord(t[i])
  BY <1>1 DEF AllWritten
<1>4. /\ DOMAIN r = DOMAIN t[i] /\ r[f] = m.value
      /\ \A g \in DOMAIN t[i] \ {f} : r[g] = t[i][g]
  BY <1>1
<1>5. t[i][f] # m.value
  <2>1. SUFFICES ASSUME t[i][f] = m.value PROVE FALSE
    OBVIOUS
  <2>2. r = t[i]
    BY <1>3, <2>1 DEF IsRecord
  <2> HIDE DEF r
  <2>3. u = t
    BY <1>1, <1>2, <2>2
  <2> QED
    BY <1>1, <2>3
<1>6. DOMAIN u = DOMAIN t /\ u[i] = r /\ \A j \in DOMAIN t \ {i} : u[j] = t[j]
  BY <1>1
<1> HIDE DEF r, i, f
<1> QED
  BY <1>4, <1>5, <1>6 DEF ChangedIn, i, f

\* What every case below starts from.
Corruption(t, i, f, v, u) ==
    /\ AllWritten(t) /\ Coherent(t) /\ Coherent(u)
    /\ i \in DOMAIN t /\ f \in DOMAIN t[i] /\ v \in Values(f)
    /\ ChangedIn(t, i, f, v, u)

LEMMA CorruptedRecord ==
    ASSUME NEW t, NEW i, NEW f, NEW v, NEW u, Corruption(t, i, f, v, u)
    PROVE  /\ DOMAIN t \in SUBSET Int /\ i \in DOMAIN t /\ f \in DOMAIN t[i]
           /\ DOMAIN u = DOMAIN t
           /\ \A j \in DOMAIN t \ {i} : u[j] = t[j]
           /\ DOMAIN u[i] = DOMAIN t[i] /\ u[i][f] = v /\ t[i][f] # v
           /\ \A g \in DOMAIN t[i] \ {f} : u[i][g] = t[i][g]
           /\ \A j \in DOMAIN t : /\ HasWrittenValues(t[j]) /\ t[j].kind \in _RECORD_KINDS
                                  /\ DOMAIN t[j] = FieldsOf(t[j].kind)
           /\ RecordIsWellTyped(u[i])
           /\ f # "kind" => /\ \A j \in DOMAIN t : u[j].kind = t[j].kind
                            /\ \A kinds : At(u, kinds) = At(t, kinds)
<1>1. PICK X : t \in Seq(X)
  BY DEF Corruption, AllWritten
<1>2. DOMAIN t \in SUBSET Int
  BY <1>1
<1>3. \A j \in DOMAIN t : Written(t[j])
  BY DEF Corruption, AllWritten
<1>4. \A j \in DOMAIN t : /\ HasWrittenValues(t[j]) /\ t[j].kind \in _RECORD_KINDS
                          /\ DOMAIN t[j] = FieldsOf(t[j].kind)
                          /\ "kind" \in DOMAIN t[j]
  BY <1>3, WrittenFields DEF Written, HasFieldsOfItsKind
<1>5. RecordIsWellTyped(u[i])
  BY DEF Corruption, ChangedIn, Coherent, WellTyped
<1>6. ASSUME f # "kind" PROVE \A j \in DOMAIN t : u[j].kind = t[j].kind
  BY <1>4, <1>6 DEF Corruption, ChangedIn
<1>7. f # "kind" => \A kinds : At(u, kinds) = At(t, kinds)
  BY <1>6 DEF At, Corruption, ChangedIn
<1> QED
  BY <1>2, <1>4, <1>5, <1>6, <1>7 DEF Corruption, ChangedIn

LEMMA KindOfField ==
    ASSUME NEW r, r.kind \in _RECORD_KINDS, DOMAIN r = FieldsOf(r.kind)
    PROVE  /\ "event_id" \in DOMAIN r => r.kind = "runtime_event"
           /\ {"parent_checkpoint_id", "checkpoint_sequence", "plan_sha256"} \cap DOMAIN r # {}
                => r.kind = "checkpoint"
           /\ r.kind \in {"approval", "effect"}
                => {"tool", "payload_sha256", "effect_sha256"} \subseteq DOMAIN r
           /\ r.kind \in {"provider_evidence", "reconciliation_completion"}
                => {"evidence_id", "revision", "effect_sha256"} \subseteq DOMAIN r
           /\ r.kind = "provider_evidence" => "readback" \in DOMAIN r
           /\ r.kind = "checkpoint"
                => {"parent_checkpoint_id", "checkpoint_sequence", "plan_sha256",
                    "checkpoint_id"} \subseteq DOMAIN r
           /\ {"kind", "sequence", "record_id"} \subseteq DOMAIN r
  BY DEF FieldsOf, EventFields, CheckpointFields, ApprovalFields, EffectFields, EvidenceFields,
        CompletionFields, _RECORD_KINDS

\* Every field of the scope is compared with the scope.
LEMMA ForeignScope ==
    ASSUME NEW t, NEW i, NEW f, NEW v, NEW u, Corruption(t, i, f, v, u),
           f \in {"run_id", "turn_id", "provider", "operation_id"}
    PROVE  FALSE
<1>1. f \in DOMAIN scope
  BY ScopeIs
<1> QED
  BY <1>1, CorruptedRecord DEF HasWrittenValues, RecordIsWellTyped

\* Two events of one id are seen whichever of them is changed.
LEMMA RepeatedEvent ==
    ASSUME NEW t, NEW i, NEW v, NEW u, Corruption(t, i, "event_id", v, u),
           NEW j \in DOMAIN t \ {i}, t[j].kind = t[i].kind, t[j].event_id = v
    PROVE  FALSE
<1>1. t[i].kind = "runtime_event"
  BY CorruptedRecord, KindOfField
<1>2. {i, j} \subseteq At(t, {"runtime_event"})
  BY <1>1, CorruptedRecord DEF At
<1>3. {i, j} \subseteq At(u, {"runtime_event"}) /\ u[i].event_id = v /\ u[j].event_id = v
  BY <1>2, CorruptedRecord
<1>4. EventsAreDistinct(u)
  BY DEF Corruption, Coherent
<1> QED
  BY <1>3, <1>4 DEF EventsAreDistinct

\* A sequence number taken from another record does not increase.
LEMMA RepeatedSequence ==
    ASSUME NEW t, NEW i, NEW v, NEW u, Corruption(t, i, "sequence", v, u),
           NEW j \in DOMAIN t, t[j].sequence = v
    PROVE  FALSE
<1>1. /\ i \in Int /\ j \in Int /\ i # j /\ i \in DOMAIN u /\ j \in DOMAIN u
      /\ u[i].sequence = v /\ u[j].sequence = v
  BY CorruptedRecord
<1>2. v \in Nat
  BY CorruptedRecord, KindOfField DEF HasWrittenValues
<1>3. Ordered(u)
  BY DEF Corruption, Coherent
<1> QED
  BY <1>1, <1>2, <1>3 DEF Ordered

\* A record's digest binds its tool and its payload.
LEMMA DriftedBinding ==
    ASSUME NEW t, NEW i, NEW f, NEW v, NEW u, Corruption(t, i, f, v, u),
           f \in {"tool", "payload_sha256", "effect_sha256"}, t[i].kind \in {"approval", "effect"}
    PROVE  FALSE
<1>1. {"tool", "payload_sha256", "effect_sha256"} \subseteq DOMAIN t[i]
  BY CorruptedRecord, KindOfField
<1>2. i \in Bindings(t) /\ i \in Bindings(u)
  BY CorruptedRecord DEF At, Bindings
<1>3. OneEffectIsApproved(t) /\ OneEffectIsApproved(u)
  BY DEF Corruption, Coherent
<1>4. /\ t[i].effect_sha256 = EffectFingerprint(<<t[i].tool, t[i].payload_sha256>>)
      /\ u[i].effect_sha256 = EffectFingerprint(<<u[i].tool, u[i].payload_sha256>>)
  BY <1>1, <1>2, <1>3, CorruptedRecord DEF OneEffectIsApproved, Get
<1>5. CASE f = "effect_sha256"
  <2>1. u[i].tool = t[i].tool /\ u[i].payload_sha256 = t[i].payload_sha256
    BY <1>1, <1>5, CorruptedRecord
  <2> QED
    BY <1>4, <1>5, <2>1, CorruptedRecord
<1>6. CASE f # "effect_sha256"
  <2>1. u[i].effect_sha256 = t[i].effect_sha256
    BY <1>1, <1>6, CorruptedRecord
  <2>2. u[i].tool = t[i].tool /\ u[i].payload_sha256 = t[i].payload_sha256
    BY <1>4, <2>1, FingerprintIsInjective
  <2> QED
    BY <1>6, <2>2, CorruptedRecord
<1> QED
  BY <1>5, <1>6

\* Parent and number of a checkpoint are determined by the checkpoints before it.
LEMMA BrokenLineage ==
    ASSUME NEW t, NEW i, NEW f, NEW v, NEW u, Corruption(t, i, f, v, u),
           f \in {"parent_checkpoint_id", "checkpoint_sequence"}
    PROVE  FALSE
<1>1. /\ t[i].kind = "checkpoint"
      /\ {"parent_checkpoint_id", "checkpoint_sequence"} \subseteq DOMAIN t[i]
  BY CorruptedRecord, KindOfField
<1> DEFINE earlier == {j \in At(t, {"checkpoint"}) : j < i}
<1>2. /\ i \in At(t, {"checkpoint"}) /\ i \in At(u, {"checkpoint"})
      /\ earlier = {j \in At(u, {"checkpoint"}) : j < i}
  BY <1>1, CorruptedRecord DEF At
<1>3. CheckpointsFormALineage(t) /\ CheckpointsFormALineage(u)
  BY DEF Corruption, Coherent
<1>4. /\ t[i].checkpoint_sequence = Cardinality(earlier)
      /\ u[i].checkpoint_sequence = Cardinality(earlier)
      /\ Get(t[i], "parent_checkpoint_id")
            = IF earlier = {} THEN None ELSE t[Max(earlier)].checkpoint_id
      /\ Get(u[i], "parent_checkpoint_id")
            = IF earlier = {} THEN None ELSE u[Max(earlier)].checkpoint_id
  BY <1>2, <1>3 DEF CheckpointsFormALineage
<1>5. earlier # {} => u[Max(earlier)].checkpoint_id = t[Max(earlier)].checkpoint_id
  <2>1. PICK X : t \in Seq(X)
    BY DEF Corruption, AllWritten
  <2>2. earlier \in SUBSET (1 .. Len(t)) /\ Len(t) \in Nat
    BY <2>1 DEF At
  <2>3. earlier # {} => Max(earlier) \in earlier
    BY <2>2, MaxExists
  <2>4. \A j \in earlier : j \in DOMAIN t \ {i}
    BY <2>2 DEF At
  <2> QED
    BY <2>3, <2>4, CorruptedRecord
<1>6. Get(u[i], f) = v /\ Get(t[i], f) = t[i][f] /\ t[i][f] # v
  BY <1>1, CorruptedRecord DEF Get
<1> QED
  BY <1>1, <1>4, <1>5, <1>6, CorruptedRecord DEF Get

\* All checkpoints of a trace have one plan.
LEMMA ChangedPlan ==
    ASSUME NEW t, NEW i, NEW v, NEW u, Corruption(t, i, "plan_sha256", v, u),
           NEW j \in DOMAIN t \ {i}, t[j].kind = "checkpoint"
    PROVE  FALSE
<1>1. t[i].kind = "checkpoint"
  BY CorruptedRecord, KindOfField
<1>2. {i, j} \subseteq At(t, {"checkpoint"}) /\ {i, j} \subseteq At(u, {"checkpoint"})
  BY <1>1, CorruptedRecord DEF At
<1>3. CheckpointsFormALineage(t) /\ CheckpointsFormALineage(u)
  BY DEF Corruption, Coherent
<1>4. i < j \/ j < i
  BY CorruptedRecord
<1>5. t[i].plan_sha256 = t[j].plan_sha256 /\ u[i].plan_sha256 = u[j].plan_sha256
  BY <1>2, <1>3, <1>4 DEF CheckpointsFormALineage
<1> QED
  BY <1>5, CorruptedRecord

\* A revision goes back, or names another readback for the same revision.
LEMMA RewoundEvidence ==
    ASSUME NEW t, NEW i, NEW v, NEW u, Corruption(t, i, "revision", v, u),
           t[i].kind = "provider_evidence",
           \/ v = None
           \/ \E j \in DOMAIN t \ {i} :
                /\ t[j].kind = "provider_evidence" /\ j < i
                /\ v < t[j].revision \/ (v = t[j].revision /\ t[i].readback # t[j].readback)
    PROVE  FALSE
<1>1. u[i].revision = v /\ "revision" \in DOMAIN u[i] \ Optional
  BY CorruptedRecord DEF Optional
<1>2. v # None /\ v >= 0
  BY <1>1, CorruptedRecord DEF RecordIsWellTyped
<1>3. v \in Int
  BY <1>2, NumericValues DEF Corruption
<1>4. PICK j \in DOMAIN t \ {i} :
        /\ t[j].kind = "provider_evidence" /\ j < i
        /\ v < t[j].revision \/ (v = t[j].revision /\ t[i].readback # t[j].readback)
  BY <1>2
<1>5. {i, j} \subseteq At(u, {"provider_evidence"})
  BY <1>4, CorruptedRecord DEF At
<1>6. /\ u[j] = t[j]
      /\ u[i].readback = t[i].readback
      /\ t[j].revision \in Nat
  BY <1>4, CorruptedRecord, KindOfField DEF HasWrittenValues
<1>7. EvidenceIsMonotonic(u)
  BY DEF Corruption, Coherent
<1>8. /\ u[j].revision <= v
      /\ u[j].revision = v => u[j].readback = u[i].readback
  BY <1>1, <1>4, <1>5, <1>7 DEF EvidenceIsMonotonic
<1> QED
  BY <1>3, <1>4, <1>6, <1>8

\* A completion names one evidence record before it, and no other has its id.
LEMMA CompletionNamesOne ==
    ASSUME NEW t, NEW n \in Nat, DOMAIN t = 1 .. n, Coherent(t),
           NEW i \in At(t, {"reconciliation_completion"})
    PROVE  \E j \in At(t, {"provider_evidence"}) :
            /\ t[j].readback = "present"
            /\ t[j].evidence_id = t[i].evidence_id
            /\ t[j].revision = t[i].revision
            /\ Get(t[j], "effect_sha256") = Get(t[i], "effect_sha256")
            /\ \A k \in At(t, {"provider_evidence"}) : t[k].evidence_id = t[i].evidence_id => k = j
<1>1. EvidenceIsMonotonic(t) /\ CompletionBindsLatestEvidence(t)
  BY DEF Coherent
<1>2. PICK j \in At(t, {"provider_evidence"}) :
            /\ t[j].readback = "present"
            /\ t[j].evidence_id = t[i].evidence_id
            /\ t[j].revision = t[i].revision
            /\ Get(t[j], "effect_sha256") = Get(t[i], "effect_sha256")
  BY <1>1 DEF CompletionBindsLatestEvidence
<1>3. ASSUME NEW k \in At(t, {"provider_evidence"}), t[k].evidence_id = t[i].evidence_id
      PROVE  k = j
  <2>1. k \in Int /\ j \in Int
    BY DEF At
  <2>2. ~ (k < j) /\ ~ (j < k)
    BY <1>1, <1>2, <1>3 DEF EvidenceIsMonotonic
  <2> QED
    BY <2>1, <2>2
<1> QED
  BY <1>2, <1>3

\* Two evidence records have no common id, so the completion names other evidence.
LEMMA OtherEvidence ==
    ASSUME NEW t, NEW i, NEW v, NEW u, Corruption(t, i, "evidence_id", v, u),
           t[i].kind = "reconciliation_completion",
           NEW k \in DOMAIN t \ {i}, t[k].kind = "provider_evidence", t[k].evidence_id = v,
           t[k].readback # "present" \/ t[k].revision # t[i].revision
    PROVE  FALSE
<1>1. PICK X : t \in Seq(X)
  BY DEF Corruption, AllWritten
<1>2. Len(t) \in Nat /\ DOMAIN u = 1 .. Len(t)
  BY <1>1, CorruptedRecord
<1>3. i \in At(u, {"reconciliation_completion"}) /\ k \in At(u, {"provider_evidence"})
  BY CorruptedRecord DEF At
<1>4. PICK j \in At(u, {"provider_evidence"}) :
            /\ u[j].readback = "present"
            /\ u[j].revision = u[i].revision
            /\ \A l \in At(u, {"provider_evidence"}) : u[l].evidence_id = u[i].evidence_id => l = j
  BY <1>2, <1>3, CompletionNamesOne DEF Corruption
<1>5. u[k] = t[k] /\ u[i].evidence_id = v /\ u[i].revision = t[i].revision
  BY CorruptedRecord, KindOfField
<1> QED
  BY <1>3, <1>4, <1>5

\* Revision and effect of a completion are those of the evidence it names.
LEMMA DriftedCompletion ==
    ASSUME NEW t, NEW i, NEW f, NEW v, NEW u, Corruption(t, i, f, v, u),
           t[i].kind = "reconciliation_completion", f \in {"revision", "effect_sha256"}
    PROVE  FALSE
<1>1. PICK X : t \in Seq(X)
  BY DEF Corruption, AllWritten
<1>2. Len(t) \in Nat /\ DOMAIN t = 1 .. Len(t) /\ DOMAIN u = 1 .. Len(t)
  BY <1>1, CorruptedRecord
<1>3. /\ {"evidence_id", "revision", "effect_sha256"} \subseteq DOMAIN t[i]
      /\ u[i].evidence_id = t[i].evidence_id
  BY CorruptedRecord, KindOfField
<1>4. /\ i \in At(t, {"reconciliation_completion"}) /\ i \in At(u, {"reconciliation_completion"})
      /\ At(u, {"provider_evidence"}) = At(t, {"provider_evidence"})
      /\ \A j \in At(t, {"provider_evidence"}) : u[j] = t[j]
  BY CorruptedRecord DEF At
<1>5. PICK j \in At(t, {"provider_evidence"}) :
            /\ t[j].revision = t[i].revision
            /\ Get(t[j], "effect_sha256") = Get(t[i], "effect_sha256")
            /\ \A k \in At(t, {"provider_evidence"}) : t[k].evidence_id = t[i].evidence_id => k = j
  BY <1>2, <1>4, CompletionNamesOne DEF Corruption
<1>6. PICK k \in At(t, {"provider_evidence"}) :
            /\ u[k].evidence_id = u[i].evidence_id
            /\ u[k].revision = u[i].revision
            /\ Get(u[k], "effect_sha256") = Get(u[i], "effect_sha256")
  BY <1>2, <1>4, CompletionNamesOne DEF Corruption
<1>7. k = j
  BY <1>3, <1>4, <1>5, <1>6
<1>8. u[i].revision = t[i].revision /\ Get(u[i], "effect_sha256") = Get(t[i], "effect_sha256")
  BY <1>4, <1>5, <1>6, <1>7
<1> QED
  BY <1>3, <1>8, CorruptedRecord DEF Get

\* Each of the corruptions of MUTATIONS.json makes a coherent trace incoherent.
LEMMA CorruptionIsIncoherent ==
    ASSUME Replaced(base, mutation, records), Corrupts(mutation)
    PROVE  ~ Coherent(records)
<1> DEFINE i == mutation.index
           f == mutation.field
           v == mutation.value
<1>1. SUFFICES ASSUME Coherent(records) PROVE FALSE
  OBVIOUS
<1>2. mutation.operator = "replace"
  BY DEF Corrupts
<1>3. Corruption(base, i, f, v, records)
  BY <1>1, <1>2, ReplacedIsChanged DEF Corruption, Replaced
<1>4. \/ f \in {"run_id", "turn_id", "provider", "operation_id"}
      \/ f = "event_id" /\ \E j \in DOMAIN base \ {i} :
            base[j].kind = base[i].kind /\ base[j].event_id = v
      \/ f = "sequence" /\ \E j \in DOMAIN base : base[j].sequence = v
      \/ f \in {"tool", "payload_sha256", "effect_sha256"} /\ base[i].kind \in {"approval", "effect"}
      \/ f \in {"parent_checkpoint_id", "checkpoint_sequence"}
      \/ f = "plan_sha256" /\ \E j \in DOMAIN base \ {i} : base[j].kind = "checkpoint"
      \/ f = "revision" /\ base[i].kind = "provider_evidence" /\
            \/ v = None
            \/ \E j \in DOMAIN base \ {i} :
                /\ base[j].kind = "provider_evidence" /\ j < i
                /\ v < base[j].revision
                   \/ (v = base[j].revision /\ base[i].readback # base[j].readback)
      \/ f = "evidence_id" /\ base[i].kind = "reconciliation_completion" /\
            \E j \in DOMAIN base \ {i} :
                /\ base[j].kind = "provider_evidence" /\ base[j].evidence_id = v
                /\ base[j].readback # "present" \/ base[j].revision # base[i].revision
      \/ f \in {"revision", "effect_sha256"} /\ base[i].kind = "reconciliation_completion"
  BY DEF Corrupts
<1> HIDE DEF i, f, v
<1> QED
  BY <1>3, <1>4, ForeignScope, RepeatedEvent, RepeatedSequence, DriftedBinding, BrokenLineage,
     ChangedPlan, RewoundEvidence, OtherEvidence, DriftedCompletion

\* Each of the frozen corruptions, made to any record of any accepted trace of any length,
\* is reported: no other record makes up for it (evals/trace_integrity_v1/MUTATIONS.json,
\* trace_integrity.py:102-324).
THEOREM CorruptionsAreDetected == TraceSpec => []CorruptionIsDetected
<1>1. TraceInv => CorruptionIsDetected
  BY AcceptedIsCoherent, CorruptionIsIncoherent
     DEF TraceInv, AllPlausible, CorruptionIsDetected
<1> QED
  BY <1>1, TraceIsWrittenOrMutated, PTL
=============================================================================
