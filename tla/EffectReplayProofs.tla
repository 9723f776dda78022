------------------------- MODULE EffectReplayProofs -------------------------
(***************************************************************************)
(* Proofs for EffectReplay, for every set of operations and effects and    *)
(* every number of requests.                                               *)
(*                                                                         *)
(* The ledger is a digest of the requests: an id has an entry exactly when *)
(* it was asked for, and, until a request contradicts it, the entry is the *)
(* effect of every request with that id.  The invariant states this        *)
(* relation; that the lists enumerate the first requests and the repeated  *)
(* ones then follows one request at a time, as each new request has the    *)
(* greatest number.                                                        *)
(***************************************************************************)
EXTENDS EffectReplay, TLAPS

TypeOK ==
    /\ mode \in {"idempotent", "naive"}
    /\ ledger \in [OperationId -> Effect \cup {None}]
    /\ applied \in Seq(EffectRequest)
    /\ duplicates \in Seq(EffectRequest)
    /\ conflict \in BOOLEAN
    /\ requests \in Seq(EffectRequest)

Numbered == \A r \in Requests : r.sequence \in 1 .. Len(requests)

\* What the ledger says of an id without an entry and of one with an entry.
LedgerIsDigest ==
    \A r \in Requests : ledger[r.operation_id] # None

EntriesWereRequested ==
    \A o \in OperationId : ledger[o] # None =>
        \E q \in Requests : q.operation_id = o /\ q.identity = ledger[o]

LedgerAgrees ==
    ~ conflict => \A r \in Requests : r.identity = ledger[r.operation_id]

LedgerInv == LedgerIsDigest /\ EntriesWereRequested /\ LedgerAgrees

ReplayInv ==
    /\ TypeOK
    /\ Numbered
    /\ mode = "idempotent" => LedgerInv
    /\ mode = "naive" => ~ conflict
    /\ OneEffectPerOperation
-----------------------------------------------------------------------------
(* The operators the invariant is built from. *)

LEMMA RangeOfAppend ==
    ASSUME NEW S, NEW s \in Seq(S), NEW x \in S
    PROVE  /\ Range(Append(s, x)) = Range(s) \cup {x}
           /\ Range(s) \subseteq S
<1>1. /\ DOMAIN Append(s, x) = 1 .. Len(s) + 1
      /\ Append(s, x)[Len(s) + 1] = x
      /\ \A i \in 1 .. Len(s) : Append(s, x)[i] = s[i]
      /\ DOMAIN s = 1 .. Len(s) /\ Len(s) \in Nat
  OBVIOUS
<1>2. Range(Append(s, x)) \subseteq Range(s) \cup {x}
  BY <1>1 DEF Range
<1>3. Range(s) \subseteq Range(Append(s, x))
  BY <1>1 DEF Range
<1>4. x \in Range(Append(s, x))
  BY <1>1 DEF Range
<1>5. Range(s) \subseteq S
  BY <1>1 DEF Range
<1> QED
  BY <1>2, <1>3, <1>4, <1>5

\* A request with the greatest number goes to the end of a list.
LEMMA EnumerationGrows ==
    ASSUME NEW s \in Seq(EffectRequest), NEW S \in SUBSET EffectRequest, NEW r \in EffectRequest,
           Enumerates(s, S), \A q \in S : q.sequence < r.sequence
    PROVE  Enumerates(Append(s, r), S \cup {r})
<1> DEFINE t == Append(s, r)
<1>1. /\ DOMAIN t = 1 .. Len(s) + 1
      /\ t[Len(s) + 1] = r
      /\ \A i \in 1 .. Len(s) : t[i] = s[i]
      /\ DOMAIN s = 1 .. Len(s) /\ Len(s) \in Nat
  OBVIOUS
<1>2. Range(t) = S \cup {r}
  BY RangeOfAppend DEF Enumerates
<1>3. \A i \in 1 .. Len(s) : s[i] \in S
  BY <1>1 DEF Enumerates, Range
<1> HIDE DEF t
<1>4. ASSUME NEW i \in DOMAIN t, NEW j \in DOMAIN t, i < j
      PROVE  t[i].sequence < t[j].sequence
  <2>1. i \in 1 .. Len(s)
    BY <1>1, <1>4
  <2>2. CASE j \in 1 .. Len(s)
    BY <1>1, <1>4, <2>1, <2>2 DEF Enumerates
  <2>3. CASE j = Len(s) + 1
    BY <1>1, <1>3, <2>1, <2>3
  <2> QED
    BY <1>1, <2>2, <2>3
<1>5. Enumerates(t, S \cup {r})
  BY <1>2, <1>4 DEF Enumerates
<1> QED
  BY <1>5 DEF t
-----------------------------------------------------------------------------
(* What every step has in common. *)

\* The new request has the greatest number, so it changes no earlier one.
Asked(r) ==
    /\ ~ conflict
    /\ Requests' = Requests \cup {r}
    /\ Requests \subseteq EffectRequest
    /\ \A q \in Requests : q.sequence < r.sequence
    /\ r.sequence = Len(requests')
    /\ requests' \in Seq(EffectRequest)
    /\ Numbered'
    /\ \A q \in Requests : IsFirst(q)' <=> IsFirst(q)
    /\ IsFirst(r)' <=> \A q \in Requests : q.operation_id # r.operation_id

LEMMA ReplayAsks ==
    ASSUME ReplayInv, NEW r \in EffectRequest, Replay(r)
    PROVE  Asked(r)
<1>1. /\ requests \in Seq(EffectRequest)
      /\ requests' = Append(requests, r)
      /\ r.sequence = Len(requests) + 1
      /\ ~ conflict
      /\ Len(requests) \in Nat
  BY DEF Replay, ReplayInv, TypeOK
<1>2. Requests' = Requests \cup {r} /\ Requests \subseteq EffectRequest
  BY <1>1, RangeOfAppend DEF Requests
<1>3. Len(requests') = Len(requests) + 1 /\ requests' \in Seq(EffectRequest)
  BY <1>1
<1>4. \A q \in Requests : q.sequence \in 1 .. Len(requests)
  BY DEF ReplayInv, Numbered
<1>5. \A q \in Requests : q.sequence \in Nat /\ q.sequence < r.sequence
  BY <1>1, <1>4
<1>6. Numbered'
  BY <1>1, <1>2, <1>3, <1>4 DEF Numbered
<1>7. \A q \in Requests : ~ (r.sequence < q.sequence)
  BY <1>1, <1>5
<1>8. ~ (r.sequence < r.sequence)
  BY <1>1
<1>9. \A q \in Requests : IsFirst(q)' <=> IsFirst(q)
  BY <1>2, <1>7 DEF IsFirst
<1>10. IsFirst(r)' <=> \A q \in Requests : q.operation_id # r.operation_id
  BY <1>2, <1>5, <1>8 DEF IsFirst
<1> QED
  BY <1>1, <1>2, <1>3, <1>5, <1>6, <1>9, <1>10 DEF Asked

Firsts == {r \in Requests : IsFirst(r)}

Repeats == {r \in Requests : ~ IsFirst(r) /\ ~ Raised(r)}

LEMMA ListsGrow ==
    ASSUME NEW r \in EffectRequest, Asked(r), conflict' \in BOOLEAN
    PROVE  /\ IsFirst(r)' => Firsts' = Firsts \cup {r}
           /\ ~ IsFirst(r)' => Firsts' = Firsts
           /\ IsFirst(r)' \/ conflict' => Repeats' = Repeats
           /\ ~ IsFirst(r)' /\ ~ conflict' => Repeats' = Repeats \cup {r}
<1>1. \A q : q \in Firsts' <=> q \in Firsts \/ (q = r /\ IsFirst(r)')
  BY DEF Asked, Firsts
<1>2. \A q \in Requests : q.sequence # Len(requests')
  <2>1. \A q \in Requests : q \in EffectRequest /\ q.sequence < r.sequence
    BY DEF Asked
  <2>2. \A q \in EffectRequest : ~ (q.sequence < q.sequence)
    BY RequestsAssumption DEF EffectRequest
  <2> QED
    BY <2>1, <2>2 DEF EffectRequest, Asked
<1>3. \A q \in Requests : ~ Raised(q) /\ ~ Raised(q)'
  BY <1>2 DEF Asked, Raised
<1>4. Raised(r)' <=> conflict'
  BY DEF Asked, Raised
<1>5. \A q : q \in Repeats' <=> q \in Repeats \/ (q = r /\ ~ IsFirst(r)' /\ ~ conflict')
  BY <1>3, <1>4 DEF Asked, Repeats
<1>6. /\ IsFirst(r)' => Firsts' = Firsts \cup {r}
      /\ ~ IsFirst(r)' => Firsts' = Firsts
  BY <1>1
<1>7. /\ IsFirst(r)' \/ conflict' => Repeats' = Repeats
      /\ ~ IsFirst(r)' /\ ~ conflict' => Repeats' = Repeats \cup {r}
  BY <1>5
<1> QED
  BY <1>6, <1>7

LEMMA AgreementIsUnambiguous ==
    (\A r \in Requests : r.identity = ledger[r.operation_id]) => ~ Ambiguous
  BY DEF Ambiguous

\* What is to be shown of a step of the reducer with the ledger.
LEMMA IdempotentStep ==
    ASSUME ReplayInv, TypeOK', NEW r \in EffectRequest, Asked(r),
           mode = "idempotent", mode' = mode, LedgerInv', conflict' => Ambiguous',
           Enumerates(applied', Firsts'), Enumerates(duplicates', Repeats')
    PROVE  ReplayInv'
<1>1. ~ conflict' => ~ Ambiguous'
  BY AgreementIsUnambiguous, PTL DEF LedgerInv, LedgerAgrees
<1>2. conflict' \in BOOLEAN /\ Ambiguous' \in BOOLEAN
  BY DEF TypeOK, Ambiguous
<1>3. OneEffectPerOperation'
  BY <1>1, <1>2 DEF OneEffectPerOperation, Firsts, Repeats
<1> QED
  BY <1>3 DEF ReplayInv, Asked

LEMMA ListsSoFar ==
    ASSUME ReplayInv, mode = "idempotent"
    PROVE  /\ Enumerates(applied, Firsts)
           /\ Enumerates(duplicates, Repeats)
           /\ LedgerInv
  BY DEF ReplayInv, OneEffectPerOperation, Firsts, Repeats
-----------------------------------------------------------------------------
(* The steps. *)

LEMMA ApplyNaivelyPreserves ==
    ASSUME ReplayInv, NEW r \in EffectRequest, ApplyNaively(r)
    PROVE  ReplayInv'
<1>1. Asked(r) /\ mode = "naive" /\ applied = requests
  BY ReplayAsks DEF ApplyNaively, ReplayInv, OneEffectPerOperation
<1>2. TypeOK
  BY DEF ReplayInv
<1>3. applied' = requests' /\ applied' \in Seq(EffectRequest)
  BY <1>1 DEF ApplyNaively, Replay, Asked
<1>4. TypeOK'
  BY <1>1, <1>2, <1>3 DEF ApplyNaively, Replay, TypeOK, Asked
<1>5. mode' = "naive" /\ ~ conflict'
  BY <1>1 DEF ApplyNaively, Replay
<1> QED
  BY <1>1, <1>3, <1>4, <1>5 DEF ReplayInv, OneEffectPerOperation, Asked

LEMMA ApplyNewPreserves ==
    ASSUME ReplayInv, NEW r \in EffectRequest, ApplyNew(r)
    PROVE  ReplayInv'
<1>1. /\ Asked(r)
      /\ mode = "idempotent"
      /\ mode' = mode
      /\ ledger[r.operation_id] = None
      /\ ledger' = [ledger EXCEPT ![r.operation_id] = r.identity]
      /\ applied' = Append(applied, r)
      /\ duplicates' = duplicates
      /\ ~ conflict'
      /\ conflict' = conflict
  BY ReplayAsks DEF ApplyNew, Replay, Asked
<1>2. /\ TypeOK
      /\ LedgerInv
      /\ r.operation_id \in OperationId
      /\ r.identity \in Effect
      /\ r.identity # None
  BY <1>1, RequestsAssumption DEF ReplayInv, EffectRequest
<1>3. TypeOK'
  BY <1>1, <1>2 DEF TypeOK, Asked
<1>4. \A q \in Requests : q.operation_id # r.operation_id
  BY <1>1, <1>2 DEF LedgerInv, LedgerIsDigest
<1>5. /\ ledger'[r.operation_id] = r.identity
      /\ \A o \in OperationId : o # r.operation_id => ledger'[o] = ledger[o]
      /\ \A q \in Requests : q.operation_id \in OperationId
  BY <1>1, <1>2 DEF TypeOK, Asked, EffectRequest
<1>6. LedgerInv'
  <2>1. LedgerIsDigest'
    BY <1>1, <1>2, <1>4, <1>5 DEF LedgerInv, LedgerIsDigest, Asked
  <2>2. EntriesWereRequested'
    BY <1>1, <1>2, <1>5 DEF LedgerInv, EntriesWereRequested, Asked
  <2>3. LedgerAgrees'
    BY <1>1, <1>2, <1>4, <1>5 DEF LedgerInv, LedgerAgrees, Asked
  <2> QED
    BY <2>1, <2>2, <2>3 DEF LedgerInv
<1>7. Firsts' = Firsts \cup {r} /\ Repeats' = Repeats
  <2>1. IsFirst(r)'
    BY <1>1, <1>4 DEF Asked
  <2>2. conflict' \in BOOLEAN
    BY <1>3 DEF TypeOK
  <2> QED
    BY <1>1, <2>1, <2>2, ListsGrow
<1>8. Enumerates(applied', Firsts')
  <2>1. /\ applied \in Seq(EffectRequest)
        /\ Firsts \in SUBSET EffectRequest
        /\ \A q \in Firsts : q.sequence < r.sequence
    BY <1>1, <1>2 DEF TypeOK, Firsts, Asked
  <2> QED
    BY <1>1, <1>7, <2>1, ListsSoFar, EnumerationGrows
<1>9. Enumerates(duplicates', Repeats')
  BY <1>1, <1>7, ListsSoFar
<1> QED
  BY <1>1, <1>3, <1>6, <1>8, <1>9, IdempotentStep

LEMMA SuppressPreserves ==
    ASSUME ReplayInv, NEW r \in EffectRequest, Suppress(r)
    PROVE  ReplayInv'
<1>1. /\ Asked(r)
      /\ mode = "idempotent"
      /\ mode' = mode
      /\ ledger[r.operation_id] = r.identity
      /\ ledger' = ledger
      /\ applied' = applied
      /\ duplicates' = Append(duplicates, r)
      /\ ~ conflict'
      /\ conflict' = conflict
  BY ReplayAsks DEF Suppress, Replay, Asked
<1>2. /\ TypeOK
      /\ LedgerInv
      /\ r.operation_id \in OperationId
      /\ r.identity # None
  BY <1>1, RequestsAssumption DEF ReplayInv, EffectRequest
<1>3. TypeOK'
  BY <1>1, <1>2 DEF TypeOK, Asked
<1>4. LedgerInv'
  <2>1. LedgerIsDigest' /\ LedgerAgrees'
    BY <1>1, <1>2 DEF LedgerInv, LedgerIsDigest, LedgerAgrees, Asked
  <2>2. EntriesWereRequested'
    BY <1>1, <1>2 DEF LedgerInv, EntriesWereRequested, Asked
  <2> QED
    BY <2>1, <2>2 DEF LedgerInv
<1>5. Firsts' = Firsts /\ Repeats' = Repeats \cup {r}
  <2>1. \E q \in Requests : q.operation_id = r.operation_id
    BY <1>1, <1>2 DEF LedgerInv, EntriesWereRequested
  <2>2. ~ IsFirst(r)' /\ conflict' \in BOOLEAN
    BY <1>1, <1>3, <2>1 DEF Asked, TypeOK
  <2> QED
    BY <1>1, <2>2, ListsGrow
<1>6. Enumerates(duplicates', Repeats')
  <2>1. /\ duplicates \in Seq(EffectRequest)
        /\ Repeats \in SUBSET EffectRequest
        /\ \A q \in Repeats : q.sequence < r.sequence
    BY <1>1, <1>2 DEF TypeOK, Repeats, Asked
  <2> QED
    BY <1>1, <1>5, <2>1, ListsSoFar, EnumerationGrows
<1>7. Enumerates(applied', Firsts')
  BY <1>1, <1>5, ListsSoFar
<1> QED
  BY <1>1, <1>3, <1>4, <1>6, <1>7, IdempotentStep

LEMMA RaiseConflictPreserves ==
    ASSUME ReplayInv, NEW r \in EffectRequest, RaiseConflict(r)
    PROVE  ReplayInv'
<1>1. /\ Asked(r)
      /\ mode = "idempotent"
      /\ mode' = mode
      /\ ledger[r.operation_id] \notin {None, r.identity}
      /\ conflict' = TRUE
      /\ UNCHANGED <<ledger, applied, duplicates>>
  BY ReplayAsks DEF RaiseConflict, Replay
<1>2. TypeOK /\ LedgerInv /\ r.operation_id \in OperationId
  BY <1>1 DEF ReplayInv, EffectRequest
<1>3. TypeOK'
  <2>1. conflict' \in BOOLEAN
    BY <1>1
  <2> QED
    BY <1>1, <1>2, <2>1 DEF TypeOK, Asked
<1>4. PICK q \in Requests : q.operation_id = r.operation_id /\ q.identity # r.identity
  BY <1>1, <1>2 DEF LedgerInv, EntriesWereRequested
<1>5. Ambiguous'
  BY <1>1, <1>4 DEF Ambiguous, Asked
<1>6. LedgerInv'
  <2>1. LedgerIsDigest'
    BY <1>1, <1>2 DEF LedgerInv, LedgerIsDigest, Asked
  <2>2. EntriesWereRequested'
    BY <1>1, <1>2 DEF LedgerInv, EntriesWereRequested, Asked
  <2>3. LedgerAgrees'
    BY <1>1 DEF LedgerAgrees
  <2> QED
    BY <2>1, <2>2, <2>3 DEF LedgerInv
<1>7. Firsts' = Firsts /\ Repeats' = Repeats
  <2>1. ~ IsFirst(r)' /\ conflict' \in BOOLEAN
    BY <1>1, <1>3, <1>4 DEF Asked, TypeOK
  <2> QED
    BY <1>1, <2>1, ListsGrow
<1>8. Enumerates(applied', Firsts') /\ Enumerates(duplicates', Repeats')
  BY <1>1, <1>7, ListsSoFar
<1> QED
  BY <1>1, <1>3, <1>5, <1>6, <1>8, IdempotentStep
-----------------------------------------------------------------------------
LEMMA InitReplay == Init => ReplayInv
<1> SUFFICES ASSUME Init
             PROVE  ReplayInv
  OBVIOUS
<1>1. TypeOK
  <2>1. <<>> \in Seq(EffectRequest)
    OBVIOUS
  <2>2. ledger \in [OperationId -> Effect \cup {None}]
    BY DEF Init
  <2> QED
    BY <2>1, <2>2 DEF Init, TypeOK
<1>2. Requests = {} /\ applied = requests /\ ~ conflict
  BY DEF Init, Requests, Range
<1>3. Enumerates(<<>>, {})
  BY DEF Enumerates, Range
<1>4. OneEffectPerOperation
  BY <1>2, <1>3 DEF Init, OneEffectPerOperation, Ambiguous
<1>5. LedgerInv
  BY <1>2 DEF Init, LedgerInv, LedgerIsDigest, EntriesWereRequested, LedgerAgrees
<1> QED
  BY <1>1, <1>2, <1>4, <1>5 DEF ReplayInv, Numbered

LEMMA StepReplay == ReplayInv /\ [Next]_vars => ReplayInv'
<1> SUFFICES ASSUME ReplayInv, [Next]_vars
             PROVE  ReplayInv'
  OBVIOUS
<1>1. ASSUME NEW r \in EffectRequest, ApplyNaively(r) PROVE ReplayInv'
  BY <1>1, ApplyNaivelyPreserves
<1>2. ASSUME NEW r \in EffectRequest, ApplyNew(r) PROVE ReplayInv'
  BY <1>2, ApplyNewPreserves
<1>3. ASSUME NEW r \in EffectRequest, RaiseConflict(r) PROVE ReplayInv'
  BY <1>3, RaiseConflictPreserves
<1>4. ASSUME NEW r \in EffectRequest, Suppress(r) PROVE ReplayInv'
  BY <1>4, SuppressPreserves
<1>5. CASE UNCHANGED vars
  <2> USE <1>5 DEF vars
  <2>1. TypeOK'
    BY DEF ReplayInv, TypeOK
  <2>2. OneEffectPerOperation'
    BY DEF ReplayInv, OneEffectPerOperation, Ambiguous, IsFirst, Raised, Requests
  <2>3. Numbered' /\ (mode' = "naive" => ~ conflict')
    BY DEF ReplayInv, Numbered, Requests
  <2>4. mode' = "idempotent" => LedgerInv'
    BY DEF ReplayInv, LedgerInv, LedgerIsDigest, EntriesWereRequested, LedgerAgrees, Requests
  <2> QED
    BY <2>1, <2>2, <2>3, <2>4 DEF ReplayInv
<1> QED
  BY <1>1, <1>2, <1>3, <1>4, <1>5 DEF Next

\* The inductive invariant: the ledger is a digest of the requests
\* (effects.py:65-80).
THEOREM ReplayInvariant == Spec => []ReplayInv
  BY InitReplay, StepReplay, PTL DEF Spec

\* However requests of different operations are mixed and retried, each operation
\* id is applied once, at its first request and in the order asked for, every
\* exact retry is suppressed, and the replay raises exactly at the first request
\* that reuses an id for another effect (effects.py:65-80).
THEOREM EachOperationTakesEffectOnce == Spec => []OneEffectPerOperation
<1>1. ReplayInv => OneEffectPerOperation
  BY DEF ReplayInv
<1> QED
  BY <1>1, ReplayInvariant, PTL
=============================================================================
