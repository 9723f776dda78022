---------------------------- MODULE EffectReplay ----------------------------
(***************************************************************************)
(* replay_effects (effects.py): the side-effect requests of a runtime that *)
(* may have crashed after an effect and before its acknowledgement, with   *)
(* or without an idempotency ledger.                                       *)
(*                                                                         *)
(* One step replays one request.  The requests are checked beforehand to   *)
(* have increasing sequence numbers; a request's number is its position    *)
(* here, and the replay ends when a request raises IdempotencyConflict.    *)
(***************************************************************************)
EXTENDS Naturals, Sequences, Functions

CONSTANTS
    OperationId,
    Effect,         \* a tool with its payload
    MaxRequests,    \* bound on the requests
    None            \* no entry of the ledger

ASSUME RequestsAssumption == MaxRequests \in Nat /\ None \notin Effect

VARIABLES
    mode,           \* "idempotent" or "naive"
    ledger,         \* operation id -> the effect it was first seen with
    applied,        \* requests applied, in order
    duplicates,     \* requests suppressed as exact retries
    conflict,       \* IdempotencyConflict was raised
    requests        \* history: the requests replayed so far

vars == <<mode, ledger, applied, duplicates, conflict, requests>>

EffectRequest == [sequence : 1 .. MaxRequests, operation_id : OperationId, identity : Effect]

Init ==
    /\ mode \in {"idempotent", "naive"}
    /\ ledger = [o \in OperationId |-> None]
    /\ applied = <<>>
    /\ duplicates = <<>>
    /\ conflict = FALSE
    /\ requests = <<>>

-----------------------------------------------------------------------------
\* The next request reaches the loop.
Replay(r) ==
    /\ ~ conflict
    /\ r.sequence = Len(requests) + 1
    /\ requests' = Append(requests, r)
    /\ UNCHANGED mode

ApplyNaively(r) ==
    /\ mode = "naive"
    /\ Replay(r)
    /\ applied' = Append(applied, r)
    /\ UNCHANGED <<ledger, duplicates, conflict>>

\* Seeded fault: the ledger keeps the last identity only.
ApplyForgetting(r) ==
    /\ mode = "idempotent"
    /\ Replay(r)
    /\ ledger[r.operation_id] = None
    /\ ledger' = [o \in OperationId |-> IF o = r.operation_id THEN r.identity ELSE None]
    /\ applied' = Append(applied, r)
    /\ UNCHANGED <<duplicates, conflict>>

ApplyNew(r) ==
    /\ mode = "idempotent"
    /\ Replay(r)
    /\ ledger[r.operation_id] = None
    /\ ledger' = [ledger EXCEPT ![r.operation_id] = r.identity]
    /\ applied' = Append(applied, r)
    /\ UNCHANGED <<duplicates, conflict>>

RaiseConflict(r) ==
    /\ mode = "idempotent"
    /\ Replay(r)
    /\ ledger[r.operation_id] \notin {None, r.identity}
    /\ conflict' = TRUE
    /\ UNCHANGED <<ledger, applied, duplicates>>

Suppress(r) ==
    /\ mode = "idempotent"
    /\ Replay(r)
    /\ ledger[r.operation_id] = r.identity
    /\ duplicates' = Append(duplicates, r)
    /\ UNCHANGED <<ledger, applied, conflict>>

Next ==
    \E r \in EffectRequest :
        ApplyNaively(r) \/ ApplyNew(r) \/ RaiseConflict(r) \/ Suppress(r)

Spec == Init /\ [][Next]_vars

-----------------------------------------------------------------------------
(* What the requests alone say, without reference to the ledger. *)

Requests == Range(requests)

IsFirst(r) ==
    \A q \in Requests : q.sequence < r.sequence => q.operation_id # r.operation_id

\* Only the last request can have raised.
Raised(r) == conflict /\ r.sequence = Len(requests)

Ambiguous ==
    \E q, r \in Requests : q.operation_id = r.operation_id /\ q.identity # r.identity

\* s lists the requests of S, each once and in the order they were made.
Enumerates(s, S) ==
    /\ Range(s) = S
    /\ \A i, j \in DOMAIN s : i < j => s[i].sequence < s[j].sequence

\* With the ledger, each operation id is applied exactly once, where it was
\* first asked for and in the order asked for, and every exact retry is
\* suppressed, however requests of different operations are mixed; the replay
\* raises at the first request that reuses an id for another effect and never
\* otherwise.  Without it every request is applied (effects.py:65-80).
OneEffectPerOperation ==
    IF mode = "naive"
    THEN applied = requests
    ELSE /\ Enumerates(applied, {r \in Requests : IsFirst(r)})
         /\ conflict <=> Ambiguous
         /\ Enumerates(duplicates, {r \in Requests : ~ IsFirst(r) /\ ~ Raised(r)})
=============================================================================
