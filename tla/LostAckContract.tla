--------------------------- MODULE LostAckContract ---------------------------
(***************************************************************************)
(* What reconciliation of a lost acknowledgement promises to a caller who  *)
(* sees neither revisions, readbacks nor worker memory.                    *)
(*                                                                         *)
(* There is one durable verdict per operation identity.  A reconciler may  *)
(* repeat the operation only while that verdict is "retry", the identity   *)
(* is unsettled and the effect is not there; it may settle the identity    *)
(* only for an operation whose effect was really seen; and from then on    *)
(* the verdict is fixed, for good.                                         *)
(***************************************************************************)
EXTENDS Naturals

CONSTANTS Operation, Identity, IdentityOf(_), None

VARIABLES
    effects,    \* the effects the provider holds
    everHeld,   \* the effects it ever held
    repeats,    \* how often reconcilers repeated each identity
    verdict,    \* [Identity -> None, <<"retry", op>> or <<"accept", op>>]
    settled     \* [Identity -> Operation or None]

vars == <<effects, everHeld, repeats, verdict, settled>>

Init ==
    /\ effects = {}
    /\ everHeld = {}
    /\ repeats = [k \in Identity |-> 0]
    /\ verdict = [k \in Identity |-> None]
    /\ settled = [k \in Identity |-> None]

Absent(op) == \A e \in effects : IdentityOf(e) # IdentityOf(op)

Appear(op) ==
    /\ Absent(op)
    /\ effects' = effects \cup {op}
    /\ everHeld' = everHeld \cup {op}
    /\ UNCHANGED <<verdict, settled>>

\* A reconciler repeats the operation.
Retry(op) ==
    /\ verdict[IdentityOf(op)] = <<"retry", op>>
    /\ settled[IdentityOf(op)] = None
    /\ Appear(op)
    /\ repeats' = [repeats EXCEPT ![IdentityOf(op)] = @ + 1]

\* Somebody else commits it, the delayed original submission included.
CommittedElsewhere(op) == Appear(op) /\ UNCHANGED repeats

Removed(op) ==
    /\ op \in effects
    /\ effects' = effects \ {op}
    /\ UNCHANGED <<everHeld, repeats, verdict, settled>>

\* The verdict never moves to another operation.
Binds(op) ==
    verdict[IdentityOf(op)] \in {None, <<"retry", op>>, <<"accept", op>>}

GrantRetry(op) ==
    /\ Binds(op)
    /\ settled[IdentityOf(op)] = None
    /\ verdict' = [verdict EXCEPT ![IdentityOf(op)] = <<"retry", op>>]
    /\ UNCHANGED <<effects, everHeld, repeats, settled>>

Accept(op) ==
    /\ Binds(op)
    /\ op \in everHeld
    /\ verdict' = [verdict EXCEPT ![IdentityOf(op)] = <<"accept", op>>]
    /\ UNCHANGED <<effects, everHeld, repeats, settled>>

Settle(op) ==
    /\ verdict[IdentityOf(op)] = <<"accept", op>>
    /\ op \in everHeld
    /\ settled' = [settled EXCEPT ![IdentityOf(op)] = op]
    /\ UNCHANGED <<effects, everHeld, repeats, verdict>>

Next == \E op \in Operation :
    \/ Retry(op)
    \/ CommittedElsewhere(op)
    \/ Removed(op)
    \/ GrantRetry(op)
    \/ Accept(op)
    \/ Settle(op)

Spec == Init /\ [][Next]_vars
=============================================================================
