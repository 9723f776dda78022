---------------------------- MODULE EventReplay ----------------------------
(***************************************************************************)
(* replay (simulator.py): the reducer that folds a stream of runtime       *)
(* events, of an active turn and of others, into the state of one run.     *)
(*                                                                         *)
(* One step folds one event.  The stream is checked beforehand to have     *)
(* increasing sequence numbers; an event's number is its position here.    *)
(* The replay starts from a fresh state, as all callers do, and ends when  *)
(* an event raises TerminalStateConflict.                                  *)
(***************************************************************************)
EXTENDS Naturals, Sequences, FiniteSetsExt, Functions

CONSTANTS
    RunId, TurnId,
    active_run_id, active_turn_id,  \* the scope the replay is asked for
    Payload,
    Empty,                          \* the empty payload
    MaxEvents,                      \* bound on the stream
    None

ASSUME ScopeAssumption == active_run_id \in RunId /\ active_turn_id \in TurnId

ASSUME PayloadAssumption == Empty \in Payload /\ MaxEvents \in Nat

ASSUME NoneAssumption == None \notin {"completed", "failed"}

VARIABLES
    mode,       \* "scoped" or "naive"
    state,      \* RunState
    conflict,   \* TerminalStateConflict was raised
    delivered,  \* events folded so far
    turn        \* history: the active turn's own events, in order

vars == <<mode, state, conflict, delivered, turn>>

EventKind == {"output", "completed", "failed"}

Event == [run_id : RunId, turn_id : TurnId, kind : EventKind, payload : Payload]

RunState ==
    [output           : Payload,
     terminal         : BOOLEAN,
     failed           : BOOLEAN,
     accepted_events  : Seq(1 .. MaxEvents),
     ignored_events   : Seq(1 .. MaxEvents),
     terminal_kind    : {"completed", "failed", None},
     terminal_payload : Payload]

TypeOK ==
    /\ mode \in {"scoped", "naive"}
    /\ state \in RunState
    /\ conflict \in BOOLEAN
    /\ delivered \in 0 .. MaxEvents
    /\ turn \in Seq(Event)
    /\ state.terminal <=> state.terminal_kind # None
    /\ state.failed => state.terminal

Init ==
    /\ mode \in {"scoped", "naive"}
    /\ state = [output           |-> Empty,
                terminal         |-> FALSE,
                failed           |-> FALSE,
                accepted_events  |-> <<>>,
                ignored_events   |-> <<>>,
                terminal_kind    |-> None,
                terminal_payload |-> Empty]
    /\ conflict = FALSE
    /\ delivered = 0
    /\ turn = <<>>

-----------------------------------------------------------------------------
\* Seeded fault: an event of another turn of the same run belongs.
BelongsToActiveRun(e) == e.run_id = active_run_id

BelongsToActiveTurn(e) == e.run_id = active_run_id /\ e.turn_id = active_turn_id

\* Seeded fault: a skipped event leaves no trace.
SkipSilently == state

Ignore == [state EXCEPT !.ignored_events = Append(@, delivered + 1)]

Accept == [state EXCEPT !.accepted_events = Append(@, delivered + 1)]

\* Seeded fault: a terminal event leaves its kind and payload unset.
TerminatedUnmarked(e) ==
    [Accept EXCEPT !.terminal = TRUE,
                   !.output = IF e.payload = Empty THEN @ ELSE e.payload]

\* Seeded fault: a completion without a payload clears the output.
CompletionClearsOutput(e) ==
    [Accept EXCEPT !.terminal = TRUE,
                   !.failed = (@ \/ e.kind = "failed"),
                   !.terminal_kind = e.kind,
                   !.terminal_payload = e.payload,
                   !.output = e.payload]

\* A completion without a payload keeps the output; a failure replaces it.
Terminated(e) ==
    [output           |-> IF e.kind = "completed" /\ e.payload = Empty
                          THEN state.output ELSE e.payload,
     terminal         |-> TRUE,
     failed           |-> state.failed \/ e.kind = "failed",
     accepted_events  |-> Append(state.accepted_events, delivered + 1),
     ignored_events   |-> state.ignored_events,
     terminal_kind    |-> e.kind,
     terminal_payload |-> e.payload]

Folded(e) ==
    IF e.kind = "output" THEN [Accept EXCEPT !.output = e.payload] ELSE Terminated(e)

RepeatsTerminal(e) ==
    e.kind = state.terminal_kind /\ e.payload = state.terminal_payload

\* What the reducer does with an event: skip it, fold it, or raise.
Skipped(e) ==
    /\ mode = "scoped"
    /\ ~ BelongsToActiveTurn(e) \/ (state.terminal /\ RepeatsTerminal(e))

Raises(e) ==
    /\ mode = "scoped"
    /\ BelongsToActiveTurn(e)
    /\ state.terminal
    /\ ~ RepeatsTerminal(e)

Deliver(e) ==
    /\ delivered < MaxEvents
    /\ ~ conflict
    /\ delivered' = delivered + 1
    /\ turn' = IF e.run_id = active_run_id /\ e.turn_id = active_turn_id
               THEN Append(turn, e) ELSE turn
    /\ UNCHANGED mode

Skip(e) == Deliver(e) /\ Skipped(e) /\ state' = Ignore /\ UNCHANGED conflict

Fold(e) ==
    /\ Deliver(e)
    /\ ~ Skipped(e)
    /\ ~ Raises(e)
    /\ state' = Folded(e)
    /\ UNCHANGED conflict

RaiseConflict(e) == Deliver(e) /\ Raises(e) /\ conflict' = TRUE /\ UNCHANGED state

Next == \E e \in Event : Skip(e) \/ Fold(e) \/ RaiseConflict(e)

Spec == Init /\ [][Next]_vars

-----------------------------------------------------------------------------
(* What the active turn's own events say, without reference to the reducer. *)

Terminals == {i \in DOMAIN turn : turn[i].kind # "output"}

OutputBefore(n) == IF n = 0 THEN Empty ELSE turn[n].payload

Shows(result) ==
    IF Terminals = {}
    THEN /\ ~ result.terminal
         /\ result.output = OutputBefore(Len(turn))
    ELSE LET first == Min(Terminals)
             e == turn[first]
         IN /\ result.terminal_kind = e.kind
            /\ result.terminal_payload = e.payload
            /\ result.failed = (e.kind = "failed")
            /\ result.output = IF e.kind = "completed" /\ e.payload = Empty
                               THEN OutputBefore(first - 1) ELSE e.payload

\* However events of other turns and late events are mixed into the stream, a
\* scoped replay shows exactly what the active turn's own events up to its first
\* terminal event say, and it raises if and only if that turn contradicts this
\* event later (simulator.py:39-54): a stale child can neither end, fail nor
\* overwrite its parent, nor make its replay raise.
ScopedReplayShowsTheTurn ==
    mode = "scoped" =>
        /\ Shows(state)
        /\ conflict <=> \E i, j \in DOMAIN turn :
            i = Min(Terminals \cup {Len(turn)}) /\ i < j /\ turn[i] # turn[j]

\* The naive reducer errs only on streams the scoped one exists for: without
\* strangers and without events after termination it shows the same.
NaiveIsRightOnCleanStreams ==
    (mode = "naive" /\ delivered = Len(turn) /\ Terminals \subseteq {Len(turn)})
        => Shows(state)

\* Each event is accepted or ignored, once and in order, but for the one that
\* raised (lines 41, 52, 56).
EveryEventIsAccountedFor ==
    /\ Range(state.accepted_events) \cup Range(state.ignored_events)
        = 1 .. (IF conflict THEN delivered - 1 ELSE delivered)
    /\ Len(state.accepted_events) + Len(state.ignored_events)
        = IF conflict THEN delivered - 1 ELSE delivered
=============================================================================
