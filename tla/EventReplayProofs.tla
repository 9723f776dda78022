------------------------- MODULE EventReplayProofs -------------------------
(***************************************************************************)
(* Proofs for EventReplay, for every set of runs, turns and payloads and   *)
(* every length of the stream.                                             *)
(*                                                                         *)
(* The reducer remembers the kind and the payload of the terminal event it *)
(* folded, not where it was.  The invariant that carries the proof names   *)
(* the place: while a scoped replay has not terminated, the turn has no    *)
(* terminal event and the output is that of its last event; once it has,   *)
(* there is a first terminal event that the state shows, and every later   *)
(* event of the turn repeats it but for the one that raised.               *)
(***************************************************************************)
EXTENDS EventReplay, TLAPS

\* The state shows the turn's event n, its first terminal event, and only an
\* event that raised differs from it later.
ShowsTerminal(n) ==
    /\ \A m \in Terminals : n <= m
    /\ state.terminal_kind = turn[n].kind
    /\ state.terminal_payload = turn[n].payload
    /\ state.failed = (turn[n].kind = "failed")
    /\ state.output = IF turn[n].kind = "completed" /\ turn[n].payload = Empty
                      THEN OutputBefore(n - 1) ELSE turn[n].payload
    /\ conflict => n < Len(turn) /\ turn[Len(turn)] # turn[n]
    /\ ~ conflict => \A m \in DOMAIN turn : n < m => turn[m] = turn[n]

ScopedFollowsTurn ==
    mode = "scoped" =>
        /\ state.terminal => \E n \in Terminals : ShowsTerminal(n)
        /\ ~ state.terminal => /\ ~ conflict
                               /\ Terminals = {}
                               /\ state.output = OutputBefore(Len(turn))

NaiveNeverRaises == mode = "naive" => ~ conflict

TurnIsActive ==
    \A i \in DOMAIN turn :
        turn[i].run_id = active_run_id /\ turn[i].turn_id = active_turn_id

ReplayInv ==
    /\ TypeOK
    /\ Len(turn) <= delivered
    /\ NaiveNeverRaises
    /\ TurnIsActive
    /\ ScopedFollowsTurn
    /\ NaiveIsRightOnCleanStreams
    /\ EveryEventIsAccountedFor

-----------------------------------------------------------------------------
(* The operators the invariant is built from. *)

LEMMA MinIsLeast ==
    ASSUME NEW S \in SUBSET Nat, NEW n \in S, \A m \in S : n <= m
    PROVE  Min(S) = n
<1>1. Min(S) \in S /\ \A m \in S : Min(S) <= m
  BY Zenon DEF Min
<1>2. \A k \in S : (\A m \in S : k <= m) => k = n
  <2> SUFFICES ASSUME NEW k \in S, \A m \in S : k <= m
               PROVE  k = n
    OBVIOUS
  <2>1. k <= n /\ n <= k /\ k \in Nat /\ n \in Nat
    OBVIOUS
  <2> QED
    BY <2>1
<1> QED
  BY <1>1, <1>2, Zenon

LEMMA RangeOfAppend ==
    ASSUME NEW S, NEW s \in Seq(S), NEW x \in S
    PROVE  /\ Range(Append(s, x)) = Range(s) \cup {x}
           /\ Len(Append(s, x)) = Len(s) + 1
           /\ Append(s, x) \in Seq(S)
<1>1. /\ Len(Append(s, x)) = Len(s) + 1
      /\ Append(s, x) \in Seq(S)
      /\ DOMAIN Append(s, x) = 1 .. Len(s) + 1
      /\ Append(s, x)[Len(s) + 1] = x
      /\ \A i \in 1 .. Len(s) : Append(s, x)[i] = s[i]
  OBVIOUS
<1>2. DOMAIN s = 1 .. Len(s) /\ Len(s) \in Nat
  OBVIOUS
<1>3. Range(Append(s, x)) \subseteq Range(s) \cup {x}
  BY <1>1, <1>2 DEF Range
<1>4. Range(s) \subseteq Range(Append(s, x))
  BY <1>1, <1>2 DEF Range
<1>5. x \in Range(Append(s, x))
  BY <1>1, <1>2 DEF Range
<1> QED
  BY <1>1, <1>3, <1>4, <1>5

LEMMA EventFields ==
    \A e \in Event : /\ e.kind \in {"output", "completed", "failed"}
                     /\ e.payload \in Payload
  BY DEF Event, EventKind

LEMMA EventsAreEqual ==
    ASSUME NEW d \in Event, NEW e \in Event,
           d.run_id = e.run_id, d.turn_id = e.turn_id, d.kind = e.kind, d.payload = e.payload
    PROVE  d = e
  BY DEF Event

\* What the turn is after one more of its events.
Grown(e) ==
    /\ turn' \in Seq(Event)
    /\ Len(turn) \in Nat
    /\ Len(turn') = Len(turn) + 1
    /\ DOMAIN turn = 1 .. Len(turn)
    /\ DOMAIN turn' = 1 .. Len(turn) + 1
    /\ turn'[Len(turn) + 1] = e
    /\ \A i \in 1 .. Len(turn) : turn'[i] = turn[i]
    /\ Terminals \subseteq 1 .. Len(turn)
    /\ Terminals' = IF e.kind = "output" THEN Terminals ELSE Terminals \cup {Len(turn) + 1}

LEMMA TurnGrows ==
    ASSUME turn \in Seq(Event), NEW e \in Event, turn' = Append(turn, e)
    PROVE  Grown(e)
<1>1. /\ turn' \in Seq(Event)
      /\ Len(turn) \in Nat
      /\ Len(turn') = Len(turn) + 1
      /\ DOMAIN turn = 1 .. Len(turn)
      /\ DOMAIN turn' = 1 .. Len(turn) + 1
      /\ turn'[Len(turn) + 1] = e
      /\ \A i \in 1 .. Len(turn) : turn'[i] = turn[i]
  OBVIOUS
<1>2. Terminals \subseteq 1 .. Len(turn)
  BY <1>1 DEF Terminals
<1>3. \A i : i \in Terminals' <=> i \in 1 .. Len(turn) + 1 /\ turn'[i].kind # "output"
  BY <1>1 DEF Terminals
<1>4. \A i : i \in Terminals <=> i \in 1 .. Len(turn) /\ turn[i].kind # "output"
  BY <1>1 DEF Terminals
<1>5. Terminals' = IF e.kind = "output" THEN Terminals ELSE Terminals \cup {Len(turn) + 1}
  <2>1. \A i : i \in Terminals' <=> i \in Terminals \/ (i = Len(turn) + 1 /\ e.kind # "output")
    BY <1>1, <1>3, <1>4
  <2>2. CASE e.kind = "output"
    BY <2>1, <2>2
  <2>3. CASE e.kind # "output"
    BY <2>1, <2>3
  <2> QED
    BY <2>2, <2>3
<1> QED
  BY <1>1, <1>2, <1>5 DEF Grown

-----------------------------------------------------------------------------
(* What each outcome of the loop does to the state. *)

Record(output, terminal, failed, accepted, ignored, kind, payload) ==
    [output |-> output, terminal |-> terminal, failed |-> failed,
     accepted_events |-> accepted, ignored_events |-> ignored,
     terminal_kind |-> kind, terminal_payload |-> payload]

LEMMA StateIs ==
    ASSUME NEW s \in RunState
    PROVE  s = Record(s.output, s.terminal, s.failed, s.accepted_events, s.ignored_events,
                      s.terminal_kind, s.terminal_payload)
  BY DEF RunState, Record

LEMMA RecordTyped ==
    ASSUME NEW output \in Payload, NEW terminal \in BOOLEAN, NEW failed \in BOOLEAN,
           NEW accepted \in Seq(1 .. MaxEvents), NEW ignored \in Seq(1 .. MaxEvents),
           NEW kind \in {"completed", "failed", None}, NEW payload \in Payload
    PROVE  Record(output, terminal, failed, accepted, ignored, kind, payload) \in RunState
  BY DEF RunState, Record

LEMMA IgnoreIs ==
    ASSUME state \in RunState
    PROVE  Ignore = Record(state.output, state.terminal, state.failed, state.accepted_events,
                           Append(state.ignored_events, delivered + 1),
                           state.terminal_kind, state.terminal_payload)
  BY StateIs DEF Ignore, Record

LEMMA AcceptIs ==
    ASSUME state \in RunState
    PROVE  Accept = Record(state.output, state.terminal, state.failed,
                           Append(state.accepted_events, delivered + 1), state.ignored_events,
                           state.terminal_kind, state.terminal_payload)
  BY StateIs DEF Accept, Record

LEMMA FoldedIs ==
    ASSUME state \in RunState, NEW e
    PROVE  /\ e.kind = "output" =>
                Folded(e) = Record(e.payload, state.terminal, state.failed,
                                   Append(state.accepted_events, delivered + 1),
                                   state.ignored_events,
                                   state.terminal_kind, state.terminal_payload)
           /\ e.kind # "output" =>
                Folded(e) = Record(IF e.kind = "completed" /\ e.payload = Empty
                                   THEN state.output ELSE e.payload,
                                   TRUE, state.failed \/ e.kind = "failed",
                                   Append(state.accepted_events, delivered + 1),
                                   state.ignored_events, e.kind, e.payload)
<1> DEFINE accepted == Append(state.accepted_events, delivered + 1)
<1>1. Accept = Record(state.output, state.terminal, state.failed, accepted,
                      state.ignored_events, state.terminal_kind, state.terminal_payload)
  BY AcceptIs
<1>2. [Accept EXCEPT !.output = e.payload]
        = Record(e.payload, state.terminal, state.failed, accepted, state.ignored_events,
                 state.terminal_kind, state.terminal_payload)
  BY <1>1 DEF Record
<1>3. CASE e.kind = "output"
  BY <1>2, <1>3, Zenon DEF Folded
<1>4. CASE e.kind # "output"
  BY <1>4, Zenon DEF Folded, Terminated, Record
<1> QED
  BY <1>3, <1>4

-----------------------------------------------------------------------------
(* What every step has in common. *)

\* One event has been delivered.
Arrived(e) ==
    /\ ~ conflict
    /\ delivered \in Nat
    /\ delivered + 1 \in 1 .. MaxEvents
    /\ delivered' = delivered + 1
    /\ mode' = mode
    /\ IF BelongsToActiveTurn(e) THEN Grown(e) ELSE turn' = turn

LEMMA DeliverArrives ==
    ASSUME TypeOK, NEW e \in Event, Deliver(e)
    PROVE  Arrived(e)
<1>1. /\ ~ conflict
      /\ delivered \in Nat
      /\ delivered + 1 \in 1 .. MaxEvents
      /\ delivered' = delivered + 1
      /\ mode' = mode
  BY PayloadAssumption DEF Deliver, TypeOK
<1>2. CASE BelongsToActiveTurn(e)
  <2>1. turn' = Append(turn, e) /\ turn \in Seq(Event)
    BY <1>2 DEF Deliver, BelongsToActiveTurn, TypeOK
  <2>2. Grown(e)
    BY <2>1, TurnGrows
  <2> QED
    BY <1>1, <1>2, <2>2 DEF Arrived
<1>3. CASE ~ BelongsToActiveTurn(e)
  BY <1>1, <1>3 DEF Deliver, BelongsToActiveTurn, Arrived
<1> QED
  BY <1>2, <1>3

LEMMA TurnStaysActive ==
    ASSUME ReplayInv, NEW e \in Event, Arrived(e)
    PROVE  turn' \in Seq(Event) /\ Len(turn') <= delivered' /\ TurnIsActive'
<1>1. turn \in Seq(Event) /\ Len(turn) <= delivered /\ TurnIsActive /\ Len(turn) \in Nat
  BY DEF ReplayInv, TypeOK
<1>2. CASE BelongsToActiveTurn(e)
  <2>1. Grown(e)
    BY <1>2 DEF Arrived
  <2>2. Len(turn') <= delivered'
    BY <1>1, <2>1 DEF Arrived, Grown
  <2>3. TurnIsActive'
    BY <1>1, <1>2, <2>1 DEF Grown, TurnIsActive, BelongsToActiveTurn
  <2> QED
    BY <2>1, <2>2, <2>3 DEF Grown
<1>3. CASE ~ BelongsToActiveTurn(e)
  <2>1. turn' = turn
    BY <1>3 DEF Arrived
  <2> QED
    BY <1>1, <2>1 DEF Arrived, TurnIsActive
<1> QED
  BY <1>2, <1>3

\* The output of an earlier event is not changed by a later one.
LEMMA OutputIsKept ==
    ASSUME NEW e, Grown(e), NEW n \in 0 .. Len(turn)
    PROVE  OutputBefore(n)' = OutputBefore(n)
<1>1. n # 0 => turn'[n] = turn[n]
  BY DEF Grown
<1> QED
  BY <1>1 DEF OutputBefore

\* The number of the event goes to the end of one of the two lists.
LEMMA EventIsAccountedFor ==
    ASSUME ReplayInv, NEW e \in Event, Arrived(e), ~ conflict',
           \/ /\ state'.accepted_events = Append(state.accepted_events, delivered + 1)
              /\ state'.ignored_events = state.ignored_events
           \/ /\ state'.ignored_events = Append(state.ignored_events, delivered + 1)
              /\ state'.accepted_events = state.accepted_events
    PROVE  /\ EveryEventIsAccountedFor'
           /\ state'.accepted_events \in Seq(1 .. MaxEvents)
           /\ state'.ignored_events \in Seq(1 .. MaxEvents)
<1> DEFINE a == state.accepted_events
           i == state.ignored_events
<1>1. /\ a \in Seq(1 .. MaxEvents)
      /\ i \in Seq(1 .. MaxEvents)
      /\ Len(a) \in Nat
      /\ Len(i) \in Nat
  BY DEF ReplayInv, TypeOK, RunState
<1>2. /\ Range(a) \cup Range(i) = 1 .. delivered
      /\ Len(a) + Len(i) = delivered
  BY DEF ReplayInv, EveryEventIsAccountedFor, Arrived
<1>3. /\ delivered + 1 \in 1 .. MaxEvents
      /\ delivered' = delivered + 1
      /\ delivered \in Nat
      /\ (1 .. delivered) \cup {delivered + 1} = 1 .. delivered + 1
  BY DEF Arrived
<1> HIDE DEF a, i
<1>4. CASE state'.accepted_events = Append(a, delivered + 1) /\ state'.ignored_events = i
  <2>1. /\ Range(Append(a, delivered + 1)) = Range(a) \cup {delivered + 1}
        /\ Len(Append(a, delivered + 1)) = Len(a) + 1
        /\ Append(a, delivered + 1) \in Seq(1 .. MaxEvents)
    BY <1>1, <1>3, RangeOfAppend
  <2>2. Range(state'.accepted_events) \cup Range(state'.ignored_events) = 1 .. delivered'
    BY <1>2, <1>3, <1>4, <2>1
  <2>3. Len(state'.accepted_events) + Len(state'.ignored_events) = delivered'
    <3>1. Len(state'.accepted_events) = Len(a) + 1 /\ Len(state'.ignored_events) = Len(i)
      BY <1>4, <2>1
    <3>2. Len(a) \in Nat /\ Len(i) \in Nat /\ Len(a) + Len(i) = delivered
      BY <1>1, <1>2
    <3>3. delivered' = delivered + 1
      BY <1>3
    <3> QED
      BY <3>1, <3>2, <3>3
  <2> QED
    BY <1>1, <1>4, <2>1, <2>2, <2>3 DEF EveryEventIsAccountedFor
<1>5. CASE state'.ignored_events = Append(i, delivered + 1) /\ state'.accepted_events = a
  <2>1. /\ Range(Append(i, delivered + 1)) = Range(i) \cup {delivered + 1}
        /\ Len(Append(i, delivered + 1)) = Len(i) + 1
        /\ Append(i, delivered + 1) \in Seq(1 .. MaxEvents)
    BY <1>1, <1>3, RangeOfAppend
  <2>2. Range(state'.accepted_events) \cup Range(state'.ignored_events) = 1 .. delivered'
    BY <1>2, <1>3, <1>5, <2>1
  <2>3. Len(state'.accepted_events) + Len(state'.ignored_events) = delivered'
    <3>1. Len(state'.accepted_events) = Len(a) /\ Len(state'.ignored_events) = Len(i) + 1
      BY <1>5, <2>1
    <3>2. Len(a) \in Nat /\ Len(i) \in Nat /\ Len(a) + Len(i) = delivered
      BY <1>1, <1>2
    <3>3. delivered' = delivered + 1
      BY <1>3
    <3> QED
      BY <3>1, <3>2, <3>3
  <2> QED
    BY <1>1, <1>5, <2>1, <2>2, <2>3 DEF EveryEventIsAccountedFor
<1> QED
  BY <1>4, <1>5 DEF a, i

-----------------------------------------------------------------------------
(* One lemma for each action. *)

LEMMA SkipPreserves ==
    ASSUME ReplayInv, NEW e \in Event, Skip(e)
    PROVE  ReplayInv'
<1>1. Arrived(e) /\ mode = "scoped" /\ ~ conflict'
  BY DeliverArrives DEF Skip, Skipped, ReplayInv, Arrived
<1>2. TypeOK /\ state \in RunState
  BY DEF ReplayInv, TypeOK
<1>3. state' = Record(state.output, state.terminal, state.failed, state.accepted_events,
                      Append(state.ignored_events, delivered + 1),
                      state.terminal_kind, state.terminal_payload)
  BY <1>2, IgnoreIs DEF Skip
<1>4. /\ state'.output = state.output
      /\ state'.terminal = state.terminal
      /\ state'.failed = state.failed
      /\ state'.accepted_events = state.accepted_events
      /\ state'.ignored_events = Append(state.ignored_events, delivered + 1)
      /\ state'.terminal_kind = state.terminal_kind
      /\ state'.terminal_payload = state.terminal_payload
  BY <1>3 DEF Record
<1>5. turn' \in Seq(Event) /\ Len(turn') <= delivered' /\ TurnIsActive'
  BY <1>1, TurnStaysActive
<1>6. /\ EveryEventIsAccountedFor'
      /\ state'.accepted_events \in Seq(1 .. MaxEvents)
      /\ state'.ignored_events \in Seq(1 .. MaxEvents)
  BY <1>1, <1>4, EventIsAccountedFor
<1>7. TypeOK'
  <2>1. state' \in RunState
    <3>1. /\ state'.accepted_events \in Seq(1 .. MaxEvents)
          /\ Append(state.ignored_events, delivered + 1) \in Seq(1 .. MaxEvents)
          /\ state.accepted_events = state'.accepted_events
      BY <1>4, <1>6
    <3> QED
      BY <1>2, <1>3, <3>1 DEF RunState, Record
  <2>2. mode' \in {"scoped", "naive"} /\ delivered' \in 0 .. MaxEvents /\ conflict' \in BOOLEAN
    BY <1>1, <1>2, PayloadAssumption DEF TypeOK, Arrived, Skip
  <2>3. /\ state'.terminal <=> state'.terminal_kind # None
        /\ state'.failed => state'.terminal
    BY <1>2, <1>4, Zenon DEF TypeOK
  <2> QED
    BY <1>5, <2>1, <2>2, <2>3 DEF TypeOK
<1>8. ScopedFollowsTurn'
  <2>1. CASE ~ BelongsToActiveTurn(e)
    <3>1. turn' = turn /\ conflict' = conflict /\ mode' = mode
      BY <1>1, <2>1 DEF Arrived, Skip
    <3>2. Terminals' = Terminals /\ \A n : OutputBefore(n)' = OutputBefore(n)
      BY <3>1 DEF Terminals, OutputBefore
    <3>3. \A n : ShowsTerminal(n) => ShowsTerminal(n)'
      BY <1>4, <3>1, <3>2 DEF ShowsTerminal
    <3> QED
      BY <1>4, <3>1, <3>2, <3>3 DEF ReplayInv, ScopedFollowsTurn
  <2>2. CASE BelongsToActiveTurn(e)
    <3>1. Grown(e) /\ state.terminal /\ RepeatsTerminal(e)
      BY <1>1, <2>2 DEF Arrived, Skip, Skipped
    <3>2. PICK n \in Terminals : ShowsTerminal(n)
      BY <1>1, <3>1 DEF ReplayInv, ScopedFollowsTurn
    <3>3. /\ n \in 1 .. Len(turn)
          /\ turn'[n] = turn[n]
          /\ n \in Terminals'
          /\ \A m \in Terminals' : n <= m
      BY <3>1, <3>2 DEF Grown, ShowsTerminal
    <3>4. turn[n] = e
      <4>1. turn[n] \in Event /\ turn[n].kind = e.kind /\ turn[n].payload = e.payload
        BY <3>1, <3>2, <3>3 DEF ShowsTerminal, RepeatsTerminal, ReplayInv, TypeOK, Grown
      <4>2. turn[n].run_id = e.run_id /\ turn[n].turn_id = e.turn_id
        BY <2>2, <3>1, <3>3 DEF ReplayInv, TurnIsActive, BelongsToActiveTurn, Grown
      <4> QED
        BY <4>1, <4>2, EventsAreEqual
    <3>5. OutputBefore(n - 1)' = OutputBefore(n - 1)
      BY <3>1, <3>3, OutputIsKept DEF Grown
    <3>6. \A m \in DOMAIN turn' : n < m => turn'[m] = turn'[n]
      <4>1. \A m \in 1 .. Len(turn) : n < m => turn[m] = turn[n]
        BY <1>1, <3>1, <3>2 DEF ShowsTerminal, Arrived, Grown
      <4> QED
        BY <3>1, <3>3, <3>4, <4>1 DEF Grown
    <3>7. ShowsTerminal(n)'
      BY <1>1, <1>4, <3>2, <3>3, <3>5, <3>6 DEF ShowsTerminal
    <3> QED
      BY <1>1, <1>4, <3>1, <3>3, <3>7 DEF ScopedFollowsTurn
  <2> QED
    BY <2>1, <2>2
<1>9. NaiveNeverRaises' /\ NaiveIsRightOnCleanStreams'
  BY <1>1 DEF NaiveNeverRaises, NaiveIsRightOnCleanStreams, Arrived
<1> QED
  BY <1>5, <1>6, <1>7, <1>8, <1>9 DEF ReplayInv

LEMMA RaiseConflictPreserves ==
    ASSUME ReplayInv, NEW e \in Event, RaiseConflict(e)
    PROVE  ReplayInv'
<1>1. Arrived(e) /\ mode = "scoped" /\ conflict' = TRUE /\ state' = state
  BY DeliverArrives DEF RaiseConflict, Raises, ReplayInv
<1>2. TypeOK
  BY DEF ReplayInv
<1>3. turn' \in Seq(Event) /\ Len(turn') <= delivered' /\ TurnIsActive'
  BY <1>1, TurnStaysActive
<1>4. TypeOK'
  <2>1. mode' \in {"scoped", "naive"} /\ delivered' \in 0 .. MaxEvents /\ conflict' \in BOOLEAN
    BY <1>1, <1>2, PayloadAssumption DEF TypeOK, Arrived
  <2>2. /\ state' \in RunState
        /\ state'.terminal <=> state'.terminal_kind # None
        /\ state'.failed => state'.terminal
    BY <1>1, <1>2, Zenon DEF TypeOK
  <2> QED
    BY <1>3, <2>1, <2>2 DEF TypeOK
<1>5. EveryEventIsAccountedFor'
  <2>1. delivered' - 1 = delivered
    BY <1>1 DEF Arrived
  <2>2. /\ Range(state.accepted_events) \cup Range(state.ignored_events) = 1 .. delivered
        /\ Len(state.accepted_events) + Len(state.ignored_events) = delivered
    BY <1>1 DEF ReplayInv, EveryEventIsAccountedFor, Arrived
  <2> QED
    BY <1>1, <2>1, <2>2 DEF EveryEventIsAccountedFor
<1>6. ScopedFollowsTurn'
  <2>1. Grown(e) /\ state.terminal /\ ~ RepeatsTerminal(e)
    BY <1>1 DEF Arrived, RaiseConflict, Raises
  <2>2. PICK n \in Terminals : ShowsTerminal(n)
    BY <1>1, <2>1 DEF ReplayInv, ScopedFollowsTurn
  <2>3. /\ n \in 1 .. Len(turn)
        /\ turn'[n] = turn[n]
        /\ n \in Terminals'
        /\ \A m \in Terminals' : n <= m
        /\ n < Len(turn')
    BY <2>1, <2>2 DEF Grown, ShowsTerminal
  <2>4. turn[n] # e
    BY <2>1, <2>2 DEF ShowsTerminal, RepeatsTerminal
  <2>5. turn'[Len(turn')] # turn'[n]
    BY <2>1, <2>3, <2>4 DEF Grown
  <2>6. OutputBefore(n - 1)' = OutputBefore(n - 1)
    BY <2>1, <2>3, OutputIsKept DEF Grown
  <2>7. ShowsTerminal(n)'
    BY <1>1, <2>2, <2>3, <2>5, <2>6 DEF ShowsTerminal
  <2> QED
    BY <1>1, <2>1, <2>3, <2>7 DEF ScopedFollowsTurn
<1>7. NaiveNeverRaises' /\ NaiveIsRightOnCleanStreams'
  BY <1>1 DEF NaiveNeverRaises, NaiveIsRightOnCleanStreams, Arrived
<1> QED
  BY <1>3, <1>4, <1>5, <1>6, <1>7 DEF ReplayInv

\* A terminal event that is the turn's first one and its last one so far.
LEMMA TerminationShows ==
    ASSUME ReplayInv, NEW e \in Event, Grown(e), Terminals = {}, e.kind # "output",
           ~ state.failed, state.output = OutputBefore(Len(turn)),
           state' = Folded(e), ~ conflict', NEW n, n = Len(turn) + 1
    PROVE  ShowsTerminal(n)' /\ Terminals' = {n}
<1>1. /\ n \in Nat
      /\ turn'[n] = e
      /\ Len(turn') = n
      /\ DOMAIN turn' = 1 .. n
      /\ Terminals' = {n}
      /\ Len(turn) \in Nat
  BY DEF Grown
<1>2. /\ state'.output = IF e.kind = "completed" /\ e.payload = Empty
                         THEN state.output ELSE e.payload
      /\ state'.failed = (state.failed \/ e.kind = "failed")
      /\ state'.terminal_kind = e.kind
      /\ state'.terminal_payload = e.payload
  BY FoldedIs DEF ReplayInv, TypeOK, Record
<1>3. OutputBefore(n - 1)' = OutputBefore(Len(turn))
  <2> SUFFICES ASSUME NEW k \in 0 .. Len(turn), k = Len(turn)
               PROVE  OutputBefore(k)' = OutputBefore(k)
    BY <1>1
  <2> QED
    BY OutputIsKept
<1>4. state'.failed = (e.kind = "failed")
  BY <1>2, Zenon
<1>5. \A m \in DOMAIN turn' : ~ (n < m)
  BY <1>1
<1>6. \A m \in Terminals' : n <= m
  BY <1>1
<1>7. state'.output = IF e.kind = "completed" /\ e.payload = Empty
                      THEN OutputBefore(n - 1)' ELSE e.payload
  BY <1>2, <1>3
<1>8. ShowsTerminal(n)'
  BY <1>1, <1>2, <1>4, <1>5, <1>6, <1>7 DEF ShowsTerminal
<1> QED
  BY <1>1, <1>8

\* A state that shows the first terminal event shows what the turn says.
LEMMA TerminalIsShown ==
    turn \in Seq(Event) /\ (\E n \in Terminals : ShowsTerminal(n)) => Shows(state)
<1> SUFFICES ASSUME turn \in Seq(Event), NEW n \in Terminals, ShowsTerminal(n)
             PROVE  Shows(state)
  OBVIOUS
<1>1. Terminals \in SUBSET Nat
  BY DEF Terminals
<1>2. Min(Terminals) = n
  BY <1>1, MinIsLeast DEF ShowsTerminal
<1> QED
  BY <1>2 DEF ShowsTerminal, Shows

LEMMA NothingIsShown ==
    ASSUME Terminals = {}, ~ state.terminal, state.output = OutputBefore(Len(turn))
    PROVE  Shows(state)
  BY DEF Shows

LEMMA FoldPreserves ==
    ASSUME ReplayInv, NEW e \in Event, Fold(e)
    PROVE  ReplayInv'
<1>1. Arrived(e) /\ ~ conflict' /\ conflict' \in BOOLEAN /\ state' = Folded(e)
  BY DeliverArrives DEF Fold, ReplayInv, Arrived, TypeOK
<1>2. /\ TypeOK
      /\ state \in RunState
      /\ e.kind \in {"output", "completed", "failed"}
      /\ e.payload \in Payload
  BY EventFields DEF ReplayInv, TypeOK
<1>3. turn' \in Seq(Event) /\ Len(turn') <= delivered' /\ TurnIsActive'
  BY <1>1, TurnStaysActive
<1>4. e.kind = "output" =>
        state' = Record(e.payload, state.terminal, state.failed,
                        Append(state.accepted_events, delivered + 1), state.ignored_events,
                        state.terminal_kind, state.terminal_payload)
  BY <1>1, <1>2, FoldedIs
<1>5. e.kind # "output" =>
        state' = Record(IF e.kind = "completed" /\ e.payload = Empty
                        THEN state.output ELSE e.payload,
                        TRUE, state.failed \/ e.kind = "failed",
                        Append(state.accepted_events, delivered + 1), state.ignored_events,
                        e.kind, e.payload)
  BY <1>1, <1>2, FoldedIs
<1>a. /\ state'.accepted_events = Append(state.accepted_events, delivered + 1)
      /\ state'.ignored_events = state.ignored_events
  BY <1>4, <1>5 DEF Record
<1>6. /\ EveryEventIsAccountedFor'
      /\ Append(state.accepted_events, delivered + 1) \in Seq(1 .. MaxEvents)
      /\ state.ignored_events \in Seq(1 .. MaxEvents)
  BY <1>1, <1>a, EventIsAccountedFor
<1>7. TypeOK'
  <2>1. state' \in RunState
    <3>1. /\ state.output \in Payload
          /\ state.terminal \in BOOLEAN
          /\ state.failed \in BOOLEAN
          /\ state.terminal_kind \in {"completed", "failed", None}
          /\ state.terminal_payload \in Payload
      BY <1>2 DEF RunState
    <3>2. (state.failed \/ e.kind = "failed") \in BOOLEAN
      BY Zenon
    <3>3. (IF e.kind = "completed" /\ e.payload = Empty THEN state.output ELSE e.payload)
            \in Payload
      BY <1>2, <3>1
    <3>4. CASE e.kind = "output"
      <4>1. Record(e.payload, state.terminal, state.failed,
                   Append(state.accepted_events, delivered + 1), state.ignored_events,
                   state.terminal_kind, state.terminal_payload) \in RunState
        BY <1>2, <1>6, <3>1 DEF Record, RunState
      <4> QED
        BY <1>4, <3>4, <4>1, Zenon
    <3>5. CASE e.kind # "output"
      <4>1. e.kind \in {"completed", "failed", None}
        BY <1>2, <3>5
      <4>2. \A output \in Payload, failed \in BOOLEAN :
              Record(output, TRUE, failed, Append(state.accepted_events, delivered + 1),
                     state.ignored_events, e.kind, e.payload) \in RunState
        BY <1>2, <1>6, <4>1, RecordTyped
      <4> QED
        BY <1>5, <3>2, <3>3, <3>5, <4>2, Zenon
    <3> QED
      BY <3>4, <3>5
  <2>2. mode' \in {"scoped", "naive"} /\ delivered' \in 0 .. MaxEvents
    BY <1>1, <1>2, PayloadAssumption DEF TypeOK, Arrived
  <2>3. /\ state'.terminal <=> state'.terminal_kind # None
        /\ state'.failed => state'.terminal
    <3>1. CASE e.kind = "output"
      <4>1. /\ state'.terminal = state.terminal
            /\ state'.failed = state.failed
            /\ state'.terminal_kind = state.terminal_kind
        BY <1>4, <3>1 DEF Record
      <4> QED
        BY <1>2, <4>1, Zenon DEF TypeOK
    <3>2. CASE e.kind # "output"
      <4>1. state'.terminal = TRUE /\ state'.terminal_kind = e.kind
        BY <1>5, <3>2 DEF Record
      <4> QED
        BY <1>2, <3>2, <4>1, NoneAssumption
    <3> QED
      BY <3>1, <3>2
  <2> QED
    BY <1>1, <1>3, <2>1, <2>2, <2>3 DEF TypeOK
<1>8. ScopedFollowsTurn'
  <2> SUFFICES ASSUME mode = "scoped"
               PROVE  /\ state'.terminal => \E n \in Terminals' : ShowsTerminal(n)'
                      /\ ~ state'.terminal => /\ Terminals' = {}
                                              /\ state'.output = OutputBefore(Len(turn))'
    BY <1>1 DEF ScopedFollowsTurn, Arrived
  <2>1. Grown(e) /\ ~ state.terminal
    BY <1>1 DEF Fold, Skipped, Raises, Arrived
  <2>2. Terminals = {} /\ state.output = OutputBefore(Len(turn)) /\ ~ state.failed
    BY <1>2, <2>1 DEF ReplayInv, ScopedFollowsTurn, TypeOK
  <2>3. CASE e.kind = "output"
    <3>1. ~ state'.terminal /\ state'.output = e.payload
      <4>1. state'.terminal = state.terminal /\ state'.output = e.payload
        BY <1>4, <2>3 DEF Record
      <4> QED
        BY <2>1, <4>1
    <3>2. Terminals' = {} /\ OutputBefore(Len(turn))' = e.payload
      BY <2>1, <2>2, <2>3 DEF Grown, OutputBefore
    <3> QED
      BY <3>1, <3>2
  <2>4. CASE e.kind # "output"
    <3>1. \E n \in Terminals' : ShowsTerminal(n)'
      <4> SUFFICES ASSUME NEW n, n = Len(turn) + 1
                   PROVE  ShowsTerminal(n)' /\ Terminals' = {n}
        OBVIOUS
      <4> QED
        BY <1>1, <2>1, <2>2, <2>4, TerminationShows
    <3>2. state'.terminal = TRUE
      BY <1>5, <2>4 DEF Record
    <3> QED
      BY <3>1, <3>2
  <2> QED
    BY <2>3, <2>4
<1>9. NaiveNeverRaises'
  BY <1>1 DEF NaiveNeverRaises
<1>10. NaiveIsRightOnCleanStreams'
  <2> SUFFICES ASSUME mode = "naive", delivered' = Len(turn'), Terminals' \subseteq {Len(turn')}
               PROVE  Shows(state)'
    BY <1>1 DEF NaiveIsRightOnCleanStreams, Arrived
  <2>1. Len(turn) <= delivered /\ Len(turn) \in Nat
    BY <1>2 DEF ReplayInv, TypeOK
  <2>a. delivered \in Nat /\ delivered' = delivered + 1
    BY <1>1 DEF Arrived
  <2>2. Grown(e)
    <3>1. ASSUME turn' = turn PROVE FALSE
      <4>1. Len(turn) = delivered + 1
        BY <2>a, <3>1, Zenon
      <4> QED
        BY <2>1, <2>a, <4>1
    <3> QED
      BY <1>1, <3>1 DEF Arrived
  <2>3. delivered = Len(turn)
    <3>1. delivered + 1 = Len(turn) + 1
      BY <2>2, <2>a, Zenon DEF Grown
    <3> QED
      BY <2>1, <2>a, <3>1
  <2>4. Terminals = {}
    BY <2>2 DEF Grown
  <2>5. ~ state.terminal /\ state.output = OutputBefore(Len(turn))
    BY <2>3, <2>4 DEF ReplayInv, NaiveIsRightOnCleanStreams, Shows
  <2>6. ~ state.failed
    BY <1>2, <2>5 DEF TypeOK
  <2>7. CASE e.kind = "output"
    <3>1. state'.terminal = state.terminal /\ state'.output = e.payload
      BY <1>4, <2>7 DEF Record
    <3>2. Terminals' = {} /\ OutputBefore(Len(turn))' = e.payload
      BY <2>2, <2>4, <2>7 DEF Grown, OutputBefore
    <3> QED
      BY <2>5, <3>1, <3>2 DEF Shows
  <2>8. CASE e.kind # "output"
    <3>1. \E n \in Terminals' : ShowsTerminal(n)'
      <4> SUFFICES ASSUME NEW n, n = Len(turn) + 1
                   PROVE  ShowsTerminal(n)' /\ Terminals' = {n}
        OBVIOUS
      <4> QED
        BY <1>1, <2>2, <2>4, <2>5, <2>6, <2>8, TerminationShows
    <3>2. (turn \in Seq(Event) /\ \E n \in Terminals : ShowsTerminal(n))'
      BY <1>3, <3>1
    <3> QED
      BY <3>2, TerminalIsShown, PTL
  <2> QED
    BY <1>2, <2>7, <2>8
<1> QED
  BY <1>3, <1>6, <1>7, <1>8, <1>9, <1>10 DEF ReplayInv

-----------------------------------------------------------------------------
LEMMA InitReplay == Init => ReplayInv
<1> SUFFICES ASSUME Init
             PROVE  ReplayInv
  OBVIOUS
<1>1. turn = <<>> /\ turn \in Seq(Event) /\ Len(turn) = 0 /\ DOMAIN turn = {}
  BY DEF Init
<1>2. /\ state = Record(Empty, FALSE, FALSE, <<>>, <<>>, None, Empty)
      /\ Empty \in Payload
  BY PayloadAssumption DEF Init, Record
<1>3. state \in RunState
  <2>1. <<>> \in Seq(1 .. MaxEvents) /\ FALSE \in BOOLEAN /\ None \in {"completed", "failed", None}
    OBVIOUS
  <2>2. Record(Empty, FALSE, FALSE, <<>>, <<>>, None, Empty) \in RunState
    BY <1>2, <2>1, RecordTyped
  <2> QED
    BY <1>2, <2>2
<1>4. /\ state.output = Empty
      /\ state.terminal = FALSE
      /\ state.failed = FALSE
      /\ state.terminal_kind = None
      /\ state.accepted_events = <<>>
      /\ state.ignored_events = <<>>
  BY <1>2 DEF Record
<1>5. TypeOK
  <2>1. mode \in {"scoped", "naive"} /\ conflict \in BOOLEAN /\ delivered \in 0 .. MaxEvents
    <3>1. mode \in {"scoped", "naive"} /\ conflict = FALSE /\ delivered = 0
      BY Zenon DEF Init
    <3>2. 0 \in 0 .. MaxEvents
      BY PayloadAssumption
    <3> QED
      BY <3>1, <3>2, Zenon
  <2>2. (state.terminal <=> state.terminal_kind # None) /\ (state.failed => state.terminal)
    BY <1>4, Zenon
  <2> QED
    BY <1>1, <1>3, <2>1, <2>2, Zenon DEF TypeOK
<1>6. Terminals = {} /\ OutputBefore(Len(turn)) = Empty /\ ~ conflict
  BY <1>1 DEF Init, Terminals, OutputBefore
<1>7. Shows(state)
  BY <1>4, <1>6, NothingIsShown
<1>8. EveryEventIsAccountedFor
  BY <1>4, <1>6 DEF Init, EveryEventIsAccountedFor, Range
<1>9. Len(turn) <= delivered /\ TurnIsActive
  BY <1>1 DEF Init, TurnIsActive
<1> QED
  BY <1>4, <1>5, <1>6, <1>7, <1>8, <1>9
     DEF ReplayInv, NaiveNeverRaises, ScopedFollowsTurn, NaiveIsRightOnCleanStreams

LEMMA StepReplay == ReplayInv /\ [Next]_vars => ReplayInv'
<1> SUFFICES ASSUME ReplayInv, [Next]_vars
             PROVE  ReplayInv'
  OBVIOUS
<1>1. ASSUME NEW e \in Event, Skip(e) PROVE ReplayInv'
  BY <1>1, SkipPreserves
<1>2. ASSUME NEW e \in Event, Fold(e) PROVE ReplayInv'
  BY <1>2, FoldPreserves
<1>3. ASSUME NEW e \in Event, RaiseConflict(e) PROVE ReplayInv'
  BY <1>3, RaiseConflictPreserves
<1>4. CASE UNCHANGED vars
  <2> USE <1>4 DEF vars
  <2>1. TypeOK'
    BY Zenon DEF ReplayInv, TypeOK
  <2>2. ScopedFollowsTurn'
    BY DEF ReplayInv, ScopedFollowsTurn, ShowsTerminal, Terminals, OutputBefore
  <2>3. NaiveIsRightOnCleanStreams'
    BY DEF ReplayInv, NaiveIsRightOnCleanStreams, Shows, Terminals, OutputBefore
  <2>4. (Len(turn) <= delivered /\ NaiveNeverRaises /\ TurnIsActive /\ EveryEventIsAccountedFor)'
    BY DEF ReplayInv, NaiveNeverRaises, TurnIsActive, EveryEventIsAccountedFor
  <2> QED
    BY <2>1, <2>2, <2>3, <2>4 DEF ReplayInv
<1> QED
  BY <1>1, <1>2, <1>3, <1>4 DEF Next

\* The inductive invariant: the reducer (simulator.py:39-72) knows of the turn
\* exactly its first terminal event, or that there is none yet.
THEOREM ReplayInvariant == Spec => []ReplayInv
  BY InitReplay, StepReplay, PTL DEF Spec

\* The state of a run keeps its shape: it is terminal exactly when it has a
\* terminal kind, and failed only then (simulator.py:55-72).
THEOREM ReplayTyping == Spec => []TypeOK
<1>1. ReplayInv => TypeOK
  BY DEF ReplayInv
<1> QED
  BY <1>1, ReplayInvariant, PTL

\* For every stream, however it mixes in other turns and late events, a scoped
\* replay shows what the turn's own events up to its first terminal one say, and
\* it raises if and only if a later event of the turn contradicts that one
\* (simulator.py:39-54).
THEOREM ScopedReplayIsRight == Spec => []ScopedReplayShowsTheTurn
<1>1. ReplayInv => ScopedReplayShowsTheTurn
  <2> SUFFICES ASSUME ReplayInv, mode = "scoped"
               PROVE  /\ Shows(state)
                      /\ conflict <=> \E i, j \in DOMAIN turn :
                           /\ i = Min(Terminals \cup {Len(turn)})
                           /\ i < j
                           /\ turn[i] # turn[j]
    BY DEF ScopedReplayShowsTheTurn
  <2>1. /\ turn \in Seq(Event)
        /\ Len(turn) \in Nat
        /\ DOMAIN turn = 1 .. Len(turn)
        /\ Terminals \subseteq 1 .. Len(turn)
        /\ conflict \in BOOLEAN
    BY DEF ReplayInv, TypeOK, Terminals
  <2> DEFINE S == Terminals \cup {Len(turn)}
  <2>2. \A m \in S : m \in Nat /\ (m \in Terminals \/ m = Len(turn))
    <3>1. \A m \in Terminals : m \in Nat
      BY <2>1
    <3> QED
      BY <2>1, <3>1
  <2>3. CASE state.terminal
    <3>1. PICK n \in Terminals : ShowsTerminal(n)
      BY <2>3 DEF ReplayInv, ScopedFollowsTurn
    <3>2. n \in 1 .. Len(turn) /\ \A m \in S : n <= m
      <4>1. n \in 1 .. Len(turn) /\ \A m \in Terminals : n <= m
        BY <2>1, <3>1 DEF ShowsTerminal
      <4>2. n <= Len(turn)
        BY <2>1, <4>1
      <4> QED
        BY <2>2, <4>1, <4>2
    <3>3. Min(S) = n
      <4>1. S \in SUBSET Nat /\ n \in S
        BY <2>2, <3>1
      <4> QED
        BY <3>2, <4>1, MinIsLeast
    <3>4. Shows(state)
      BY <2>1, <3>1, TerminalIsShown
    <3>5. ASSUME conflict
          PROVE  \E j \in DOMAIN turn : n < j /\ turn[n] # turn[j]
      <4>1. n < Len(turn) /\ turn[Len(turn)] # turn[n]
        BY <3>1, <3>5 DEF ShowsTerminal
      <4>2. Len(turn) \in DOMAIN turn
        <5>1. n \in 1 .. Len(turn)
          BY <3>2
        <5>2. Len(turn) \in 1 .. Len(turn)
          BY <2>1, <5>1
        <5> QED
          BY <2>1, <5>2
      <4> QED
        BY <4>1, <4>2
    <3>6. ASSUME ~ conflict, NEW j \in DOMAIN turn, n < j
          PROVE  turn[n] = turn[j]
      BY <3>1, <3>6 DEF ShowsTerminal
    <3>7. n \in DOMAIN turn
      BY <2>1, <3>2
    <3> HIDE DEF S
    <3>8. conflict <=> \E i, j \in DOMAIN turn : i = Min(S) /\ i < j /\ turn[i] # turn[j]
      <4>1. CASE conflict
        BY <3>3, <3>5, <3>7, <4>1
      <4>2. CASE ~ conflict
        BY <3>3, <3>6, <4>2
      <4> QED
        BY <4>1, <4>2
    <3> QED
      BY <3>4, <3>8 DEF S
  <2>4. CASE ~ state.terminal
    <3>1. ~ conflict /\ Terminals = {} /\ state.output = OutputBefore(Len(turn))
      BY <2>4 DEF ReplayInv, ScopedFollowsTurn
    <3>2. Shows(state)
      BY <2>4, <3>1, NothingIsShown
    <3>3. Min(S) = Len(turn)
      <4>1. Len(turn) \in S /\ \A m \in S : Len(turn) <= m
        BY <2>1, <3>1
      <4>2. S \in SUBSET Nat
        BY <2>2
      <4> HIDE DEF S
      <4> QED
        BY <4>1, <4>2, MinIsLeast
    <3>4. \A j \in DOMAIN turn : ~ (Len(turn) < j)
      BY <2>1
    <3> QED
      BY <3>1, <3>2, <3>3, <3>4
  <2> QED
    BY <2>3, <2>4
<1> QED
  BY <1>1, ReplayInvariant, PTL

\* On a stream without strangers that ends with its terminal event the naive
\* reducer shows the same (simulator.py:43-44, 55-72).
THEOREM NaiveReplayIsRightOnCleanStreams == Spec => []NaiveIsRightOnCleanStreams
<1>1. ReplayInv => NaiveIsRightOnCleanStreams
  BY DEF ReplayInv
<1> QED
  BY <1>1, ReplayInvariant, PTL

\* No event is lost, listed twice or listed as accepted and as ignored, but for
\* the one that raised (simulator.py:41, 52, 56).
THEOREM EventsAreAccountedFor == Spec => []EveryEventIsAccountedFor
<1>1. ReplayInv => EveryEventIsAccountedFor
  BY DEF ReplayInv
<1> QED
  BY <1>1, ReplayInvariant, PTL
=============================================================================
