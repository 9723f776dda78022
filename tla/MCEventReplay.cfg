SPECIFICATION Spec
CONSTANTS
    RunId = {r1, r2}
    TurnId = {t1, t2}
    active_run_id = r1
    active_turn_id = t1
    Payload = {empty, x1}
    Empty = empty
    MaxEvents = 5
    None = None
CHECK_DEADLOCK FALSE
INVARIANTS
    TypeOK
    ScopedReplayShowsTheTurn
    NaiveIsRightOnCleanStreams
    EveryEventIsAccountedFor
