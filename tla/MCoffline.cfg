CONSTANTS
    Replays = {r1, r2}
    MaxQueue = 2
    MaxAttempts = 2
    MaxItems = 3
    MaxCloses = 1
    Watched = 2
SPECIFICATION Spec
INVARIANTS
    TypeOK
    OrderKept
    Accounted
    AttemptsCounted
PROPERTY
    MarkSilences
CHECK_DEADLOCK FALSE
