SPECIFICATION Spec
CONSTANTS
    a = a
    b = b
    c = c
    Children = {a, b, c}
    Deps <- Diamond
    Tasks = {t1, t2}
    Cap = 1
    MaxJobs = 5
    Hybrid = FALSE
    Controls = {"skip", "abandon", "rerun", "resume", "start", "continue", "cancel-campaign", "cancel-job", "wake-job"}
    Mishaps = {"restart", "copy", "park", "overwrite"}
    MaxControls = 1
    MaxRounds = 1
SYMMETRY Slots
CHECK_DEADLOCK FALSE
INVARIANTS
    TypeOK
    PendingIsBlocked
PROPERTIES
    ReadyIsEarned
    CoordinationEndsSettled
