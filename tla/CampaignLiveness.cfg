SPECIFICATION FairSpec
CONSTANTS
    a = a
    b = b
    c = c
    Children = {a, b}
    Deps <- Chain
    Tasks = {t1, t2}
    Cap = 2
    MaxJobs = 8
    Hybrid = FALSE
    Controls = {"skip", "abandon", "rerun", "resume", "start", "continue", "cancel-campaign"}
    Mishaps = {}
    MaxControls = 1
    MaxRounds = 0
CHECK_DEADLOCK FALSE
INVARIANT WaitingHasAReason
PROPERTY CoordinationMoves
