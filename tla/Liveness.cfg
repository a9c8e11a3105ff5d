SPECIFICATION FairSpec
CONSTANTS
    Tasks = {t1, t2}
    Messages = {}
    Events = {e1}
    Correction = correction
    LastPhase = 2
    Checkpoints = {1}
    Agentless = {}
    MaxTries = 1
    Hybrid = FALSE
    Decides = TRUE
    Controls = {"cancel", "pause", "resume"}
    Outcomes = {"approval", "event", "goto", "overseer", "ratelimit", "recoverable", "escalated", "gate"}
    MaxControls = 2
    MaxLoops = 1
    MaxRestarts = 1
CHECK_DEADLOCK FALSE
PROPERTIES
    QueueIsDrained
    RateLimitEnds
    RunEnds
