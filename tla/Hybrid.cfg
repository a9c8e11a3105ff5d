SPECIFICATION Spec
CONSTANTS
    Tasks = {t1, t2, t3}
    Messages = {}
    Events = {e1, e2}
    Correction = correction
    LastPhase = 2
    Checkpoints = {}
    Agentless = {2}
    MaxTries = 1
    Hybrid = TRUE
    Decides = FALSE
    Controls = {"resume"}
    Outcomes = {"event", "ratelimit", "unprepared"}
    MaxControls = 1
    MaxLoops = 1
    MaxRestarts = 0
SYMMETRY Slots
CHECK_DEADLOCK FALSE
INVARIANTS
    OneRunPerJob
