SPECIFICATION Spec
CONSTANTS
    Tasks = {t1, t2}
    Messages = {}
    Events = {}
    Correction = correction
    LastPhase = 2
    Checkpoints = {}
    Agentless = {}
    MaxTries = 0
    Hybrid = FALSE
    Decides = FALSE
    Controls = {"pause"}
    Outcomes = {}
    MaxControls = 1
    MaxLoops = 0
    MaxRestarts = 0
SYMMETRY Slots
CHECK_DEADLOCK FALSE
PROPERTY PauseEndsTheRun
