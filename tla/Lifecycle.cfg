SPECIFICATION Spec
CONSTANTS
    Tasks = {t1, t2}
    Messages = {m1}
    Events = {e1}
    Correction = correction
    LastPhase = 2
    Checkpoints = {1}
    Agentless = {}
    MaxTries = 1
    Hybrid = FALSE
    Decides = FALSE
    Controls = {"cancel", "pause", "resume", "toggle", "rerun"}
    Outcomes = {"goto", "input", "approval", "event", "ratelimit", "crash", "recoverable", "escalated", "stalled", "coverage", "bootfail"}
    MaxControls = 2
    MaxLoops = 1
    MaxRestarts = 1
SYMMETRY Slots
CHECK_DEADLOCK FALSE
INVARIANTS
    TypeOK
    OneRunPerJob
    ActiveWhileRunning
    QueuedEventsHaveADrainer
    AbandonedChannelIsUnused
    RateLimitedJobWakes
PROPERTIES
    CancelledJobGoesNowhere
    CancelledIdleJobStaysCancelled
    CheckpointNeedsApproval
    TimerWakesOnlyRateLimited
    NotesAreDeliveredAtMostOnce
