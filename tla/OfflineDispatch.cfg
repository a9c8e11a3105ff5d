SPECIFICATION Spec
CONSTANTS
    Runners = {r1}
    MaxEvents = 2
    MaxBreaks = 0
    Mishaps = {}
CHECK_DEADLOCK FALSE
INVARIANT WaitingEventsAreHeard
