SPECIFICATION FairSpec
CONSTANTS
    Runners = {r1, r2}
    MaxEvents = 2
    MaxBreaks = 1
    Mishaps = {"runner", "cloud"}
CHECK_DEADLOCK FALSE
INVARIANTS
    TypeOK
    EventsKeepTheirOrder
    LiveSocketIsRegistered
PROPERTY QueueIsTaken
