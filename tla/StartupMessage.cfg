SPECIFICATION FairSpec
CONSTANTS
    Notes = {n1, n2}
    Kickoff = kickoff
    RetryNotice = retry
    IdleNudge = nudge
    HealLimit = 3
    MaxSessions = 1
    MaxCalls = 2
    MaxNudges = 1
CHECK_DEADLOCK FALSE
PROPERTY
    TakenMessagesAreQueued
