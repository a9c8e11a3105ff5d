SPECIFICATION FairSpec
CONSTANTS
    Notes = {n1}
    Kickoff = kickoff
    RetryNotice = retry
    IdleNudge = nudge
    HealLimit = 1
    MaxSessions = 1
    MaxCalls = 2
    MaxNudges = 1
CHECK_DEADLOCK FALSE
INVARIANTS
    TypeOK
    NoLostWakeup
    BlockedToolsHaveACause
    PutOffHealIsTaken
PROPERTIES
    ToolsComeBack
    SteeringIsRead
    FinalResultEndsTheSession
