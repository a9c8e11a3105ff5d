SPECIFICATION FairSpec
CONSTANTS
    PRs = {p1, p2}
    Threshold = 2
    Awaitable = {"merged", "approved"}
    Mishaps = {"provider", "handler", "noise"}
    MaxReviews = 2
    MaxParks = 1
    MaxMishaps = 1
    MaxRestarts = 1
CHECK_DEADLOCK FALSE
INVARIANTS
    TypeOK
    CommentsAreToldOnce
PROPERTIES
    AwaitedMergeIsHeard
    LostPullRequestIsReported
