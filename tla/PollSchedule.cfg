SPECIFICATION FairSpec
CONSTANTS
    Rooms = {"r1", "r2"}
    NJobs = 3
    Room <- MCRoom
    Interval <- MCInterval
    Stagger <- MCStagger
    OptionalJobs = {3}
    SilentInterval = 4
    UnreadRetry = 2
    BackoffAfter = 1
    BackoffStart = 1
    BackoffMax = 2
    Rates = {1, 2}
    OptionalRefresh = 2
    MaxChanges = 1
    None = None
CHECK_DEADLOCK FALSE
INVARIANTS PlanConsistent WakesInTime
PROPERTY EveryJobRead
