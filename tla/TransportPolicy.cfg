SPECIFICATION FairPolicySpec
CONSTANTS
    Units = {u1, u2}
    NoUnit = NoUnit
    Recovery = 3
    DisconnectAfter = 3
    LinkQuiet = 5
    RetryDelay = 2
    Intervals = {1, 2}
    MaxInterval = 2
INVARIANTS QuarantineRespected RecycleJustified
PROPERTIES NothingSentAfterShutdown RunEnds DeadLinkRecycled
