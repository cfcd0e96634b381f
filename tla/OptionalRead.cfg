SPECIFICATION FairSpec
CONSTANTS
    Consumers = {c1, c2}
    Refresh = 5
    Retry = 2
    FirstDelay = 1
    ClearOnDisable = FALSE
CHECK_DEADLOCK FALSE
INVARIANTS ReadConsistent EnabledReadSoon OnlyCancelEndsTick
PROPERTY EnabledIsRead
