SPECIFICATION Spec
CONSTANTS
    None = None
    Delay = 1
    Interval = 3
    Events = {"unanswered", "write_confirmed"}
    MaxRecords = 3
    MaxRestarts = 2
    MaxTime = 7
CHECK_DEADLOCK FALSE
INVARIANTS SavesOnTime AllCounted
