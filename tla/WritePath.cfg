SPECIFICATION Spec
CONSTANTS
    Levels = {40}
    Presets = {"low"}
    AppPresets = {"extract_only"}
    None = None
    AppBases <- MCAppBases
    Commands = {"level", "unbalanced", "direction", "mode", "inactive", "preset", "clear_preset", "intensive"}
    MaxReads = 3
    MaxWrites = 1
    MaxChanges = 1
INVARIANTS TypeOK ConfirmedWasReported IssueCountedOnce
\* The bounds on reads and commands end every behaviour.
CHECK_DEADLOCK FALSE
