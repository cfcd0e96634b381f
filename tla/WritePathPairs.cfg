SPECIFICATION Spec
CONSTANTS
    Levels = {40}
    Presets = {"low"}
    AppPresets = {"extract_only"}
    None = None
    AppBases <- MCManualBase
    Commands = {"level", "unbalanced", "direction", "mode", "inactive", "preset", "clear_preset", "intensive"}
    MaxReads = 2
    MaxWrites = 2
    MaxChanges = 0
INVARIANTS OneOpenBaseWrite OverlayBacked InterruptedRefused
PROPERTY FinalOutcomesStay
\* The bounds on reads and commands end every behaviour.
CHECK_DEADLOCK FALSE
