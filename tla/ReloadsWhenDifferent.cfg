SPECIFICATION Spec
CONSTANTS
    None = None
    R1 = R1
    R2 = R2
    Slaves = {2, 3, 4}
    Codes = {R1, R2}
    Profiles = {"ii_plain", "ii_f"}
    Names <- MCNames
    Rates = {1, 2}
    OldEntries <- MCOldEntries
    Paired <- MCPaired
    MaxChanges = 2
CHECK_DEADLOCK FALSE
PROPERTY ReloadsWhenDifferent
