SPECIFICATION Spec
CONSTANTS
    None = None
    Limits <- MCLimits
    Ranges <- MCRanges
    Requests = {0, 14, 26}
    MaxWrites = 3
    MaxForeign = 1
 
PROPERTIES WritesKeepRange OutcomeSettles
