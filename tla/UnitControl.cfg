SPECIFICATION Spec
CONSTANTS
    MaxAirflows = {97, 100}
    Percentages = {0, 100}
    QuickModes = {"low"}
    Options = {"co2_control"}
    AppLevels <- MCAppLevels
    RegisterMaps <- MCRegisterMaps
    None = None
    MaxCommands = 2
    MaxChanges = 1
INVARIANTS  LevelsSurvive
PROPERTIES OppositeKept ImplementsUnit
