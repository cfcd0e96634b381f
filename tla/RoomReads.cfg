SPECIFICATION Spec
CONSTANTS
    None = None
    Plans <- MCPlans
    Feeds <- MCFeeds
    JobOrder <- MCJobOrder
    Order <- MCOrder
    FlowPlan = "airflow"
    ModeGroups = {"flow_control", "intensive"}
    BridgeComponents = {"rf_signal_strength"}
    OptionalComponents = {"rf_signal_strength"}
    OptionalGroups = {"rf_signal"}
    SensorComponent = "extract_air_quality"
    TemperatureComponent = "temperatures"
    Interval <- MCInterval
    StaleAfter <- MCStaleAfter
    ComponentBackoff <- MCComponentBackoff
    ModeBackoff <- MCModeBackoff
    FailureThreshold = 2
    UnavailableAfter = 2
    SilentAfter = 4
    SilentInterval = 2
    IssueAfter = 2
    MaxEvents = 2
INVARIANTS AvailableIsCurrent HealthConsistent
PROPERTIES NoFlapping DeadUnitShown Recovers IssueFollowsSensor
