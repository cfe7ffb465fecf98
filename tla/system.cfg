SPECIFICATION FairSystem
CONSTANTS
    a = a
    b = b
    noApp = noApp
    Apps = {a, b}
    NoApp = noApp
    SourceEnabled = TRUE
    InitialPhases = {"app"}
    InitialSources = {a}
    Events = {"resumed", "gestureStart", "enterOverview", "exitOverview", "gestureToApp"}
    MaxClock = 3
    MaxQueue = 2
    MaxRestarts = 1
    CanCrash = TRUE
CHECK_DEADLOCK FALSE
INVARIANTS
    NothingIsRefused
    SuppressionIsKnown
    TargetIsFree
    WantedStaysSuppressed
PROPERTY
    SourceIsReleased
