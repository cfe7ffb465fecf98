SPECIFICATION Spec
CONSTANTS
    a = a
    b = b
    noApp = noApp
    Apps = {a}
    NoApp = noApp
    SourceEnabled = TRUE
    InitialPhases = {"app"}
    InitialSources = {a}
    Events = {"gestureStart", "exitOverview", "gestureToApp"}
    MaxClock = 4
CHECK_DEADLOCK FALSE
PROPERTIES
    CancelReleasesSource
