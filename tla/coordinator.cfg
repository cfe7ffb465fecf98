SPECIFICATION FairSpec
CONSTANTS
    a = a
    b = b
    noApp = noApp
    Apps = {a, b}
    NoApp = noApp
    SourceEnabled = TRUE
    InitialPhases = {"app", "home", "recents"}
    InitialSources = {a, noApp}
    Events = {"resumed", "launcherResumed", "overviewToggle", "gestureStart", "gestureToHome", "enterOverview", "overviewToHome", "exitOverview", "exitComplete", "gestureToApp"}
    MaxClock = 4
CHECK_DEADLOCK FALSE
INVARIANTS
    TypeOK
    PolicyHasDeadline
    ResumedTargetIsReleased
    NoTransitionAfterTeardown
PROPERTIES
    CommandsFollowTheGuard
    AdoptedStaysUnsuppressed
    EntryEndsInScene
    TransitionsEnd
    ShutdownCompletes
