SPECIFICATION Spec
CONSTANTS
    a = a
    b = b
    noApp = noApp
    Tids = {1, 2}
    Apps = {a, b}
    NoApp = noApp
    AppNices = {0}
    TargetNice = 0
    MaxStart = 2
    Ids = {1, 2}
    Commands = {"arm", "enter", "handoff", "adopt", "complete", "replace-current", "release-background", "restore-top", "reset-top", "stop"}
    Faults = {"cpuctl"}
    RingSize = 1
    Initial <- MCInitialA
    SystemGroups = {"background"}
    MinorUsers = {a}
    TidReuse = FALSE
    CanPin = FALSE
    CanCrash = FALSE
INVARIANTS
    TimerMatchesSource
    TimerMatchesTransition
PROPERTIES
    TransitionIdsNeverGoBack
    ImplementsProtocol
