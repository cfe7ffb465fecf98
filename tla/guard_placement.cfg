SPECIFICATION Spec
CONSTANTS
    a = a
    b = b
    noApp = noApp
    Tids = {1, 2, 3}
    Apps = {a, b}
    NoApp = noApp
    AppNices = {0}
    TargetNice = 0
    MaxStart = 2
    Ids = {1}
    Commands = {"arm", "enter", "handoff", "adopt", "complete", "replace-current", "release-background", "reset-top", "stop"}
    Faults = {}
    RingSize = 1
    Initial <- MCInitial
    SystemGroups = {"background"}
    MinorUsers = {}
    TidReuse = FALSE
    CanPin = FALSE
    CanCrash = TRUE
INVARIANTS
    TypeOK
    PlacementWatched
    OnlySourceInSourceGroups
