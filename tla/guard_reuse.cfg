SPECIFICATION Spec
CONSTANTS
    a = a
    b = b
    noApp = noApp
    Tids = {1, 2}
    Apps = {a, b}
    NoApp = noApp
    AppNices = {5}
    TargetNice = 19
    MaxStart = 3
    Ids = {1}
    Commands = {"arm", "enter", "handoff", "adopt", "complete", "replace-current", "release-background", "reset-top"}
    Faults = {}
    RingSize = 2
    Initial <- MCInitialA
    SystemGroups = {"top"}
    MinorUsers = {}
    TidReuse = TRUE
    CanPin = FALSE
    CanCrash = TRUE
INVARIANT
    NoNiceLeft
