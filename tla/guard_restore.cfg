SPECIFICATION Spec
CONSTANTS
    a = a
    b = b
    noApp = noApp
    Tids = {1, 2}
    Apps = {a, b}
    NoApp = noApp
    AppNices = {0}
    TargetNice = 19
    MaxStart = 2
    Ids = {1}
    Commands = {"arm", "enter", "handoff", "adopt", "complete", "replace-current", "release-background", "restore-top", "reset-top", "stop"}
    Faults = {}
    RingSize = 2
    Initial <- MCInitialA
    SystemGroups = {"top"}
    MinorUsers = {}
    TidReuse = FALSE
    CanPin = TRUE
    CanCrash = TRUE
INVARIANT
    BaselineNotSuppressed
PROPERTY
    AffinityHandedBack
