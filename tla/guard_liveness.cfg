SPECIFICATION FairSpec
CONSTANTS
    a = a
    b = b
    noApp = noApp
    Tids = {1, 2}
    Apps = {a, b}
    NoApp = noApp
    AppNices = {0}
    TargetNice = 0
    MaxStart = 2
    Ids = {1}
    Commands = {"enter", "handoff", "complete", "reset-top", "stop"}
    Faults = {}
    RingSize = 2
    Initial <- MCInitialA
    SystemGroups = {"background"}
    MinorUsers = {}
    TidReuse = FALSE
    CanPin = FALSE
    CanCrash = FALSE
PROPERTIES
    CompletionHappens
    DisplacedComesBack
