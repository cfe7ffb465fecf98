SPECIFICATION Spec
CONSTANTS
    t1 = t1
    t2 = t2
    Tids = {t1}
    MaxStart = 3
    MaxTasks = 1
    OwnMasks = {"all"}
    OwnClamps = {"none", "low"}
    TargetMask = "target"
    TargetClamp = "boost"
    Limits = {64, 80, 100}
    Percent = 80
    Groups = {"foreground", "background"}
    Faults = {"cpuset", "cpuctl", "limit"}
    Configurations <- MCConfigurations
    CanCrash = FALSE
PROPERTY
    DestroyRestoresClamps
