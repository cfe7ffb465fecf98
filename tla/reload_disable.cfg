SPECIFICATION Spec
CONSTANTS
    k1 = k1
    k2 = k2
    Clients = {k1}
    Disabling = {k1}
    Hasty = {}
    MaxMishaps = 0
CHECK_DEADLOCK FALSE
PROPERTIES
    FailureIsReal
