SPECIFICATION Spec
CONSTANTS
    Appends = {e1, e2, e3}
    Serialized = FALSE
    MaxCrashes = 0
INVARIANT NoFalseTamper
CHECK_DEADLOCK FALSE
