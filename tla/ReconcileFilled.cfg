SPECIFICATION Spec
CONSTANTS
    r1 = r1
    r2 = r2
    w1 = w1
    w2 = w2
    Workers = {w1}
    Requests = {r1}
    Foreign = foreign
    None = None
    MaxFaults = 0
INVARIANT
    UndeterminedIsUnknown
CHECK_DEADLOCK FALSE
