SPECIFICATION Spec
CONSTANTS
    r1 = r1
    r2 = r2
    w1 = w1
    w2 = w2
    Workers = {w1, w2}
    Requests = {r1}
    Foreign = foreign
    None = None
    MaxFaults = 1
SYMMETRY Symmetry
INVARIANTS
    ReconciledIsAccountedFor
    UnprotectedIsHalted
    MatchedIsSettled
CHECK_DEADLOCK FALSE
