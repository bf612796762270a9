SPECIFICATION Spec
CONSTANTS
    Workers = {http, driver}
    http = http
    driver = driver
    Driver = driver
    Decisions <- MCDecisions
    Assignments <- MCAssignments
    Supervised = TRUE
    None = None
    Hour = 1
    Validity = 2
    LastTime = 2
    MaxContexts = 2
    MaxCalls = 2
    MaxFaults = 1
INVARIANTS
    RateLimited
    OneAnswer
PROPERTIES
    EveryCallEnds
CHECK_DEADLOCK FALSE
