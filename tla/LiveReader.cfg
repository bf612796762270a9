SPECIFICATION Spec
CONSTANTS
    Interval = 1
    Settle = 1
    HalfHour = 2
    MaxOffset = 8
    StaleAfter = 1
    Grace = 1
    Lookback = 1
    BarCount = 2
    TickBatch = 3
    StateInterval = 2
    None = None
    LastTime = 2
    MaxTicks = 3
    Changeable = {"account", "margin", "open", "offset"}
    MaxFaults = 1
INVARIANTS
    
    TicksAreContiguous
    ShownConnectedIsAlive
PROPERTIES
    CatchesUp
CHECK_DEADLOCK FALSE
