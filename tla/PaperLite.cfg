SPECIFICATION Spec
CONSTANTS
    None = None
    Absent = Absent
    Equities = {}
    MaxDailyLoss <- FiveThirtieths
    MaxDrawdown <- SixThirtieths
    StartBalance = 30
    HalfSpread = 1
    EntrySlip = 0
    ExitSlip = 0
    Mids = {3, 6}
    FirstMid = 3
    StopDistance = 2
    MaxOpen = 2
    MarginPerLot = 12
    LastTick = 2
    LastWeek = 2
    MaxFaults = 1
    MaxResets = 1
INVARIANTS
    ReplayRebuildsTheBook
    OneOrderPerBar
    OldRangesCloseNothing
    NothingAfterTheFlatten
PROPERTIES
    FillsAreAccountedFor
CHECK_DEADLOCK FALSE
