SPECIFICATION ReplaySpec
CONSTANTS
    None = None
    Absent = Absent
    Equities = {}
    MaxDailyLoss <- LossOfADay
    MaxDrawdown <- DrawdownOfARun
    StartBalance = 100
    HalfSpread = 2
    EntrySlip = 1
    ExitSlip = 1
    DayLength = 2
    WeekLength = 8
    CloseAt = 6
    LastEntryOffset = 2
    FlattenOffset = 1
    AssetClass = "FX"
    SessionApproved = FALSE
    MinStopDistance = 3
    StopsLevel = 4
    VolumeMin = 1
    VolumeMax = 3
    MaxRiskPerTrade <- RiskOfATrade
    MaxOpenRisk <- RiskOfTheBook
    MaxOpenPositions = 3
    MaxSpread = 4
    MaxOrdersPerHour = 2
    Timelines <- TheTimelines
    FirstMid = 20
    Ticks <- TheTicks
    Account <- DemoAccount
    Policy <- ThePolicy
    MarginPerLot = 10
    MinBars = 1
    MarketDataBatch = 3
    Hour = 2
    MaxRuns = 2
    MaxResets = 2
INVARIANTS
    WindowsCommitOnce
    RecordKeepsUp
PROPERTIES
    BookRiskIsBudgeted
CHECK_DEADLOCK FALSE
