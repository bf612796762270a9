SPECIFICATION StrategiesSpec
CONSTANTS
    Nothing = Nothing
    Strength = 1
    ShiftLookback = 4
    EqualityTolerance = 1
    SweepLookback = 4
    AtrPeriod = 2
    MinDisplacement <- P100
    MaxGapAge = 4
    BlockLookback = 3
    Openings <- OneOpening
    Shapes <- SomeShapes
    Quotes <- SomeQuotes
    Books <- SomeBooks
    HistoryBars = 8
    LastBar = 4
    MinimumBars = 5
    Required <- AllRequired
    OteLow <- P62
    OteHigh <- P79
    Tolerance <- P2
    StopBuffer <- P25
    FallbackReward <- P200
    MinReward <- P150
    MinStopPoints = 3
    StopsLevel = 5
    FastPeriod = 2
    SlowPeriod = 3
    BaselinePeriod = 4
    HighVolatility <- P160
    LowVolatility <- P60
    TrendThreshold <- P10
    StopMultiple <- P150
    RewardMultiple <- P200
    MinTrend <- P10
    MaxTrend <- P25
    MirrorSum = 50
INVARIANTS
    IntentsAreProtected
    EntriesSurviveTheSupervisor
    LongAndShortAreMirrored
PROPERTIES
    NothingIsRepainted
CHECK_DEADLOCK FALSE
