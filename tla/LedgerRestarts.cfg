SPECIFICATION Spec
CONSTANTS
    w1 = w1
    w2 = w2
    r1 = r1
    None = None
    Workers = {w1}
    Readers = {r1}
    Equities = {8, 9, 10}
    Books = {0, 1}
    LastBar = 2
    TradingDay <- WithinTheDay
    MaxDailyLoss <- TwoTenths
    MaxDrawdown <- TwoTenths
    MaxFaults = 2
    MaxResets = 1
INVARIANTS
    SpentBudgetStopsItsWriter
    NoBarApprovedTwice
PROPERTIES
    OnlyTheHaltedGiveBack
