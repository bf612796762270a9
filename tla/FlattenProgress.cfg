SPECIFICATION FairSpec
CONSTANTS
    w1 = w1
    w2 = w2
    x1 = x1
    x2 = x2
    polA = polA
    polB = polB
    None = None
    Workers = {w1}
    Tickets = {x1, x2}
    Days = {5, 6}
    Weeks = {1, 2}
    Calendar <- Weekend
    Policies = {polA, polB}
    PolicyOf <- OnePolicy
    Enabled = {w1}
    CanClose = {w1}
    ReadsMayFail = FALSE
    MaxFaults = 1
INVARIANTS
    OnlyCommittedTicketsClosed
    OccurrenceOnRecordHalts
    ClosedTicketsAreClosed
PROPERTIES
    OverdueExposureHalts
    TodaysCommitmentIsResolved
