SPECIFICATION LiveSpec
CONSTANTS
    None = None
    t1 = t1
    t2 = t2
    w1 = w1
    w2 = w2
    Messages <- OneMessage
    Tabs <- OneTab
    Workers <- TwoWorkers
    Home <- SameTab
    BatchSize = 1
    MaxRetries = 1
    UseDLQ = FALSE
    MaxFailures = 1
    MaxRenewals = 1
    MaxStops = 1
    MaxReloads = 1
    MaxLate = 1
INVARIANTS TypeOK NoMessageLost GivenUpLast
PROPERTY EveryMessageSettled
CHECK_DEADLOCK FALSE
