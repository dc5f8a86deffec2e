SPECIFICATION LiveSpec
CONSTANTS
    None = None
    p1 = p1
    p2 = p2
    h1 = h1
    h2 = h2
    Paths <- TwoPaths
    Hashes <- TwoHashes
    Times <- OneTime
    MarkTypes = {"local", "remote", "probe", "any"}
    MaxMarks = 2
    MaxScans = 2
    MaxFailures = 1
    Logouts = TRUE
INVARIANTS TypeOK QueueConsistent CyclesAreMutexed NoLostWakeup NewestReportKept
CHECK_DEADLOCK FALSE
PROPERTIES EveryMarkTaken LogoutFinishes
