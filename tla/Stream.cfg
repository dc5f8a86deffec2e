SPECIFICATION LiveSpec
CONSTANTS
    None = None
    p1 = p1
    p2 = p2
    Paths <- TwoPaths
    Watched <- OpenPage
    Modes = {TRUE, FALSE}
    FloodThreshold = 1
    BatchThreshold = 2
    Capacity = 1
    PingInterval = 1
    Throttle = 1
    HealthTtl = 2
    MaxChanges = 2
    MaxFaults = 1
INVARIANTS TypeOK StaleIsAnnounced QuietStreamStaysHealthy OneSource
PROPERTIES ChangesGetPulled OpenPageGetsFresh GapsAreCaughtUp
