SPECIFICATION Spec
CONSTANTS
    None = None
    w1 = w1
    w2 = w2
    Workers <- TwoWorkers
    Growing <- GrowingEdits
    MaxEdits = 1
    MaxClock = 2
    Reconciles = TRUE
    Faults = {"copyMeta"}
    Windows = {}
    Starts = {"synced", "upgraded"}
    Others = {TRUE}
    OtherPaths = TRUE
    EventLoss = FALSE
    MaxCrashes = 0
    Kills = {}
    MaxDeletes = 1
    MaxReconfigs = 0
INVARIANT BaseIsPublished
SYMMETRY WorkerSymmetry
