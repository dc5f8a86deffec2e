SPECIFICATION LiveSpec
CONSTANTS
    None = None
    w1 = w1
    w2 = w2
    Workers <- OneWorker
    Growing <- GrowingEdits
    MaxEdits = 3
    MaxClock = 2
    Reconciles = TRUE
    Faults = {}
    Windows = {}
    Starts = {"synced", "empty", "remoteOnly"}
    Others = {TRUE}
    OtherPaths = TRUE
    EventLoss = FALSE
    MaxCrashes = 0
    Kills = {}
    MaxDeletes = 1
    MaxReconfigs = 0
INVARIANTS TypeOK NoLostEdit RecordedRevisionWasHeld
PROPERTY EventuallyConverged
