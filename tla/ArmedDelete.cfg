SPECIFICATION Spec
CONSTANTS
    None = None
    w1 = w1
    w2 = w2
    Workers <- OneWorker
    Growing <- GrowingEdits
    MaxEdits = 3
    MaxClock = 2
    Reconciles = TRUE
    Faults = {"copyMeta"}
    Windows = {}
    Starts = {"synced"}
    Others = {TRUE}
    OtherPaths = FALSE
    EventLoss = FALSE
    MaxCrashes = 0
    Kills = {}
    MaxDeletes = 1
    MaxReconfigs = 0
PROPERTY DeletionsAreTheUsers
