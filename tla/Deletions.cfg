SPECIFICATION Spec
CONSTANTS
    None = None
    w1 = w1
    w2 = w2
    Workers <- OneWorker
    Growing <- GrowingEdits
    MaxEdits = 3
    MaxClock = 2
    Reconciles = TRUE
    Faults = {}
    Windows = {}
    Starts = {"synced", "empty", "remoteOnly"}
    Others = {TRUE}
    OtherPaths = FALSE
    EventLoss = FALSE
    MaxCrashes = 1
    Kills = {"pullWrite", "reconcileWrite", "deleteLocal", "dropLocal", "putNew", "putChanged", "putRecreate", "deleteRemote"}
    MaxDeletes = 1
    MaxReconfigs = 2
PROPERTY DeletionsAreTheUsers
