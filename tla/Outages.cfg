SPECIFICATION Spec
CONSTANTS
    None = None
    w1 = w1
    w2 = w2
    Workers <- OneWorker
    Growing <- GrowingEdits
    MaxEdits = 2
    MaxClock = 2
    Reconciles = TRUE
    Faults = {"meta", "get", "put", "delete", "reconcile", "copyPut"}
    Windows = {}
    Starts = {"synced", "empty", "remoteOnly"}
    Others = {TRUE}
    OtherPaths = FALSE
    EventLoss = TRUE
    MaxCrashes = 1
    Kills = {"pullWrite", "reconcileWrite", "deleteLocal",
             "putNew", "putChanged", "putRecreate", "deleteRemote"}
    MaxDeletes = 1
    MaxReconfigs = 0
INVARIANTS NoLostEdit RecordedRevisionWasHeld
