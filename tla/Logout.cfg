SPECIFICATION LiveSpec
CONSTANTS
    Self = Self
    Done = Done
    t1 = t1
    t2 = t2
    t3 = t3
    w1 = w1
    w2 = w2
    Tabs <- ThreeTabs
    OpenFirst <- TwoTabs
    Workers <- OneWorker
    Space <- OneSpace
    MaxAttempts = 1
    MaxFaults = 1
    Forces = {TRUE, FALSE}
    Restarts = TRUE
    Dawdles = FALSE
    LateEdits = TRUE
INVARIANT TypeOK
PROPERTIES LeavesSaved DeletesSynced FrozenTabsRecover
CHECK_DEADLOCK FALSE
