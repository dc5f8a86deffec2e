SPECIFICATION LiveSpec
CONSTANTS
    None = None
    Star = Star
    p1 = p1
    p2 = p2
    t1 = t1
    t2 = t2
    l1 = l1
    l2 = l2
    l3 = l3
    a = a
    b = b
    c = c
    x = x
    Paths <- TwoPaths
    Contents <- FourContents
    Unmergeable <- Marked
    Merge <- MergeTexts
    Threads <- TwoThreads
    LockIds <- TwoLocks
    Offered <- Contended
    Seeds <- OneSeed
    Capacity = 1
    SweepAbove = 0
    Attempts = 2
    Repeats = FALSE
    AnyWindow = FALSE
    MaxStamp = 3
    MaxForeign = 1
    MaxCommits = 1
INVARIANT CommitIsConsistent
PROPERTY EveryRequestAnswered
