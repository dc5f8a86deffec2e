SPECIFICATION LiveSpec
CONSTANTS
    None = None
    f1 = f1
    f2 = f2
    Files <- OneFile
    Slots <- TwoSlots
    MaxVersion = 2
    MaxCalls = 3
    MaxFaults = 1
    MaxWork = 2
    MaxRetries = 1
INVARIANTS TypeOK SeenGetsIndexed
PROPERTY ChangesGetIndexed
