SPECIFICATION HLiveSpec
CONSTANTS
    c1 = c1
    c2 = c2
    x1 = x1
    x2 = x2
    m1 = m1
    m2 = m2
    JobTask = JobTask
    Free = Free
    None = None
    All = All
    NPools = 1
    Controls <- OneControl
    QueueCap = 2
    NSlots = 1
    Extranonces <- OneExtranonce
    MaxDiff = 1
    Masks <- OneMask
    Modes <- SingleMode
    MaxMsgs = 3
    MaxOps = 1
PROPERTY ResetsComplete
PROPERTY FreshWorkIsMined
