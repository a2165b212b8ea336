CONSTANTS
    t1 = t1
    t2 = t2
    h1 = h1
    h2 = h2
    Timers <- TwoTimers
    Recurring = {}
    Threads <- OneThread
    Periods = {2}
    StartTime = 2
    EndTime = 4
    LastTime = 5
    MAX_TIMEOUT = 2
    Hour = 2
    IntRange = 32
    MaxChanges = 1
    MaxSignals = 1
    SetBacks = {3}
    Never = 100
SPECIFICATION FairSpec
PROPERTY EveryTimerSettles
