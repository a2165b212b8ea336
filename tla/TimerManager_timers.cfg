CONSTANTS
    t1 = t1
    t2 = t2
    h1 = h1
    h2 = h2
    Timers <- TwoTimers
    Recurring <- SecondOnly
    Threads <- TwoThreads
    Periods = {1, 3}
    StartTime = 3
    EndTime = 6
    LastTime = 5
    MAX_TIMEOUT = 2
    Hour = 2
    IntRange = 6
    MaxChanges = 1
    MaxSignals = 1
    SetBacks = {}
    Never = 100
SYMMETRY Symmetry
SPECIFICATION Spec
INVARIANTS IndexExact Timely
PROPERTIES OneOutcome NotEarly
