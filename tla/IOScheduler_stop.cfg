CONSTANTS
    w1 = w1
    r = r
    f1 = f1
    f2 = f2
    AnyThread = AnyThread
    NoItem = NoItem
    Pool <- OneThread
    Root <- Caller
    Fibers <- TwoTasks
    Waiters <- TwoTasks
    Switchers <- OneTask
    Affinities <- Unpinned
    MaxYields = 1
SPECIFICATION IOSpec
INVARIANTS WorkIsWatched RaceExplains
PROPERTIES IOStopReturns
