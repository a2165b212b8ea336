CONSTANTS
    w1 = w1
    w2 = w2
    r = r
    f1 = f1
    f2 = f2
    AnyThread = AnyThread
    NoItem = NoItem
    Pool <- OneThread
    Root <- Caller
    Fibers <- TwoTasks
    Waiters = {}
    Switchers = {}
    Affinities <- Pinned
    MaxYields = 2
SPECIFICATION FairSpec
INVARIANTS OnOneThread Ownership StoppingMeansFinished StopDrains
PROPERTIES ImplementsPool TaskCompletes StopReturns
