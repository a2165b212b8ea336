CONSTANTS
    w1 = w1
    w2 = w2
    r = r
    f1 = f1
    f2 = f2
    AnyThread = AnyThread
    NoItem = NoItem
    Pool <- TwoThreads
    Root = {}
    Fibers <- TwoTasks
    Waiters <- TwoTasks
    Switchers = {}
    Affinities <- Unpinned
    MaxYields = 2
SPECIFICATION Spec
INVARIANT OnOneThread
