CONSTANTS
    a = a
    h1 = h1
    h2 = h2
    reader = reader
    Callback = Callback
    Nobody = Nobody
    Fds <- OneFd
    Threads <- TwoThreads
    Waiters <- ReaderOnly
    FdOf <- AllOnOne
    EventOf <- AllRead
    TimedWaiters <- ReaderOnly
    CallbackEvents <- WriteCallback
    ClosedFds <- OneFd
    MaxCallbacks = 2
SPECIFICATION FairSpec
INVARIANTS EventsAgree WaiterKept EdgeKept
PROPERTIES ReadyWakes
CHECK_DEADLOCK FALSE
