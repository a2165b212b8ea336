SPECIFICATION ComponentsSpec
CONSTANTS
    m_baseSize = 2
    MaxCapacity = 4
    Bits = 2
    Width = 5
    LittleHost = TRUE
    Strings <- SomeStrings
    Values <- SomeValues
    Garbage = Garbage
    Null = Null
    NoRecord = NoRecord
    Thrown = Thrown
    Uris = {"u1", "u2"}
    Patterns = {"p1", "p2"}
    Fnmatch <- SomeMatches
    Servlets = {"s1", "s2"}
    m_default = "notFound"
    NoServlet = "none"
    MaxCalls = 4
    V4Bits = 5
    V6Bytes = 2
    V6Scope = 1
    V6Bits = 2
    V6Groups = 8
    FdThreads = {"hooked1", "hooked2", "plain"}
    Hooked = {"hooked1", "hooked2"}
    Fds = {3, 4}
    DatasSize = 4
    MaxSockets = 4
    TableThreads = {"thread1", "thread2", "thread3"}
    TableFds = {3, 4, 6}
    TableSize = 3
    MaxContexts = 3
    Responses <- SomeResponses
    buff_size = 8
    Radix = 2
    Letters = {"m"}
    Others = {" "}
    MaxPattern = 6
\* A process that has crashed stops, and so does a component whose bound is reached.
CHECK_DEADLOCK FALSE
INVARIANTS
    CursorExact ReadsBack FileExact
    MatchFollowsCalls PrefixExact TextExact CtxFits ContextKept ResponseExact PatternExact
PROPERTY ImplementsBuffer
