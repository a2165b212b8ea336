SPECIFICATION BoundedSpec
CONSTANTS
    c1 = c1
    s1 = s1
    Clients <- OneClient
    Pipeliners <- OneClient
    Kinds <- SomeKinds
    m_isKeepalive = TRUE
    MaxRequests = 2
    Socks <- OneSock
    MaxStarts = 2
    MaxStops = 2
CHECK_DEADLOCK FALSE
INVARIANTS InOrder OneAcceptor
PROPERTIES StopStops EveryClientCloses
