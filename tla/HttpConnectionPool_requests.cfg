SPECIFICATION Spec
CONSTANTS
    u1 = u1
    u2 = u2
    c1 = c1
    c2 = c2
    c3 = c3
    Users <- TwoUsers
    Conns <- ThreeConns
    m_maxRequest = 3
    MaxCalls = 3
    Null = Null
SYMMETRY Symmetry
\* The calls of the users are bounded.
CHECK_DEADLOCK FALSE
INVARIANTS HeldOnce CountExact OwnAnswer PooledFit
