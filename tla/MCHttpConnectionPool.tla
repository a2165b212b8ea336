------------------------ MODULE MCHttpConnectionPool ------------------------
EXTENDS HttpConnectionPool, TLC

CONSTANTS u1, u2, c1, c2, c3

TwoUsers == {u1, u2}

ThreeConns == {c1, c2, c3}

Symmetry == Permutations(TwoUsers) \cup Permutations(ThreeConns)
=============================================================================
