--------------------------- MODULE MCTimerManager ---------------------------
(* Instances of TimerManager for TLC: one timer that fires once, one that   *)
(* recurs, and the threads that sleep until they are due.                  *)
EXTENDS TimerManager, TLC

CONSTANTS t1, t2, h1, h2

TwoTimers  == {t1, t2}
SecondOnly == {t2}
OneThread  == {h1}
TwoThreads == {h1, h2}

Symmetry == Permutations(TwoThreads)
=============================================================================
