---------------------------- MODULE MCScheduler ----------------------------
(* Instances of Scheduler for TLC: two or three threads and two tasks,     *)
(* each yielding at most MaxYields times.                                  *)
EXTENDS Scheduler

CONSTANTS w1, w2, r, f1, f2

OneThread    == {w1}
TwoThreads   == {w1, w2}
Caller       == {r}
TwoTasks     == {f1, f2}
Unpinned     == {AnyThread}
Pinned       == {AnyThread, w1, r}
=============================================================================
