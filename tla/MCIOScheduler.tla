--------------------------- MODULE MCIOScheduler ---------------------------
(* An instance of IOScheduler for TLC: a pool thread and the caller's own,  *)
(* two tasks that may be the callback of a timer or wait for an event.      *)
EXTENDS IOScheduler

CONSTANTS w1, r, f1, f2

OneThread == {w1}
Caller    == {r}
TwoTasks  == {f1, f2}
OneTask   == {f1}
Unpinned  == {AnyThread}
=============================================================================
