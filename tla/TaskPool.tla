------------------------------ MODULE TaskPool ------------------------------
(***************************************************************************)
(* What the scheduler promises to its users, without queue, counters or    *)
(* fiber states: a submitted task is run by one thread at a time, runs     *)
(* again only after it yielded or was woken, ends once, and the pool       *)
(* closes only when no task is runnable.                                   *)
(***************************************************************************)
EXTENDS Naturals

CONSTANTS Tasks, Workers, Nobody

VARIABLES
    status,   \* of every task
    runner,   \* the task on whose stack a thread is, or Nobody
    closed    \* stop() has returned

vars == <<status, runner, closed>>

Init ==
    /\ status = [t \in Tasks |-> "new"]
    /\ runner = [w \in Workers |-> Nobody]
    /\ closed = FALSE

\* One task or a batch of tasks is handed over.
Submit(S) ==
    /\ ~ closed
    /\ \A t \in S : status[t] = "new"
    /\ status' = [t \in Tasks |-> IF t \in S THEN "ready" ELSE status[t]]
    /\ UNCHANGED <<runner, closed>>

\* A free thread starts or resumes a task that nobody runs.
Take(w, t) ==
    /\ runner[w] = Nobody
    /\ status[t] = "ready"
    /\ \A v \in Workers : runner[v] # t
    /\ status' = [status EXCEPT ![t] = "running"]
    /\ runner' = [runner EXCEPT ![w] = t]
    /\ UNCHANGED closed

\* The running task yields, waits for something, or ends.
Leave(w, s) ==
    /\ runner[w] # Nobody
    /\ status[runner[w]] = "running"
    /\ status' = [status EXCEPT ![runner[w]] = s]
    /\ UNCHANGED <<runner, closed>>

\* The thread gets off the stack of a task that no longer runs.
Release(w) ==
    /\ runner[w] # Nobody
    /\ status[runner[w]] # "running"
    /\ runner' = [runner EXCEPT ![w] = Nobody]
    /\ UNCHANGED <<status, closed>>

Wake(t) ==
    /\ status[t] = "waiting"
    /\ status' = [status EXCEPT ![t] = "ready"]
    /\ UNCHANGED <<runner, closed>>

Close ==
    /\ \A t \in Tasks : status[t] \in {"new", "waiting", "done"}
    /\ \A w \in Workers : runner[w] = Nobody
    /\ closed' = TRUE
    /\ UNCHANGED <<status, runner>>

Next ==
    \/ \E S \in (SUBSET Tasks) \ {{}} : Submit(S)
    \/ \E w \in Workers :
         \/ \E t \in Tasks : Take(w, t)
         \/ \E s \in {"ready", "waiting", "done"} : Leave(w, s)
         \/ Release(w)
    \/ \E t \in Tasks : Wake(t)
    \/ Close

Spec == Init /\ [][Next]_vars
=============================================================================
