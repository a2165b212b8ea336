----------------------------- MODULE Scheduler -----------------------------
(***************************************************************************)
(* The fiber scheduler: Scheduler (scheduler.h, scheduler.cc) together     *)
(* with the state machine of Fiber (fiber.h, fiber.cc) that it drives.     *)
(*                                                                         *)
(* A scheduler thread w walks through Scheduler::run(); pc[w] names the    *)
(* point it has reached.  While it is on a fiber's stack, pc[w] is "exec", *)
(* "yieldHold" or "swapOut" and ft[w] is the fiber.  The scan of the queue *)
(* and every schedule() hold m_mutex, so each of them is one step; every   *)
(* other access to shared state outside the mutex is a step of its own.    *)
(*                                                                         *)
(* A task handed over as a function is the fiber that run() builds for it  *)
(* (cb_fiber, lines 215-242): past its construction, that branch treats it *)
(* as the fiber branch does.                                               *)
(***************************************************************************)
EXTENDS Integers, Sequences, FiniteSets, SequencesExt

CONSTANTS
    Pool,        \* threads that start() creates
    Root,        \* {the caller's thread} when use_caller, {} otherwise
    Fibers,      \* the tasks
    Waiters,     \* fibers whose function may wait for an event or a timer
    Switchers,   \* fibers whose function may call switchTo()
    Affinities,  \* the thread arguments that callers of schedule() pass
    MaxYields,   \* bound: how often one fiber yields
    AnyThread,   \* the thread argument -1
    NoItem       \* an empty FiberAndThread

Threads == Pool \cup Root

ASSUME ConstantsAssumption ==
    /\ Pool \cap Root = {} /\ Cardinality(Root) \leq 1 /\ IsFiniteSet(Threads)
    /\ Waiters \subseteq Fibers /\ Switchers \subseteq Fibers
    /\ Affinities \subseteq Threads \cup {AnyThread}
    /\ MaxYields \in Nat
    /\ AnyThread \notin Threads /\ NoItem \notin [fiber : Fibers, thread : Threads \cup {AnyThread}]

\* SYLAR_ASSERT(threads > 0), scheduler.cc:18.
ASSUME SomeThread == Threads # {}

\* The empty item is no task.
ASSUME NoItemAssumption == NoItem \notin Fibers

VARIABLES
    m_fibers,             \* the queue of [fiber, thread]
    m_activeThreadCount,
    m_idleThreadCount,
    m_autoStop,
    m_stopping,
    m_state,              \* Fiber::m_state of every fiber
    pc,                   \* where each thread is in run()
    ft,                   \* the task each thread took from the queue
    idleTerm,             \* idle_fiber of the thread has reached TERM
    mainPc,               \* the thread that constructs, starts and stops
    born,                 \* fibers that were scheduled at least once
    armed,                \* fibers that an event or a timer will schedule
    yields                \* how often each fiber yielded (bounded)

sched == <<m_fibers, m_activeThreadCount, m_idleThreadCount>>
flags == <<m_autoStop, m_stopping, mainPc>>
tasks == <<born, armed, yields>>
vars  == <<sched, flags, tasks, m_state, pc, ft, idleTerm>>

Finished   == {"TERM", "EXCEPT"}
FiberState == {"INIT", "HOLD", "EXEC", "READY"} \cup Finished

OnStackPc == {"exec", "yieldHold", "swapOut"}
ActivePc  == {"dispatch", "swapIn", "returned", "abort"} \cup OnStackPc
IdlePc    == {"idle", "idleBack"}
HoldsPc   == ActivePc \cup {"post", "setHold"}
WorkerPc  == HoldsPc \cup IdlePc \cup {"off", "fetch", "noTask", "done"}
MainPc    == {"init", "user", "stopSet", "rootCheck", "inRoot", "join", "stopped"}

QueueItem == [fiber : Fibers, thread : Threads \cup {AnyThread}]
-----------------------------------------------------------------------------
Init ==
    /\ m_fibers = <<>>
    /\ m_activeThreadCount = 0
    /\ m_idleThreadCount = 0
    /\ m_autoStop = FALSE
    /\ m_stopping = TRUE
    /\ m_state = [f \in Fibers |-> "INIT"]
    /\ pc = [w \in Threads |-> "off"]
    /\ ft = [w \in Threads |-> NoItem]
    /\ idleTerm = [w \in Threads |-> FALSE]
    /\ mainPc = "init"
    /\ born = {}
    /\ armed = {}
    /\ yields = [f \in Fibers |-> 0]

\* A failed assertion ends the process: nothing runs any more.
Aborted == \E w \in Threads : pc[w] = "abort"

At(w, label)   == ~ Aborted /\ pc[w] = label
MainAt(labels) == ~ Aborted /\ mainPc \in labels

\* The fiber that thread w took from the queue.
Cur(w) == ft[w].fiber

Goto(w, label) == pc' = [pc EXCEPT ![w] = label]

\* scheduleNoLock(): append; the tickle that may follow only writes a log line
\* in Scheduler (IOManager overrides it).
Item(f, t) == [fiber |-> f, thread |-> t]
Enqueue(f, t) == m_fibers' = Append(m_fibers, Item(f, t))

\* Faulty variant: the answer ignores the threads at work.
StoppingIgnoresActive == m_autoStop /\ m_stopping /\ m_fibers = <<>>

\* Scheduler::stopping(), evaluated under m_mutex.
Stopping ==
    /\ m_autoStop
    /\ m_stopping
    /\ m_fibers = <<>>
    /\ m_activeThreadCount = 0
-----------------------------------------------------------------------------
(* The user's thread: start(), schedule() from outside, stop().            *)

Start ==
    /\ MainAt({"init"})
    /\ m_stopping
    /\ m_stopping' = FALSE
    /\ mainPc' = "user"
    /\ pc' = [w \in Threads |-> IF w \in Pool THEN "fetch" ELSE pc[w]]
    /\ UNCHANGED <<sched, m_autoStop, tasks, m_state, ft, idleTerm>>

Schedule(f, t) ==
    /\ MainAt({"init", "user"})
    /\ f \notin born
    /\ Enqueue(f, t)
    /\ born' = born \cup {f}
    /\ UNCHANGED <<m_activeThreadCount, m_idleThreadCount, flags, armed, yields,
                   m_state, pc, ft, idleTerm>>

\* schedule(begin, end): both tasks enter the queue in one critical section.
ScheduleBatch(f, g) ==
    /\ MainAt({"user"})
    /\ f # g /\ {f, g} \cap born = {}
    /\ m_fibers' = m_fibers \o <<Item(f, AnyThread), Item(g, AnyThread)>>
    /\ born' = born \cup {f, g}
    /\ UNCHANGED <<m_activeThreadCount, m_idleThreadCount, flags, armed, yields,
                   m_state, pc, ft, idleTerm>>

\* Lines 84-96: with no pool thread, the root fiber (INIT, because stop() is
\* called once) makes stop() test stopping() before anything else; no other
\* thread runs between the assignments and the test.
StopBegin ==
    /\ MainAt({"user"})
    /\ m_autoStop' = TRUE
    /\ IF Root # {} /\ Pool = {}
         THEN m_stopping' = TRUE /\ mainPc' = IF Stopping' THEN "stopped" ELSE "stopSet"
         ELSE mainPc' = "stopSet" /\ UNCHANGED m_stopping
    /\ UNCHANGED <<sched, tasks, m_state, pc, ft, idleTerm>>

StopSet ==
    /\ MainAt({"stopSet"})
    /\ m_stopping' = TRUE
    /\ mainPc' = IF Root # {} THEN "rootCheck" ELSE "join"
    /\ UNCHANGED <<sched, m_autoStop, tasks, m_state, pc, ft, idleTerm>>

\* Lines 121-128: the root fiber runs run() on the caller's thread unless
\* everything is already drained.
RootCall ==
    /\ MainAt({"rootCheck"})
    /\ IF Stopping
         THEN mainPc' = "join" /\ UNCHANGED pc
         ELSE /\ mainPc' = "inRoot"
              /\ pc' = [w \in Threads |-> IF w \in Root THEN "fetch" ELSE pc[w]]
    /\ UNCHANGED <<sched, m_autoStop, m_stopping, tasks, m_state, ft, idleTerm>>

RootReturn ==
    /\ MainAt({"inRoot"})
    /\ \A r \in Root : pc[r] = "done"
    /\ mainPc' = "join"
    /\ UNCHANGED <<sched, m_autoStop, m_stopping, tasks, m_state, pc, ft, idleTerm>>

\* Faulty variant: stop() returns without joining.
JoinNobody ==
    /\ MainAt({"join"})
    /\ mainPc' = "stopped"
    /\ UNCHANGED <<sched, m_autoStop, m_stopping, tasks, m_state, pc, ft, idleTerm>>

JoinAll ==
    /\ MainAt({"join"})
    /\ \A w \in Pool : pc[w] = "done"
    /\ mainPc' = "stopped"
    /\ UNCHANGED <<sched, m_autoStop, m_stopping, tasks, m_state, pc, ft, idleTerm>>
-----------------------------------------------------------------------------
(* Scheduler::run() on thread w.                                           *)

\* Faulty variant: items for any thread (-1) are skipped like foreign ones.
TakeableOwnOnly(w, item) ==
    /\ item.thread = w
    /\ m_state[item.fiber] # "EXEC"

\* The test of lines 172-185 on one item.
Takeable(w, item) ==
    /\ item.thread \in {AnyThread, w}
    /\ m_state[item.fiber] # "EXEC"

\* Faulty variants: the scan forgets m_fibers.erase(), or the increment.
TakeTaskLeavesItem(w) ==
    /\ At(w, "fetch")
    /\ \E i \in DOMAIN m_fibers :
         /\ Takeable(w, m_fibers[i])
         /\ \A j \in 1 .. (i - 1) : ~ Takeable(w, m_fibers[j])
         /\ ft' = [ft EXCEPT ![w] = m_fibers[i]]
    /\ m_activeThreadCount' = m_activeThreadCount + 1
    /\ Goto(w, "dispatch")
    /\ UNCHANGED <<m_fibers, m_idleThreadCount, flags, tasks, m_state, idleTerm>>

TakeTaskUncounted(w) ==
    /\ At(w, "fetch")
    /\ \E i \in DOMAIN m_fibers :
         /\ Takeable(w, m_fibers[i])
         /\ \A j \in 1 .. (i - 1) : ~ Takeable(w, m_fibers[j])
         /\ ft' = [ft EXCEPT ![w] = m_fibers[i]]
         /\ m_fibers' = RemoveAt(m_fibers, i)
    /\ Goto(w, "dispatch")
    /\ UNCHANGED <<m_activeThreadCount, m_idleThreadCount, flags, tasks, m_state, idleTerm>>

\* Lines 166-194: the scan takes the first item this thread may run.
TakeTask(w) ==
    /\ At(w, "fetch")
    /\ \E i \in DOMAIN m_fibers :
         /\ Takeable(w, m_fibers[i])
         /\ \A j \in 1 .. (i - 1) : ~ Takeable(w, m_fibers[j])
         /\ ft' = [ft EXCEPT ![w] = m_fibers[i]]
         /\ m_fibers' = RemoveAt(m_fibers, i)
    /\ m_activeThreadCount' = m_activeThreadCount + 1
    /\ Goto(w, "dispatch")
    /\ UNCHANGED <<m_idleThreadCount, flags, tasks, m_state, idleTerm>>

FindNothing(w) ==
    /\ At(w, "fetch")
    /\ \A i \in DOMAIN m_fibers : ~ Takeable(w, m_fibers[i])
    /\ Goto(w, "noTask")
    /\ UNCHANGED <<sched, flags, tasks, m_state, ft, idleTerm>>

\* Line 201 reads the state without the mutex; a finished fiber is dropped by
\* lines 245-249.
Dispatch(w) ==
    /\ At(w, "dispatch")
    /\ IF m_state[Cur(w)] \notin Finished
         THEN Goto(w, "swapIn") /\ UNCHANGED <<m_activeThreadCount, ft>>
         ELSE /\ m_activeThreadCount' = m_activeThreadCount - 1
              /\ ft' = [ft EXCEPT ![w] = NoItem]
              /\ Goto(w, "fetch")
    /\ UNCHANGED <<m_fibers, m_idleThreadCount, flags, tasks, m_state, idleTerm>>

\* A failed SYLAR_ASSERT on thread w.
Abort(w) ==
    /\ Goto(w, "abort")
    /\ UNCHANGED <<sched, flags, tasks, m_state, ft, idleTerm>>

\* Faulty variant: swapIn() without the assignment of line 166.
SwapInKeepsState(w) ==
    /\ At(w, "swapIn")
    /\ Goto(w, "exec")
    /\ UNCHANGED <<sched, flags, tasks, m_state, ft, idleTerm>>

\* Fiber::swapIn().  m_ctx is whatever the last swapOut() saved: swapping in a
\* fiber that has not left its stack puts two threads on that stack.
SwapIn(w) ==
    /\ At(w, "swapIn")
    /\ IF m_state[Cur(w)] # "EXEC"
         THEN /\ m_state' = [m_state EXCEPT ![Cur(w)] = "EXEC"]
              /\ Goto(w, "exec")
              /\ UNCHANGED <<sched, flags, tasks, ft, idleTerm>>
         ELSE Abort(w)

\* Faulty variant: the active count is not given back.
ReturnedUncounted(w) ==
    /\ At(w, "returned")
    /\ Goto(w, "post")
    /\ UNCHANGED <<sched, flags, tasks, m_state, ft, idleTerm>>

\* swapOut() returns control to run(), which first gives back its active count.
Returned(w) ==
    /\ At(w, "returned")
    /\ m_activeThreadCount' = m_activeThreadCount - 1
    /\ Goto(w, "post")
    /\ UNCHANGED <<m_fibers, m_idleThreadCount, flags, tasks, m_state, ft, idleTerm>>

\* Lines 205-208: a READY fiber goes to the back of the queue, for any thread.
Requeue(w) ==
    /\ At(w, "post")
    /\ m_state[Cur(w)] = "READY"
    /\ Enqueue(Cur(w), AnyThread)
    /\ ft' = [ft EXCEPT ![w] = NoItem]
    /\ Goto(w, "fetch")
    /\ UNCHANGED <<m_activeThreadCount, m_idleThreadCount, flags, tasks, m_state, idleTerm>>

\* Line 209 reads the state ...
LookAfter(w) ==
    /\ At(w, "post")
    /\ m_state[Cur(w)] # "READY"
    /\ IF m_state[Cur(w)] \in Finished
         THEN ft' = [ft EXCEPT ![w] = NoItem] /\ Goto(w, "fetch")
         ELSE Goto(w, "setHold") /\ UNCHANGED ft
    /\ UNCHANGED <<sched, flags, tasks, m_state, idleTerm>>

\* ... and line 211 writes it, whatever it has become in between.
SetHold(w) ==
    /\ At(w, "setHold")
    /\ m_state' = [m_state EXCEPT ![Cur(w)] = "HOLD"]
    /\ ft' = [ft EXCEPT ![w] = NoItem]
    /\ Goto(w, "fetch")
    /\ UNCHANGED <<sched, flags, tasks, idleTerm>>
-----------------------------------------------------------------------------
(* The idle branch, lines 250-262, and Scheduler::idle().                  *)

IdleExit(w) ==
    /\ At(w, "noTask")
    /\ idleTerm[w]
    /\ Goto(w, "done")
    /\ UNCHANGED <<sched, flags, tasks, m_state, ft, idleTerm>>

IdleEnter(w) ==
    /\ At(w, "noTask")
    /\ ~ idleTerm[w]
    /\ m_idleThreadCount' = m_idleThreadCount + 1
    /\ Goto(w, "idle")
    /\ UNCHANGED <<m_fibers, m_activeThreadCount, flags, tasks, m_state, ft, idleTerm>>

\* The loop of idle(): its fiber ends once stopping() holds, else yields.
IdleCheck(w) ==
    /\ At(w, "idle")
    /\ idleTerm' = [idleTerm EXCEPT ![w] = Stopping]
    /\ Goto(w, "idleBack")
    /\ UNCHANGED <<sched, flags, tasks, m_state, ft>>

\* Faulty variant: the idle count is not given back.
IdleLeaveUncounted(w) ==
    /\ At(w, "idleBack")
    /\ Goto(w, "fetch")
    /\ UNCHANGED <<sched, flags, tasks, m_state, ft, idleTerm>>

IdleLeave(w) ==
    /\ At(w, "idleBack")
    /\ m_idleThreadCount' = m_idleThreadCount - 1
    /\ Goto(w, "fetch")
    /\ UNCHANGED <<m_fibers, m_activeThreadCount, flags, tasks, m_state, ft, idleTerm>>
-----------------------------------------------------------------------------
(* The function of the fiber that thread w runs.                           *)

Spawn(w, g, t) ==
    /\ At(w, "exec")
    /\ g \notin born
    /\ Enqueue(g, t)
    /\ born' = born \cup {g}
    /\ UNCHANGED <<m_activeThreadCount, m_idleThreadCount, flags, armed, yields,
                   m_state, pc, ft, idleTerm>>

CountYield(w) ==
    /\ yields[Cur(w)] < MaxYields
    /\ yields' = [yields EXCEPT ![Cur(w)] = @ + 1]

\* Faulty variant: the fiber suspends itself without a waker.
WaitUnregistered(w) ==
    /\ At(w, "exec")
    /\ Cur(w) \in Waiters \ armed
    /\ CountYield(w)
    /\ Goto(w, "yieldHold")
    /\ UNCHANGED <<sched, flags, born, armed, m_state, ft, idleTerm>>

\* Hand the current fiber to an event or a timer, then call YieldToHold().
Wait(w) ==
    /\ At(w, "exec")
    /\ Cur(w) \in Waiters \ armed
    /\ CountYield(w)
    /\ armed' = armed \cup {Cur(w)}
    /\ Goto(w, "yieldHold")
    /\ UNCHANGED <<sched, flags, born, m_state, ft, idleTerm>>

\* switchTo(t) past its early return: schedule the current fiber on thread t,
\* then call YieldToHold().
SwitchTo(w, t) ==
    /\ At(w, "exec")
    /\ Cur(w) \in Switchers
    /\ t # w
    /\ CountYield(w)
    /\ Enqueue(Cur(w), t)
    /\ Goto(w, "yieldHold")
    /\ UNCHANGED <<m_activeThreadCount, m_idleThreadCount, flags, born, armed,
                   m_state, ft, idleTerm>>

\* Lines 215-216; the swapOut() of line 217 is a later step.
YieldToHold(w) ==
    /\ At(w, "yieldHold")
    /\ IF m_state[Cur(w)] = "EXEC"
         THEN /\ m_state' = [m_state EXCEPT ![Cur(w)] = "HOLD"]
              /\ Goto(w, "swapOut")
              /\ UNCHANGED <<sched, flags, tasks, ft, idleTerm>>
         ELSE Abort(w)

YieldToReady(w) ==
    /\ At(w, "exec")
    /\ CountYield(w)
    /\ IF m_state[Cur(w)] = "EXEC"
         THEN m_state' = [m_state EXCEPT ![Cur(w)] = "READY"] /\ Goto(w, "swapOut")
         ELSE Goto(w, "abort") /\ UNCHANGED m_state
    /\ UNCHANGED <<sched, flags, born, armed, ft, idleTerm>>

\* Faulty variant: MainFunc() leaves without a final state.
FinishKeepsState(w, s) ==
    /\ At(w, "exec")
    /\ Goto(w, "swapOut")
    /\ UNCHANGED <<sched, flags, tasks, m_state, ft, idleTerm>>

\* MainFunc(): the function returned or threw.
Finish(w, s) ==
    /\ At(w, "exec")
    /\ m_state' = [m_state EXCEPT ![Cur(w)] = s]
    /\ Goto(w, "swapOut")
    /\ UNCHANGED <<sched, flags, tasks, ft, idleTerm>>

\* swapcontext() saves m_ctx and leaves the fiber's stack.
SwapOut(w) ==
    /\ At(w, "swapOut")
    /\ Goto(w, "returned")
    /\ UNCHANGED <<sched, flags, tasks, m_state, ft, idleTerm>>

\* The event or the timer schedules the fiber it was given, on any thread.
Wake(f) ==
    /\ ~ Aborted
    /\ f \in armed
    /\ armed' = armed \ {f}
    /\ Enqueue(f, AnyThread)
    /\ UNCHANGED <<m_activeThreadCount, m_idleThreadCount, flags, born, yields,
                   m_state, pc, ft, idleTerm>>
-----------------------------------------------------------------------------
RunStep(w) ==
    \/ TakeTask(w) \/ FindNothing(w) \/ Dispatch(w) \/ SwapIn(w)
    \/ Returned(w) \/ Requeue(w) \/ LookAfter(w) \/ SetHold(w)
    \/ IdleExit(w) \/ IdleEnter(w) \/ IdleCheck(w) \/ IdleLeave(w)

FiberStep(w) ==
    \/ \E g \in Fibers, t \in Affinities : Spawn(w, g, t)
    \/ Wait(w)
    \/ \E t \in Threads : SwitchTo(w, t)
    \/ YieldToHold(w)
    \/ YieldToReady(w)
    \/ \E s \in Finished : Finish(w, s)
    \/ SwapOut(w)

StopStep == StopSet \/ RootCall \/ RootReturn \/ JoinAll

UserStep ==
    \/ Start
    \/ \E f \in Fibers, t \in Affinities : Schedule(f, t)
    \/ \E f, g \in Fibers : ScheduleBatch(f, g)
    \/ StopBegin

\* The process ends with a failed assertion or after stop() returned.
Terminated == (mainPc = "stopped" \/ Aborted) /\ UNCHANGED vars

Next ==
    \/ UserStep
    \/ StopStep
    \/ \E w \in Threads : RunStep(w) \/ FiberStep(w)
    \/ \E f \in Fibers : Wake(f)
    \/ Terminated

Spec == Init /\ [][Next]_vars

\* The operating system runs every thread, a fiber's function yields or ends
\* after finitely many steps, stop() goes on once called, and every event or
\* timer a fiber waits for comes.  Nothing makes the user call anything.
Fairness ==
    /\ WF_vars(StopStep)
    /\ \A w \in Threads : WF_vars(RunStep(w) \/ FiberStep(w))
    /\ \A f \in Fibers : WF_vars(Wake(f))

FairSpec == Spec /\ Fairness
-----------------------------------------------------------------------------
(* Properties.                                                             *)

TypeOK ==
    /\ m_fibers \in Seq(QueueItem)
    /\ m_activeThreadCount \in Nat
    /\ m_idleThreadCount \in Nat
    /\ m_autoStop \in BOOLEAN
    /\ m_stopping \in BOOLEAN
    /\ m_state \in [Fibers -> FiberState]
    /\ pc \in [Threads -> WorkerPc]
    /\ ft \in [Threads -> QueueItem \cup {NoItem}]
    /\ idleTerm \in [Threads -> BOOLEAN]
    /\ mainPc \in MainPc
    /\ born \in SUBSET Fibers
    /\ armed \in SUBSET Fibers
    /\ yields \in [Fibers -> 0 .. MaxYields]

Queued(f)  == \E i \in DOMAIN m_fibers : m_fibers[i].fiber = f
Held(w, f) == pc[w] \in HoldsPc /\ ft[w].fiber = f
OnStack(w) == pc[w] \in OnStackPc

\* The two counters say how many threads are where: m_activeThreadCount covers
\* every thread from the scan (line 189) to the decrement after the task left
\* its stack (lines 204, 227, 247), m_idleThreadCount every thread inside the
\* idle fiber (256-258).  stopping() and IOManager::tickle() rely on it.
ThreadsAt(A) == {w \in Threads : pc[w] \in A}

CountersAccount ==
    /\ m_activeThreadCount = Cardinality(ThreadsAt(ActivePc))
    /\ m_idleThreadCount = Cardinality(ThreadsAt(IdlePc))

\* No two threads are on one fiber's stack (the comment at scheduler.cc:180
\* says a fiber that is executing is skipped).
OnOneThread ==
    \A v, w \in Threads :
        v # w /\ OnStack(v) /\ OnStack(w) => Cur(v) # Cur(w)

\* SYLAR_ASSERT(cur->m_state == EXEC), fiber.cc:206 and 215: a fiber that is
\* about to yield still has the state its swapIn() gave it.
YieldFindsExec ==
    \A w \in Threads : pc[w] \in {"exec", "yieldHold"} => m_state[Cur(w)] = "EXEC"

\* A task that was scheduled and has not ended is in the queue, in the hands
\* of a thread, or waiting for its event: run() never drops it on the floor.
NoTaskLost ==
    \A f \in born :
        \/ m_state[f] \in Finished
        \/ f \in armed
        \/ Queued(f)
        \/ \E w \in Threads : Held(w, f)

QueueDistinct ==
    \A i, j \in DOMAIN m_fibers : i # j => m_fibers[i].fiber # m_fibers[j].fiber

\* A task that never waits is referred to from one place only: no second
\* queue entry, no thread holding what another one holds.  A second reference
\* is what makes swapIn() find EXEC (fiber.cc:165).
OneReference ==
    /\ QueueDistinct
    /\ \A w \in Threads, f \in Fibers \ (Waiters \cup Switchers) :
         Held(w, f) => ~ Queued(f) /\ \A v \in Threads \ {w} : ~ Held(v, f)

\* The strengthening that makes the four properties above inductive when no
\* fiber waits: where a fiber is decides its state, and every reference to it
\* is the only one.
StateAt(w) ==
    /\ pc[w] \in {"dispatch", "swapIn"} => m_state[Cur(w)] \in {"INIT", "READY"}
    /\ pc[w] = "exec" => m_state[Cur(w)] = "EXEC"
    /\ pc[w] \in {"swapOut", "returned", "post"} => m_state[Cur(w)] \in {"READY"} \cup Finished
    /\ pc[w] \notin {"yieldHold", "setHold", "abort"}

Ownership ==
    /\ armed = {}
    /\ QueueDistinct
    /\ \A w \in Threads : StateAt(w)
    /\ \A f \in Fibers :
         Queued(f) => f \in born /\ m_state[f] \in {"INIT", "READY"}
    /\ \A w \in Threads, f \in Fibers :
         Held(w, f) => f \in born /\ ~ Queued(f) /\ \A v \in Threads \ {w} : ~ Held(v, f)
    /\ \A f \in Fibers :
         IF f \notin born
           THEN m_state[f] = "INIT"
           ELSE m_state[f] \in Finished \/ Queued(f) \/ \E w \in Threads : Held(w, f)

\* A task is stranded when it is pinned to a thread that has left run(), or to the
\* caller's thread when stop() found that it need not enter.
LeftRun(t) ==
    /\ t \in Threads
    /\ pc[t] = "done" \/ (pc[t] = "off" /\ mainPc \in {"join", "stopped"})

StrandedTask(f) == \E i \in DOMAIN m_fibers : m_fibers[i].fiber = f /\ LeftRun(m_fibers[i].thread)

Stranded == \E f \in Fibers : StrandedTask(f)

\* When stop() has returned every task has ended (the comment at scheduler.cc:108-109:
\* after stop() the scheduler waits until all fibers have been scheduled to
\* completion), but for tasks that are stranded: their thread saw stopping() hold
\* while a READY fiber was in no queue, and that fiber has spawned them since.
StopDrains ==
    mainPc = "stopped" => \A f \in born : m_state[f] \in Finished \/ StrandedTask(f)

\* When stopping() answers yes, no task is left that could still run, but for
\* a READY fiber that its thread has given up the active count for and not yet
\* put back into the queue (between lines 204 and 207).
StoppingMeansFinished ==
    Stopping =>
        \A f \in born \ armed :
            \/ m_state[f] \in Finished
            \/ \E w \in Threads : pc[w] = "post" /\ Cur(w) = f /\ m_state[f] = "READY"

\* stop() returns, unless a stranded task keeps the other threads in run().
StopReturns == m_autoStop ~> mainPc = "stopped" \/ Stranded

\* A task scheduled on a running scheduler ends, unless it is pinned to a thread
\* that is not in run(); the caller's thread is there only during stop().
TaskCompletes ==
    \A f \in Fibers :
        f \in born /\ mainPc # "init" ~>
            \/ m_state[f] \in Finished
            \/ \E i \in DOMAIN m_fibers, t \in Threads :
                 m_fibers[i] = Item(f, t) /\ pc[t] \in {"off", "done"}
-----------------------------------------------------------------------------
(* The scheduler as an implementation of TaskPool.                         *)

PoolStatus(f) ==
    IF f \notin born THEN "new"
    ELSE IF m_state[f] \in Finished THEN "done"
    ELSE IF f \in armed THEN "waiting"
    ELSE IF \E w \in Threads : pc[w] = "exec" /\ Cur(w) = f THEN "running"
    ELSE "ready"

PoolRunner(w) == IF OnStack(w) THEN Cur(w) ELSE NoItem

Contract == INSTANCE TaskPool WITH
    Tasks <- Fibers, Workers <- Threads, Nobody <- NoItem,
    status <- [f \in Fibers |-> PoolStatus(f)],
    runner <- [w \in Threads |-> PoolRunner(w)],
    closed <- (mainPc = "stopped" /\ ~ Stranded)

\* Every step of the scheduler is a step of the task pool, or none; a pool with a
\* stranded task never closes.
ImplementsPool == Contract!Spec
=============================================================================
