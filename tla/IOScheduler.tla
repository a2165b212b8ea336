---------------------------- MODULE IOScheduler ----------------------------
(***************************************************************************)
(* Scheduler as IOManager specialises it (iomanager.cc): stopping() also   *)
(* asks for timers and pending events, in three reads that nothing holds   *)
(* together, and idle() turns expired timers and reported events into      *)
(* scheduled tasks.  Everything else is the Scheduler this module EXTENDS, *)
(* but for the hooked sleep(), usleep() and nanosleep() (hook.cc).         *)
(*                                                                         *)
(* A timer carries the task that its callback is; an event, the fiber that *)
(* waits for it.  When a timer is due and which descriptors are ready is   *)
(* left open here: TimerManager and IOManager say it.                      *)
(***************************************************************************)
EXTENDS Scheduler

VARIABLES
    timers,               \* tasks that are the callback of an entry of m_timers
    events,               \* fibers whose event is set in its FdContext
    m_pendingEventCount,
    sleeper,              \* the fiber that the callback of a sleep is to schedule
    place,                \* where each thread is in idle() or stopping()
    reported,             \* what epoll_wait() gave a thread, not yet handled
    cbs,                  \* the expired callbacks in the hands of a thread
    raced,                \* history: a fiber was taken from a thread that held it
    late                  \* history: a task made a timer or waited for an event on
                          \* a thread whose idle fiber had already ended

work   == <<timers, events, m_pendingEventCount, sleeper>>
hands  == <<place, reported, cbs>>
history == <<raced, late>>
ioVars == <<vars, work, hands, history>>

\* ask, noTimer, noPending: in stopping(); poll: before epoll_wait(); expire:
\* before listExpiredCb(); schedule: cbs is not empty; serve: in the loop over
\* the events; count: an event was triggered and is still counted.
Place == {"ask", "noTimer", "noPending", "poll", "expire", "schedule", "serve", "count"}

IOInit ==
    /\ Init
    /\ timers = {}
    /\ events = {}
    /\ m_pendingEventCount = 0
    /\ sleeper = [g \in Fibers |-> NoItem]
    /\ place = [w \in Threads |-> "ask"]
    /\ reported = [w \in Threads |-> {}]
    /\ cbs = [w \in Threads |-> {}]
    /\ raced = FALSE
    /\ late = FALSE

MoveTo(w, p) == place' = [place EXCEPT ![w] = p]
-----------------------------------------------------------------------------
(* IOManager::stopping(), asked by an idle fiber or, on the caller's       *)
(* thread, by stop().                                                      *)

InIdle(w) == At(w, "idle")
InStop(w) == w \in Root /\ MainAt({"rootCheck"})

\* The answer: idle() ends or goes on to epoll_wait(), stop() leaves out or
\* makes the call of the root fiber.
Answer(w, yes) ==
    /\ MoveTo(w, IF InIdle(w) /\ ~ yes THEN "poll" ELSE "ask")
    /\ IF InIdle(w)
         THEN /\ idleTerm' = [idleTerm EXCEPT ![w] = yes]
              /\ IF yes THEN Goto(w, "idleBack") ELSE UNCHANGED pc
              /\ UNCHANGED mainPc
         ELSE /\ mainPc' = IF yes THEN "join" ELSE "inRoot"
              /\ IF yes THEN UNCHANGED pc ELSE Goto(w, "fetch")
              /\ UNCHANGED idleTerm
    /\ UNCHANGED <<sched, m_autoStop, m_stopping, tasks, m_state, ft, work, reported, cbs, history>>

Advance(w, p) == MoveTo(w, p) /\ UNCHANGED <<vars, work, reported, cbs, history>>

\* Line 315, first operand: getNextTimer().
AskTimers(w) ==
    /\ InIdle(w) \/ InStop(w)
    /\ place[w] = "ask"
    /\ IF timers = {} THEN Advance(w, "noTimer") ELSE Answer(w, FALSE)

\* Faulty variant: the pending events are not asked for.
AskNoPending(w) ==
    /\ InIdle(w) \/ InStop(w)
    /\ place[w] = "noTimer"
    /\ Advance(w, "noPending")

AskPending(w) ==
    /\ InIdle(w) \/ InStop(w)
    /\ place[w] = "noTimer"
    /\ IF m_pendingEventCount = 0 THEN Advance(w, "noPending") ELSE Answer(w, FALSE)

AskScheduler(w) ==
    /\ InIdle(w) \/ InStop(w)
    /\ place[w] = "noPending"
    /\ Answer(w, Stopping)

\* StopBegin with this stopping(); with no pool thread, nobody runs meanwhile.
IOStopBegin ==
    /\ MainAt({"user"})
    /\ m_autoStop' = TRUE
    /\ IF Root # {} /\ Pool = {}
         THEN /\ m_stopping' = TRUE
              /\ mainPc' = IF timers = {} /\ m_pendingEventCount = 0 /\ Stopping'
                             THEN "stopped" ELSE "stopSet"
         ELSE mainPc' = "stopSet" /\ UNCHANGED m_stopping
    /\ UNCHANGED <<sched, tasks, m_state, pc, ft, idleTerm, work, hands, history>>
-----------------------------------------------------------------------------
(* idle() past stopping().                                                 *)

\* epoll_wait() returns after at most MAX_TIMEOUT, with any events or none.
Poll(w, ready) ==
    /\ InIdle(w)
    /\ place[w] = "poll"
    /\ ready \subseteq events
    /\ reported' = [reported EXCEPT ![w] = ready]
    /\ MoveTo(w, "expire")
    /\ UNCHANGED <<vars, work, cbs, history>>

\* listExpiredCb(): the callbacks leave m_timers ...
Expire(w, due) ==
    /\ InIdle(w)
    /\ place[w] = "expire"
    /\ due \subseteq timers
    /\ timers' = timers \ due
    /\ cbs' = [cbs EXCEPT ![w] = due]
    /\ MoveTo(w, IF due = {} THEN "serve" ELSE "schedule")
    /\ UNCHANGED <<vars, events, m_pendingEventCount, sleeper, reported, history>>

\* Faulty variant: the callbacks are not handed to the scheduler.
ScheduleNone(w) ==
    /\ InIdle(w)
    /\ place[w] = "schedule"
    /\ cbs' = [cbs EXCEPT ![w] = {}]
    /\ MoveTo(w, "serve")
    /\ UNCHANGED <<vars, work, reported, history>>

\* ... and enter the queue, all of them under one lock.
ScheduleExpired(w) ==
    /\ InIdle(w)
    /\ place[w] = "schedule"
    /\ \E order \in SetToSeqs(cbs[w]) :
         m_fibers' = m_fibers \o [i \in DOMAIN order |-> Item(order[i], AnyThread)]
    /\ armed' = armed \ cbs[w]
    /\ cbs' = [cbs EXCEPT ![w] = {}]
    /\ MoveTo(w, "serve")
    /\ UNCHANGED <<m_activeThreadCount, m_idleThreadCount, flags, born, yields, m_state, pc, ft,
                   idleTerm, work, reported, history>>

Handled(w, f) == reported' = [reported EXCEPT ![w] = @ \ {f}]

\* Lines 405-408: the event is waited for no more.
Skip(w, f) ==
    /\ InIdle(w)
    /\ place[w] = "serve"
    /\ f \in reported[w] \ events
    /\ Handled(w, f)
    /\ UNCHANGED <<vars, work, place, cbs, history>>

\* triggerEvent(): the fiber is scheduled before the event is uncounted.
Serve(w, f) ==
    /\ InIdle(w)
    /\ place[w] = "serve"
    /\ f \in reported[w] \cap events
    /\ Handled(w, f)
    /\ events' = events \ {f}
    /\ armed' = armed \ {f}
    /\ Enqueue(f, AnyThread)
    /\ MoveTo(w, "count")
    /\ UNCHANGED <<m_activeThreadCount, m_idleThreadCount, flags, born, yields, m_state, pc, ft,
                   idleTerm, timers, m_pendingEventCount, sleeper, cbs, history>>

\* Faulty variant: the event stays counted.
CountForgotten(w) ==
    /\ InIdle(w)
    /\ place[w] = "count"
    /\ Advance(w, "serve")

Count(w) ==
    /\ InIdle(w)
    /\ place[w] = "count"
    /\ m_pendingEventCount' = m_pendingEventCount - 1
    /\ MoveTo(w, "serve")
    /\ UNCHANGED <<vars, timers, events, sleeper, reported, cbs, history>>

\* The swapOut() at the end of the loop, back into run().
IdleYield(w) ==
    /\ InIdle(w)
    /\ place[w] = "serve"
    /\ reported[w] = {}
    /\ MoveTo(w, "ask")
    /\ Goto(w, "idleBack")
    /\ UNCHANGED <<sched, flags, tasks, m_state, ft, idleTerm, work, reported, cbs, history>>

IdleStep(w) ==
    \/ AskTimers(w) \/ AskPending(w) \/ AskScheduler(w)
    \/ \E ready \in SUBSET Fibers : Poll(w, ready)
    \/ \E due \in SUBSET Fibers : Expire(w, due)
    \/ ScheduleExpired(w)
    \/ \E f \in Fibers : Skip(w, f) \/ Serve(w, f)
    \/ Count(w) \/ IdleYield(w)
-----------------------------------------------------------------------------
(* The function of the fiber on thread w.                                  *)

Later(w) == late' = (late \/ idleTerm[w])

\* The callback of a sleep schedules the sleeper before anything else.
Calls(w) == At(w, "exec") /\ sleeper[Cur(w)] = NoItem

\* addTimer(), by a fiber or by the user's thread; the callback is a task.
AddTimer(g) ==
    /\ \/ MainAt({"user"}) /\ UNCHANGED late
       \/ \E w \in Threads : Calls(w) /\ Later(w)
    /\ g \notin born
    /\ born' = born \cup {g}
    /\ armed' = armed \cup {g}
    /\ timers' = timers \cup {g}
    /\ UNCHANGED <<sched, flags, yields, m_state, pc, ft, idleTerm, events, m_pendingEventCount,
                   sleeper, hands, raced>>

\* addEvent() for the current fiber, then YieldToHold().
WaitEvent(w) ==
    /\ Calls(w) /\ Wait(w)
    /\ Later(w)
    /\ events' = events \cup {Cur(w)}
    /\ m_pendingEventCount' = m_pendingEventCount + 1
    /\ UNCHANGED <<timers, sleeper, hands, raced>>

\* sleep(): addTimer() with a callback g that schedules the current fiber, then
\* YieldToHold().
Sleep(w, g) ==
    /\ Calls(w)
    /\ Cur(w) \in Waiters \ armed /\ g \notin born
    /\ CountYield(w)
    /\ Later(w)
    /\ born' = born \cup {g}
    /\ armed' = armed \cup {g, Cur(w)}
    /\ timers' = timers \cup {g}
    /\ sleeper' = [sleeper EXCEPT ![g] = Cur(w)]
    /\ Goto(w, "yieldHold")
    /\ UNCHANGED <<sched, flags, m_state, ft, idleTerm, events, m_pendingEventCount, hands, raced>>

\* The callback, which run() executes as a fiber of its own.
WakeSleeper(w) ==
    /\ At(w, "exec") /\ sleeper[Cur(w)] # NoItem
    /\ Enqueue(sleeper[Cur(w)], AnyThread)
    /\ armed' = armed \ {sleeper[Cur(w)]}
    /\ sleeper' = [sleeper EXCEPT ![Cur(w)] = NoItem]
    /\ UNCHANGED <<m_activeThreadCount, m_idleThreadCount, flags, born, yields, m_state, pc, ft,
                   idleTerm, timers, events, m_pendingEventCount, hands, history>>

\* run() takes a fiber; whether another thread still holds it is recorded.
Take(w) ==
    /\ TakeTask(w)
    /\ raced' = (raced \/ \E v \in Threads \ {w} : pc[v] \in HoldsPc /\ ft[v].fiber = ft'[w].fiber)
    /\ UNCHANGED <<work, hands, late>>

\* The steps of Scheduler::run() and of a fiber that IOManager inherits.
OtherStep(w) ==
    /\ At(w, "exec") => Calls(w)
    /\ \/ FindNothing(w) \/ Dispatch(w) \/ SwapIn(w) \/ Returned(w) \/ Requeue(w)
       \/ LookAfter(w) \/ SetHold(w) \/ IdleExit(w) \/ IdleEnter(w) \/ IdleLeave(w)
       \/ \E g \in Fibers, t \in Affinities : Spawn(w, g, t)
       \/ \E t \in Threads : SwitchTo(w, t)
       \/ YieldToHold(w) \/ YieldToReady(w) \/ SwapOut(w)
       \/ \E s \in Finished : Finish(w, s)
    /\ UNCHANGED <<work, hands, history>>

ThreadStep(w) ==
    \/ IdleStep(w) \/ Take(w) \/ OtherStep(w)
    \/ WaitEvent(w) \/ WakeSleeper(w)
    \/ \E g \in Fibers : Sleep(w, g)

\* The constructor calls start(): nothing is scheduled before it.
UserCall ==
    /\ \/ Start
       \/ mainPc = "user" /\ \E f \in Fibers, t \in Affinities : Schedule(f, t)
       \/ \E f, g \in Fibers : ScheduleBatch(f, g)
    /\ UNCHANGED <<work, hands, history>>

StopCall ==
    /\ StopSet \/ RootReturn \/ JoinAll
    /\ UNCHANGED <<work, hands, history>>

IONext ==
    \/ UserCall \/ IOStopBegin \/ StopCall
    \/ \E g \in Fibers : AddTimer(g)
    \/ \E w \in Threads : ThreadStep(w)
    \/ Terminated /\ UNCHANGED ioVars

\* Threads run and stop() goes on, as in Scheduler; a thread that keeps polling
\* gets every event that is waited for, and finds every timer due, at some point.
IOFairness ==
    /\ WF_ioVars(StopCall)
    /\ \A w \in Threads : WF_ioVars(ThreadStep(w))
    /\ \A f \in Fibers :
         /\ SF_ioVars(\E w \in Threads : Poll(w, events) /\ f \in events)
         /\ SF_ioVars(\E w \in Threads : Expire(w, timers) /\ f \in timers)

IOSpec == IOInit /\ [][IONext]_ioVars /\ IOFairness
-----------------------------------------------------------------------------
(* Properties.                                                             *)

\* After stop() was called, a queued task that any thread may take and a callback in
\* hand have a thread that is in run() or still enters it, and so has a timer or a
\* pending event: the three reads of stopping() (iomanager.cc:315) are taken at
\* different times, but they cannot mislead every thread.  The exception is a timer or
\* an event made by a task that ran on a thread whose idle fiber had already ended:
\* that thread leaves without asking again.
WorkIsWatched ==
    LET watched == \/ mainPc \in {"stopSet", "rootCheck"}
                   \/ \E w \in Threads : pc[w] \notin {"off", "done"}
    IN  m_autoStop /\ ~ watched =>
            /\ \A i \in DOMAIN m_fibers : m_fibers[i].thread # AnyThread
            /\ \A w \in Threads : cbs[w] = {}
            /\ late \/ (timers = {} /\ events = {})

\* A fiber that waits or switches threads is resumed in good order (one stack, found
\* EXEC when it yields, no failed assertion) unless it was taken from a thread that had
\* not let go of it: the window from armed event to setHold is the only way in.
RaceExplains == ~ raced => ~ Aborted /\ OnOneThread /\ YieldFindsExec

\* stop() returns once the timers have fired and the events have come, unless a
\* failed assertion ended the process, a fiber was resumed by a second thread
\* before the first had let go of it, or one is pinned to a thread that has left.
IOStopReturns == m_autoStop ~> mainPc = "stopped" \/ Aborted \/ raced \/ Stranded
=============================================================================
