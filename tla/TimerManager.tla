---------------------------- MODULE TimerManager ----------------------------
(***************************************************************************)
(* Timer and TimerManager (timer.h, timer.cc), with the part of            *)
(* IOManager::idle() that sleeps until the next timer and collects the     *)
(* expired ones (iomanager.cc:329-375).                                    *)
(*                                                                         *)
(* m_timers is a std::set ordered by m_next: an entry is found only under  *)
(* the m_next it was inserted with, so the set holds pairs <<key, timer>>. *)
(* Every operation under the write lock is one step; the clock is read and *)
(* the tickle is sent outside the lock, as in the code.  The clock is in   *)
(* units of the model; the time between computing a timeout and entering   *)
(* epoll_wait() counts as part of the wait.  A signal in epoll_wait() starts *)
(* the same wait anew (EINTR, iomanager.cc:346-366).                       *)
(***************************************************************************)
EXTENDS Integers, FiniteSets

CONSTANTS
    Timers,       \* the Timer objects of a run
    Recurring,    \* those created with recurring = true
    Threads,      \* scheduler threads
    Periods,      \* the ms arguments that callers use
    StartTime,    \* wall clock at construction
    EndTime,      \* bound: no timer is set to a later time
    LastTime,     \* bound: the wall clock stops here
    MAX_TIMEOUT,  \* iomanager.cc:348
    Hour,         \* the 60 * 60 * 1000 of detectClockRollover()
    IntRange,     \* the number of values of an int, 2^32
    MaxChanges,   \* bound on the calls of refresh() and reset()
    MaxSignals,   \* bound on the signals that interrupt epoll_wait()
    SetBacks,     \* by how much the wall clock may be set back, once
    Never         \* the timeout ~0ull, beyond every due time

ASSUME TimerConstants ==
    /\ Recurring \subseteq Timers
    /\ Periods \subseteq Nat \ {0}
    /\ StartTime \in Nat /\ EndTime \in Nat /\ LastTime \in Nat /\ MAX_TIMEOUT \in Nat \ {0}
    /\ Hour \in Nat /\ Hour <= StartTime
    /\ IntRange \in Nat /\ IntRange % 2 = 0 /\ MAX_TIMEOUT < IntRange \div 2
    /\ SetBacks \subseteq Nat \ {0} /\ MaxChanges \in Nat /\ MaxSignals \in Nat
    /\ Never \in Nat /\ Never > LastTime + MAX_TIMEOUT
    /\ \A ms \in Periods : Never > EndTime + ms

VARIABLES
    now,              \* GetCurrentMS()
    m_timers,         \* set of <<key, timer>>
    m_next,
    m_ms,
    m_cb,             \* TRUE while the callback of the timer is not null
    m_tickled,
    m_previouseTime,
    phase,            \* "none", "built" (before addTimer takes the lock), "added"
    toTickle,         \* timers whose addTimer() still has to tickle
    pipe,             \* an edge is pending on the tickle pipe
    tpc,              \* where each thread is: see ThreadPc
    timeout,          \* next_timeout as epoll_wait() gets it, negative for no end; 0 outside it
    wakeAt,           \* when epoll_wait() of the thread times out, 0 outside it
    since,            \* history: when the thread called getNextTimer(), 0 outside epoll_wait()
    nowRead,          \* now_ms of listExpiredCb(), 0 outside it
    handed,           \* history: how often listExpiredCb() has handed out each callback
    cancelled,        \* history: how often cancel() has returned true for each timer
    changes,          \* history: calls of refresh() and reset() that took effect
    signals,          \* history: signals that have interrupted epoll_wait()
    clockMoved        \* history: the wall clock has been set back

ended      == <<handed, cancelled>>
timerVars  == <<m_timers, m_next, m_ms, m_cb, phase, ended>>
waitVars   == <<timeout, wakeAt, since>>
threadVars == <<tpc, waitVars, signals, nowRead>>
clockVars  == <<now, clockMoved>>
vars == <<clockVars, timerVars, changes, m_tickled, m_previouseTime, toTickle, pipe, threadVars>>

\* busy: in run() outside the idle fiber; idle: at the head of the loop;
\* sleep: in epoll_wait(); expire: after it, now_ms has been read.
ThreadPc == {"busy", "idle", "sleep", "expire"}

Init ==
    /\ now = StartTime
    /\ m_timers = {}
    /\ m_next = [t \in Timers |-> 0]
    /\ m_ms = [t \in Timers |-> 0]
    /\ m_cb = [t \in Timers |-> FALSE]
    /\ m_tickled = FALSE
    /\ m_previouseTime = StartTime
    /\ phase = [t \in Timers |-> "none"]
    /\ toTickle = {}
    /\ pipe = FALSE
    /\ tpc = [h \in Threads |-> "busy"]
    /\ timeout = [h \in Threads |-> 0]
    /\ wakeAt = [h \in Threads |-> 0]
    /\ since = [h \in Threads |-> 0]
    /\ nowRead = [h \in Threads |-> 0]
    /\ handed = [t \in Timers |-> 0]
    /\ cancelled = [t \in Timers |-> 0]
    /\ changes = 0
    /\ signals = 0
    /\ clockMoved = FALSE

\* m_timers.begin()->m_next
Front(timers) == CHOOSE k \in {e[1] : e \in timers} : \A e \in timers : k <= e[1]
-----------------------------------------------------------------------------
(* Timer and addTimer().                                                   *)

\* Timer::Timer(): the due time is fixed before addTimer() locks.
Build(t, ms) ==
    /\ phase[t] = "none"
    /\ now + ms <= EndTime
    /\ phase' = [phase EXCEPT ![t] = "built"]
    /\ m_ms' = [m_ms EXCEPT ![t] = ms]
    /\ m_next' = [m_next EXCEPT ![t] = now + ms]
    /\ m_cb' = [m_cb EXCEPT ![t] = TRUE]
    /\ UNCHANGED <<clockVars, m_timers, ended, changes, m_tickled, m_previouseTime, toTickle, pipe,
                   threadVars>>

\* addTimer(val, lock), lines 121-127: insert, and claim the tickle if the new
\* entry is the first one (equal keys: by address) and nobody else has claimed it.
Insert(t, next, rest) ==
    /\ m_timers' = rest \cup {<<next, t>>}
    /\ \E first \in BOOLEAN :
         /\ first => \A e \in rest : next <= e[1]
         /\ ~ first => \E e \in rest : e[1] <= next
         /\ IF first /\ ~ m_tickled
              THEN m_tickled' = TRUE /\ toTickle' = toTickle \cup {t}
              ELSE UNCHANGED <<m_tickled, toTickle>>

AddTimer(t) ==
    /\ phase[t] = "built"
    /\ phase' = [phase EXCEPT ![t] = "added"]
    /\ Insert(t, m_next[t], m_timers)
    /\ UNCHANGED <<clockVars, m_next, m_ms, m_cb, ended, changes, m_previouseTime, pipe, threadVars>>

\* onTimerInsertedAtFront() -> IOManager::tickle(): a byte is written only if
\* some thread is in its idle fiber.
Tickle(t) ==
    /\ t \in toTickle
    /\ toTickle' = toTickle \ {t}
    /\ pipe' = (pipe \/ \E h \in Threads : tpc[h] # "busy")
    /\ UNCHANGED <<clockVars, timerVars, changes, m_tickled, m_previouseTime, threadVars>>

\* Timer::cancel() that finds the callback.
Cancel(t) ==
    /\ phase[t] = "added"
    /\ m_cb[t]
    /\ m_cb' = [m_cb EXCEPT ![t] = FALSE]
    /\ m_timers' = m_timers \ {<<m_next[t], t>>}
    /\ cancelled' = [cancelled EXCEPT ![t] = @ + 1]
    /\ UNCHANGED <<clockVars, handed, m_next, m_ms, phase, changes, m_tickled, m_previouseTime, toTickle, pipe,
                   threadVars>>

\* Faulty variant: the due time of an entry is changed inside the set.
RefreshInPlace(t) ==
    /\ changes < MaxChanges
    /\ changes' = changes + 1
    /\ phase[t] = "added"
    /\ m_cb[t]
    /\ <<m_next[t], t>> \in m_timers
    /\ now + m_ms[t] <= EndTime
    /\ m_next' = [m_next EXCEPT ![t] = now + m_ms[t]]
    /\ UNCHANGED <<clockVars, m_timers, m_ms, m_cb, phase, ended, m_tickled, m_previouseTime,
                   toTickle, pipe, threadVars>>

\* Faulty variant: the entry is taken out and not put back.
RefreshErases(t) ==
    /\ changes < MaxChanges
    /\ changes' = changes + 1
    /\ phase[t] = "added"
    /\ m_cb[t]
    /\ m_next' = [m_next EXCEPT ![t] = now + m_ms[t]]
    /\ m_timers' = m_timers \ {<<m_next[t], t>>}
    /\ UNCHANGED <<clockVars, m_ms, m_cb, phase, ended, m_tickled, m_previouseTime, toTickle,
                   pipe, threadVars>>

\* Timer::refresh(): take the entry out, move the due time, put it back.
Refresh(t) ==
    /\ changes < MaxChanges
    /\ changes' = changes + 1
    /\ phase[t] = "added"
    /\ m_cb[t]
    /\ <<m_next[t], t>> \in m_timers
    /\ now + m_ms[t] <= EndTime
    /\ m_next' = [m_next EXCEPT ![t] = now + m_ms[t]]
    /\ m_timers' = (m_timers \ {<<m_next[t], t>>}) \cup {<<m_next'[t], t>>}
    /\ UNCHANGED <<clockVars, m_ms, m_cb, phase, ended, m_tickled, m_previouseTime, toTickle,
                   pipe, threadVars>>

\* Timer::reset(ms, from_now).
Reset(t, ms, fromNow) ==
    /\ changes < MaxChanges
    /\ changes' = changes + 1
    /\ phase[t] = "added"
    /\ ms # m_ms[t] \/ fromNow
    /\ m_cb[t]
    /\ <<m_next[t], t>> \in m_timers
    /\ LET start == IF fromNow THEN now ELSE m_next[t] - m_ms[t]
       IN  /\ start + ms <= EndTime
           /\ m_next' = [m_next EXCEPT ![t] = start + ms]
    /\ m_ms' = [m_ms EXCEPT ![t] = ms]
    /\ Insert(t, m_next'[t], m_timers \ {<<m_next[t], t>>})
    /\ UNCHANGED <<clockVars, m_cb, phase, ended, m_previouseTime, pipe, threadVars>>
-----------------------------------------------------------------------------
(* The idle fiber of thread h.                                             *)

\* run() finds no task and swaps in the idle fiber.
GoIdle(h) ==
    /\ tpc[h] = "busy"
    /\ tpc' = [tpc EXCEPT ![h] = "idle"]
    /\ UNCHANGED <<clockVars, timerVars, changes, m_tickled, m_previouseTime, toTickle, pipe, waitVars,
                   signals, nowRead>>

\* getNextTimer()
NextTimeout ==
    IF m_timers = {} THEN Never
    ELSE IF now >= Front(m_timers) THEN 0
    ELSE Front(m_timers) - now

\* The conversion (int) of a uint64_t.
AsInt(n) == LET low == n % IntRange IN IF low >= IntRange \div 2 THEN low - IntRange ELSE low

\* Lines 348-356: what epoll_wait() gets.  A timeout above MAX_TIMEOUT is cut, but it
\* is compared as an int: a negative one stays as it is.
CutTimeout(next_timeout) ==
    IF next_timeout = Never \/ AsInt(next_timeout) > MAX_TIMEOUT THEN MAX_TIMEOUT
    ELSE AsInt(next_timeout)

\* When an epoll_wait() that begins now times out; a negative timeout is none.
WakeTime(ms) == IF ms >= 0 THEN now + ms ELSE Never

\* epoll_wait() begins with what getNextTimer() said.
BeginWait(h) ==
    /\ tpc[h] = "idle"
    /\ tpc' = [tpc EXCEPT ![h] = "sleep"]
    /\ timeout' = [timeout EXCEPT ![h] = CutTimeout(NextTimeout)]
    /\ wakeAt' = [wakeAt EXCEPT ![h] = WakeTime(CutTimeout(NextTimeout))]
    /\ since' = [since EXCEPT ![h] = now]
    /\ UNCHANGED <<clockVars, timerVars, changes, m_previouseTime, toTickle, pipe, signals, nowRead>>

\* Faulty variant: getNextTimer() leaves m_tickled as it is.
SleepTickled(h) == BeginWait(h) /\ UNCHANGED m_tickled

Sleep(h) == BeginWait(h) /\ m_tickled' = FALSE

\* EINTR: the loop enters epoll_wait() again, with next_timeout as it was.  A wait whose
\* time is over is not interrupted, it returns 0.
Interrupt(h) ==
    /\ tpc[h] = "sleep"
    /\ now < wakeAt[h]
    /\ signals < MaxSignals
    /\ signals' = signals + 1
    /\ wakeAt' = [wakeAt EXCEPT ![h] = WakeTime(timeout[h])]
    /\ UNCHANGED <<clockVars, timerVars, changes, m_tickled, m_previouseTime, toTickle, pipe, tpc,
                   timeout, since, nowRead>>

\* listExpiredCb(), lines 170-178, as epoll_wait() returns: read the clock, and
\* look at the set without writing.
ReadClock(h) ==
    /\ IF m_timers = {}
         THEN tpc' = [tpc EXCEPT ![h] = "busy"] /\ UNCHANGED nowRead
         ELSE tpc' = [tpc EXCEPT ![h] = "expire"] /\ nowRead' = [nowRead EXCEPT ![h] = now]
    /\ timeout' = [timeout EXCEPT ![h] = 0]
    /\ wakeAt' = [wakeAt EXCEPT ![h] = 0]
    /\ since' = [since EXCEPT ![h] = 0]

\* epoll_wait() returns on a timeout, for a tickle (edge-triggered: one thread
\* gets it) or for an event on some descriptor.
WakeUp(h) ==
    /\ tpc[h] = "sleep"
    /\ \/ now >= wakeAt[h] /\ UNCHANGED pipe
       \/ pipe /\ pipe' = FALSE
    /\ ReadClock(h)
    /\ UNCHANGED <<clockVars, timerVars, changes, m_tickled, m_previouseTime, toTickle, signals>>

IoEvent(h) ==
    /\ tpc[h] = "sleep"
    /\ ReadClock(h)
    /\ UNCHANGED <<clockVars, timerVars, changes, m_tickled, m_previouseTime, toTickle, pipe, signals>>

\* Faulty variant: any earlier time counts as a rollover.
RolloverAtOnce(nowMs) == nowMs < m_previouseTime

\* detectClockRollover(); StartTime >= Hour keeps the subtraction from wrapping.
Rollover(nowMs) == nowMs < m_previouseTime - Hour

\* The timers that listExpiredCb() takes out: all of them after a rollover,
\* else those due.
Expired(nowMs) ==
    IF Rollover(nowMs) THEN m_timers ELSE {e \in m_timers : e[1] <= nowMs}

\* Faulty variant: what is handed out stays in m_timers.
ListExpiredKeepsEntry(h) ==
    /\ tpc[h] = "expire"
    /\ tpc' = [tpc EXCEPT ![h] = "busy"]
    /\ nowRead' = [nowRead EXCEPT ![h] = 0]
    /\ LET fired == {e[2] : e \in Expired(nowRead[h])}
       IN  /\ m_cb' = [t \in Timers |-> m_cb[t] /\ t \notin fired]
           /\ handed' = [t \in Timers |-> IF t \in fired THEN handed[t] + 1 ELSE handed[t]]
    /\ UNCHANGED <<clockVars, m_timers, m_next, m_ms, phase, cancelled, changes, m_tickled,
                   m_previouseTime, toTickle, pipe, waitVars, signals>>

\* listExpiredCb() under the write lock, and the scheduling of the callbacks.
ListExpired(h) ==
    /\ tpc[h] = "expire"
    /\ tpc' = [tpc EXCEPT ![h] = "busy"]
    /\ nowRead' = [nowRead EXCEPT ![h] = 0]
    /\ IF m_timers = {}
         THEN UNCHANGED <<m_timers, m_next, m_cb, handed, m_previouseTime>>
         ELSE LET gone  == Expired(nowRead[h])
                  fired == {e[2] : e \in gone}
                  again == fired \cap Recurring
              IN  /\ m_previouseTime' = nowRead[h]
                  /\ m_next' = [t \in Timers |->
                        IF t \in again THEN nowRead[h] + m_ms[t] ELSE m_next[t]]
                  /\ m_timers' = (m_timers \ gone) \cup {<<m_next'[t], t>> : t \in again}
                  /\ m_cb' = [t \in Timers |-> m_cb[t] /\ t \notin fired \ again]
                  /\ handed' = [t \in Timers |->
                        IF t \in fired THEN handed[t] + 1 ELSE handed[t]]
    /\ UNCHANGED <<clockVars, m_ms, phase, cancelled, changes, m_tickled, toTickle, pipe, waitVars,
                   signals>>
-----------------------------------------------------------------------------
(* The wall clock.  epoll_wait() counts real time: setting the clock back   *)
(* moves the points on the wall clock at which a sleeping thread began and *)
(* at which it wakes.                                                      *)

ClockTick ==
    /\ now < LastTime
    /\ now' = now + 1
    /\ UNCHANGED <<clockMoved, timerVars, changes, m_tickled, m_previouseTime, toTickle, pipe, threadVars>>

\* Bounded: once.
ClockSetBack(d) ==
    /\ ~ clockMoved
    /\ now - d >= 0
    /\ now' = now - d
    /\ clockMoved' = TRUE
    /\ wakeAt' = [h \in Threads |->
          IF tpc[h] = "sleep" /\ wakeAt[h] # Never THEN wakeAt[h] - d ELSE wakeAt[h]]
    /\ since' = [h \in Threads |-> IF tpc[h] = "sleep" THEN since[h] - d ELSE since[h]]
    /\ UNCHANGED <<timerVars, changes, m_tickled, m_previouseTime, toTickle, pipe, tpc, timeout,
                   signals, nowRead>>
-----------------------------------------------------------------------------
TimerStep(t) ==
    \/ \E ms \in Periods : Build(t, ms)
    \/ AddTimer(t)
    \/ Tickle(t)
    \/ Cancel(t)
    \/ Refresh(t)
    \/ \E ms \in Periods, fromNow \in BOOLEAN : Reset(t, ms, fromNow)

ThreadStep(h) ==
    \/ GoIdle(h) \/ Sleep(h) \/ Interrupt(h) \/ WakeUp(h) \/ IoEvent(h) \/ ListExpired(h)

Next ==
    \/ \E t \in Timers : TimerStep(t)
    \/ \E h \in Threads : ThreadStep(h)
    \/ ClockTick
    \/ \E d \in SetBacks : ClockSetBack(d)

Spec == Init /\ [][Next]_vars

\* Time passes, threads run, and addTimer() returns; events and signals need not happen.
Fairness ==
    /\ WF_vars(ClockTick)
    /\ \A t \in Timers : WF_vars(AddTimer(t) \/ Tickle(t))
    /\ \A h \in Threads :
         WF_vars(GoIdle(h) \/ Sleep(h) \/ WakeUp(h) \/ ListExpired(h))

FairSpec == Spec /\ Fairness
-----------------------------------------------------------------------------
(* Properties.                                                             *)

\* The type invariant.
TypeOK ==
    /\ now \in Nat
    /\ \A e \in m_timers : e[1] \in Nat /\ e[2] \in Timers
    /\ m_next \in [Timers -> Nat] /\ m_ms \in [Timers -> Nat]
    /\ m_cb \in [Timers -> BOOLEAN] /\ changes \in 0 .. MaxChanges
    /\ m_tickled \in BOOLEAN /\ pipe \in BOOLEAN /\ clockMoved \in BOOLEAN
    /\ m_previouseTime \in Nat
    /\ phase \in [Timers -> {"none", "built", "added"}]
    /\ toTickle \subseteq Timers
    /\ tpc \in [Threads -> ThreadPc]
    /\ timeout \in [Threads -> Int] /\ wakeAt \in [Threads -> Int] /\ since \in [Threads -> Int]
    /\ signals \in 0 .. MaxSignals /\ nowRead \in [Threads -> Nat]
    /\ handed \in [Timers -> Nat] /\ cancelled \in [Timers -> Nat]

\* A timer holds a callback exactly while m_timers holds it, once and under its
\* present m_next: cancel() erases what find() returned without a test
\* (timer.cc:20-21), so the entry has to be there and has to be found.
IndexExact ==
    \A t \in Timers :
        {e \in m_timers : e[2] = t} =
            IF phase[t] = "added" /\ m_cb[t] THEN {<<m_next[t], t>>} ELSE {}

\* cancel() has returned true, or the callback of a timer that fires once is handed out.
Settled(t) == cancelled[t] > 0 \/ (t \notin Recurring /\ handed[t] > 0)

\* A timer ends once: after a cancel() that returned true no thread hands out the callback,
\* and the callback of a timer that does not recur is handed out by one thread, once, and
\* cannot be cancelled afterwards (timer.cc:17-24 against 185-212).
OneOutcome ==
    [][\A t \in Timers : Settled(t) => handed'[t] = handed[t] /\ cancelled'[t] = cancelled[t]]_vars

\* When every thread is in epoll_wait() and no wake-up is on its way, one of them has
\* been told to wake by the time the first timer is due, or wakes now: m_tickled
\* suppresses only the tickles that are not needed (timer.cc:122-130, 151).  What it was
\* told counts from getNextTimer(): a signal makes it sleep that long again, so it is late
\* by the time it had slept before the last signal (iomanager.cc:360-362).  Two exceptions:
\* a first timer that was half the range of an int away at getNextTimer(), for which the
\* wait has no end (iomanager.cc:351), and a wall clock that has been set back, after
\* which refresh() moves a timer forward and tells nobody.
Timely ==
    (/\ m_timers # {} /\ ~ clockMoved
     /\ \A h \in Threads : tpc[h] = "sleep"
     /\ ~ pipe
     /\ toTickle = {})
    => \E h \in Threads :
          \/ wakeAt[h] <= now
          \/ timeout[h] >= 0 /\ since[h] + timeout[h] <= Front(m_timers)
          \/ timeout[h] < 0 /\ since[h] + IntRange \div 2 <= Front(m_timers)

\* No thread has been kept for an hour between its reading of the clock and the lock
\* (timer.cc:170, 180): such a reading would look like a rollover.
ReadingsFresh == \A h \in Threads : tpc[h] = "expire" => now <= nowRead[h] + Hour

\* While the wall clock has not been set back, listExpiredCb() lets no timer fire
\* before it is due: detectClockRollover() reports nothing although the threads
\* present the times they have read in any order, unless one was kept for an hour.
NotEarly ==
    [][\A t \in Timers :
          handed'[t] # handed[t] /\ ~ clockMoved /\ ReadingsFresh => m_next[t] <= now]_vars

\* A timer that does not recur fires or is cancelled, whatever is added, reset and
\* refreshed beside it, whatever signals arrive and wherever the clock is set back to,
\* as long as timeouts fit an int.
EveryTimerSettles ==
    \A t \in Timers \ Recurring : phase[t] = "added" ~> Settled(t)
=============================================================================
