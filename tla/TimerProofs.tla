---------------------------- MODULE TimerProofs ----------------------------
(***************************************************************************)
(* Proofs about TimerManager for every set of timers and threads, every    *)
(* period and every movement of the clock: the set of timers is exact, so  *)
(* the unchecked erase(find()) of Timer::cancel() is safe; every timer has *)
(* one end; no wake-up for a timer is lost, and none fires early.          *)
(***************************************************************************)
EXTENDS TimerManager, WellFoundedInduction, TLAPS

\* IndexExact as a fact about one entry or one timer at a time, of any set of
\* entries S and any due times, phases and callbacks.
Exact(S, next, ph, cb) ==
    \A t \in Timers :
        /\ \A e \in S : e[2] = t => e = <<next[t], t>> /\ ph[t] = "added" /\ cb[t]
        /\ ph[t] = "added" /\ cb[t] => <<next[t], t>> \in S

\* The two forms agree.
LEMMA ExactForms ==
    ASSUME NEW S, NEW next, NEW ph, NEW cb
    PROVE  Exact(S, next, ph, cb)
             <=> \A t \in Timers : {e \in S : e[2] = t} =
                     IF ph[t] = "added" /\ cb[t] THEN {<<next[t], t>>} ELSE {}
<1> DEFINE Of(t) == {e \in S : e[2] = t}
<1> DEFINE Wanted(t) == IF ph[t] = "added" /\ cb[t] THEN {<<next[t], t>>} ELSE {}
<1>1. ASSUME Exact(S, next, ph, cb), NEW t \in Timers
      PROVE  Of(t) = Wanted(t)
  <2>1. \A e \in S : e[2] = t => e = <<next[t], t>> /\ ph[t] = "added" /\ cb[t]
    BY <1>1 DEF Exact
  <2>2. ph[t] = "added" /\ cb[t] => <<next[t], t>> \in S /\ <<next[t], t>>[2] = t
    BY <1>1 DEF Exact
  <2> QED BY <2>1, <2>2
<1>2. ASSUME \A t \in Timers : Of(t) = Wanted(t)
      PROVE  Exact(S, next, ph, cb)
  <2> SUFFICES ASSUME NEW t \in Timers
               PROVE  /\ \A e \in S : e[2] = t => /\ e = <<next[t], t>>
                                                  /\ ph[t] = "added" /\ cb[t]
                      /\ ph[t] = "added" /\ cb[t] => <<next[t], t>> \in S
    BY DEF Exact
  <2>1. Of(t) = Wanted(t)
    BY <1>2
  <2>2. ASSUME NEW e \in S, e[2] = t
        PROVE  e = <<next[t], t>> /\ ph[t] = "added" /\ cb[t]
    <3>1. e \in Of(t)
      BY <2>2
    <3> QED BY <3>1, <2>1
  <2>3. ASSUME ph[t] = "added", cb[t]
        PROVE  <<next[t], t>> \in S
    <3>1. <<next[t], t>> \in Of(t)
      BY <2>3, <2>1
    <3> QED BY <3>1
  <2> QED BY <2>2, <2>3
<1> QED BY <1>1, <1>2

\* The inductive invariant: IndexExact, the domains of the functions that steps
\* update, and that a timer that is settled has lost its callback.
TimerInv ==
    /\ DOMAIN m_next = Timers /\ DOMAIN m_cb = Timers
    /\ DOMAIN phase = Timers
    /\ handed \in [Timers -> Nat] /\ cancelled \in [Timers -> Nat]
    /\ \A t \in Timers : phase[t] = "built" => m_cb[t]
    /\ \A t \in Timers : phase[t] # "added" => handed[t] = 0 /\ cancelled[t] = 0
    /\ \A t \in Timers : Settled(t) => ~ m_cb[t]
    /\ \A e \in m_timers : e[2] \in Timers
    /\ Exact(m_timers, m_next, phase, m_cb)

LEMMA InitTimerInv == Init => TimerInv
BY DEF Init, TimerInv, Exact, Settled

\* The operations of one timer.
LEMMA BuildStep ==
    ASSUME TimerInv, NEW t \in Timers, NEW ms \in Periods, Build(t, ms)
    PROVE  TimerInv'
<1>1. \A e \in m_timers : e[2] # t
  BY DEF TimerInv, Exact, Build
<1>2. Exact(m_timers, m_next, phase, m_cb)'
  BY <1>1 DEF TimerInv, Exact, Build
<1> QED BY <1>2 DEF TimerInv, Build, Settled, ended

LEMMA AddTimerStep ==
    ASSUME TimerInv, NEW t \in Timers, AddTimer(t)
    PROVE  TimerInv'
<1>1. /\ m_timers' = m_timers \cup {<<m_next[t], t>>}
      /\ phase' = [phase EXCEPT ![t] = "added"]
      /\ m_next' = m_next /\ m_cb' = m_cb /\ handed' = handed /\ cancelled' = cancelled
      /\ phase[t] = "built"
  BY DEF AddTimer, Insert, ended
<1>2. phase'[t] = "added" /\ \A u \in Timers \ {t} : phase'[u] = phase[u]
  BY <1>1 DEF TimerInv
<1>3. m_cb[t]
  BY <1>1 DEF TimerInv
<1>4. Exact(m_timers, m_next, phase, m_cb)'
  BY <1>1, <1>2, <1>3 DEF TimerInv, Exact
<1> QED BY <1>1, <1>2, <1>4 DEF TimerInv, Settled

LEMMA CancelStep ==
    ASSUME TimerInv, NEW t \in Timers, Cancel(t)
    PROVE  TimerInv'
<1>1. Exact(m_timers, m_next, phase, m_cb)'
  BY DEF TimerInv, Exact, Cancel
<1>2. cancelled' = [cancelled EXCEPT ![t] = cancelled[t] + 1] /\ handed' = handed
  BY DEF Cancel
<1>3. cancelled' \in [Timers -> Nat] /\ \A u \in Timers \ {t} : cancelled'[u] = cancelled[u]
  BY <1>2 DEF TimerInv
<1>4. \A u \in Timers : Settled(u)' => ~ m_cb'[u]
  BY <1>2, <1>3 DEF TimerInv, Cancel, Settled
<1> QED BY <1>1, <1>2, <1>3, <1>4 DEF TimerInv, Cancel

\* refresh() and reset(): the only entry of t is replaced by one with its new time.
LEMMA Moved ==
    ASSUME TimerInv, NEW t \in Timers, NEW due,
           phase[t] = "added", m_cb[t],
           m_next' = [m_next EXCEPT ![t] = due],
           m_timers' = (m_timers \ {<<m_next[t], t>>}) \cup {<<due, t>>},
           UNCHANGED <<m_cb, phase, ended>>
    PROVE  TimerInv'
<1>1. m_next'[t] = due /\ \A u \in Timers \ {t} : m_next'[u] = m_next[u]
  BY DEF TimerInv
<1>2. ASSUME NEW e \in m_timers'
      PROVE  e[2] \in Timers /\ e = <<m_next'[e[2]], e[2]>> /\ phase[e[2]] = "added" /\ m_cb[e[2]]
  <2>1. CASE e \in m_timers /\ e # <<m_next[t], t>>
    <3>1. /\ e[2] \in Timers /\ e = <<m_next[e[2]], e[2]>>
          /\ phase[e[2]] = "added" /\ m_cb[e[2]]
      BY <2>1 DEF TimerInv, Exact
    <3>2. e[2] # t
      BY <2>1, <3>1
    <3> QED BY <3>1, <3>2, <1>1
  <2>2. CASE e = <<due, t>>
    BY <2>2, <1>1
  <2> QED BY <2>1, <2>2
<1>3. ASSUME NEW u \in Timers, phase[u] = "added", m_cb[u]
      PROVE  <<m_next'[u], u>> \in m_timers'
  <2>1. <<m_next[u], u>> \in m_timers
    BY <1>3 DEF TimerInv, Exact
  <2>2. u # t => <<m_next[u], u>> # <<m_next[t], t>>
    OBVIOUS
  <2> QED BY <2>1, <2>2, <1>1
<1>4. Exact(m_timers, m_next, phase, m_cb)' /\ \A e \in m_timers' : e[2] \in Timers
  BY <1>2, <1>3 DEF Exact
<1> QED BY <1>4 DEF TimerInv, Settled, ended

LEMMA RefreshStep ==
    ASSUME TimerInv, NEW t \in Timers, Refresh(t)
    PROVE  TimerInv'
<1>1. m_next'[t] = now + m_ms[t]
  BY DEF Refresh, TimerInv
<1>2. /\ m_next' = [m_next EXCEPT ![t] = now + m_ms[t]]
      /\ phase[t] = "added" /\ m_cb[t]
      /\ m_timers' = (m_timers \ {<<m_next[t], t>>}) \cup {<<now + m_ms[t], t>>}
      /\ UNCHANGED <<m_cb, phase, ended>>
  BY <1>1 DEF Refresh
<1> QED BY <1>2, Moved

LEMMA ResetStep ==
    ASSUME TimerInv, NEW t \in Timers, NEW ms \in Periods, NEW fromNow \in BOOLEAN,
           Reset(t, ms, fromNow)
    PROVE  TimerInv'
<1> DEFINE due == (IF fromNow THEN now ELSE m_next[t] - m_ms[t]) + ms
<1>1. /\ m_next' = [m_next EXCEPT ![t] = due]
      /\ phase[t] = "added" /\ m_cb[t]
      /\ m_timers' = (m_timers \ {<<m_next[t], t>>}) \cup {<<m_next'[t], t>>}
      /\ UNCHANGED <<m_cb, phase, ended>>
  BY DEF Reset, Insert
<1>2. m_next'[t] = due
  BY <1>1 DEF TimerInv
<1> HIDE DEF due
<1> QED BY <1>1, <1>2, Moved

\* listExpiredCb(): of the timers taken out, the recurring ones come back under
\* their new time and the others lose their callback.
LEMMA ListExpiredStep ==
    ASSUME TimerInv, NEW h \in Threads, ListExpired(h)
    PROVE  TimerInv'
<1>1. CASE m_timers = {}
  BY <1>1 DEF ListExpired, TimerInv, Exact, Settled
<1>2. CASE m_timers # {}
  <2> DEFINE gone  == Expired(nowRead[h])
             fired == {e[2] : e \in gone}
             again == fired \cap Recurring
  <2>1. /\ m_next' = [t \in Timers |->
                IF t \in again THEN nowRead[h] + m_ms[t] ELSE m_next[t]]
        /\ m_timers' = (m_timers \ gone) \cup {<<m_next'[t], t>> : t \in again}
        /\ m_cb' = [t \in Timers |-> m_cb[t] /\ t \notin fired \ again]
        /\ handed' = [t \in Timers |-> IF t \in fired THEN handed[t] + 1 ELSE handed[t]]
        /\ phase' = phase /\ cancelled' = cancelled
    BY <1>2 DEF ListExpired
  <2>2. gone \subseteq m_timers
    BY DEF Expired
  <2>3. /\ \A e \in gone : e[2] \in fired
        /\ \A t \in fired : t \in Timers /\ <<m_next[t], t>> \in gone
                            /\ phase[t] = "added" /\ m_cb[t]
    BY <2>2 DEF TimerInv, Exact
  <2>4. \A e \in m_timers : e[2] \in Timers /\ e = <<m_next[e[2]], e[2]>>
                            /\ phase[e[2]] = "added" /\ m_cb[e[2]]
    BY DEF TimerInv, Exact
  <2> HIDE DEF gone, fired
  <2>5. ASSUME NEW e \in m_timers'
        PROVE  /\ e[2] \in Timers /\ e = <<m_next'[e[2]], e[2]>>
               /\ phase'[e[2]] = "added" /\ m_cb'[e[2]]
    <3>1. CASE e \in m_timers \ gone
      <4>1. e[2] \notin fired
        BY <3>1, <2>3, <2>4
      <4> QED BY <3>1, <4>1, <2>1, <2>4
    <3>2. CASE e \in {<<m_next'[t], t>> : t \in again}
      <4>1. PICK t \in again : e = <<m_next'[t], t>>
        BY <3>2
      <4> QED BY <4>1, <2>1, <2>3
    <3> QED BY <3>1, <3>2, <2>1
  <2>6. ASSUME NEW t \in Timers, phase'[t] = "added", m_cb'[t]
        PROVE  <<m_next'[t], t>> \in m_timers'
    <3>1. CASE t \in again
      BY <3>1, <2>1
    <3>2. CASE t \notin again
      <4>1. t \notin fired /\ m_cb[t] /\ m_next'[t] = m_next[t] /\ phase[t] = "added"
        BY <3>2, <2>6, <2>1
      <4>2. <<m_next[t], t>> \in m_timers
        BY <4>1 DEF TimerInv, Exact
      <4>3. <<m_next[t], t>> \notin gone
        BY <4>1, <2>3
      <4> QED BY <4>1, <4>2, <4>3, <2>1
    <3> QED BY <3>1, <3>2
  <2>7. Exact(m_timers, m_next, phase, m_cb)' /\ \A e \in m_timers' : e[2] \in Timers
    BY <2>5, <2>6 DEF Exact
  <2>8. ASSUME NEW t \in Timers
        PROVE  /\ phase'[t] = "built" => m_cb'[t]
               /\ phase'[t] # "added" => handed'[t] = 0 /\ cancelled'[t] = 0
               /\ Settled(t)' => ~ m_cb'[t]
    BY <2>1, <2>3 DEF TimerInv, Settled
  <2>9. DOMAIN m_next' = Timers /\ DOMAIN m_cb' = Timers /\ DOMAIN phase' = Timers
    BY <2>1 DEF TimerInv
  <2>10. handed' \in [Timers -> Nat] /\ cancelled' \in [Timers -> Nat]
    BY <2>1 DEF TimerInv
  <2> QED BY <2>7, <2>8, <2>9, <2>10 DEF TimerInv
<1> QED BY <1>1, <1>2

\* Every other step leaves the timers alone.
LEMMA Untouched ==
    ASSUME TimerInv, UNCHANGED timerVars
    PROVE  TimerInv'
BY DEF TimerInv, Exact, Settled, timerVars, ended

LEMMA NextTimerInv == TimerInv /\ [Next]_vars => TimerInv'
<1> SUFFICES ASSUME TimerInv, [Next]_vars PROVE TimerInv'
  OBVIOUS
<1>1. ASSUME NEW t \in Timers, TimerStep(t) PROVE TimerInv'
  <2>1. ASSUME NEW ms \in Periods, Build(t, ms) PROVE TimerInv'
    BY <2>1, BuildStep
  <2>2. CASE AddTimer(t)
    BY <2>2, AddTimerStep
  <2>3. CASE Tickle(t)
    BY <2>3, Untouched DEF Tickle
  <2>4. CASE Cancel(t)
    BY <2>4, CancelStep
  <2>5. CASE Refresh(t)
    BY <2>5, RefreshStep
  <2>6. ASSUME NEW ms \in Periods, NEW fromNow \in BOOLEAN, Reset(t, ms, fromNow)
        PROVE  TimerInv'
    BY <2>6, ResetStep
  <2> QED BY <1>1, <2>1, <2>2, <2>3, <2>4, <2>5, <2>6 DEF TimerStep
<1>2. ASSUME NEW h \in Threads, ThreadStep(h) PROVE TimerInv'
  <2>1. CASE ListExpired(h)
    BY <2>1, ListExpiredStep
  <2>2. CASE GoIdle(h) \/ Sleep(h) \/ Interrupt(h) \/ WakeUp(h) \/ IoEvent(h)
    BY <2>2, Untouched DEF GoIdle, Sleep, BeginWait, Interrupt, WakeUp, IoEvent
  <2> QED BY <1>2, <2>1, <2>2 DEF ThreadStep
<1>3. CASE ClockTick
  BY <1>3, Untouched DEF ClockTick
<1>4. ASSUME NEW d \in SetBacks, ClockSetBack(d) PROVE TimerInv'
  BY <1>4, Untouched DEF ClockSetBack
<1>5. CASE UNCHANGED vars
  BY <1>5, Untouched DEF vars
<1> QED BY <1>1, <1>2, <1>3, <1>4, <1>5 DEF Next

LEMMA InvariantHolds == Spec => []TimerInv
<1>1. Init => TimerInv
  BY InitTimerInv
<1>2. TimerInv /\ [Next]_vars => TimerInv'
  BY NextTimerInv
<1> QED BY <1>1, <1>2, PTL DEF Spec

\* cancel(), refresh(), reset() and listExpiredCb() keep a timer in m_timers, once
\* and under its present due time, exactly as long as it has a callback
\* (timer.cc:14-76, 168-213): the erase() of cancel() never gets end().
THEOREM TimersIndexed == Spec => []IndexExact
<1>1. TimerInv => IndexExact
  BY ExactForms DEF TimerInv, IndexExact
<1> QED BY <1>1, InvariantHolds, PTL

\* After a cancel() that returned true the callback is not handed out, and the callback of
\* a timer that does not recur is handed out once and not cancelled afterwards, for
\* whatever interleaving of callers and idle threads (timer.cc:17-24, 185-212).
THEOREM OutcomeFinal == Spec => OneOutcome
<1> DEFINE Kept == \A t \in Timers : Settled(t) => handed'[t] = handed[t] /\ cancelled'[t] = cancelled[t]
<1>1. ASSUME TimerInv, [Next]_vars PROVE [Kept]_vars
  <2> SUFFICES ASSUME NEW t \in Timers, Settled(t), Next
               PROVE  handed'[t] = handed[t] /\ cancelled'[t] = cancelled[t]
    BY <1>1
  <2>1. ~ m_cb[t] /\ \A e \in m_timers : e[2] # t
    BY <1>1 DEF TimerInv, Exact
  <2>2. ASSUME NEW u \in Timers, TimerStep(u)
        PROVE  handed'[t] = handed[t] /\ cancelled'[t] = cancelled[t]
    <3>1. CASE Cancel(u)
      <4>1. u # t /\ cancelled' = [cancelled EXCEPT ![u] = cancelled[u] + 1] /\ handed' = handed
        BY <2>1, <3>1 DEF Cancel
      <4> QED BY <4>1
    <3>2. CASE ~ Cancel(u)
      <4>1. UNCHANGED ended
        BY <2>2, <3>2 DEF TimerStep, Build, AddTimer, Tickle, Refresh, Reset, timerVars
      <4> QED BY <4>1 DEF ended
    <3> QED BY <3>1, <3>2
  <2>3. ASSUME NEW h \in Threads, ThreadStep(h)
        PROVE  handed'[t] = handed[t] /\ cancelled'[t] = cancelled[t]
    <3>1. CASE ListExpired(h)
      <4>1. t \notin {e[2] : e \in Expired(nowRead[h])}
        BY <2>1 DEF Expired
      <4> QED BY <3>1, <4>1 DEF ListExpired
    <3>2. CASE ~ ListExpired(h)
      <4>1. UNCHANGED ended
        BY <2>3, <3>2 DEF ThreadStep, GoIdle, Sleep, BeginWait, Interrupt, WakeUp, IoEvent, timerVars
      <4> QED BY <4>1 DEF ended
    <3> QED BY <3>1, <3>2
  <2>4. CASE ClockTick \/ \E d \in SetBacks : ClockSetBack(d)
    BY <2>4 DEF ClockTick, ClockSetBack, timerVars, ended
  <2> QED BY <2>2, <2>3, <2>4 DEF Next
<1>2. TimerInv /\ [Next]_vars => [Kept]_vars
  BY <1>1
<1> QED BY <1>2, InvariantHolds, PTL DEF Spec, OneOutcome

-----------------------------------------------------------------------------
(* The sleep of the idle threads.                                          *)

TimeInv ==
    /\ now \in Nat
    /\ m_next \in [Timers -> Nat] /\ m_ms \in [Timers -> Periods \cup {0}]
    /\ \A t \in Timers : m_ms[t] <= m_next[t]
    /\ tpc \in [Threads -> ThreadPc]
    /\ timeout \in [Threads -> Int] /\ wakeAt \in [Threads -> Int] /\ since \in [Threads -> Int]
    /\ nowRead \in [Threads -> Nat]
    /\ ~ clockMoved =>
         /\ \A h \in Threads : nowRead[h] <= now
         /\ \A t \in Timers : m_next[t] <= now + m_ms[t]

\* Somebody will call getNextTimer() after this.
Awake == toTickle # {} \/ pipe \/ \E h \in Threads : tpc[h] # "sleep"

\* A thread that does not wait, was told to sleep no longer than until the first timer of S
\* is due, or sleeps without end as that was half the range of an int away.
Watches(h, S) ==
    \/ timeout[h] = 0 /\ wakeAt[h] <= now
    \/ timeout[h] >= 0 /\ \A e \in S : since[h] + timeout[h] <= e[1]
    \/ timeout[h] < 0 /\ \A e \in S : since[h] + IntRange \div 2 <= e[1]

\* A tickle that was claimed has not been forgotten, and without one a thread watches.
WatchInv ==
    /\ m_tickled => Awake
    /\ ~ clockMoved /\ m_timers # {} => Awake \/ \E h \in Threads : Watches(h, m_timers)

LEMMA PeriodTypes == Periods \cup {0} \in SUBSET Nat
BY TimerConstants

\* Timers that have keys, one of them the smallest.
LEMMA FrontIsLeast ==
    ASSUME TimerInv, TimeInv, m_timers # {}
    PROVE  /\ \A e \in m_timers : e[1] \in Nat /\ Front(m_timers) <= e[1]
           /\ \E t \in Timers : Front(m_timers) = m_next[t]
           /\ Front(m_timers) \in Nat
<1> DEFINE Keys == {e[1] : e \in m_timers}
           less == OpToRel(<, Nat)
<1>1. \A e \in m_timers : e[2] \in Timers /\ e[1] = m_next[e[2]]
  <2>1. \A e \in m_timers : e[2] \in Timers /\ e = <<m_next[e[2]], e[2]>>
    BY DEF TimerInv, Exact
  <2> QED BY <2>1
<1>2. Keys \in SUBSET Nat /\ Keys # {} /\ \A k \in Keys : \E t \in Timers : k = m_next[t]
  BY <1>1 DEF TimeInv
<1> HIDE DEF Keys
<1>3. \A x, y \in Nat : <<x, y>> \in less <=> x < y
  BY DEF OpToRel
<1>4. IsWellFoundedOn(less, Nat)
  BY NatLessThanWellFounded
<1> HIDE DEF less
<1>5. PICK k \in Keys : \A y \in Keys : <<y, k>> \notin less
  BY <1>2, <1>4, WFMin
<1>6. ASSUME NEW y \in Keys PROVE k <= y
  <2>1. k \in Nat /\ y \in Nat /\ <<y, k>> \notin less
    BY <1>2, <1>5
  <2>2. ~ (y < k)
    BY <1>3, <2>1
  <2> QED BY <2>1, <2>2
<1>7. \A e \in m_timers : e[1] \in Keys
  BY DEF Keys
<1>8. \A y \in Keys : \E e \in m_timers : y = e[1]
  BY DEF Keys
<1>9. k \in Keys /\ \A e \in m_timers : k <= e[1]
  BY <1>6, <1>7
<1>10. Front(m_timers) \in Keys /\ \A e \in m_timers : Front(m_timers) <= e[1]
  BY <1>9 DEF Front, Keys
<1> QED BY <1>2, <1>7, <1>10

\* The conversion to int: not above the number, and negative only from half the range on.
LEMMA AsIntBounds ==
    ASSUME NEW n \in Nat
    PROVE  /\ AsInt(n) \in Int /\ AsInt(n) <= n
           /\ AsInt(n) < 0 => IntRange \div 2 <= n
           /\ n = 0 => AsInt(n) = 0
<1>1. IntRange \in Nat /\ IntRange > 0 /\ IntRange \div 2 \in Int /\ IntRange \div 2 > 0
  BY TimerConstants
<1>2. PICK low \in Nat : low = n % IntRange /\ low <= n /\ low < IntRange /\ (n = 0 => low = 0)
  BY <1>1
<1>3. AsInt(n) = IF low >= IntRange \div 2 THEN low - IntRange ELSE low
  BY <1>2 DEF AsInt
<1> QED BY <1>1, <1>2, <1>3

\* epoll_wait() is told no more than getNextTimer() has said, or to wait without end for a
\* timer that is far away.
LEMMA SleepWatches ==
    ASSUME TimerInv, TimeInv, m_timers # {}
    PROVE  LET told == CutTimeout(NextTimeout)
           IN  \/ told = 0 /\ WakeTime(told) = now
               \/ told >= 0 /\ \A e \in m_timers : now + told <= e[1]
               \/ told < 0 /\ \A e \in m_timers : now + IntRange \div 2 <= e[1]
<1> DEFINE told == CutTimeout(NextTimeout)
<1>1. /\ now \in Nat /\ MAX_TIMEOUT \in Nat /\ Never \in Nat /\ Never > MAX_TIMEOUT
      /\ IntRange \div 2 \in Int
  BY TimerConstants DEF TimeInv
<1>2. /\ Front(m_timers) \in Nat /\ \A e \in m_timers : e[1] \in Nat /\ Front(m_timers) <= e[1]
  BY FrontIsLeast
<1>3. CASE now >= Front(m_timers)
  <2>1. NextTimeout = 0
    BY <1>3 DEF NextTimeout
  <2>2. AsInt(0) = 0 /\ Never # 0 /\ ~ (0 > MAX_TIMEOUT)
    BY <1>1, AsIntBounds, TimerConstants
  <2>3. told = 0
    BY <2>1, <2>2 DEF CutTimeout
  <2> QED BY <1>1, <2>3 DEF WakeTime
<1>4. CASE ~ (now >= Front(m_timers))
  <2>1. PICK n \in Nat : NextTimeout = n /\ now + n = Front(m_timers)
    <3>1. NextTimeout = Front(m_timers) - now
      BY <1>4 DEF NextTimeout
    <3> QED BY <1>1, <1>2, <1>4, <3>1
  <2>2. PICK i \in Int : i = AsInt(n) /\ i <= n /\ (i < 0 => IntRange \div 2 <= n)
    BY AsIntBounds
  <2>4. told = IF n = Never \/ i > MAX_TIMEOUT THEN MAX_TIMEOUT ELSE i
    BY <2>1, <2>2 DEF CutTimeout
  <2> HIDE DEF told
  <2>5. CASE told >= 0
    <3>1. told \in Nat /\ told <= n
      BY <1>1, <2>2, <2>4, <2>5
    <3>2. now + told <= Front(m_timers)
      BY <1>1, <2>1, <3>1
    <3> QED BY <1>1, <1>2, <3>1, <3>2 DEF told
  <2>6. CASE told < 0
    <3>1. now + IntRange \div 2 <= Front(m_timers)
      BY <1>1, <2>1, <2>2, <2>4, <2>6
    <3> QED BY <1>1, <1>2, <2>6, <3>1 DEF told
  <2>7. told \in Int
    BY <1>1, <2>2, <2>4
  <2> QED BY <2>5, <2>6, <2>7
<1> QED BY <1>1, <1>2, <1>3, <1>4

LEMMA NextTimeInv ==
    ASSUME TimerInv, TimeInv, [Next]_vars
    PROVE  TimeInv'
<1> USE PeriodTypes DEF TimeInv
<1>1. ASSUME NEW t \in Timers, NEW ms \in Periods, Build(t, ms) PROVE TimeInv'
  <2>1. /\ m_ms' = [m_ms EXCEPT ![t] = ms] /\ m_next' = [m_next EXCEPT ![t] = now + ms]
        /\ UNCHANGED <<clockVars, threadVars>>
    BY <1>1 DEF Build
  <2> QED BY <2>1 DEF clockVars, threadVars, waitVars
<1>2. ASSUME NEW t \in Timers, Refresh(t) PROVE TimeInv'
  <2>1. m_next' = [m_next EXCEPT ![t] = now + m_ms[t]] /\ UNCHANGED <<clockVars, threadVars, m_ms>>
    BY <1>2 DEF Refresh
  <2> QED BY <2>1 DEF clockVars, threadVars, waitVars
<1>3. ASSUME NEW t \in Timers, NEW ms \in Periods, NEW fromNow \in BOOLEAN, Reset(t, ms, fromNow)
      PROVE  TimeInv'
  <2> DEFINE start == IF fromNow THEN now ELSE m_next[t] - m_ms[t]
  <2>1. /\ m_next' = [m_next EXCEPT ![t] = start + ms] /\ m_ms' = [m_ms EXCEPT ![t] = ms]
        /\ UNCHANGED <<clockVars, threadVars>>
    BY <1>3 DEF Reset
  <2>2. start \in Nat /\ (~ clockMoved => start <= now)
    OBVIOUS
  <2> HIDE DEF start
  <2> QED BY <2>1, <2>2 DEF clockVars, threadVars, waitVars
<1>4. ASSUME NEW t \in Timers, AddTimer(t) \/ Tickle(t) \/ Cancel(t) PROVE TimeInv'
  BY <1>4 DEF AddTimer, Tickle, Cancel, clockVars, threadVars, waitVars, timerVars
<1>5. ASSUME NEW h \in Threads, GoIdle(h) PROVE TimeInv'
  BY <1>5 DEF GoIdle, ThreadPc, clockVars, timerVars, waitVars
<1>6. ASSUME NEW h \in Threads, Sleep(h) PROVE TimeInv'
  <2>1. CutTimeout(NextTimeout) \in Int /\ WakeTime(CutTimeout(NextTimeout)) \in Int
    <3>1. now \in Int /\ MAX_TIMEOUT \in Int /\ Never \in Int /\ IntRange \in Nat \ {0}
      BY TimerConstants
    <3>2. NextTimeout \in Int
      BY <3>1, FrontIsLeast DEF NextTimeout
    <3>3. AsInt(NextTimeout) \in Int
      BY <3>1, <3>2 DEF AsInt
    <3>4. CutTimeout(NextTimeout) \in Int
      BY <3>1, <3>3 DEF CutTimeout
    <3> QED BY <3>1, <3>4 DEF WakeTime
  <2> QED BY <1>6, <2>1 DEF Sleep, BeginWait, ThreadPc, clockVars, timerVars
<1>7. ASSUME NEW h \in Threads, WakeUp(h) \/ IoEvent(h) PROVE TimeInv'
  BY <1>7 DEF WakeUp, IoEvent, ReadClock, ThreadPc, clockVars, timerVars
<1>7a. ASSUME NEW h \in Threads, Interrupt(h) PROVE TimeInv'
  <2>1. WakeTime(timeout[h]) \in Int
    BY TimerConstants DEF WakeTime
  <2> QED BY <1>7a, <2>1 DEF Interrupt, clockVars, timerVars
<1>8. ASSUME NEW h \in Threads, ListExpired(h) PROVE TimeInv'
  <2>1. /\ tpc' = [tpc EXCEPT ![h] = "busy"] /\ nowRead' = [nowRead EXCEPT ![h] = 0]
        /\ UNCHANGED <<clockVars, m_ms, waitVars>>
    BY <1>8 DEF ListExpired
  <2>2. /\ m_next' \in [Timers -> Nat]
        /\ \A t \in Timers : m_next'[t] = m_next[t] \/ m_next'[t] = nowRead[h] + m_ms[t]
    <3>1. CASE m_timers = {}
      BY <1>8, <3>1 DEF ListExpired
    <3>2. CASE m_timers # {}
      <4>1. PICK again : m_next' = [t \in Timers |-> IF t \in again THEN nowRead[h] + m_ms[t] ELSE m_next[t]]
        BY <1>8, <3>2 DEF ListExpired
      <4> QED BY <4>1
    <3> QED BY <3>1, <3>2
  <2> QED BY <2>1, <2>2 DEF ThreadPc, clockVars, waitVars
<1>9. CASE ClockTick
  BY <1>9 DEF ClockTick, timerVars, threadVars, waitVars
<1>10. ASSUME NEW d \in SetBacks, ClockSetBack(d) PROVE TimeInv'
  BY <1>10, TimerConstants DEF ClockSetBack, timerVars
<1>11. CASE UNCHANGED vars
  BY <1>11 DEF vars, clockVars, timerVars, threadVars, waitVars
<1>12. ASSUME NEW t \in Timers, TimerStep(t) PROVE TimeInv'
  BY <1>1, <1>2, <1>3, <1>4, <1>12 DEF TimerStep
<1>13. ASSUME NEW h \in Threads, ThreadStep(h) PROVE TimeInv'
  BY <1>5, <1>6, <1>7, <1>7a, <1>8, <1>13 DEF ThreadStep
<1> QED BY <1>9, <1>10, <1>11, <1>12, <1>13 DEF Next

\* addTimer() and reset(): a timer that is due before the others claims the tickle,
\* unless one is under way; any other is covered by whoever watches those.
LEMMA InsertWatches ==
    ASSUME TimerInv, TimeInv, WatchInv, NEW t \in Timers, NEW due \in Nat, NEW rest \in SUBSET m_timers,
           Insert(t, due, rest), UNCHANGED <<clockVars, pipe, threadVars>>
    PROVE  WatchInv'
<1>1. \A e \in m_timers : e[1] \in Nat
  BY FrontIsLeast
<1>2. PICK first \in BOOLEAN :
         /\ ~ first => \E e \in rest : e[1] <= due
         /\ IF first /\ ~ m_tickled THEN m_tickled' = TRUE /\ toTickle' = toTickle \cup {t}
                                    ELSE UNCHANGED <<m_tickled, toTickle>>
  BY DEF Insert
<1>3. m_timers' = rest \cup {<<due, t>>}
  BY DEF Insert
<1>4. CASE first /\ ~ m_tickled
  BY <1>2, <1>4 DEF WatchInv, Awake
<1>5. CASE m_tickled
  <2>1. Awake'
    BY <1>2, <1>5 DEF WatchInv, Awake, threadVars
  <2> QED BY <2>1 DEF WatchInv
<1>6. CASE ~ first /\ ~ m_tickled
  <2>1. Awake' <=> Awake
    BY <1>2, <1>6 DEF Awake, threadVars
  <2>2. ASSUME ~ clockMoved, ~ Awake PROVE \E h \in Threads : Watches(h, m_timers)'
    <3>1. PICK e \in rest : e[1] <= due
      BY <1>2, <1>6
    <3>2. PICK h \in Threads : Watches(h, m_timers)
      BY <2>2, <3>1 DEF WatchInv
    <3>3. e[1] \in Nat /\ since[h] \in Int /\ timeout[h] \in Int /\ IntRange \div 2 \in Int
      BY <1>1, <3>1, TimerConstants DEF TimeInv
    <3>4. UNCHANGED <<now, timeout, wakeAt, since>>
      BY DEF clockVars, threadVars, waitVars
    <3>5. CASE timeout[h] = 0 /\ wakeAt[h] <= now
      BY <3>4, <3>5 DEF Watches
    <3>6. CASE timeout[h] >= 0 /\ \A d \in m_timers : since[h] + timeout[h] <= d[1]
      <4>1. since[h] + timeout[h] <= due
        BY <3>1, <3>3, <3>6
      <4>2. \A d \in m_timers' : since[h] + timeout[h] <= d[1]
        BY <1>3, <3>6, <4>1
      <4> QED BY <3>4, <3>6, <4>2 DEF Watches
    <3>7. CASE timeout[h] < 0 /\ \A d \in m_timers : since[h] + IntRange \div 2 <= d[1]
      <4>1. since[h] + IntRange \div 2 <= due
        BY <3>1, <3>3, <3>7
      <4>2. \A d \in m_timers' : since[h] + IntRange \div 2 <= d[1]
        BY <1>3, <3>7, <4>1
      <4> QED BY <3>4, <3>7, <4>2 DEF Watches
    <3> QED BY <3>2, <3>5, <3>6, <3>7 DEF Watches
  <2> QED BY <1>2, <1>6, <2>1, <2>2 DEF WatchInv, clockVars
<1> QED BY <1>2, <1>4, <1>5, <1>6

LEMMA NextWatchInv ==
    ASSUME TimerInv, TimeInv, WatchInv, Threads # {}, [Next]_vars
    PROVE  WatchInv'
\* A thread that does not sleep settles it.
<1>1. ASSUME NEW h \in Threads, tpc'[h] # "sleep" PROVE WatchInv'
  BY <1>1 DEF WatchInv, Awake
\* Timers only go, and time only passes.
<1>2. ASSUME m_timers' \subseteq m_timers, now \in Nat, now' \in Nat, now <= now',
             UNCHANGED <<clockMoved, m_tickled, toTickle, pipe, threadVars>>
      PROVE  WatchInv'
  <2>1. Awake' <=> Awake
    BY <1>2 DEF Awake, threadVars
  <2>2. ASSUME NEW h \in Threads, Watches(h, m_timers) PROVE Watches(h, m_timers)'
    <3>1. wakeAt[h] \in Int /\ UNCHANGED <<wakeAt, timeout, since>>
      BY <1>2 DEF TimeInv, threadVars, waitVars
    <3> QED BY <1>2, <2>2, <3>1 DEF Watches
  <2> QED BY <1>2, <2>1, <2>2 DEF WatchInv
<1>n. now \in Nat
  BY DEF TimeInv
<1>3. ASSUME NEW t \in Timers, NEW ms \in Periods, Build(t, ms) PROVE WatchInv'
  BY <1>2, <1>3, <1>n DEF Build, clockVars
<1>4. ASSUME NEW t \in Timers, AddTimer(t) PROVE WatchInv'
  <2>1. Insert(t, m_next[t], m_timers) /\ UNCHANGED <<clockVars, pipe, threadVars>> /\ m_next[t] \in Nat
    BY <1>4 DEF AddTimer, TimeInv
  <2> QED BY <2>1, InsertWatches
<1>5. ASSUME NEW t \in Timers, NEW ms \in Periods, NEW fromNow \in BOOLEAN, Reset(t, ms, fromNow)
      PROVE  WatchInv'
  <2>1. /\ Insert(t, m_next'[t], m_timers \ {<<m_next[t], t>>})
        /\ UNCHANGED <<clockVars, pipe, threadVars>>
    BY <1>5 DEF Reset
  <2>2. m_next'[t] \in Nat
    <3>1. TimeInv'
      BY <1>5, NextTimeInv DEF Next, TimerStep
    <3> QED BY <3>1 DEF TimeInv
  <2>3. PICK due \in Nat : due = m_next'[t]
    BY <2>2
  <2>4. m_timers \ {<<m_next[t], t>>} \in SUBSET m_timers /\ Insert(t, due, m_timers \ {<<m_next[t], t>>})
    BY <2>1, <2>3
  <2> QED BY <2>1, <2>4, InsertWatches
<1>6. ASSUME NEW t \in Timers, Refresh(t) PROVE WatchInv'
  <2>1. /\ <<m_next[t], t>> \in m_timers
        /\ m_next' = [m_next EXCEPT ![t] = now + m_ms[t]]
        /\ m_timers' = (m_timers \ {<<m_next[t], t>>}) \cup {<<m_next'[t], t>>}
        /\ UNCHANGED <<clockVars, m_tickled, toTickle, pipe, threadVars>>
    BY <1>6 DEF Refresh
  <2>2. m_next'[t] = now + m_ms[t] /\ m_next'[t] \in Nat /\ m_next[t] \in Nat
    BY <2>1, PeriodTypes DEF TimeInv
  <2>3. Awake' <=> Awake
    BY <2>1 DEF Awake, threadVars
  <2>4. ASSUME ~ clockMoved, NEW h \in Threads, Watches(h, m_timers) PROVE Watches(h, m_timers)'
    <3>1. since[h] \in Int /\ timeout[h] \in Int /\ IntRange \div 2 \in Int /\ m_next[t] <= m_next'[t]
      BY <2>1, <2>2, <2>4, TimerConstants DEF TimeInv
    <3>2. UNCHANGED <<now, timeout, wakeAt, since>>
      BY <2>1 DEF clockVars, threadVars, waitVars
    <3>3. CASE timeout[h] = 0 /\ wakeAt[h] <= now
      BY <3>2, <3>3 DEF Watches
    <3>4. CASE timeout[h] >= 0 /\ \A e \in m_timers : since[h] + timeout[h] <= e[1]
      <4>1. since[h] + timeout[h] <= m_next'[t]
        BY <2>1, <2>2, <3>1, <3>4
      <4>2. \A e \in m_timers' : since[h] + timeout[h] <= e[1]
        BY <2>1, <3>4, <4>1
      <4> QED BY <3>2, <3>4, <4>2 DEF Watches
    <3>5. CASE timeout[h] < 0 /\ \A e \in m_timers : since[h] + IntRange \div 2 <= e[1]
      <4>1. since[h] + IntRange \div 2 <= m_next'[t]
        BY <2>1, <2>2, <3>1, <3>5
      <4>2. \A e \in m_timers' : since[h] + IntRange \div 2 <= e[1]
        BY <2>1, <3>5, <4>1
      <4> QED BY <3>2, <3>5, <4>2 DEF Watches
    <3> QED BY <2>4, <3>3, <3>4, <3>5 DEF Watches
  <2> QED BY <2>1, <2>3, <2>4 DEF WatchInv, clockVars
\* tickle() writes to the pipe or finds every thread at work.
<1>7. ASSUME NEW t \in Timers, Tickle(t) PROVE WatchInv'
  <2>1. pipe' = (pipe \/ \E h \in Threads : tpc[h] # "busy") /\ UNCHANGED tpc
    BY <1>7 DEF Tickle, threadVars
  <2>2. Awake'
    BY <2>1 DEF Awake
  <2> QED BY <2>2 DEF WatchInv
<1>8. ASSUME NEW t \in Timers, Cancel(t) PROVE WatchInv'
  BY <1>2, <1>8, <1>n DEF Cancel, clockVars
<1>9. ASSUME NEW h \in Threads, Sleep(h) PROVE WatchInv'
  <2> DEFINE told == CutTimeout(NextTimeout)
  <2>1. /\ m_tickled' = FALSE /\ UNCHANGED <<clockVars, m_timers>>
        /\ timeout' = [timeout EXCEPT ![h] = told]
        /\ wakeAt' = [wakeAt EXCEPT ![h] = WakeTime(told)]
        /\ since' = [since EXCEPT ![h] = now]
    BY <1>9 DEF Sleep, BeginWait, timerVars
  <2>2. ASSUME m_timers # {} PROVE Watches(h, m_timers)'
    <3>1. \/ told = 0 /\ WakeTime(told) = now
          \/ told >= 0 /\ \A e \in m_timers : now + told <= e[1]
          \/ told < 0 /\ \A e \in m_timers : now + IntRange \div 2 <= e[1]
      BY <2>2, SleepWatches
    <3> HIDE DEF told
    <3>2. timeout'[h] = told /\ wakeAt'[h] = WakeTime(told) /\ since'[h] = now
      BY <2>1 DEF TimeInv
    <3> QED BY <2>1, <3>1, <3>2, <1>n DEF Watches, clockVars
  <2> QED BY <2>1, <2>2 DEF WatchInv, clockVars
\* A wait that begins anew is the wait that it was.
<1>9a. ASSUME NEW h \in Threads, Interrupt(h) PROVE WatchInv'
  <2>1. /\ UNCHANGED <<now, clockMoved, m_timers, m_tickled, toTickle, pipe, tpc, timeout, since>>
        /\ wakeAt' = [wakeAt EXCEPT ![h] = WakeTime(timeout[h])]
    BY <1>9a DEF Interrupt, clockVars, timerVars
  <2>2. Awake' <=> Awake
    BY <2>1 DEF Awake
  <2>3. ASSUME NEW g \in Threads, Watches(g, m_timers) PROVE Watches(g, m_timers)'
    <3>1. CASE g = h /\ timeout[h] = 0
      <4>1. wakeAt'[h] = now
        BY <2>1, <3>1, <1>n DEF WakeTime, TimeInv
      <4> QED BY <2>1, <3>1, <4>1, <1>n DEF Watches
    <3>2. CASE g # h \/ timeout[h] # 0
      <4>1. g # h => wakeAt'[g] = wakeAt[g]
        BY <2>1 DEF TimeInv
      <4> QED BY <2>1, <2>3, <3>2, <4>1 DEF Watches
    <3> QED BY <3>1, <3>2
  <2> QED BY <2>1, <2>2, <2>3 DEF WatchInv
<1>10. ASSUME NEW h \in Threads, GoIdle(h) \/ WakeUp(h) \/ IoEvent(h) \/ ListExpired(h) PROVE WatchInv'
  <2>1. tpc'[h] # "sleep"
    BY <1>10 DEF GoIdle, WakeUp, IoEvent, ReadClock, ListExpired, TimeInv
  <2> QED BY <1>1, <2>1
<1>11. CASE ClockTick
  BY <1>2, <1>11, <1>n DEF ClockTick, timerVars
<1>12. ASSUME NEW d \in SetBacks, ClockSetBack(d) PROVE WatchInv'
  BY <1>12 DEF ClockSetBack, WatchInv, Awake
<1>13. CASE UNCHANGED vars
  BY <1>2, <1>13, <1>n DEF vars, clockVars, timerVars
<1>14. ASSUME NEW t \in Timers, TimerStep(t) PROVE WatchInv'
  BY <1>3, <1>4, <1>5, <1>6, <1>7, <1>8, <1>14 DEF TimerStep
<1>15. ASSUME NEW h \in Threads, ThreadStep(h) PROVE WatchInv'
  BY <1>9, <1>9a, <1>10, <1>15 DEF ThreadStep
<1> QED BY <1>11, <1>12, <1>13, <1>14, <1>15 DEF Next

\* No wake-up for a timer is lost (timer.cc:122-130, 151, iomanager.cc:341-362): for any
\* number of threads and timers and any periods, the flag m_tickled suppresses only tickles
\* that are not needed.  A signal makes a thread late, a first timer that is 2^31 ms away
\* makes it sleep without end, and nothing is said once the clock has been set back.
THEOREM TimelyHolds ==
    ASSUME Threads # {}
    PROVE  Spec => []Timely
<1>1. Init => TimeInv /\ WatchInv
  <2> SUFFICES ASSUME Init PROVE TimeInv /\ WatchInv
    OBVIOUS
  <2>1. TimeInv
    BY TimerConstants DEF Init, TimeInv, ThreadPc
  <2>2. WatchInv
    BY DEF Init, WatchInv
  <2> QED BY <2>1, <2>2
<1>2. TimerInv /\ TimeInv /\ WatchInv /\ [Next]_vars => (TimeInv /\ WatchInv)'
  BY NextTimeInv, NextWatchInv
<1>3. TimerInv /\ TimeInv /\ WatchInv => Timely
  <2> SUFFICES ASSUME TimerInv, TimeInv, WatchInv, m_timers # {}, ~ clockMoved,
                      \A h \in Threads : tpc[h] = "sleep", ~ pipe, toTickle = {}
               PROVE  \E h \in Threads :
                         \/ wakeAt[h] <= now
                         \/ timeout[h] >= 0 /\ since[h] + timeout[h] <= Front(m_timers)
                         \/ timeout[h] < 0 /\ since[h] + IntRange \div 2 <= Front(m_timers)
    BY DEF Timely
  <2>1. PICK h \in Threads : Watches(h, m_timers)
    BY DEF WatchInv, Awake
  <2>2. PICK e \in m_timers : Front(m_timers) = e[1]
    <3>1. PICK t \in Timers : Front(m_timers) = m_next[t]
      BY FrontIsLeast
    <3> QED BY <3>1, FrontIsLeast DEF Front
  <2> QED BY <2>1, <2>2 DEF Watches
<1> QED BY <1>1, <1>2, <1>3, InvariantHolds, PTL DEF Spec
-----------------------------------------------------------------------------
(* No timer fires early.                                                   *)

\* Unless the clock was set back, m_previouseTime lies in the past.
PreviousInv == m_previouseTime \in Nat /\ (~ clockMoved => m_previouseTime <= now)

\* listExpiredCb() stores a reading of the clock.
LEMMA NextPreviousInv ==
    ASSUME TimeInv, PreviousInv, [Next]_vars
    PROVE  PreviousInv'
<1>1. ASSUME NEW t \in Timers, TimerStep(t) PROVE PreviousInv'
  <2>1. UNCHANGED <<clockVars, m_previouseTime>>
    BY <1>1 DEF TimerStep, Build, AddTimer, Tickle, Cancel, Refresh, Reset
  <2> QED BY <2>1 DEF PreviousInv, clockVars
<1>2. ASSUME NEW h \in Threads, ThreadStep(h) PROVE PreviousInv'
  <2>1. CASE ListExpired(h)
    <3>1. m_previouseTime' \in {m_previouseTime, nowRead[h]} /\ UNCHANGED clockVars
      BY <2>1 DEF ListExpired
    <3> QED BY <3>1 DEF PreviousInv, TimeInv, clockVars
  <2>2. CASE ~ ListExpired(h)
    <3>1. UNCHANGED <<clockVars, m_previouseTime>>
      BY <1>2, <2>2 DEF ThreadStep, GoIdle, Sleep, BeginWait, Interrupt, WakeUp, IoEvent
    <3> QED BY <3>1 DEF PreviousInv, clockVars
  <2> QED BY <2>1, <2>2
<1>3. CASE ClockTick
  BY <1>3 DEF ClockTick, PreviousInv, TimeInv
<1>4. ASSUME NEW d \in SetBacks, ClockSetBack(d) PROVE PreviousInv'
  BY <1>4 DEF ClockSetBack, PreviousInv
<1>5. CASE UNCHANGED vars
  BY <1>5 DEF PreviousInv, vars, clockVars
<1> QED BY <1>1, <1>2, <1>3, <1>4, <1>5 DEF Next

\* While the clock has not been set back, no timer fires before it is due: a thread that
\* presents an older reading than another has shown is not taken for a rollover, as long
\* as it is less than an hour old (timer.cc:170-189, 216-224).
THEOREM NotEarlyHolds == Spec => NotEarly
<1> DEFINE InTime ==
             \A t \in Timers :
                 handed'[t] # handed[t] /\ ~ clockMoved /\ ReadingsFresh => m_next[t] <= now
<1>1. Init => TimeInv /\ PreviousInv
  BY TimerConstants DEF Init, TimeInv, PreviousInv, ThreadPc
<1>2. TimerInv /\ TimeInv /\ PreviousInv /\ [Next]_vars => (TimeInv /\ PreviousInv)'
  BY NextTimeInv, NextPreviousInv
<1>3. ASSUME TimerInv, TimeInv, PreviousInv, [Next]_vars PROVE [InTime]_vars
  <2> SUFFICES ASSUME NEW t \in Timers, handed'[t] # handed[t], ~ clockMoved, ReadingsFresh, Next
               PROVE  m_next[t] <= now
    BY <1>3
  <2>1. ASSUME NEW u \in Timers, TimerStep(u) PROVE FALSE
    <3>1. handed' = handed
      BY <2>1 DEF TimerStep, Build, AddTimer, Tickle, Cancel, Refresh, Reset, timerVars, ended
    <3> QED BY <3>1
  <2>2. ASSUME NEW h \in Threads, ThreadStep(h) PROVE m_next[t] <= now
    <3>1. ListExpired(h) /\ m_timers # {}
      BY <2>2 DEF ThreadStep, GoIdle, Sleep, BeginWait, Interrupt, WakeUp, IoEvent, ListExpired,
               timerVars, ended
    <3>2. t \in {e[2] : e \in Expired(nowRead[h])} /\ tpc[h] = "expire"
      BY <3>1 DEF ListExpired
    <3>3. ~ Rollover(nowRead[h])
      <4>1. now <= nowRead[h] + Hour /\ m_previouseTime <= now
        BY <1>3, <3>2 DEF ReadingsFresh, PreviousInv
      <4>2. now \in Nat /\ nowRead[h] \in Nat /\ m_previouseTime \in Nat /\ Hour \in Nat
        BY <1>3, TimerConstants DEF TimeInv, PreviousInv
      <4> QED BY <4>1, <4>2 DEF Rollover
    <3>4. PICK e \in m_timers : e[2] = t /\ e[1] <= nowRead[h]
      BY <3>2, <3>3 DEF Expired
    <3>5. e = <<m_next[t], t>>
      BY <1>3, <3>4 DEF TimerInv, Exact
    <3>6. m_next[t] <= nowRead[h] /\ nowRead[h] <= now
      BY <1>3, <3>4, <3>5 DEF TimeInv
    <3>7. m_next[t] \in Nat /\ nowRead[h] \in Nat /\ now \in Nat
      BY <1>3 DEF TimeInv
    <3> QED BY <3>6, <3>7
  <2>3. CASE ClockTick \/ \E d \in SetBacks : ClockSetBack(d)
    <3>1. handed' = handed
      BY <2>3 DEF ClockTick, ClockSetBack, timerVars, ended
    <3> QED BY <3>1
  <2> QED BY <2>1, <2>2, <2>3 DEF Next
<1>4. TimerInv /\ TimeInv /\ PreviousInv /\ [Next]_vars => [InTime]_vars
  BY <1>3
<1> QED BY <1>1, <1>2, <1>4, InvariantHolds, PTL DEF Spec, NotEarly
=============================================================================
