------------------------- MODULE IOSchedulerProofs -------------------------
(***************************************************************************)
(* Proofs about IOScheduler, the scheduler of which every idle thread      *)
(* polls, for every set of threads and tasks and whatever the fibers wait  *)
(* for: its types and counters, what may go wrong when a fiber suspends    *)
(* itself, and who looks after the work that is left when stop() comes.    *)
(***************************************************************************)
EXTENDS IOScheduler, SchedulerStopProofs

-----------------------------------------------------------------------------
(* The steps: those that IOManager inherits, and types.                    *)

IOTypes ==
    /\ timers \in SUBSET Fibers /\ IsFiniteSet(timers)
    /\ events \in SUBSET Fibers /\ IsFiniteSet(events)
    /\ m_pendingEventCount \in Int
    /\ sleeper \in [Fibers -> Fibers \cup {NoItem}]
    /\ place \in [Threads -> Place]
    /\ reported \in [Threads -> SUBSET Fibers]
    /\ cbs \in [Threads -> SUBSET Fibers] /\ \A w \in Threads : IsFiniteSet(cbs[w])
    /\ raced \in BOOLEAN /\ late \in BOOLEAN

IOTypeInv == TypeInv /\ IOTypes

LEMMA InitIOTypeInv == IOInit => IOTypeInv
<1> SUFFICES ASSUME IOInit PROVE IOTypeInv
  OBVIOUS
<1>1. TypeInv
  BY InitTypeInv DEF IOInit
<1>2. place \in [Threads -> Place] /\ sleeper \in [Fibers -> Fibers \cup {NoItem}]
  BY DEF IOInit, Place
<1>3. cbs \in [Threads -> SUBSET Fibers] /\ \A w \in Threads : IsFiniteSet(cbs[w])
  BY FS_EmptySet DEF IOInit
<1>4. reported \in [Threads -> SUBSET Fibers]
  BY DEF IOInit
<1>5. IsFiniteSet(timers) /\ IsFiniteSet(events)
  BY FS_EmptySet DEF IOInit
<1>6. raced \in BOOLEAN /\ late \in BOOLEAN
  BY Zenon DEF IOInit
<1>7. m_pendingEventCount \in Int
  BY DEF IOInit
<1>8. timers \in SUBSET Fibers /\ events \in SUBSET Fibers
  BY DEF IOInit
<1>9. IOTypes
  BY <1>2, <1>3, <1>4, <1>5, <1>6, <1>7, <1>8 DEF IOTypes
<1> QED BY <1>1, <1>9 DEF IOTypeInv

\* A step of Scheduler, seen from IOManager.
Inherited == UserCall \/ StopCall \/ \E w \in Threads : Take(w) \/ OtherStep(w)

LEMMA InheritedQuiet ==
    ASSUME Inherited
    PROVE  QuietStep /\ UNCHANGED <<work, hands>> /\ UNCHANGED late
  BY DEF Inherited, UserCall, StopCall, Take, OtherStep, QuietStep, UserStep, StopStep, RunStep,
         FiberStep, history

LEMMA QuietTypeInv ==
    ASSUME TypeInv, QuietStep
    PROVE  TypeInv'
  BY NextTypeInv DEF QuietStep, Next

LEMMA WaitEventQuiet ==
    ASSUME NEW w \in Threads, WaitEvent(w)
    PROVE  QuietStep
  BY DEF WaitEvent, QuietStep, FiberStep

\* The expired callbacks, in any order, make a queue.
LEMMA BatchQueue ==
    ASSUME NEW S \in SUBSET Fibers, IsFiniteSet(S), NEW order \in SetToSeqs(S),
           m_fibers \in Seq(QueueItem),
           m_fibers' = m_fibers \o [i \in DOMAIN order |-> Item(order[i], AnyThread)]
    PROVE  m_fibers' \in Seq(QueueItem)
<1> DEFINE n    == Cardinality(S)
           item == [i \in DOMAIN order |-> Item(order[i], AnyThread)]
<1>1. order \in [1 .. n -> S] /\ n \in Nat
  BY FS_CardinalityType DEF SetToSeqs
<1>2. item \in [1 .. n -> QueueItem]
  BY <1>1 DEF Item, QueueItem
<1>3. m_fibers' = m_fibers \o item
  OBVIOUS
<1> HIDE DEF n, item
<1>4. item \in Seq(QueueItem)
  BY <1>1, <1>2, SeqDef
<1> QED BY <1>3, <1>4, ConcatProperties

\* The answer of stopping() to an idle fiber, or to stop().
LEMMA AnswerTypes ==
    ASSUME TypeInv, NEW w \in Threads, NEW yes \in BOOLEAN, Answer(w, yes), InIdle(w) \/ InStop(w)
    PROVE  TypeInv'
<1> USE ConstantsAssumption DEF InIdle, InStop, At, MainAt
<1>t. TypeOK /\ Launched /\ HeldItem /\ pc \in [Threads -> WorkerPc]
  BY DEF TypeInv, TypeOK
<1>1. CASE InIdle(w)
  <2>1. /\ pc[w] = "idle" /\ UNCHANGED <<sched, flags, tasks, m_state, ft>>
        /\ idleTerm' = [idleTerm EXCEPT ![w] = yes]
        /\ pc' = [pc EXCEPT ![w] = IF yes THEN "idleBack" ELSE "idle"]
    BY <1>1, <1>t DEF Answer, Goto, flags
  <2>2. /\ CountersAccount' /\ Launched' /\ pc' \in [Threads -> WorkerPc]
    <3>1. CountedMove(w)
      BY <1>t, <2>1
      DEF CountedMove, Goto, TypeOK, sched, flags, WorkerPc, HoldsPc, ActivePc, OnStackPc, IdlePc
    <3> QED BY <3>1, Moved
  <2>3. HeldItem'
    BY <1>t, <2>1 DEF HeldItem, HoldsPc, ActivePc, OnStackPc
  <2>4. TypeOK'
    BY <1>t, <2>1, <2>2 DEF TypeOK, sched, flags, tasks
  <2> QED BY <2>2, <2>3, <2>4 DEF TypeInv
<1>2. CASE ~ InIdle(w)
  <2>1. /\ w \in Root /\ mainPc = "rootCheck" /\ pc[w] = "off"
        /\ UNCHANGED <<sched, m_autoStop, m_stopping, tasks, m_state, ft, idleTerm>>
    BY <1>2, <1>t DEF Answer, Launched
  <2>2. CASE yes
    <3>1. mainPc' = "join" /\ pc' = pc
      BY <1>2, <2>2 DEF Answer
    <3> QED BY <1>t, <2>1, <3>1, Still
            DEF TypeInv, TypeOK, Launched, HeldItem, sched, tasks, MainPc
  <2>3. CASE ~ yes
    <3>1. mainPc' = "inRoot" /\ pc' = [v \in Threads |-> IF v \in {w} THEN "fetch" ELSE pc[v]]
      BY <1>2, <1>t, <2>3 DEF Answer, Goto
    <3>2. CountersAccount' /\ HeldItem' /\ pc' \in [Threads -> WorkerPc]
      BY <2>1, <3>1, Launch DEF sched
    <3>3. TypeOK' /\ Launched'
      BY <1>t, <2>1, <3>1, <3>2 DEF TypeOK, Launched, sched, tasks, MainPc
    <3> QED BY <3>2, <3>3 DEF TypeInv
  <2> QED BY <2>2, <2>3
<1> QED BY <1>1, <1>2

\* The steps of an idle thread past stopping().
LEMMA IdleTypes ==
    ASSUME IOTypeInv, NEW w \in Threads, IdleStep(w)
    PROVE  IOTypeInv'
<1> USE ConstantsAssumption DEF At, MainAt
<1>t. TypeInv /\ IOTypes /\ TypeOK /\ HeldItem /\ Launched
  BY DEF IOTypeInv, TypeInv
<1>0. \A p \in Place : MoveTo(w, p) => place' \in [Threads -> Place]
  BY <1>t DEF MoveTo, IOTypes
<1>1. ASSUME UNCHANGED vars PROVE TypeInv'
  BY <1>1, <1>t, NextTypeInv
<1>2. ASSUME NEW yes \in BOOLEAN, Answer(w, yes), InIdle(w) \/ InStop(w) PROVE IOTypeInv'
  <2>1. TypeInv'
    BY <1>2, <1>t, AnswerTypes
  <2>2. IOTypes'
    BY <1>2, <1>0, <1>t DEF Answer, IOTypes, work, history, Place
  <2> QED BY <2>1, <2>2 DEF IOTypeInv
<1>3. ASSUME NEW p \in Place, Advance(w, p) PROVE IOTypeInv'
  <2>1. IOTypes'
    BY <1>3, <1>0, <1>t DEF Advance, IOTypes, work, history
  <2> QED BY <1>1, <1>3, <2>1 DEF Advance, IOTypeInv
<1>4. ASSUME AskTimers(w) \/ AskPending(w) \/ AskScheduler(w) PROVE IOTypeInv'
  <2>1. \/ \E yes \in BOOLEAN : Answer(w, yes)
        \/ Advance(w, "noTimer") \/ Advance(w, "noPending")
    BY <1>4 DEF AskTimers, AskPending, AskScheduler, Stopping
  <2>2. InIdle(w) \/ InStop(w)
    BY <1>4 DEF AskTimers, AskPending, AskScheduler
  <2> QED BY <1>2, <1>3, <2>1, <2>2 DEF Place
<1>5. ASSUME NEW ready \in SUBSET Fibers, Poll(w, ready) PROVE IOTypeInv'
  <2>1. IOTypes'
    BY <1>5, <1>0, <1>t DEF Poll, IOTypes, work, history, Place
  <2> QED BY <1>1, <1>5, <2>1 DEF Poll, IOTypeInv
<1>6. ASSUME NEW due \in SUBSET Fibers, Expire(w, due) PROVE IOTypeInv'
  <2>1. place' \in [Threads -> Place]
    BY <1>6, <1>0 DEF Expire, Place
  <2>2. timers' \in SUBSET Fibers /\ IsFiniteSet(timers') /\ IsFiniteSet(due)
    BY <1>6, <1>t, FS_Subset DEF Expire, IOTypes
  <2>3. cbs' \in [Threads -> SUBSET Fibers] /\ \A v \in Threads : IsFiniteSet(cbs'[v])
    BY <1>6, <1>t, <2>2 DEF Expire, IOTypes
  <2>4. IOTypes'
    BY <1>6, <1>t, <2>1, <2>2, <2>3 DEF Expire, IOTypes, history
  <2> QED BY <1>1, <1>6, <2>4 DEF Expire, IOTypeInv
<1>7. ASSUME ScheduleExpired(w) PROVE IOTypeInv'
  <2>1. m_fibers' \in Seq(QueueItem)
    <3>1. PICK order \in SetToSeqs(cbs[w]) :
            m_fibers' = m_fibers \o [i \in DOMAIN order |-> Item(order[i], AnyThread)]
      BY <1>7 DEF ScheduleExpired
    <3> QED BY <1>t, <3>1, BatchQueue DEF IOTypes, TypeOK
  <2>2. CountersAccount' /\ Launched' /\ HeldItem'
    BY <1>7, <1>t, Still DEF ScheduleExpired, flags, Launched, HeldItem
  <2>3. TypeOK'
    BY <1>7, <1>t, <2>1 DEF ScheduleExpired, TypeOK, flags
  <2>4. IOTypes'
    BY <1>7, <1>0, <1>t, FS_EmptySet DEF ScheduleExpired, IOTypes, work, history, Place
  <2> QED BY <2>2, <2>3, <2>4 DEF IOTypeInv, TypeInv
<1>8. ASSUME NEW f \in Fibers, Skip(w, f) PROVE IOTypeInv'
  <2>1. IOTypes'
    BY <1>8, <1>t DEF Skip, Handled, IOTypes, work, history
  <2> QED BY <1>1, <1>8, <2>1 DEF Skip, IOTypeInv
<1>9. ASSUME NEW f \in Fibers, Serve(w, f) PROVE IOTypeInv'
  <2>1. m_fibers' \in Seq(QueueItem)
    BY <1>9, <1>t, EnqueueType DEF Serve, TypeOK
  <2>2. CountersAccount' /\ Launched' /\ HeldItem'
    BY <1>9, <1>t, Still DEF Serve, flags, Launched, HeldItem
  <2>3. TypeOK'
    BY <1>9, <1>t, <2>1 DEF Serve, TypeOK, flags
  <2>4. IOTypes'
    BY <1>9, <1>0, <1>t, FS_RemoveElement DEF Serve, Handled, IOTypes, history, Place
  <2> QED BY <2>2, <2>3, <2>4 DEF IOTypeInv, TypeInv
<1>10. ASSUME Count(w) PROVE IOTypeInv'
  <2>1. IOTypes'
    BY <1>10, <1>0, <1>t DEF Count, IOTypes, history, Place
  <2> QED BY <1>1, <1>10, <2>1 DEF Count, IOTypeInv
<1>11. ASSUME IdleYield(w) PROVE IOTypeInv'
  <2>1. /\ pc[w] = "idle" /\ Goto(w, "idleBack")
        /\ UNCHANGED <<sched, flags, tasks, m_state, ft, idleTerm>>
    BY <1>11 DEF IdleYield, InIdle
  <2>2. CountersAccount' /\ Launched' /\ pc' \in [Threads -> WorkerPc]
    <3>1. CountedMove(w)
      BY <1>t, <2>1
      DEF CountedMove, Goto, TypeOK, sched, flags, WorkerPc, HoldsPc, ActivePc, OnStackPc, IdlePc
    <3> QED BY <1>t, <3>1, Moved
  <2>3. TypeOK' /\ HeldItem'
    BY <1>t, <2>1, <2>2
    DEF TypeOK, HeldItem, Goto, sched, flags, tasks, HoldsPc, ActivePc, OnStackPc
  <2>4. IOTypes'
    BY <1>11, <1>0, <1>t DEF IdleYield, IOTypes, work, history, Place
  <2> QED BY <2>2, <2>3, <2>4 DEF IOTypeInv, TypeInv
<1> QED
  BY <1>4, <1>5, <1>6, <1>7, <1>8, <1>9, <1>10, <1>11 DEF IdleStep

LEMMA NextIOTypeInv == IOTypeInv /\ [IONext]_ioVars => IOTypeInv'
<1> SUFFICES ASSUME IOTypeInv, [IONext]_ioVars PROVE IOTypeInv'
  OBVIOUS
<1> USE ConstantsAssumption DEF At, MainAt
<1>t. TypeInv /\ IOTypes /\ TypeOK /\ HeldItem /\ Launched
  BY DEF IOTypeInv, TypeInv
<1>1. ASSUME Inherited PROVE IOTypeInv'
  <2>1. TypeInv' /\ UNCHANGED <<work, hands>> /\ UNCHANGED late
    BY <1>1, <1>t, InheritedQuiet, QuietTypeInv
  <2>2. raced' \in BOOLEAN
    BY <1>1, <1>t DEF Inherited, UserCall, StopCall, Take, OtherStep, history, IOTypes
  <2> QED BY <1>t, <2>1, <2>2 DEF IOTypeInv, IOTypes, work, hands
<1>2. ASSUME IOStopBegin PROVE IOTypeInv'
  <2>1. TypeOK' /\ Launched' /\ HeldItem' /\ CountersAccount'
    BY <1>2, <1>t, Still
    DEF IOStopBegin, TypeOK, Launched, HeldItem, flags, tasks, sched, Threads, MainPc
  <2>2. IOTypes'
    BY <1>2, <1>t DEF IOStopBegin, IOTypes, work, hands, history
  <2> QED BY <2>1, <2>2 DEF IOTypeInv, TypeInv
<1>3. ASSUME NEW w \in Threads, IdleStep(w) PROVE IOTypeInv'
  BY <1>3, IdleTypes
<1>4. ASSUME NEW g \in Fibers, AddTimer(g) PROVE IOTypeInv'
  <2>1. TypeOK' /\ Launched' /\ HeldItem' /\ CountersAccount'
    BY <1>4, <1>t, Still DEF AddTimer, TypeOK, Launched, HeldItem, flags, sched
  <2>2. late' \in BOOLEAN
    BY <1>4, <1>t DEF AddTimer, Later, IOTypes, TypeOK
  <2>3. timers' \in SUBSET Fibers /\ IsFiniteSet(timers')
    BY <1>4, <1>t, FS_AddElement DEF AddTimer, IOTypes
  <2>4. IOTypes'
    BY <1>4, <1>t, <2>2, <2>3 DEF AddTimer, IOTypes, hands
  <2> QED BY <2>1, <2>4 DEF IOTypeInv, TypeInv
<1>5. ASSUME NEW w \in Threads, WaitEvent(w) PROVE IOTypeInv'
  <2>1. TypeInv'
    BY <1>5, <1>t, WaitEventQuiet, QuietTypeInv
  <2>2. Cur(w) \in Fibers
    BY <1>5, <1>t, CurType DEF WaitEvent, Calls, HoldsPc, ActivePc, OnStackPc
  <2>3. events' \in SUBSET Fibers /\ IsFiniteSet(events')
    BY <1>5, <1>t, <2>2, FS_AddElement DEF WaitEvent, IOTypes
  <2>4. IOTypes'
    BY <1>5, <1>t, <2>3 DEF WaitEvent, Later, IOTypes, TypeOK, hands
  <2> QED BY <2>1, <2>4 DEF IOTypeInv
<1>6. ASSUME NEW w \in Threads, NEW g \in Fibers, Sleep(w, g) PROVE IOTypeInv'
  <2>1. /\ pc[w] = "exec" /\ Goto(w, "yieldHold")
        /\ UNCHANGED <<sched, flags, m_state, ft, idleTerm>>
    BY <1>6 DEF Sleep, Calls
  <2>2. Cur(w) \in Fibers
    BY <2>1, <1>t, CurType DEF HoldsPc, ActivePc, OnStackPc
  <2>3. CountersAccount' /\ Launched' /\ pc' \in [Threads -> WorkerPc]
    <3>1. CountedMove(w)
      BY <1>t, <2>1
      DEF CountedMove, Goto, TypeOK, sched, flags, WorkerPc, HoldsPc, ActivePc, OnStackPc, IdlePc
    <3> QED BY <1>t, <3>1, Moved
  <2>4. HeldItem'
    BY <1>t, <2>1 DEF TypeOK, HeldItem, Goto, HoldsPc, ActivePc, OnStackPc
  <2>5. yields' \in [Fibers -> 0 .. MaxYields]
    BY <1>6, <1>t, <2>2 DEF Sleep, CountYield, TypeOK
  <2>6. TypeOK'
    BY <1>6, <1>t, <2>1, <2>2, <2>3, <2>5 DEF Sleep, TypeOK, sched, flags
  <2>7. timers' \in SUBSET Fibers /\ IsFiniteSet(timers')
    BY <1>6, <1>t, FS_AddElement DEF Sleep, IOTypes
  <2>8. IOTypes'
    BY <1>6, <1>t, <2>2, <2>7 DEF Sleep, Later, IOTypes, TypeOK, hands
  <2> QED BY <2>3, <2>4, <2>6, <2>8 DEF IOTypeInv, TypeInv
<1>7. ASSUME NEW w \in Threads, WakeSleeper(w) PROVE IOTypeInv'
  <2>1. Cur(w) \in Fibers
    BY <1>7, <1>t, CurType DEF WakeSleeper, HoldsPc, ActivePc, OnStackPc
  <2>2. sleeper[Cur(w)] \in Fibers
    BY <1>7, <1>t, <2>1 DEF WakeSleeper, IOTypes
  <2>3. m_fibers' \in Seq(QueueItem)
    BY <1>7, <1>t, <2>2, EnqueueType DEF WakeSleeper, TypeOK
  <2>4. CountersAccount' /\ Launched' /\ HeldItem'
    BY <1>7, <1>t, Still DEF WakeSleeper, flags, Launched, HeldItem
  <2>5. TypeOK'
    BY <1>7, <1>t, <2>3 DEF WakeSleeper, TypeOK, flags
  <2>6. IOTypes'
    BY <1>7, <1>t DEF WakeSleeper, IOTypes, hands, history
  <2> QED BY <2>4, <2>5, <2>6 DEF IOTypeInv, TypeInv
<1>8. ASSUME UNCHANGED ioVars PROVE IOTypeInv'
  <2>1. TypeInv'
    BY <1>8, <1>t, NextTypeInv DEF ioVars
  <2> QED BY <1>8, <1>t, <2>1 DEF IOTypeInv, IOTypes, ioVars, work, hands, history
<1> QED
  BY <1>1, <1>2, <1>3, <1>4, <1>5, <1>6, <1>7, <1>8 DEF IONext, Inherited, ThreadStep

\* The counters that stopping() and tickle() read are exact in IOManager, too, with
\* the events and timers of its idle fiber and whatever fibers wait for.
THEOREM IOCountersCorrect == IOSpec => []CountersAccount
<1>1. IOTypeInv => CountersAccount
  BY DEF IOTypeInv, TypeInv
<1> QED BY <1>1, InitIOTypeInv, NextIOTypeInv, PTL DEF IOSpec

-----------------------------------------------------------------------------
(* A fiber that is taken by one thread at a time.                          *)

\* The state of the fiber that thread w holds, when no other thread holds it.
RunState(w) ==
    /\ pc[w] \in {"dispatch", "swapIn"} => m_state[Cur(w)] # "EXEC"
    /\ pc[w] \in {"exec", "yieldHold"} => m_state[Cur(w)] = "EXEC"
    /\ pc[w] # "abort"

OneHolder == \A v, w \in Threads, f \in Fibers : v # w /\ Held(v, f) => ~ Held(w, f)

RaceInv == ~ raced => OneHolder /\ \A w \in Threads : RunState(w)

LEMMA InitRaceInv == IOInit => RaceInv
  BY DEF IOInit, Init, RaceInv, OneHolder, Held, RunState, HoldsPc, ActivePc, OnStackPc

\* Thread w goes on with the fiber it holds, lets go of it, or walks without one; only
\* that fiber's state may change.
LEMMA HolderMoves ==
    ASSUME TypeInv, RaceInv, UNCHANGED raced, NEW w \in Threads, NEW label,
           pc' = [pc EXCEPT ![w] = label],
           \A v \in Threads \ {w} : ft'[v] = ft[v],
           label \in HoldsPc => pc[w] \in HoldsPc /\ ft'[w] = ft[w],
           \A f \in Fibers : m_state'[f] # m_state[f] => pc[w] \in HoldsPc /\ f = Cur(w),
           ~ raced => RunState(w)'
    PROVE  RaceInv'
<1> SUFFICES ASSUME ~ raced PROVE OneHolder' /\ \A v \in Threads : RunState(v)'
  BY DEF RaceInv
<1>t. pc \in [Threads -> WorkerPc] /\ HeldItem /\ OneHolder /\ \A v \in Threads : RunState(v)
  BY DEF TypeInv, TypeOK, RaceInv
<1>1. \A v \in Threads, f \in Fibers : Held(v, f)' => Held(v, f)
  BY <1>t DEF Held
<1>2. OneHolder'
  BY <1>t, <1>1 DEF OneHolder
<1>3. ASSUME NEW v \in Threads \ {w} PROVE RunState(v)'
  <2>1. pc'[v] = pc[v] /\ Cur(v)' = Cur(v) /\ RunState(v)
    BY <1>t, <1>3 DEF Cur
  <2>2. CASE pc[v] \in {"dispatch", "swapIn", "exec", "yieldHold"}
    <3>1. pc[v] \in HoldsPc
      BY <2>2 DEF HoldsPc, ActivePc, OnStackPc
    <3>2. Cur(v) \in Fibers /\ Held(v, Cur(v))
      BY <1>t, <3>1, CurType DEF Held, Cur
    <3>3. pc[w] \in HoldsPc => Held(w, Cur(w)) /\ Cur(w) \in Fibers
      BY <1>t, CurType DEF Held, Cur
    <3>4. m_state'[Cur(v)] = m_state[Cur(v)]
      BY <1>t, <1>3, <3>2, <3>3 DEF OneHolder
    <3> QED BY <2>1, <3>4 DEF RunState
  <2>3. CASE pc[v] \notin {"dispatch", "swapIn", "exec", "yieldHold"}
    BY <2>1, <2>3 DEF RunState
  <2> QED BY <2>2, <2>3
<1> QED BY <1>2, <1>3

\* Threads that hold no fiber start, look around, idle, exit or only write to the queue.
LEMMA NobodyMoves ==
    ASSUME TypeInv, RaceInv, UNCHANGED <<raced, m_state, ft>>,
           \A w \in Threads : pc'[w] # pc[w] => pc'[w] \notin HoldsPc
    PROVE  RaceInv'
<1> SUFFICES ASSUME ~ raced PROVE OneHolder' /\ \A v \in Threads : RunState(v)'
  BY DEF RaceInv
<1>1. \A v \in Threads, f \in Fibers : Held(v, f)' => Held(v, f)
  BY DEF Held
<1>2. OneHolder'
  BY <1>1 DEF OneHolder, RaceInv
<1>3. \A v \in Threads : RunState(v)'
  BY DEF RaceInv, RunState, Cur, HoldsPc, ActivePc, OnStackPc
<1> QED BY <1>2, <1>3

\* Every step keeps the invariant: one case per way to move.
LEMMA NextRaceInv == IOTypeInv /\ RaceInv /\ [IONext]_ioVars => RaceInv'
<1> SUFFICES ASSUME IOTypeInv, RaceInv, [IONext]_ioVars PROVE RaceInv'
  OBVIOUS
<1> USE DEF At, MainAt
<1>t. /\ TypeInv /\ HeldItem /\ pc \in [Threads -> WorkerPc]
      /\ ft \in [Threads -> QueueItem \cup {NoItem}]
      /\ m_state \in [Fibers -> FiberState] /\ m_fibers \in Seq(QueueItem)
  BY DEF IOTypeInv, TypeInv, TypeOK
<1>s. ~ raced => \A w \in Threads : RunState(w)
  BY DEF RaceInv
<1>1. ASSUME UserCall \/ StopCall \/ IOStopBegin PROVE RaceInv'
  <2>1. UNCHANGED <<raced, m_state, ft>>
    BY <1>1 DEF UserCall, StopCall, IOStopBegin, Start, Schedule, ScheduleBatch, StopSet,
                RootReturn, JoinAll, history
  <2>2. \A w \in Threads : pc'[w] # pc[w] => pc'[w] = "fetch"
    BY <1>1 DEF UserCall, StopCall, IOStopBegin, Start, Schedule, ScheduleBatch, StopSet,
                RootReturn, JoinAll
  <2> QED BY <1>t, <2>1, <2>2, NobodyMoves DEF HoldsPc, ActivePc, OnStackPc
<1>2. ASSUME NEW w \in Threads, IdleStep(w) PROVE RaceInv'
  <2>1. UNCHANGED <<raced, m_state, ft>>
    BY <1>2 DEF IdleStep, AskTimers, AskPending, AskScheduler, Answer, Advance, Poll, Expire,
                ScheduleExpired, Skip, Serve, Count, IdleYield, history, vars
  <2>2. pc' = pc \/ \E label \in {"fetch", "idleBack"} : Goto(w, label)
    BY <1>2 DEF IdleStep, AskTimers, AskPending, AskScheduler, Answer, Advance, Poll, Expire,
                ScheduleExpired, Skip, Serve, Count, IdleYield, vars
  <2>3. \A v \in Threads : pc'[v] # pc[v] => pc'[v] \in {"fetch", "idleBack"}
    BY <1>t, <2>2 DEF Goto
  <2> QED BY <1>t, <2>1, <2>3, NobodyMoves DEF HoldsPc, ActivePc, OnStackPc
<1>3. ASSUME NEW g \in Fibers, AddTimer(g) PROVE RaceInv'
  BY <1>3, <1>t, NobodyMoves DEF AddTimer
<1>4. ASSUME NEW w \in Threads, WakeSleeper(w) PROVE RaceInv'
  BY <1>4, <1>t, NobodyMoves DEF WakeSleeper, history
<1>5. ASSUME NEW w \in Threads, WaitEvent(w) \/ \E g \in Fibers : Sleep(w, g) PROVE RaceInv'
  <2>1. /\ pc[w] = "exec" /\ pc' = [pc EXCEPT ![w] = "yieldHold"]
        /\ UNCHANGED <<raced, m_state, ft>>
    BY <1>5 DEF WaitEvent, Sleep, Calls, Wait, Goto
  <2>2. ~ raced => RunState(w)'
    BY <1>t, <1>s, <2>1 DEF RunState, Cur
  <2> QED BY <1>t, <2>1, <2>2, HolderMoves DEF HoldsPc, ActivePc, OnStackPc
<1>6. ASSUME NEW w \in Threads, Take(w) PROVE RaceInv'
  <2> SUFFICES ASSUME ~ raced' PROVE OneHolder' /\ \A v \in Threads : RunState(v)'
    BY DEF RaceInv
  <2>1. /\ ~ raced /\ OneHolder /\ \A v \in Threads : RunState(v)
        /\ \A v \in Threads \ {w} : ~ (pc[v] \in HoldsPc /\ ft[v].fiber = ft'[w].fiber)
    BY <1>6 DEF Take, RaceInv
  <2>2. PICK i \in DOMAIN m_fibers : Takeable(w, m_fibers[i]) /\ ft' = [ft EXCEPT ![w] = m_fibers[i]]
    BY <1>6 DEF Take, TakeTask
  <2>3. pc[w] = "fetch" /\ pc' = [pc EXCEPT ![w] = "dispatch"] /\ UNCHANGED m_state
    BY <1>6 DEF Take, TakeTask, Goto
  <2>4. OneHolder'
    <3>1. \A v \in Threads \ {w}, f \in Fibers : Held(v, f)' <=> Held(v, f)
      BY <1>t, <2>2, <2>3 DEF Held
    <3>2. \A v \in Threads \ {w} : ~ Held(v, ft'[w].fiber)
      BY <2>1 DEF Held
    <3>3. \A f \in Fibers : Held(w, f)' => f = ft'[w].fiber
      BY DEF Held
    <3> QED BY <2>1, <3>1, <3>2, <3>3 DEF OneHolder
  <2>5. RunState(w)'
    BY <1>t, <2>2, <2>3 DEF RunState, Takeable, Cur
  <2>6. ASSUME NEW v \in Threads \ {w} PROVE RunState(v)'
    BY <1>t, <2>1, <2>2, <2>3, <2>6 DEF RunState, Cur
  <2> QED BY <2>4, <2>5, <2>6
<1>7. ASSUME NEW w \in Threads, OtherStep(w) PROVE RaceInv'
  <2>r. UNCHANGED raced
    BY <1>7 DEF OtherStep, history
  <2>c. pc[w] \in HoldsPc => Cur(w) \in Fibers
    BY <1>t, CurType
  <2>1. ASSUME FindNothing(w) \/ IdleExit(w) \/ IdleEnter(w) \/ IdleLeave(w)
               \/ \E g \in Fibers, t \in Affinities : Spawn(w, g, t)
        PROVE  RaceInv'
    <3>1. UNCHANGED <<m_state, ft>>
      BY <2>1 DEF FindNothing, IdleExit, IdleEnter, IdleLeave, Spawn
    <3>2. pc' = pc \/ \E label \in {"noTask", "done", "idle", "fetch"} : Goto(w, label)
      BY <2>1 DEF FindNothing, IdleExit, IdleEnter, IdleLeave, Spawn
    <3>3. \A v \in Threads : pc'[v] # pc[v] => pc'[v] \in {"noTask", "done", "idle", "fetch"}
      BY <1>t, <3>2 DEF Goto
    <3> QED BY <1>t, <2>r, <3>1, <3>3, NobodyMoves DEF HoldsPc, ActivePc, OnStackPc
  <2>2. ASSUME Dispatch(w) PROVE RaceInv'
    <3>1. PICK label \in {"swapIn", "fetch"} : pc' = [pc EXCEPT ![w] = label]
      BY <2>2 DEF Dispatch, Goto
    <3>2. /\ pc[w] = "dispatch" /\ UNCHANGED m_state
          /\ \A v \in Threads \ {w} : ft'[v] = ft[v]
          /\ label = "swapIn" => ft' = ft
      BY <1>t, <2>2, <3>1 DEF Dispatch, Goto
    <3>3. ~ raced => RunState(w)'
      BY <1>t, <1>s, <3>1, <3>2 DEF RunState, Cur
    <3> QED BY <1>t, <2>r, <3>1, <3>2, <3>3, HolderMoves DEF HoldsPc, ActivePc, OnStackPc
  <2>3. ASSUME SwapIn(w) PROVE RaceInv'
    <3>1. PICK label \in {"exec", "abort"} : pc' = [pc EXCEPT ![w] = label]
      BY <2>3 DEF SwapIn, Abort, Goto
    <3>2. /\ pc[w] = "swapIn" /\ UNCHANGED ft
          /\ \A f \in Fibers : m_state'[f] # m_state[f] => f = Cur(w)
      BY <1>t, <2>3 DEF SwapIn, Abort
    <3>3. pc[w] \in HoldsPc
      BY <3>2 DEF HoldsPc, ActivePc, OnStackPc
    <3>4. ~ raced => RunState(w)'
      <4>1. ~ raced => m_state[Cur(w)] # "EXEC"
        BY <1>s, <3>2 DEF RunState
      <4>2. ~ raced => pc'[w] = "exec" /\ m_state'[Cur(w)] = "EXEC"
        BY <1>t, <2>3, <2>c, <3>3, <4>1 DEF SwapIn, Goto
      <4> QED BY <3>2, <4>2 DEF RunState, Cur
    <3> QED BY <1>t, <2>r, <3>1, <3>2, <3>3, <3>4, HolderMoves
  <2>4. ASSUME Returned(w) \/ SwapOut(w) PROVE RaceInv'
    <3>1. PICK label \in {"post", "returned"} : pc' = [pc EXCEPT ![w] = label]
      BY <2>4 DEF Returned, SwapOut, Goto
    <3>2. pc[w] \in HoldsPc /\ UNCHANGED <<m_state, ft>>
      BY <2>4 DEF Returned, SwapOut, HoldsPc, ActivePc, OnStackPc
    <3>3. RunState(w)'
      BY <1>t, <3>1 DEF RunState
    <3> QED BY <1>t, <2>r, <3>1, <3>2, <3>3, HolderMoves
  <2>5. ASSUME Requeue(w) \/ LookAfter(w) \/ SetHold(w) PROVE RaceInv'
    <3>1. PICK label \in {"fetch", "setHold"} : pc' = [pc EXCEPT ![w] = label]
      BY <2>5 DEF Requeue, LookAfter, SetHold, Goto
    <3>2. /\ pc[w] \in HoldsPc
          /\ \A v \in Threads \ {w} : ft'[v] = ft[v]
          /\ label = "setHold" => UNCHANGED ft
          /\ \A f \in Fibers : m_state'[f] # m_state[f] => f = Cur(w)
      BY <1>t, <2>5, <3>1 DEF Requeue, LookAfter, SetHold, Goto, HoldsPc, ActivePc, OnStackPc
    <3>3. RunState(w)'
      BY <1>t, <3>1 DEF RunState
    <3> QED BY <1>t, <2>r, <3>1, <3>2, <3>3, HolderMoves DEF HoldsPc, ActivePc, OnStackPc
  <2>6. ASSUME NEW t \in Threads, SwitchTo(w, t) PROVE RaceInv'
    <3>1. /\ pc[w] = "exec" /\ pc' = [pc EXCEPT ![w] = "yieldHold"]
          /\ UNCHANGED <<m_state, ft>>
      BY <2>6 DEF SwitchTo, Goto
    <3>2. ~ raced => RunState(w)'
      BY <1>t, <1>s, <3>1 DEF RunState, Cur
    <3> QED BY <1>t, <2>r, <3>1, <3>2, HolderMoves DEF HoldsPc, ActivePc, OnStackPc
  <2>7. ASSUME YieldToHold(w) \/ YieldToReady(w) \/ \E s \in Finished : Finish(w, s)
        PROVE  RaceInv'
    <3>1. PICK label \in {"swapOut", "abort"} : pc' = [pc EXCEPT ![w] = label]
      BY <2>7 DEF YieldToHold, YieldToReady, Finish, Abort, Goto
    <3>2. /\ pc[w] \in {"exec", "yieldHold"} /\ UNCHANGED ft
          /\ \A f \in Fibers : m_state'[f] # m_state[f] => f = Cur(w)
      BY <1>t, <2>7 DEF YieldToHold, YieldToReady, Finish, Abort
    <3>3. pc[w] \in HoldsPc
      BY <3>2 DEF HoldsPc, ActivePc, OnStackPc
    <3>4. ~ raced => pc'[w] = "swapOut"
      BY <1>t, <1>s, <2>7, <3>2 DEF YieldToHold, YieldToReady, Finish, Goto, RunState
    <3>5. ~ raced => RunState(w)'
      BY <3>4 DEF RunState
    <3> QED BY <1>t, <2>r, <3>1, <3>2, <3>3, <3>5, HolderMoves
  <2> QED BY <1>7, <2>1, <2>2, <2>3, <2>4, <2>5, <2>6, <2>7 DEF OtherStep
<1>8. ASSUME UNCHANGED ioVars PROVE RaceInv'
  BY <1>8, <1>t, NobodyMoves DEF ioVars, vars, history
<1> QED
  BY <1>1, <1>2, <1>3, <1>4, <1>5, <1>6, <1>7, <1>8 DEF IONext, ThreadStep

LEMMA RaceExact == IOTypeInv /\ RaceInv => RaceExplains
<1> SUFFICES ASSUME IOTypeInv, RaceInv, ~ raced PROVE ~ Aborted /\ OnOneThread /\ YieldFindsExec
  BY DEF RaceExplains
<1>1. OneHolder /\ \A w \in Threads : RunState(w)
  BY DEF RaceInv
<1>2. ~ Aborted /\ YieldFindsExec
  BY <1>1 DEF Aborted, YieldFindsExec, RunState
<1>3. \A w \in Threads : OnStack(w) => Cur(w) \in Fibers /\ Held(w, Cur(w))
  BY CurType DEF IOTypeInv, TypeInv, OnStack, Held, Cur, HoldsPc, ActivePc
<1>4. OnOneThread
  BY <1>1, <1>3 DEF OnOneThread, OneHolder
<1> QED BY <1>2, <1>4

\* Whatever fibers wait for, sleep or switch to, and for every number of threads: no two
\* threads are on one stack and no assertion of swapIn() or of a yield fails, unless a
\* fiber was taken from a thread that still held it (between fiber.cc:216 and
\* scheduler.cc:211).
THEOREM RaceExplainsHolds == IOSpec => []RaceExplains
<1>1. IOInit => IOTypeInv /\ RaceInv
  BY InitIOTypeInv, InitRaceInv
<1>2. IOTypeInv /\ RaceInv /\ [IONext]_ioVars => IOTypeInv' /\ RaceInv'
  BY NextIOTypeInv, NextRaceInv
<1> QED BY <1>1, <1>2, RaceExact, PTL DEF IOSpec

-----------------------------------------------------------------------------
(* Who looks after the work that is left.                                  *)

\* A thread is outside "ask" only while its idle fiber runs, or while stop() asks for
\* the caller's thread; callbacks are in hand only until they are scheduled.
PlaceInv ==
    /\ \A w \in Threads : place[w] # "ask" =>
          \/ pc[w] = "idle"
          \/ w \in Root /\ mainPc = "rootCheck" /\ place[w] \in {"noTimer", "noPending"}
    /\ \A w \in Threads : cbs[w] # {} => place[w] = "schedule"
    /\ \A w \in Threads : pc[w] \in {"off", "idle"} => ~ idleTerm[w]

\* The count covers the events that are waited for and those that were triggered and
\* are not yet uncounted.
Uncounted == {w \in Threads : place[w] = "count"}

PendingInv == m_pendingEventCount >= Cardinality(events) + Cardinality(Uncounted)

\* A fiber that is EXEC is executed by some thread.
ExecHeld ==
    \A f \in Fibers : m_state[f] = "EXEC" =>
        \E w \in Threads : pc[w] \in {"exec", "yieldHold"} /\ Cur(w) = f

\* Somebody still asks for timers, or for pending events: stop(), or a thread that cannot
\* leave run() before it does.  A place in passed is past that question.
PastTimers == {"noTimer", "noPending"}
PastEvents == {"noPending"}

Stays(w) == pc[w] \notin {"off", "done"} /\ ~ idleTerm[w]

Watched(passed) ==
    \/ mainPc \in {"init", "user", "stopSet"}
    \/ mainPc = "rootCheck" /\ \E w \in Root : place[w] \notin passed
    \/ \E w \in Threads : Stays(w) /\ place[w] \notin passed

TimersWatched == timers # {} /\ ~ late => Watched(PastTimers)
EventsWatched == events # {} /\ ~ late => Watched(PastEvents)

WatchInv == PlaceInv /\ PendingInv /\ ExecHeld /\ EndInv /\ TimersWatched /\ EventsWatched

LEMMA InitWatchInv == IOInit => WatchInv
<1> SUFFICES ASSUME IOInit PROVE WatchInv
  OBVIOUS
<1>1. /\ \A w \in Threads : pc[w] = "off" /\ ~ idleTerm[w] /\ place[w] = "ask" /\ cbs[w] = {}
      /\ \A f \in Fibers : m_state[f] = "INIT"
      /\ timers = {} /\ events = {} /\ m_pendingEventCount = 0
  BY DEF IOInit, Init
<1>2. PlaceInv /\ ExecHeld /\ TimersWatched /\ EventsWatched
  BY <1>1 DEF PlaceInv, ExecHeld, TimersWatched, EventsWatched
<1>3. Cardinality(events) = 0 /\ Cardinality(Uncounted) = 0
  <2>1. Uncounted = {}
    BY <1>1 DEF Uncounted
  <2> QED BY <1>1, <2>1, FS_EmptySet
<1>4. PendingInv
  BY <1>1, <1>3 DEF PendingInv
<1> QED BY <1>2, <1>4, InitEndInv DEF IOInit, WatchInv

\* What the steps that IOManager inherits leave alone.
LEMMA InheritedKeeps ==
    ASSUME IOTypeInv, Inherited
    PROVE  /\ UNCHANGED <<work, hands, late, idleTerm>>
           /\ \A w \in Threads : pc'[w] # pc[w] =>
                /\ pc'[w] # "off" /\ pc[w] \notin {"idle", "done"}
                /\ pc'[w] \in {"idle", "done"} => pc[w] = "noTask"
                /\ pc'[w] = "idle" => ~ idleTerm[w]
                /\ pc'[w] = "done" => idleTerm[w]
                /\ pc[w] = "off" => pc'[w] = "fetch"
           /\ \/ mainPc' = mainPc
              \/ mainPc = "init" /\ mainPc' = "user"
              \/ mainPc = "stopSet" /\ mainPc' = IF Root # {} THEN "rootCheck" ELSE "join"
              \/ mainPc \in {"inRoot", "join"}
<1> USE DEF At, MainAt
<1>t. pc \in [Threads -> WorkerPc] /\ Launched
  BY DEF IOTypeInv, TypeInv, TypeOK
<1>1. CASE UserCall
  BY <1>1, <1>t DEF UserCall, Start, Schedule, ScheduleBatch, history, Launched, flags
<1>2. CASE StopCall
  BY <1>2, <1>t DEF StopCall, StopSet, RootReturn, JoinAll, history
<1>3. ASSUME NEW w \in Threads, Take(w) \/ OtherStep(w)
      PROVE  /\ UNCHANGED <<work, hands, late, idleTerm, mainPc>>
             /\ \E label \in WorkerPc :
                  /\ pc' = [pc EXCEPT ![w] = label]
                  /\ label # pc[w] => label # "off" /\ pc[w] \notin {"idle", "done", "off"}
                  /\ label \in {"idle", "done"} => pc[w] = "noTask"
                  /\ label = "idle" => ~ idleTerm[w]
                  /\ label = "done" => idleTerm[w]
  <2>1. ASSUME NEW label \in WorkerPc, pc[w] \notin {"idle", "done", "off"}, Goto(w, label),
               label \notin {"off", "idle", "done"}
        PROVE  \E l \in WorkerPc :
                  /\ pc' = [pc EXCEPT ![w] = l]
                  /\ l # pc[w] => l # "off" /\ pc[w] \notin {"idle", "done", "off"}
                  /\ l \in {"idle", "done"} => pc[w] = "noTask"
                  /\ l = "idle" => ~ idleTerm[w]
                  /\ l = "done" => idleTerm[w]
    BY <2>1 DEF Goto
  <2>2. CASE IdleExit(w) \/ IdleEnter(w)
    BY <1>3, <2>2 DEF IdleExit, IdleEnter, Goto, WorkerPc, IdlePc, Take, TakeTask, OtherStep, history, flags
  <2>3. CASE TakeTask(w) \/ FindNothing(w) \/ Dispatch(w) \/ SwapIn(w) \/ Returned(w)
             \/ Requeue(w) \/ LookAfter(w) \/ SetHold(w) \/ IdleLeave(w)
    <3>1. UNCHANGED <<work, hands, late, idleTerm, mainPc>>
      BY <1>3, <2>3 DEF Take, OtherStep, TakeTask, FindNothing, Dispatch, SwapIn, Returned, Requeue,
                        LookAfter, SetHold, IdleLeave, Abort, history, flags
    <3>2. pc[w] \notin {"idle", "done", "off"}
      BY <2>3 DEF TakeTask, FindNothing, Dispatch, SwapIn, Returned, Requeue, LookAfter,
                  SetHold, IdleLeave
    <3>3. \E label \in WorkerPc \ {"off", "idle", "done"} : Goto(w, label)
      BY <2>3 DEF TakeTask, FindNothing, Dispatch, SwapIn, Returned, Requeue, LookAfter, SetHold,
                  IdleLeave, Abort, WorkerPc, HoldsPc, ActivePc, OnStackPc, IdlePc
    <3> QED BY <2>1, <3>1, <3>2, <3>3
  <2>4. CASE \/ \E g \in Fibers, t \in Affinities : Spawn(w, g, t)
             \/ \E t \in Threads : SwitchTo(w, t)
             \/ YieldToHold(w) \/ YieldToReady(w) \/ SwapOut(w)
             \/ \E s \in Finished : Finish(w, s)
    <3>1. UNCHANGED <<work, hands, late, idleTerm, mainPc>>
      BY <1>3, <2>4 DEF Take, OtherStep, TakeTask, Spawn, SwitchTo, YieldToHold, YieldToReady, SwapOut,
                        Finish, Abort, history, flags
    <3>2. pc[w] \notin {"idle", "done", "off"}
      BY <2>4 DEF Spawn, SwitchTo, YieldToHold, YieldToReady, SwapOut, Finish
    <3>3. pc' = pc \/ \E label \in WorkerPc \ {"off", "idle", "done"} : Goto(w, label)
      BY <2>4 DEF Spawn, SwitchTo, YieldToHold, YieldToReady, SwapOut, Finish, Abort,
                  WorkerPc, HoldsPc, ActivePc, OnStackPc, IdlePc
    <3>4. pc' = pc => Goto(w, pc[w]) /\ pc[w] \in WorkerPc
      BY <1>t DEF Goto
    <3> QED BY <2>1, <3>1, <3>2, <3>3, <3>4
  <2> QED BY <1>3, <2>2, <2>3, <2>4 DEF Take, OtherStep
<1>4. ASSUME NEW w \in Threads, Take(w) \/ OtherStep(w)
      PROVE  /\ UNCHANGED <<work, hands, late, idleTerm, mainPc>>
             /\ \A v \in Threads : pc'[v] # pc[v] =>
                  /\ pc'[v] # "off" /\ pc[v] \notin {"idle", "done", "off"}
                  /\ pc'[v] \in {"idle", "done"} => pc[v] = "noTask"
                  /\ pc'[v] = "idle" => ~ idleTerm[v]
                  /\ pc'[v] = "done" => idleTerm[v]
  <2>1. PICK label \in WorkerPc :
          /\ pc' = [pc EXCEPT ![w] = label]
          /\ label # pc[w] => label # "off" /\ pc[w] \notin {"idle", "done", "off"}
          /\ label \in {"idle", "done"} => pc[w] = "noTask"
          /\ label = "idle" => ~ idleTerm[w]
          /\ label = "done" => idleTerm[w]
    BY <1>3, <1>4
  <2> QED BY <1>t, <1>3, <1>4, <2>1
<1> QED BY <1>1, <1>2, <1>4 DEF Inherited

\* There is one caller of stop().
LEMMA RootOne == \A v, w \in Root : v = w
<1> SUFFICES ASSUME NEW v \in Root, NEW w \in Root, v # w PROVE FALSE
  OBVIOUS
<1>1. IsFiniteSet(Root)
  BY ConstantsAssumption, FS_Subset DEF Threads
<1>2. IsFiniteSet({v}) /\ Cardinality({v}) = 1
  BY FS_Singleton
<1>3. IsFiniteSet({v} \cup {w}) /\ Cardinality({v} \cup {w}) = 2
  BY <1>2, FS_AddElement
<1>4. Cardinality({v} \cup {w}) \leq Cardinality(Root)
  BY <1>1, FS_Subset
<1>5. Cardinality(Root) \in Nat
  BY <1>1, FS_CardinalityType
<1> QED BY <1>3, <1>4, <1>5, ConstantsAssumption

\* What the steps of an idle thread past stopping() do: w is idle, and stays so until its
\* idle fiber yields.
Polls(w) ==
    \/ \E ready \in SUBSET Fibers : Poll(w, ready)
    \/ \E due \in SUBSET Fibers : Expire(w, due)
    \/ ScheduleExpired(w)
    \/ \E f \in Fibers : Skip(w, f) \/ Serve(w, f)
    \/ Count(w) \/ IdleYield(w)

Asks(w) == AskTimers(w) \/ AskPending(w) \/ AskScheduler(w)

LEMMA PollKeeps ==
    ASSUME IOTypeInv, NEW w \in Threads, Polls(w)
    PROVE  /\ pc[w] = "idle" /\ place[w] \notin {"ask", "noTimer", "noPending"}
           /\ pc' = [pc EXCEPT ![w] = pc'[w]] /\ pc'[w] \in {"idle", "idleBack"}
           /\ \E p \in Place \ {"noTimer", "noPending"} :
                /\ place' = [place EXCEPT ![w] = p]
                /\ p = "ask" <=> pc'[w] = "idleBack"
           /\ timers' \subseteq timers /\ events' \subseteq events
           /\ UNCHANGED <<flags, idleTerm, late, m_state, ft>>
<1> USE DEF At, MainAt, InIdle
<1>t. pc \in [Threads -> WorkerPc] /\ place \in [Threads -> Place]
  BY DEF IOTypeInv, TypeInv, TypeOK, IOTypes
<1>1. CASE IdleYield(w)
  BY <1>1, <1>t DEF IdleYield, Goto, MoveTo, Place, work, history
<1>2. CASE ~ IdleYield(w)
  <2>1. \/ \E ready \in SUBSET Fibers : Poll(w, ready)
        \/ \E due \in SUBSET Fibers : Expire(w, due)
        \/ ScheduleExpired(w)
        \/ \E f \in Fibers : Skip(w, f)
        \/ \E f \in Fibers : Serve(w, f)
        \/ Count(w)
    BY <1>2 DEF Polls
  <2>2. pc[w] = "idle" /\ pc' = pc /\ UNCHANGED <<flags, idleTerm, late, m_state, ft>>
    BY <2>1 DEF Poll, Expire, ScheduleExpired, Skip, Serve, Count, vars, history
  <2>3. timers' \subseteq timers /\ events' \subseteq events
    BY <2>1 DEF Poll, Expire, ScheduleExpired, Skip, Serve, Count, work
  <2>4. /\ place[w] \notin {"ask", "noTimer", "noPending"}
        /\ \E p \in Place \ {"noTimer", "noPending", "ask"} : place' = [place EXCEPT ![w] = p]
    BY <2>1, <1>t DEF Poll, Expire, ScheduleExpired, Skip, Serve, Count, MoveTo, Place
  <2> QED BY <1>t, <2>2, <2>3, <2>4
<1> QED BY <1>1, <1>2

\* What a question of stopping() does: it goes one place further, or it is answered.
LEMMA AskKeeps ==
    ASSUME IOTypeInv, NEW w \in Threads, Asks(w)
    PROVE  /\ InIdle(w) \/ InStop(w)
           /\ place[w] \in {"ask", "noTimer", "noPending"} /\ UNCHANGED <<work, reported, cbs, history>>
           /\ \/ place[w] = "ask" /\ timers = {} /\ Advance(w, "noTimer")
              \/ place[w] = "noTimer" /\ m_pendingEventCount = 0 /\ Advance(w, "noPending")
              \/ Answer(w, FALSE)
              \/ place[w] = "noPending" /\ Stopping /\ Answer(w, TRUE)
<1>1. InIdle(w) \/ InStop(w)
  BY DEF Asks, AskTimers, AskPending, AskScheduler
<1>2. place[w] \in {"ask", "noTimer", "noPending"}
  BY DEF Asks, AskTimers, AskPending, AskScheduler
<1>3. \/ place[w] = "ask" /\ timers = {} /\ Advance(w, "noTimer")
      \/ place[w] = "noTimer" /\ m_pendingEventCount = 0 /\ Advance(w, "noPending")
      \/ Answer(w, FALSE)
      \/ place[w] = "noPending" /\ Stopping /\ Answer(w, TRUE)
  <2>1. CASE AskScheduler(w)
    <3>1. Stopping = TRUE \/ Stopping = FALSE
      BY DEF Stopping
    <3> QED BY <2>1, <3>1 DEF AskScheduler
  <2> QED BY <2>1 DEF Asks, AskTimers, AskPending
<1>4. UNCHANGED <<work, reported, cbs, history>>
  BY <1>3 DEF Answer, Advance
<1> QED BY <1>1, <1>2, <1>3, <1>4

\* The calls of a fiber, or of the user, that make timers and events.
FiberCalls(w) == WaitEvent(w) \/ WakeSleeper(w) \/ \E g \in Fibers : Sleep(w, g)

LEMMA CallKeeps ==
    ASSUME IOTypeInv, NEW w \in Threads, FiberCalls(w)
    PROVE  /\ pc[w] = "exec" /\ pc' = [pc EXCEPT ![w] = pc'[w]] /\ pc'[w] \in {"exec", "yieldHold"}
           /\ UNCHANGED <<flags, idleTerm, m_state, ft, hands>>
           /\ late' \in BOOLEAN /\ (late => late')
           /\ ~ late' => ~ idleTerm[w] \/ UNCHANGED <<timers, events>>
<1>t. pc \in [Threads -> WorkerPc] /\ late \in BOOLEAN /\ idleTerm[w] \in BOOLEAN
  BY DEF IOTypeInv, TypeInv, TypeOK, IOTypes
<1>1. CASE WaitEvent(w)
  BY <1>1, <1>t DEF WaitEvent, Wait, Calls, At, Goto, Later
<1>2. CASE WakeSleeper(w)
  BY <1>2, <1>t DEF WakeSleeper, At, history
<1>3. ASSUME NEW g \in Fibers, Sleep(w, g)
      PROVE  /\ pc[w] = "exec" /\ pc' = [pc EXCEPT ![w] = pc'[w]] /\ pc'[w] \in {"exec", "yieldHold"}
             /\ UNCHANGED <<flags, idleTerm, m_state, ft, hands>>
             /\ late' \in BOOLEAN /\ (late => late')
             /\ ~ late' => ~ idleTerm[w]
  BY <1>3, <1>t DEF Sleep, Calls, At, Goto, Later
<1> QED BY <1>1, <1>2, <1>3 DEF FiberCalls

\* The steps of IONext, by these names.
LEMMA StepKinds ==
    ASSUME [IONext]_ioVars
    PROVE  \/ Inherited
           \/ IOStopBegin
           \/ \E w \in Threads : Asks(w)
           \/ \E w \in Threads : Polls(w)
           \/ \E g \in Fibers : AddTimer(g)
           \/ \E w \in Threads : FiberCalls(w)
           \/ UNCHANGED ioVars
<1>1. ASSUME NEW w \in Threads, IdleStep(w) PROVE Asks(w) \/ Polls(w)
  BY <1>1 DEF IdleStep, Asks, Polls
<1>2. ASSUME NEW w \in Threads, ThreadStep(w)
      PROVE  Inherited \/ Asks(w) \/ Polls(w) \/ FiberCalls(w)
  BY <1>1, <1>2 DEF ThreadStep, Inherited, FiberCalls
<1> QED BY <1>2 DEF IONext, Inherited, Terminated

LEMMA NextPlaceInv == IOTypeInv /\ PlaceInv /\ [IONext]_ioVars => PlaceInv'
<1> SUFFICES ASSUME IOTypeInv, PlaceInv, [IONext]_ioVars PROVE PlaceInv'
  OBVIOUS
<1> USE DEF At, MainAt, InIdle, InStop
<1>t. /\ pc \in [Threads -> WorkerPc] /\ idleTerm \in [Threads -> BOOLEAN]
      /\ place \in [Threads -> Place] /\ cbs \in [Threads -> SUBSET Fibers] /\ Launched
      /\ Root \subseteq Threads
  BY DEF IOTypeInv, TypeInv, TypeOK, IOTypes, Threads
<1>1. ASSUME Inherited PROVE PlaceInv'
  <2>1. UNCHANGED <<place, cbs, idleTerm>>
    BY <1>1, InheritedKeeps DEF hands
  <2>2. mainPc = "rootCheck" => mainPc' = "rootCheck"
    BY <1>1, InheritedKeeps
  <2>3. \A w \in Threads : pc[w] = "idle" => pc'[w] = "idle"
    BY <1>1, InheritedKeeps
  <2>4. \A w \in Threads : pc'[w] \in {"off", "idle"} => ~ idleTerm[w]
    BY <1>1, InheritedKeeps DEF PlaceInv
  <2> QED BY <2>1, <2>2, <2>3, <2>4 DEF PlaceInv
<1>2. ASSUME IOStopBegin PROVE PlaceInv'
  BY <1>2 DEF IOStopBegin, PlaceInv, hands
<1>3. ASSUME NEW w \in Threads, Asks(w) PROVE PlaceInv'
  <2>k. InIdle(w) \/ InStop(w)
    BY <1>3, AskKeeps
  <2>c. cbs[w] = {} /\ cbs' = cbs
    BY <1>3, AskKeeps DEF PlaceInv
  <2>1. ASSUME NEW p \in {"noTimer", "noPending"}, Advance(w, p) PROVE PlaceInv'
    <3>1. place' = [place EXCEPT ![w] = p] /\ UNCHANGED <<pc, idleTerm, mainPc>>
      BY <2>1 DEF Advance, MoveTo, vars, flags
    <3> QED BY <1>t, <2>k, <2>c, <3>1 DEF PlaceInv
  <2>2. ASSUME NEW yes \in BOOLEAN, Answer(w, yes) PROVE PlaceInv'
    <3>1. CASE InIdle(w)
      <4>1. /\ place' = [place EXCEPT ![w] = IF yes THEN "ask" ELSE "poll"]
            /\ idleTerm' = [idleTerm EXCEPT ![w] = yes]
            /\ pc' = [pc EXCEPT ![w] = IF yes THEN "idleBack" ELSE "idle"] /\ UNCHANGED mainPc
        BY <1>t, <2>2, <3>1 DEF Answer, MoveTo, Goto
      <4> QED BY <1>t, <2>c, <3>1, <4>1 DEF PlaceInv
    <3>2. CASE ~ InIdle(w)
      <4>1. /\ place' = [place EXCEPT ![w] = "ask"] /\ UNCHANGED idleTerm
            /\ pc' = [pc EXCEPT ![w] = IF yes THEN pc[w] ELSE "fetch"]
            /\ w \in Root /\ mainPc = "rootCheck"
        BY <1>t, <2>2, <2>k, <3>2 DEF Answer, MoveTo, Goto
      <4>2. \A v \in Root : pc[v] = "off"
        BY <1>t, <4>1 DEF Launched
      <4>3. ASSUME NEW v \in Threads, v # w, place[v] # "ask" PROVE pc[v] = "idle"
        BY RootOne, <4>1, <4>3 DEF PlaceInv
      <4> QED BY <1>t, <2>c, <4>1, <4>2, <4>3 DEF PlaceInv
    <3> QED BY <3>1, <3>2
  <2> QED BY <1>3, AskKeeps, <2>1, <2>2
<1>4. ASSUME NEW w \in Threads, Polls(w) PROVE PlaceInv'
  <2>1. PICK p \in Place \ {"noTimer", "noPending"} :
          /\ place' = [place EXCEPT ![w] = p] /\ (p = "ask" <=> pc'[w] = "idleBack")
    BY <1>4, PollKeeps
  <2>2. /\ pc[w] = "idle" /\ pc' = [pc EXCEPT ![w] = pc'[w]] /\ pc'[w] \in {"idle", "idleBack"}
        /\ UNCHANGED <<idleTerm, mainPc>> /\ place[w] \notin {"ask", "noTimer", "noPending"}
    BY <1>4, PollKeeps DEF flags
  <2>3. \A v \in Threads : cbs'[v] # {} => place'[v] = "schedule"
    BY <1>4, <1>t DEF Polls, Poll, Expire, ScheduleExpired, Skip, Serve, Count, IdleYield, MoveTo, PlaceInv
  <2> QED BY <1>t, <2>1, <2>2, <2>3 DEF PlaceInv
<1>5. ASSUME NEW g \in Fibers, AddTimer(g) PROVE PlaceInv'
  BY <1>5 DEF AddTimer, PlaceInv, hands, flags
<1>6. ASSUME NEW w \in Threads, FiberCalls(w) PROVE PlaceInv'
  BY <1>6, <1>t, CallKeeps DEF PlaceInv, hands, flags
<1>7. ASSUME UNCHANGED ioVars PROVE PlaceInv'
  BY <1>7 DEF ioVars, vars, hands, flags, PlaceInv
<1> QED BY <1>1, <1>2, <1>3, <1>4, <1>5, <1>6, <1>7, StepKinds

\* Moving one thread to another place changes the number of threads at "count" by one
\* when it enters or leaves that place, and not at all otherwise.
LEMMA UncountedMoves ==
    ASSUME IOTypeInv, NEW w \in Threads, NEW p, MoveTo(w, p)
    PROVE  /\ Cardinality(Uncounted) \in Nat /\ Cardinality(Uncounted)' \in Nat
           /\ Cardinality(Uncounted)' = Cardinality(Uncounted)
                + (IF p = "count" THEN 1 ELSE 0) - (IF place[w] = "count" THEN 1 ELSE 0)
<1>t. place \in [Threads -> Place]
  BY DEF IOTypeInv, IOTypes
<1>1. IsFiniteSet(Uncounted) /\ Cardinality(Uncounted) \in Nat
  BY ConstantsAssumption, FS_Subset, FS_CardinalityType DEF Uncounted
<1>2. CASE p = "count"
  <2>1. Uncounted' = Uncounted \cup {w} /\ (w \in Uncounted <=> place[w] = "count")
    BY <1>t, <1>2 DEF Uncounted, MoveTo
  <2> QED BY <1>1, <1>2, <2>1, FS_AddElement, FS_CardinalityType
<1>3. CASE p # "count"
  <2>1. Uncounted' = Uncounted \ {w} /\ (w \in Uncounted <=> place[w] = "count")
    BY <1>t, <1>3 DEF Uncounted, MoveTo
  <2>2. /\ IsFiniteSet(Uncounted \ {w}) /\ Cardinality(Uncounted \ {w}) \in Nat
        /\ Cardinality(Uncounted \ {w}) =
             IF w \in Uncounted THEN Cardinality(Uncounted) - 1 ELSE Cardinality(Uncounted)
    BY <1>1, FS_RemoveElement, FS_CardinalityType
  <2> QED BY <1>1, <1>3, <2>1, <2>2
<1> QED BY <1>2, <1>3

LEMMA NextPendingInv == IOTypeInv /\ PendingInv /\ [IONext]_ioVars => PendingInv'
<1> SUFFICES ASSUME IOTypeInv, PendingInv, [IONext]_ioVars PROVE PendingInv'
  OBVIOUS
<1>t. /\ IsFiniteSet(events) /\ m_pendingEventCount \in Int /\ place \in [Threads -> Place]
      /\ Cardinality(events) \in Nat
  BY FS_CardinalityType DEF IOTypeInv, IOTypes
<1>0. ASSUME UNCHANGED <<events, m_pendingEventCount, place>> PROVE PendingInv'
  BY <1>0 DEF PendingInv, Uncounted
<1>m. ASSUME NEW w \in Threads, NEW p, MoveTo(w, p), p # "count", place[w] # "count",
             UNCHANGED <<events, m_pendingEventCount>>
      PROVE  PendingInv'
  BY <1>m, <1>t, UncountedMoves DEF PendingInv
<1>1. ASSUME Inherited PROVE PendingInv'
  BY <1>0, <1>1, InheritedKeeps DEF work, hands
<1>2. ASSUME IOStopBegin PROVE PendingInv'
  BY <1>0, <1>2 DEF IOStopBegin, work, hands
<1>3. ASSUME NEW w \in Threads, Asks(w) PROVE PendingInv'
  <2>1. /\ place[w] # "count" /\ UNCHANGED <<events, m_pendingEventCount>>
        /\ \E p \in Place \ {"count"} : MoveTo(w, p)
    BY <1>3, AskKeeps DEF work, Answer, Advance, Place
  <2> QED BY <1>m, <2>1
<1>4. ASSUME NEW w \in Threads, Polls(w) PROVE PendingInv'
  <2>1. ASSUME NEW f \in Fibers, Serve(w, f) PROVE PendingInv'
    <3>1. /\ events' = events \ {f} /\ f \in events /\ UNCHANGED m_pendingEventCount
          /\ MoveTo(w, "count") /\ place[w] # "count"
      BY <2>1 DEF Serve
    <3>2. Cardinality(events)' = Cardinality(events) - 1
      BY <1>t, <3>1, FS_RemoveElement
    <3>3. Cardinality(Uncounted) \in Nat /\ Cardinality(Uncounted)' = Cardinality(Uncounted) + 1
      BY <3>1, UncountedMoves
    <3> QED BY <1>t, <3>1, <3>2, <3>3 DEF PendingInv
  <2>2. ASSUME Count(w) PROVE PendingInv'
    <3>1. /\ UNCHANGED events /\ m_pendingEventCount' = m_pendingEventCount - 1
          /\ MoveTo(w, "serve") /\ place[w] = "count"
      BY <2>2 DEF Count
    <3>2. Cardinality(Uncounted) \in Nat /\ Cardinality(Uncounted)' = Cardinality(Uncounted) - 1
      BY <3>1, UncountedMoves
    <3> QED BY <1>t, <3>1, <3>2 DEF PendingInv
  <2>3. ASSUME NEW f \in Fibers, Skip(w, f) PROVE PendingInv'
    BY <1>0, <2>3 DEF Skip, work
  <2>4. ASSUME \/ \E ready \in SUBSET Fibers : Poll(w, ready)
               \/ \E due \in SUBSET Fibers : Expire(w, due)
               \/ ScheduleExpired(w) \/ IdleYield(w)
        PROVE  PendingInv'
    <3>1. /\ UNCHANGED <<events, m_pendingEventCount>> /\ place[w] # "count"
          /\ \E p \in Place \ {"count"} : MoveTo(w, p)
      BY <2>4 DEF Poll, Expire, ScheduleExpired, IdleYield, work, Place
    <3> QED BY <1>m, <3>1
  <2> QED BY <1>4, <2>1, <2>2, <2>3, <2>4 DEF Polls
<1>5. ASSUME NEW g \in Fibers, AddTimer(g) PROVE PendingInv'
  BY <1>0, <1>5 DEF AddTimer, hands
<1>6. ASSUME NEW w \in Threads, FiberCalls(w) PROVE PendingInv'
  <2>1. CASE WaitEvent(w)
    <3>1. /\ events' = events \cup {Cur(w)} /\ m_pendingEventCount' = m_pendingEventCount + 1
          /\ UNCHANGED place
      BY <2>1 DEF WaitEvent, hands
    <3>2. Cardinality(events)' \leq Cardinality(events) + 1 /\ Cardinality(events)' \in Nat
      <4>1. /\ IsFiniteSet(events \cup {Cur(w)})
            /\ \/ Cardinality(events \cup {Cur(w)}) = Cardinality(events)
               \/ Cardinality(events \cup {Cur(w)}) = Cardinality(events) + 1
        BY <1>t, FS_AddElement
      <4> QED BY <1>t, <3>1, <4>1
    <3>3. Uncounted' = Uncounted
      BY <3>1 DEF Uncounted
    <3>4. Cardinality(Uncounted) \in Nat
      BY ConstantsAssumption, FS_Subset, FS_CardinalityType DEF Uncounted
    <3> QED BY <1>t, <3>1, <3>2, <3>3, <3>4 DEF PendingInv
  <2>2. CASE ~ WaitEvent(w)
    BY <1>0, <1>6, <2>2 DEF FiberCalls, WakeSleeper, Sleep, hands
  <2> QED BY <2>1, <2>2
<1>7. ASSUME UNCHANGED ioVars PROVE PendingInv'
  BY <1>0, <1>7 DEF ioVars, work, hands
<1> QED BY <1>1, <1>2, <1>3, <1>4, <1>5, <1>6, <1>7, StepKinds

LEMMA NoneWaitedFor ==
    ASSUME IOTypeInv, PendingInv, m_pendingEventCount = 0
    PROVE  events = {}
<1>1. IsFiniteSet(events) /\ Cardinality(events) \in Nat
  BY FS_CardinalityType DEF IOTypeInv, IOTypes
<1>2. Cardinality(Uncounted) \in Nat
  BY ConstantsAssumption, FS_Subset, FS_CardinalityType DEF Uncounted
<1>3. Cardinality(events) = 0
  BY <1>1, <1>2 DEF PendingInv
<1> QED BY <1>1, <1>3, FS_EmptySet

\* Thread w moves, and at most the state of its own fiber changes.
LEMMA ExecMoves ==
    ASSUME TypeInv, ExecHeld, NEW w \in Threads, NEW label, pc' = [pc EXCEPT ![w] = label],
           \A v \in Threads \ {w} : ft'[v] = ft[v],
           \A f \in Fibers : m_state'[f] = "EXEC" =>
               m_state[f] = "EXEC" \/ (label = "exec" /\ Cur(w)' = f),
           pc[w] \in {"exec", "yieldHold"} =>
               \/ label \in {"exec", "yieldHold"} /\ UNCHANGED ft
               \/ m_state'[Cur(w)] # "EXEC"
    PROVE  ExecHeld'
<1>t. pc \in [Threads -> WorkerPc]
  BY DEF TypeInv, TypeOK
<1> SUFFICES ASSUME NEW f \in Fibers, m_state'[f] = "EXEC"
             PROVE  \E v \in Threads : pc'[v] \in {"exec", "yieldHold"} /\ Cur(v)' = f
  BY DEF ExecHeld
<1>1. CASE label = "exec" /\ Cur(w)' = f
  BY <1>t, <1>1
<1>2. CASE m_state[f] = "EXEC"
  <2>1. PICK v \in Threads : pc[v] \in {"exec", "yieldHold"} /\ Cur(v) = f
    BY <1>2 DEF ExecHeld
  <2>2. CASE v = w
    BY <1>t, <2>1, <2>2 DEF Cur
  <2>3. CASE v # w
    BY <1>t, <2>1, <2>3 DEF Cur
  <2> QED BY <2>2, <2>3
<1> QED BY <1>1, <1>2

LEMMA ExecStays ==
    ASSUME ExecHeld, UNCHANGED <<m_state, ft>>,
           \A w \in Threads : pc[w] \in {"exec", "yieldHold"} => pc'[w] \in {"exec", "yieldHold"}
    PROVE  ExecHeld'
  BY DEF ExecHeld, Cur

LEMMA NextExecHeld == IOTypeInv /\ ExecHeld /\ [IONext]_ioVars => ExecHeld'
<1> SUFFICES ASSUME IOTypeInv, ExecHeld, [IONext]_ioVars PROVE ExecHeld'
  OBVIOUS
<1> USE DEF At, MainAt
<1>t. /\ TypeInv /\ HeldItem /\ pc \in [Threads -> WorkerPc]
      /\ ft \in [Threads -> QueueItem \cup {NoItem}] /\ m_state \in [Fibers -> FiberState]
      /\ \A w \in Threads : pc[w] = "off" \/ ~ (mainPc = "init")
  BY DEF IOTypeInv, TypeInv, TypeOK, Launched
<1>1. ASSUME UserCall \/ StopCall \/ IOStopBegin PROVE ExecHeld'
  <2>1. UNCHANGED <<m_state, ft>>
    BY <1>1 DEF UserCall, StopCall, IOStopBegin, Start, Schedule, ScheduleBatch, StopSet,
                RootReturn, JoinAll
  <2>2. pc' = pc \/ mainPc = "init"
    BY <1>1 DEF UserCall, StopCall, IOStopBegin, Start, Schedule, ScheduleBatch, StopSet,
                RootReturn, JoinAll
  <2> QED BY <1>t, <2>1, <2>2, ExecStays
<1>2. ASSUME NEW w \in Threads, Asks(w) PROVE ExecHeld'
  <2>1. InIdle(w) \/ (InStop(w) /\ pc[w] = "off")
    BY <1>2, AskKeeps DEF InStop, IOTypeInv, TypeInv, Launched
  <2>2. UNCHANGED <<m_state, ft>>
    BY <1>2, AskKeeps DEF Answer, Advance, vars
  <2>3. pc' = pc \/ \E label : Goto(w, label)
    BY <1>2, AskKeeps DEF Answer, Advance, vars
  <2> QED BY <1>t, <2>1, <2>2, <2>3, ExecStays DEF Goto, InIdle
<1>3. ASSUME NEW w \in Threads, Polls(w) PROVE ExecHeld'
  BY <1>3, <1>t, PollKeeps, ExecStays
<1>4. ASSUME NEW g \in Fibers, AddTimer(g) PROVE ExecHeld'
  BY <1>4, ExecStays DEF AddTimer
<1>5. ASSUME NEW w \in Threads, FiberCalls(w) PROVE ExecHeld'
  BY <1>5, <1>t, CallKeeps, ExecStays
<1>6. ASSUME NEW w \in Threads, Take(w) PROVE ExecHeld'
  <2>1. /\ pc[w] = "fetch" /\ pc' = [pc EXCEPT ![w] = "dispatch"] /\ UNCHANGED m_state
        /\ \A v \in Threads \ {w} : ft'[v] = ft[v]
    BY <1>6, <1>t DEF Take, TakeTask, Goto
  <2> QED BY <1>t, <2>1, ExecMoves
<1>7. ASSUME NEW w \in Threads, OtherStep(w) PROVE ExecHeld'
  <2>c. pc[w] \in HoldsPc => Cur(w) \in Fibers
    BY <1>t, CurType
  <2>1. ASSUME FindNothing(w) \/ IdleExit(w) \/ IdleEnter(w) \/ IdleLeave(w) \/ Returned(w)
               \/ SwapOut(w) \/ \E t \in Threads : SwitchTo(w, t)
        PROVE  ExecHeld'
    <3>1. UNCHANGED <<m_state, ft>> /\ \E label : Goto(w, label)
      BY <2>1 DEF FindNothing, IdleExit, IdleEnter, IdleLeave, Returned, SwapOut, SwitchTo
    <3>2. pc[w] \in {"exec", "yieldHold"} => pc'[w] = "yieldHold"
      BY <1>t, <2>1 DEF FindNothing, IdleExit, IdleEnter, IdleLeave, Returned, SwapOut, SwitchTo, Goto
    <3> QED BY <1>t, <3>1, <3>2, ExecStays DEF Goto
  <2>2. ASSUME NEW g \in Fibers, NEW t \in Affinities, Spawn(w, g, t) PROVE ExecHeld'
    BY <2>2, ExecStays DEF Spawn
  <2>3. ASSUME Dispatch(w) \/ Requeue(w) \/ LookAfter(w) \/ SetHold(w) PROVE ExecHeld'
    <3>1. PICK label \in {"swapIn", "fetch", "setHold"} : pc' = [pc EXCEPT ![w] = label]
      BY <2>3 DEF Dispatch, Requeue, LookAfter, SetHold, Goto
    <3>2. /\ pc[w] \notin {"exec", "yieldHold"}
          /\ \A v \in Threads \ {w} : ft'[v] = ft[v]
          /\ \A f \in Fibers : m_state'[f] = "EXEC" => m_state[f] = "EXEC"
      BY <1>t, <2>3 DEF Dispatch, Requeue, LookAfter, SetHold
    <3> QED BY <1>t, <3>1, <3>2, ExecMoves
  <2>4. ASSUME SwapIn(w) PROVE ExecHeld'
    <3>1. PICK label \in {"exec", "abort"} : pc' = [pc EXCEPT ![w] = label]
      BY <2>4 DEF SwapIn, Abort, Goto
    <3>2. pc[w] = "swapIn" /\ UNCHANGED ft
      BY <2>4 DEF SwapIn, Abort
    <3>3. ASSUME NEW f \in Fibers, m_state'[f] = "EXEC"
          PROVE  m_state[f] = "EXEC" \/ (label = "exec" /\ Cur(w)' = f)
      BY <1>t, <2>4, <3>1, <3>2, <3>3 DEF SwapIn, Abort, Goto, Cur
    <3> QED BY <1>t, <3>1, <3>2, <3>3, ExecMoves
  <2>5. ASSUME YieldToHold(w) \/ YieldToReady(w) \/ \E s \in Finished : Finish(w, s)
        PROVE  ExecHeld'
    <3>1. PICK label \in {"swapOut", "abort"} : pc' = [pc EXCEPT ![w] = label]
      BY <2>5 DEF YieldToHold, YieldToReady, Finish, Abort, Goto
    <3>2. UNCHANGED ft /\ pc[w] \in HoldsPc
      BY <2>5 DEF YieldToHold, YieldToReady, Finish, Abort, HoldsPc, ActivePc, OnStackPc
    <3>3. m_state'[Cur(w)] # "EXEC" /\ \A f \in Fibers : m_state'[f] = "EXEC" => m_state[f] = "EXEC"
      BY <1>t, <2>5, <2>c, <3>2 DEF YieldToHold, YieldToReady, Finish, Abort, Finished
    <3> QED BY <1>t, <3>1, <3>2, <3>3, ExecMoves
  <2> QED BY <1>7, <2>1, <2>2, <2>3, <2>4, <2>5 DEF OtherStep
<1>8. ASSUME UNCHANGED ioVars PROVE ExecHeld'
  BY <1>8, ExecStays DEF ioVars, vars
<1> QED BY <1>1, <1>2, <1>3, <1>4, <1>5, <1>6, <1>7, <1>8, StepKinds DEF Inherited

-----------------------------------------------------------------------------
(* An unpinned task in the queue has a thread that looks at it.            *)

\* A task that a thread passes over although it is unpinned is executed by another one,
\* which looks at the queue again.
LEMMA PassedOver ==
    ASSUME TypeInv, ExecHeld, NEW w \in Threads, FindNothing(w), UnpinnedQueued
    PROVE  \E v \in Threads \ {w} : Looks(v)
<1>t. m_fibers \in Seq(QueueItem)
  BY DEF TypeInv, TypeOK
<1>1. PICK i \in DOMAIN m_fibers : m_fibers[i].thread = AnyThread
  BY DEF UnpinnedQueued
<1>2. m_fibers[i] \in QueueItem
  <2>1. i \in 1 .. Len(m_fibers)
    BY <1>t, LenProperties
  <2> QED BY <1>t, <2>1, ElementOfSeq
<1>3. m_fibers[i].fiber \in Fibers /\ m_state[m_fibers[i].fiber] = "EXEC"
  BY <1>1, <1>2 DEF QueueItem, FindNothing, Takeable
<1>4. PICK v \in Threads : pc[v] \in {"exec", "yieldHold"}
  BY <1>3 DEF ExecHeld
<1>5. v # w /\ Looks(v)
  BY <1>4 DEF FindNothing, At, Looks
<1> QED BY <1>5

\* Nobody moves, and what enters the queue has a thread that looks.
LEMMA EndStays ==
    ASSUME EndInv, UNCHANGED <<flags, pc, idleTerm>>,
           UnpinnedQueued' => UnpinnedQueued \/ \E w \in Threads : Looks(w)
    PROVE  EndInv'
<1>1. \A w \in Threads : Looks(w)' <=> Looks(w)
  BY DEF Looks
<1> QED BY <1>1 DEF EndInv, flags

\* stopping() answers: an idle fiber that ends still has a thread that looks once more.
LEMMA AnswerEnd ==
    ASSUME TypeInv, EndInv, NEW w \in Threads, InIdle(w) \/ InStop(w),
           \/ Answer(w, FALSE)
           \/ Stopping /\ Answer(w, TRUE)
    PROVE  EndInv'
<1> USE ConstantsAssumption DEF At, MainAt, InIdle, InStop
<1>t. /\ pc \in [Threads -> WorkerPc] /\ idleTerm \in [Threads -> BOOLEAN] /\ Launched
      /\ Pool \subseteq Threads /\ Root \subseteq Threads
  BY DEF TypeInv, TypeOK, Threads
<1>1. PICK yes \in BOOLEAN : Answer(w, yes) /\ (yes => Stopping)
  OBVIOUS
<1>q. UNCHANGED <<m_fibers, m_autoStop, m_stopping>> /\ UnpinnedQueued' = UnpinnedQueued
  BY <1>1 DEF Answer, sched, UnpinnedQueued
<1>2. CASE InIdle(w)
  <2>1. /\ pc' = [pc EXCEPT ![w] = IF yes THEN "idleBack" ELSE "idle"]
        /\ idleTerm' = [idleTerm EXCEPT ![w] = yes] /\ UNCHANGED mainPc
    BY <1>t, <1>1, <1>2 DEF Answer, Goto
  <2>2. Looks(w)'
    BY <1>t, <2>1 DEF Looks
  <2>3. yes => m_autoStop /\ m_stopping
    BY <1>1 DEF Stopping
  <2>4. ~ (m_autoStop' /\ m_stopping') => \A v \in Threads : ~ idleTerm'[v] /\ pc'[v] # "done"
    BY <1>t, <1>q, <2>1, <2>3 DEF EndInv
  <2>5. mainPc' # "init" => \A v \in Pool : pc'[v] # "off"
    BY <1>t, <2>1 DEF EndInv
  <2>6. mainPc' \notin {"join", "stopped"} \/ w \notin Root
    BY <1>2, <2>1 DEF EndInv
  <2>7. mainPc' # "stopped"
    BY <1>2, <2>1, <2>6 DEF EndInv, Threads
  <2>8. mainPc' \in {"join", "stopped"} => \A v \in Root : pc'[v] \in {"off", "done"}
    BY <1>t, <2>1, <2>6 DEF EndInv
  <2> QED BY <1>q, <2>1, <2>2, <2>4, <2>5, <2>7, <2>8 DEF EndInv
<1>3. CASE ~ InIdle(w)
  <2>1. /\ w \in Root /\ mainPc = "rootCheck" /\ UNCHANGED idleTerm
        /\ \A v \in Root : pc[v] = "off"
    BY <1>t, <1>1, <1>3 DEF Answer, Launched
  <2>2. CASE yes
    <3>1. mainPc' = "join" /\ pc' = pc /\ ~ UnpinnedQueued'
      BY <1>1, <1>3, <1>q, <2>2 DEF Answer, Stopping, UnpinnedQueued
    <3> QED BY <1>q, <2>1, <3>1 DEF EndInv
  <2>3. CASE ~ yes
    <3>1. mainPc' = "inRoot" /\ pc' = [pc EXCEPT ![w] = "fetch"]
      BY <1>1, <1>3, <2>3 DEF Answer, Goto
    <3>2. Looks(w)'
      BY <1>t, <3>1 DEF Looks
    <3> QED BY <1>t, <1>q, <2>1, <3>1, <3>2 DEF EndInv
  <2> QED BY <2>2, <2>3
<1> QED BY <1>2, <1>3

LEMMA NextIOEndInv == IOTypeInv /\ PlaceInv /\ ExecHeld /\ EndInv /\ [IONext]_ioVars => EndInv'
<1> SUFFICES ASSUME IOTypeInv, PlaceInv, ExecHeld, EndInv, [IONext]_ioVars PROVE EndInv'
  OBVIOUS
<1> USE ConstantsAssumption DEF At, MainAt
<1>t. /\ TypeInv /\ pc \in [Threads -> WorkerPc] /\ idleTerm \in [Threads -> BOOLEAN] /\ Launched
      /\ Pool \subseteq Threads /\ Root \subseteq Threads
  BY DEF IOTypeInv, TypeInv, TypeOK, Threads
<1>0. ASSUME QuietStep PROVE EndInv'
  BY <1>0, <1>t, PassedOver, QuietEndInv
<1>s. ASSUME UNCHANGED <<flags, pc, idleTerm>>,
             m_fibers' = m_fibers \/ \E w \in Threads : Looks(w)
      PROVE  EndInv'
  BY <1>s, EndStays DEF UnpinnedQueued
<1>1. ASSUME Inherited PROVE EndInv'
  BY <1>0, <1>1, InheritedQuiet
<1>2. ASSUME IOStopBegin PROVE EndInv'
  <2>1. mainPc = "user" /\ m_autoStop' /\ UNCHANGED <<pc, idleTerm, m_fibers>>
    BY <1>2 DEF IOStopBegin, sched
  <2>2. (\A w \in Threads : Looks(w)' <=> Looks(w)) /\ (UnpinnedQueued' <=> UnpinnedQueued)
    BY <2>1 DEF Looks, UnpinnedQueued
  <2>3. \A w \in Threads : ~ idleTerm[w] /\ pc[w] # "done"
    BY <2>1 DEF EndInv
  <2>4. CASE mainPc' = "stopSet"
    BY <2>1, <2>2, <2>3, <2>4 DEF EndInv
  <2>5. CASE mainPc' # "stopSet"
    <3>1. mainPc' = "stopped" /\ Pool = {} /\ Stopping'
      BY <1>2, <2>5 DEF IOStopBegin
    <3>2. ~ UnpinnedQueued'
      BY <3>1 DEF Stopping, UnpinnedQueued
    <3>3. \A w \in Root : pc'[w] = "off"
      BY <1>t, <2>1 DEF Launched
    <3> QED BY <2>1, <2>3, <3>1, <3>2, <3>3 DEF EndInv
  <2> QED BY <2>4, <2>5
<1>3. ASSUME NEW w \in Threads, Asks(w) PROVE EndInv'
  <2>1. CASE Answer(w, FALSE) \/ (Stopping /\ Answer(w, TRUE))
    BY <1>t, <1>3, <2>1, AskKeeps, AnswerEnd
  <2>2. CASE \E p : Advance(w, p)
    BY <1>s, <2>2 DEF Advance, vars, sched
  <2> QED BY <1>3, <2>1, <2>2, AskKeeps
<1>4. ASSUME NEW w \in Threads, Polls(w) PROVE EndInv'
  <2>1. pc[w] = "idle" /\ Looks(w)
    BY <1>4, PollKeeps DEF Looks
  <2>2. CASE IdleYield(w)
    <3>1. Goto(w, "idleBack") /\ UNCHANGED <<flags, idleTerm>>
      BY <2>2 DEF IdleYield
    <3> QED BY <1>t, <2>1, <3>1, EndMoves
  <2>3. CASE ~ IdleYield(w)
    <3>1. UNCHANGED <<flags, pc, idleTerm>>
      BY <1>4, <2>3 DEF Polls, Poll, Expire, ScheduleExpired, Skip, Serve, Count, vars
    <3> QED BY <1>s, <2>1, <3>1
  <2> QED BY <2>2, <2>3
<1>5. ASSUME NEW g \in Fibers, AddTimer(g) PROVE EndInv'
  BY <1>5, <1>s DEF AddTimer, sched
<1>6. ASSUME NEW w \in Threads, FiberCalls(w) PROVE EndInv'
  <2>1. pc[w] = "exec" /\ Looks(w)
    BY <1>6, CallKeeps DEF Looks
  <2>2. CASE WaitEvent(w)
    BY <1>0, <2>2, WaitEventQuiet
  <2>3. CASE WakeSleeper(w)
    BY <1>s, <2>1, <2>3 DEF WakeSleeper
  <2>4. ASSUME NEW g \in Fibers, Sleep(w, g) PROVE EndInv'
    <3>1. Goto(w, "yieldHold") /\ UNCHANGED <<flags, idleTerm>>
      BY <2>4 DEF Sleep
    <3> QED BY <1>t, <2>1, <3>1, EndMoves
  <2> QED BY <1>6, <2>2, <2>3, <2>4 DEF FiberCalls
<1>7. ASSUME UNCHANGED ioVars PROVE EndInv'
  BY <1>7, <1>s DEF ioVars, vars, sched
<1> QED BY <1>1, <1>2, <1>3, <1>4, <1>5, <1>6, <1>7, StepKinds

-----------------------------------------------------------------------------
(* A timer or an event has somebody who asks for it.                       *)

\* A step takes the last watcher away only if it has just found nothing to watch.
LEMMA WatchedStays ==
    ASSUME Root # {}, IOTypeInv, PlaceInv, PendingInv, [IONext]_ioVars,
           NEW passed \in {PastTimers, PastEvents}, Watched(passed)
    PROVE  \/ Watched(passed)'
           \/ /\ UNCHANGED <<timers, events>>
              /\ passed = PastTimers => timers = {}
              /\ passed = PastEvents => events = {}
<1> USE DEF At, MainAt, PastTimers, PastEvents
<1>t. /\ pc \in [Threads -> WorkerPc] /\ idleTerm \in [Threads -> BOOLEAN]
      /\ place \in [Threads -> Place] /\ Launched /\ Root \subseteq Threads
  BY DEF IOTypeInv, TypeInv, TypeOK, IOTypes, Threads
<1>1. ASSUME Inherited PROVE Watched(passed)'
  <2>1. UNCHANGED <<place, idleTerm>>
    BY <1>1, InheritedKeeps DEF hands
  <2>2. \A w \in Threads : Stays(w) => Stays(w)'
    BY <1>1, <2>1, InheritedKeeps DEF Stays
  <2>3. mainPc = "stopSet" => \A w \in Root : place[w] = "ask"
    BY <1>t DEF PlaceInv, Launched
  <2>4. \/ mainPc' = mainPc
        \/ mainPc = "init" /\ mainPc' = "user"
        \/ mainPc = "stopSet" /\ mainPc' = "rootCheck"
        \/ mainPc \in {"inRoot", "join"}
    BY <1>1, InheritedKeeps
  <2> QED BY <1>t, <2>1, <2>2, <2>3, <2>4 DEF Watched
<1>2. ASSUME IOStopBegin
      PROVE  Watched(passed)' \/ (UNCHANGED <<timers, events>> /\ timers = {} /\ events = {})
  <2>1. mainPc' = "stopSet" \/ (timers = {} /\ m_pendingEventCount = 0)
    BY <1>2 DEF IOStopBegin
  <2>2. UNCHANGED <<timers, events>>
    BY <1>2 DEF IOStopBegin, work
  <2> QED BY <2>1, <2>2, NoneWaitedFor DEF Watched
<1>3. ASSUME NEW w \in Threads, Asks(w)
      PROVE  \/ Watched(passed)'
             \/ /\ UNCHANGED <<timers, events>>
                /\ passed = PastTimers => timers = {}
                /\ passed = PastEvents => events = {}
  <2>0. /\ InIdle(w) \/ InStop(w)
        /\ place[w] \in {"ask", "noTimer", "noPending"} /\ UNCHANGED <<timers, events>>
    BY <1>3, AskKeeps DEF work
  <2>1. CASE place[w] = "ask" /\ timers = {} /\ Advance(w, "noTimer")
    <3>1. place' = [place EXCEPT ![w] = "noTimer"] /\ UNCHANGED <<mainPc, pc, idleTerm>>
      BY <2>1 DEF Advance, MoveTo, vars, flags
    <3>2. CASE passed = PastEvents
      BY <1>t, <3>1, <3>2 DEF Watched, Stays
    <3> QED BY <2>0, <2>1, <3>2
  <2>2. CASE place[w] = "noTimer" /\ m_pendingEventCount = 0 /\ Advance(w, "noPending")
    <3>1. place' = [place EXCEPT ![w] = "noPending"] /\ UNCHANGED <<mainPc, pc, idleTerm>>
      BY <2>2 DEF Advance, MoveTo, vars, flags
    <3>2. CASE passed = PastTimers
      BY <1>t, <2>2, <3>1, <3>2 DEF Watched, Stays
    <3>3. events = {}
      BY <2>2, NoneWaitedFor
    <3> QED BY <2>0, <3>2, <3>3
  <2>3. CASE Answer(w, FALSE)
    <3>1. pc'[w] \in {"idle", "fetch"} /\ ~ idleTerm'[w]
      BY <1>t, <2>0, <2>3 DEF Answer, InIdle, InStop, Goto, PlaceInv, Launched
    <3>2. place'[w] \in {"poll", "ask"}
      BY <1>t, <2>3 DEF Answer, MoveTo
    <3> QED BY <3>1, <3>2 DEF Watched, Stays
  <2>4. CASE place[w] = "noPending" /\ Answer(w, TRUE)
    <3>1. \A v \in Threads \ {w} :
             place'[v] = place[v] /\ pc'[v] = pc[v] /\ idleTerm'[v] = idleTerm[v]
      BY <1>t, <2>4 DEF Answer, MoveTo, Goto
    <3>2. \A v \in Threads \ {w} : Stays(v) => Stays(v)'
      BY <3>1 DEF Stays
    <3>3. mainPc' = mainPc \/ (w \in Root /\ mainPc = "rootCheck")
      BY <2>0, <2>4 DEF Answer, InStop
    <3> QED BY <1>t, <2>4, <3>1, <3>2, <3>3, RootOne DEF Watched
  <2> QED BY <1>3, <2>1, <2>2, <2>3, <2>4, AskKeeps
<1>4. ASSUME NEW w \in Threads, Polls(w) PROVE Watched(passed)'
  <2>1. PICK p \in Place \ {"noTimer", "noPending"} : place' = [place EXCEPT ![w] = p]
    BY <1>4, PollKeeps
  <2>2. /\ pc' = [pc EXCEPT ![w] = pc'[w]] /\ pc'[w] \in {"idle", "idleBack"}
        /\ UNCHANGED <<mainPc, idleTerm>>
    BY <1>4, PollKeeps DEF flags
  <2>3. \A v \in Threads : Stays(v) => Stays(v)'
    BY <1>t, <2>2 DEF Stays
  <2>4. \A v \in Threads : place[v] \notin passed => place'[v] \notin passed
    BY <1>t, <2>1
  <2> QED BY <1>t, <2>2, <2>3, <2>4 DEF Watched
<1>5. ASSUME NEW g \in Fibers, AddTimer(g) PROVE Watched(passed)'
  BY <1>5 DEF AddTimer, flags, hands, Watched, Stays
<1>6. ASSUME NEW w \in Threads, FiberCalls(w) PROVE Watched(passed)'
  <2>1. /\ pc' = [pc EXCEPT ![w] = pc'[w]] /\ pc'[w] \in {"exec", "yieldHold"}
        /\ UNCHANGED <<mainPc, idleTerm, place>>
    BY <1>6, CallKeeps DEF flags, hands
  <2>2. \A v \in Threads : Stays(v) => Stays(v)'
    BY <1>t, <2>1 DEF Stays
  <2> QED BY <2>1, <2>2 DEF Watched
<1>7. ASSUME UNCHANGED ioVars PROVE Watched(passed)'
  BY <1>7 DEF ioVars, vars, flags, hands, Watched, Stays
<1> QED BY <1>1, <1>2, <1>3, <1>4, <1>5, <1>6, <1>7, StepKinds

\* Whoever makes a timer or an event asks for it later, unless the step is recorded as
\* late.
LEMMA MadeWatched ==
    ASSUME IOTypeInv, PlaceInv, [IONext]_ioVars, NEW passed \in {PastTimers, PastEvents}
    PROVE  /\ late => late'
           /\ \/ timers' \subseteq timers /\ events' \subseteq events
              \/ late' \/ Watched(passed)'
<1> USE DEF At, MainAt
<1>t. /\ pc \in [Threads -> WorkerPc] /\ idleTerm \in [Threads -> BOOLEAN]
      /\ place \in [Threads -> Place] /\ Launched /\ late \in BOOLEAN
  BY DEF IOTypeInv, TypeInv, TypeOK, IOTypes
<1>0. ASSUME NEW w \in Threads, pc[w] = "exec" PROVE place[w] = "ask"
  BY <1>0, <1>t DEF PlaceInv, Launched
<1>1. ASSUME UNCHANGED <<timers, events, late>>
      PROVE  (late => late') /\ timers' \subseteq timers /\ events' \subseteq events
  BY <1>1
<1>2. CASE Inherited \/ IOStopBegin \/ UNCHANGED ioVars
  <2>1. UNCHANGED <<timers, events, late>>
    BY <1>2, InheritedKeeps DEF IOStopBegin, ioVars, work, history
  <2> QED BY <1>1, <2>1
<1>3. CASE \E w \in Threads : Asks(w)
  <2>1. UNCHANGED <<timers, events, late>>
    BY <1>3, AskKeeps DEF work, history
  <2> QED BY <1>1, <2>1
<1>4. CASE \E w \in Threads : Polls(w)
  BY <1>4, PollKeeps
<1>5. ASSUME NEW w \in Threads, pc'[w] \in {"exec", "yieldHold"}, ~ idleTerm'[w], place'[w] = "ask"
      PROVE  Watched(passed)'
  BY <1>5 DEF Watched, Stays, PastTimers, PastEvents
<1>6. ASSUME NEW g \in Fibers, AddTimer(g) PROVE (late => late') /\ (late' \/ Watched(passed)')
  <2>1. UNCHANGED <<pc, idleTerm, place, mainPc>>
    BY <1>6 DEF AddTimer, flags, hands
  <2>2. CASE MainAt({"user"}) /\ UNCHANGED late
    BY <2>1, <2>2 DEF Watched
  <2>3. CASE \E w \in Threads : Calls(w) /\ Later(w)
    BY <1>0, <1>5, <1>t, <2>1, <2>3 DEF Calls, Later
  <2> QED BY <1>6, <2>2, <2>3 DEF AddTimer
<1>7. ASSUME NEW w \in Threads, FiberCalls(w)
      PROVE  /\ late => late'
             /\ UNCHANGED <<timers, events>> \/ late' \/ Watched(passed)'
  <2>1. /\ pc[w] = "exec" /\ pc'[w] \in {"exec", "yieldHold"} /\ UNCHANGED <<idleTerm, place>>
        /\ late => late'
        /\ ~ late' => ~ idleTerm[w] \/ UNCHANGED <<timers, events>>
    BY <1>7, CallKeeps DEF hands
  <2> QED BY <1>0, <1>5, <2>1
<1> QED BY <1>2, <1>3, <1>4, <1>6, <1>7, StepKinds

LEMMA NextWatchInv ==
    ASSUME Root # {}
    PROVE  IOTypeInv /\ WatchInv /\ [IONext]_ioVars => WatchInv'
<1> SUFFICES ASSUME IOTypeInv, WatchInv, [IONext]_ioVars PROVE WatchInv'
  OBVIOUS
<1>1. PlaceInv' /\ PendingInv' /\ ExecHeld' /\ EndInv'
  BY NextPlaceInv, NextPendingInv, NextExecHeld, NextIOEndInv DEF WatchInv
<1>2. ASSUME NEW passed \in {PastTimers, PastEvents}, ~ late'
      PROVE  /\ ~ late
             /\ (timers' \subseteq timers /\ events' \subseteq events) \/ Watched(passed)'
  BY <1>2, MadeWatched DEF WatchInv
<1>3. TimersWatched'
  <2> SUFFICES ASSUME timers' # {}, ~ late', ~ Watched(PastTimers)' PROVE FALSE
    BY DEF TimersWatched
  <2>1. ~ late /\ timers' \subseteq timers
    BY <1>2
  <2>2. Watched(PastTimers)
    BY <2>1 DEF WatchInv, TimersWatched
  <2>3. UNCHANGED timers /\ timers = {}
    BY <2>2, WatchedStays DEF WatchInv
  <2> QED BY <2>3
<1>4. EventsWatched'
  <2> SUFFICES ASSUME events' # {}, ~ late', ~ Watched(PastEvents)' PROVE FALSE
    BY DEF EventsWatched
  <2>1. ~ late /\ events' \subseteq events
    BY <1>2
  <2>2. Watched(PastEvents)
    BY <2>1 DEF WatchInv, EventsWatched
  <2>3. UNCHANGED events /\ events = {}
    BY <2>2, WatchedStays DEF WatchInv
  <2> QED BY <2>3
<1> QED BY <1>1, <1>3, <1>4 DEF WatchInv

LEMMA WatchExact == IOTypeInv /\ WatchInv => WorkIsWatched
<1> SUFFICES ASSUME IOTypeInv, WatchInv, m_autoStop, mainPc \notin {"stopSet", "rootCheck"},
                    \A w \in Threads : pc[w] \in {"off", "done"}
             PROVE  /\ \A i \in DOMAIN m_fibers : m_fibers[i].thread # AnyThread
                    /\ \A w \in Threads : cbs[w] = {}
                    /\ late \/ (timers = {} /\ events = {})
  BY DEF WorkIsWatched
<1>1. mainPc \notin {"init", "user"}
  BY DEF WatchInv, EndInv
<1>2. ~ UnpinnedQueued
  BY <1>1 DEF WatchInv, EndInv, Looks
<1>3. \A w \in Threads : cbs[w] = {}
  BY DEF WatchInv, PlaceInv
<1>4. ~ Watched(PastTimers) /\ ~ Watched(PastEvents)
  BY <1>1 DEF Watched, Stays
<1>5. late \/ (timers = {} /\ events = {})
  BY <1>4 DEF WatchInv, TimersWatched, EventsWatched
<1> QED BY <1>2, <1>3, <1>5 DEF UnpinnedQueued

\* IOManager::stopping() (iomanager.cc:315) asks for timers, events and the scheduler at
\* three times that nothing holds together; once stop() was called, still no unpinned task,
\* no callback in hand, and no timer or event that was made in time is left without a
\* thread that will look at it, for every number of threads.  The caller's thread takes
\* part (use_caller): without it a timer added just before stop() can find every thread
\* past its question.
THEOREM WorkIsWatchedHolds ==
    ASSUME Root # {}
    PROVE  IOSpec => []WorkIsWatched
<1>1. IOInit => IOTypeInv /\ WatchInv
  BY InitIOTypeInv, InitWatchInv
<1>2. IOTypeInv /\ WatchInv /\ [IONext]_ioVars => IOTypeInv' /\ WatchInv'
  BY NextIOTypeInv, NextWatchInv
<1> QED BY <1>1, <1>2, WatchExact, PTL DEF IOSpec
=============================================================================
