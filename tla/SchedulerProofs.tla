-------------------------- MODULE SchedulerProofs --------------------------
(***************************************************************************)
(* Proofs about Scheduler for every set of threads and tasks: its type     *)
(* invariant, the meaning of its two counters whatever the fibers do, and  *)
(* the ownership of tasks when no fiber waits.                             *)
(***************************************************************************)
EXTENDS Scheduler, SequenceTheorems, FiniteSetTheorems, TLAPS

-----------------------------------------------------------------------------
(* The queue operations.                                                   *)

\* RemoveAt(q, i) closes the gap at i and keeps everything else.
LEMMA RemoveAtFacts ==
    ASSUME NEW S, NEW q \in Seq(S), NEW i \in 1 .. Len(q)
    PROVE  /\ RemoveAt(q, i) \in Seq(S)
           /\ Len(RemoveAt(q, i)) = Len(q) - 1
           /\ \A j \in 1 .. (Len(q) - 1) :
                RemoveAt(q, i)[j] = IF j < i THEN q[j] ELSE q[j + 1]
<1> DEFINE a == SubSeq(q, 1, i - 1)
           b == SubSeq(q, i + 1, Len(q))
<1>1. Len(q) \in Nat /\ \A j \in 1 .. Len(q) : q[j] \in S
  BY LenProperties, ElementOfSeq
<1>2. /\ a \in Seq(S) /\ Len(a) = i - 1
      /\ \A j \in 1 .. (i - 1) : a[j] = q[j]
  BY <1>1, SubSeqProperties
<1>3. /\ b \in Seq(S) /\ Len(b) = Len(q) - i
      /\ \A j \in 1 .. (Len(q) - i) : b[j] = q[i + j]
  BY <1>1, SubSeqProperties
<1> HIDE DEF a, b
<1>4. a \o b \in Seq(S) /\ Len(a \o b) = Len(a) + Len(b)
  BY <1>2, <1>3, ConcatProperties
<1>5. \A j \in 1 .. Len(a) + Len(b) :
        (a \o b)[j] = IF j <= Len(a) THEN a[j] ELSE b[j - Len(a)]
  BY <1>2, <1>3, ConcatProperties
<1>6. Len(a \o b) = Len(q) - 1
  BY <1>1, <1>2, <1>3, <1>4
<1>7. ASSUME NEW j \in 1 .. (Len(q) - 1)
      PROVE  (a \o b)[j] = IF j < i THEN q[j] ELSE q[j + 1]
  <2>1. CASE j < i
    BY <2>1, <1>1, <1>2, <1>3, <1>5
  <2>2. CASE ~ (j < i)
    <3>1. j - (i - 1) \in 1 .. (Len(q) - i) /\ i + (j - (i - 1)) = j + 1
      BY <2>2, <1>1
    <3>2. (a \o b)[j] = b[j - (i - 1)]
      BY <2>2, <1>1, <1>2, <1>3, <1>5
    <3>3. b[j - (i - 1)] = q[i + (j - (i - 1))]
      BY <3>1, <1>3
    <3> QED BY <2>2, <3>1, <3>2, <3>3
  <2> QED BY <2>1, <2>2
<1>8. RemoveAt(q, i) = a \o b
  BY DEF RemoveAt, a, b
<1> QED BY <1>4, <1>6, <1>7, <1>8

\* Append(q, e) keeps the old positions and puts e behind them.
LEMMA AppendFacts ==
    ASSUME NEW S, NEW q \in Seq(S), NEW e \in S
    PROVE  /\ Append(q, e) \in Seq(S)
           /\ Len(Append(q, e)) = Len(q) + 1
           /\ \A j \in 1 .. Len(q) : Append(q, e)[j] = q[j]
           /\ Append(q, e)[Len(q) + 1] = e
  OBVIOUS

-----------------------------------------------------------------------------
(* Counting threads.                                                       *)

\* Moving one thread changes the number of threads at a set of labels by one,
\* when it enters or leaves the set, and not at all otherwise.
LEMMA MoveCount ==
    ASSUME pc \in [Threads -> WorkerPc], IsFiniteSet(Threads),
           NEW w \in Threads, NEW label, Goto(w, label), NEW A
    PROVE  /\ Cardinality(ThreadsAt(A)) \in Nat
           /\ Cardinality(ThreadsAt(A))' \in Nat
           /\ Cardinality(ThreadsAt(A))' =
                Cardinality(ThreadsAt(A))
                + (IF label \in A THEN 1 ELSE 0)
                - (IF pc[w] \in A THEN 1 ELSE 0)
<1>1. ThreadsAt(A) \in SUBSET Threads
  BY DEF ThreadsAt
<1>2. IsFiniteSet(ThreadsAt(A)) /\ Cardinality(ThreadsAt(A)) \in Nat
  BY <1>1, FS_Subset, FS_CardinalityType
<1>3. CASE label \in A /\ pc[w] \in A
  <2>1. ThreadsAt(A)' = ThreadsAt(A)
    BY <1>3 DEF ThreadsAt, Goto
  <2> QED BY <2>1, <1>2, <1>3
<1>4. CASE label \in A /\ pc[w] \notin A
  <2>1. ThreadsAt(A)' = ThreadsAt(A) \cup {w}
    BY <1>4 DEF ThreadsAt, Goto
  <2>2. w \notin ThreadsAt(A)
    BY <1>4 DEF ThreadsAt
  <2>3. Cardinality(ThreadsAt(A) \cup {w}) = Cardinality(ThreadsAt(A)) + 1
    BY <2>2, <1>2, FS_AddElement
  <2> QED BY <2>1, <2>3, <1>2, <1>4
<1>5. CASE label \notin A /\ pc[w] \in A
  <2>1. ThreadsAt(A)' = ThreadsAt(A) \ {w}
    BY <1>5 DEF ThreadsAt, Goto
  <2>2. w \in ThreadsAt(A)
    BY <1>5 DEF ThreadsAt
  <2>3. /\ Cardinality(ThreadsAt(A) \ {w}) = Cardinality(ThreadsAt(A)) - 1
        /\ IsFiniteSet(ThreadsAt(A) \ {w})
    BY <2>2, <1>2, FS_RemoveElement
  <2>4. Cardinality(ThreadsAt(A) \ {w}) \in Nat
    BY <2>3, FS_CardinalityType
  <2> QED BY <2>1, <2>3, <2>4, <1>2, <1>5
<1>6. CASE label \notin A /\ pc[w] \notin A
  <2>1. ThreadsAt(A)' = ThreadsAt(A)
    BY <1>6 DEF ThreadsAt, Goto
  <2> QED BY <2>1, <1>2, <1>6
<1> QED BY <1>3, <1>4, <1>5, <1>6
-----------------------------------------------------------------------------
(* The type invariant and the counters.                                    *)

\* Threads start only through start() and, for the root thread, stop().
Launched ==
    /\ mainPc = "init" => \A w \in Threads : pc[w] = "off"
    /\ mainPc \in {"init", "user", "stopSet", "rootCheck"}
         => \A r \in Root : pc[r] = "off"

\* A thread between the scan and the reset of ft holds a queue item.
HeldItem == \A w \in Threads : pc[w] \in HoldsPc => ft[w] \in QueueItem

TypeInv == TypeOK /\ CountersAccount /\ Launched /\ HeldItem

LEMMA InitTypeInv == Init => TypeInv
<1> SUFFICES ASSUME Init PROVE TypeInv
  OBVIOUS
<1> USE ConstantsAssumption
<1>1. TypeOK
  <2>1. m_fibers \in Seq(QueueItem) /\ yields \in [Fibers -> 0 .. MaxYields]
    BY EmptySeq DEF Init
  <2>2. /\ m_state \in [Fibers -> FiberState]
        /\ pc \in [Threads -> WorkerPc]
        /\ ft \in [Threads -> QueueItem \cup {NoItem}]
        /\ idleTerm \in [Threads -> BOOLEAN]
        /\ mainPc \in MainPc
    BY DEF Init, FiberState, WorkerPc, MainPc
  <2> QED BY <2>1, <2>2 DEF Init, TypeOK
<1>2. ThreadsAt(ActivePc) = {} /\ ThreadsAt(IdlePc) = {}
  BY DEF Init, ThreadsAt, ActivePc, OnStackPc, IdlePc
<1>3. CountersAccount
  BY <1>2, FS_EmptySet DEF Init, CountersAccount
<1>4. Launched
  BY DEF Init, Launched, Threads
<1>5. HeldItem
  BY DEF Init, HeldItem, HoldsPc, ActivePc, OnStackPc
<1> QED BY <1>1, <1>3, <1>4, <1>5 DEF TypeInv

\* Thread w moves and counts what it does: a counter goes up when it enters
\* the labels of that counter, and down when it leaves them.
CountedMove(w) ==
    /\ Goto(w, pc'[w])
    /\ pc[w] # "off" /\ pc'[w] \in WorkerPc
    /\ UNCHANGED mainPc
    /\ m_activeThreadCount' = m_activeThreadCount
           + (IF pc'[w] \in ActivePc THEN 1 ELSE 0)
           - (IF pc[w] \in ActivePc THEN 1 ELSE 0)
    /\ m_idleThreadCount' = m_idleThreadCount
           + (IF pc'[w] \in IdlePc THEN 1 ELSE 0)
           - (IF pc[w] \in IdlePc THEN 1 ELSE 0)

LEMMA Moved ==
    ASSUME TypeInv, NEW w \in Threads, CountedMove(w)
    PROVE  /\ CountersAccount'
           /\ Launched'
           /\ m_activeThreadCount' \in Nat
           /\ m_idleThreadCount' \in Nat
           /\ pc' \in [Threads -> WorkerPc]
<1> USE ConstantsAssumption
<1>1. pc \in [Threads -> WorkerPc] /\ IsFiniteSet(Threads)
  BY DEF TypeInv, TypeOK
<1>2. /\ Cardinality(ThreadsAt(ActivePc))' \in Nat
      /\ Cardinality(ThreadsAt(ActivePc))' = Cardinality(ThreadsAt(ActivePc))
           + (IF pc'[w] \in ActivePc THEN 1 ELSE 0)
           - (IF pc[w] \in ActivePc THEN 1 ELSE 0)
  BY <1>1, MoveCount DEF CountedMove
<1>3. /\ Cardinality(ThreadsAt(IdlePc))' \in Nat
      /\ Cardinality(ThreadsAt(IdlePc))' = Cardinality(ThreadsAt(IdlePc))
           + (IF pc'[w] \in IdlePc THEN 1 ELSE 0)
           - (IF pc[w] \in IdlePc THEN 1 ELSE 0)
  BY <1>1, MoveCount DEF CountedMove
<1>4. /\ m_activeThreadCount = Cardinality(ThreadsAt(ActivePc))
      /\ m_idleThreadCount = Cardinality(ThreadsAt(IdlePc))
  BY DEF TypeInv, CountersAccount
<1>5. /\ m_activeThreadCount' = Cardinality(ThreadsAt(ActivePc))'
      /\ m_idleThreadCount' = Cardinality(ThreadsAt(IdlePc))'
  BY <1>2, <1>3, <1>4 DEF CountedMove
<1>6. CountersAccount'
  BY <1>5 DEF CountersAccount
<1>7. Launched'
  BY <1>1 DEF TypeInv, Launched, Goto, CountedMove, Threads
<1>8. pc' \in [Threads -> WorkerPc]
  BY <1>1 DEF Goto, CountedMove
<1> QED BY <1>2, <1>3, <1>5, <1>6, <1>7, <1>8

\* A step that moves no thread and changes no counter.
LEMMA Still ==
    ASSUME TypeInv, UNCHANGED <<pc, m_activeThreadCount, m_idleThreadCount>>
    PROVE  CountersAccount'
  BY DEF TypeInv, CountersAccount, ThreadsAt

\* A step that starts threads which were off.
LEMMA Launch ==
    ASSUME TypeInv, NEW S \in SUBSET Threads, \A w \in S : pc[w] = "off",
           pc' = [w \in Threads |-> IF w \in S THEN "fetch" ELSE pc[w]],
           UNCHANGED <<m_activeThreadCount, m_idleThreadCount, ft>>
    PROVE  CountersAccount' /\ HeldItem' /\ pc' \in [Threads -> WorkerPc]
<1>1. ThreadsAt(ActivePc)' = ThreadsAt(ActivePc)
  BY DEF TypeInv, TypeOK, ThreadsAt, ActivePc, OnStackPc
<1>2. ThreadsAt(IdlePc)' = ThreadsAt(IdlePc)
  BY DEF TypeInv, TypeOK, ThreadsAt, IdlePc
<1>3. CountersAccount'
  BY <1>1, <1>2 DEF TypeInv, CountersAccount
<1>4. pc' \in [Threads -> WorkerPc]
  BY DEF TypeInv, TypeOK, WorkerPc
<1>5. HeldItem'
  BY DEF TypeInv, HeldItem, HoldsPc, ActivePc, OnStackPc
<1> QED BY <1>3, <1>4, <1>5

\* A queue that grows at its end by an item, or two, is still a queue.
LEMMA EnqueueType ==
    ASSUME m_fibers \in Seq(QueueItem), NEW f \in Fibers,
           NEW t \in Threads \cup {AnyThread}, Enqueue(f, t)
    PROVE  m_fibers' \in Seq(QueueItem)
<1>1. Item(f, t) \in QueueItem
  BY DEF Item, QueueItem
<1> QED BY <1>1, AppendFacts DEF Enqueue

LEMMA BatchType ==
    ASSUME m_fibers \in Seq(QueueItem), NEW f \in Fibers, NEW g \in Fibers
    PROVE  m_fibers \o <<Item(f, AnyThread), Item(g, AnyThread)>> \in Seq(QueueItem)
<1>1. Item(f, AnyThread) \in QueueItem /\ Item(g, AnyThread) \in QueueItem
  BY DEF Item, QueueItem
<1>2. <<Item(f, AnyThread), Item(g, AnyThread)>> \in Seq(QueueItem)
  BY <1>1
<1> QED BY <1>2, ConcatProperties

\* The fiber a thread works on is one of the fibers.
LEMMA CurType ==
    ASSUME HeldItem, NEW w \in Threads, pc[w] \in HoldsPc
    PROVE  Cur(w) \in Fibers /\ ft[w] \in QueueItem
  BY DEF HeldItem, Cur, QueueItem




\* Every step keeps the invariant: one case per action.
LEMMA NextTypeInv == TypeInv /\ [Next]_vars => TypeInv'
<1> SUFFICES ASSUME TypeInv, [Next]_vars PROVE TypeInv'
  OBVIOUS
<1> USE ConstantsAssumption DEF At, MainAt
<1>t. TypeOK /\ Launched /\ HeldItem
  BY DEF TypeInv
<1>1. ASSUME Start PROVE TypeInv'
  <2>1. \A w \in Pool : pc[w] = "off"
    BY <1>1, <1>t DEF Start, Launched, Threads
  <2>2. CountersAccount' /\ HeldItem' /\ pc' \in [Threads -> WorkerPc]
    BY <1>1, <2>1, Launch DEF Start, sched, Threads
  <2>3. TypeOK'
    BY <1>1, <1>t, <2>2 DEF Start, TypeOK, sched, tasks, MainPc
  <2>4. Launched'
    BY <1>1, <1>t DEF Start, Launched, Threads
  <2> QED BY <2>2, <2>3, <2>4 DEF TypeInv
<1>2. ASSUME RootCall PROVE TypeInv'
  <2>1. CASE Stopping
    <3>1. CountersAccount'
      BY <1>2, <2>1, Still DEF RootCall, sched
    <3>2. TypeOK' /\ Launched' /\ HeldItem'
      BY <1>2, <1>t, <2>1
      DEF RootCall, TypeOK, Launched, HeldItem, sched, tasks, MainPc
    <3> QED BY <3>1, <3>2 DEF TypeInv
  <2>2. CASE ~ Stopping
    <3>1. \A w \in Root : pc[w] = "off"
      BY <1>2, <1>t DEF RootCall, Launched
    <3>2. CountersAccount' /\ HeldItem' /\ pc' \in [Threads -> WorkerPc]
      BY <1>2, <2>2, <3>1, Launch DEF RootCall, sched, Threads
    <3>3. TypeOK' /\ Launched'
      BY <1>2, <1>t, <2>2, <3>2 DEF RootCall, TypeOK, Launched, sched, tasks, MainPc
    <3> QED BY <3>2, <3>3 DEF TypeInv
  <2> QED BY <2>1, <2>2
<1>3. ASSUME NEW f \in Fibers, NEW t \in Affinities, Schedule(f, t) PROVE TypeInv'
  <2>1. CountersAccount'
    BY <1>3, Still DEF Schedule, sched
  <2>2. TypeOK'
    BY <1>3, <1>t, EnqueueType DEF Schedule, TypeOK, sched, flags, tasks, MainPc
  <2>3. Launched' /\ HeldItem'
    BY <1>3, <1>t DEF Schedule, Launched, HeldItem, flags, tasks, sched, Threads
  <2> QED BY <2>1, <2>2, <2>3 DEF TypeInv
<1>4. ASSUME NEW f \in Fibers, NEW g \in Fibers, ScheduleBatch(f, g) PROVE TypeInv'
  <2>1. CountersAccount'
    BY <1>4, Still DEF ScheduleBatch, sched
  <2>2. TypeOK'
    BY <1>4, <1>t, BatchType DEF ScheduleBatch, TypeOK, sched, flags, tasks, MainPc
  <2>3. Launched' /\ HeldItem'
    BY <1>4, <1>t DEF ScheduleBatch, Launched, HeldItem, flags, tasks, sched, Threads
  <2> QED BY <2>1, <2>2, <2>3 DEF TypeInv
<1>5. ASSUME StopBegin PROVE TypeInv'
  <2>1. CountersAccount'
    BY <1>5, Still DEF StopBegin, sched
  <2>2. TypeOK'
    BY <1>5, <1>t DEF StopBegin, Stopping, TypeOK, sched, flags, tasks, MainPc
  <2>3. Launched' /\ HeldItem'
    BY <1>5, <1>t DEF StopBegin, Launched, HeldItem, flags, tasks, sched, Threads
  <2> QED BY <2>1, <2>2, <2>3 DEF TypeInv
<1>6. ASSUME StopSet PROVE TypeInv'
  <2>1. CountersAccount'
    BY <1>6, Still DEF StopSet, sched
  <2>2. TypeOK'
    BY <1>6, <1>t DEF StopSet, TypeOK, sched, flags, tasks, MainPc
  <2>3. Launched' /\ HeldItem'
    BY <1>6, <1>t DEF StopSet, Launched, HeldItem, flags, tasks, sched, Threads
  <2> QED BY <2>1, <2>2, <2>3 DEF TypeInv
<1>7. ASSUME RootReturn PROVE TypeInv'
  <2>1. CountersAccount'
    BY <1>7, Still DEF RootReturn, sched
  <2>2. TypeOK'
    BY <1>7, <1>t DEF RootReturn, TypeOK, sched, flags, tasks, MainPc
  <2>3. Launched' /\ HeldItem'
    BY <1>7, <1>t DEF RootReturn, Launched, HeldItem, flags, tasks, sched, Threads
  <2> QED BY <2>1, <2>2, <2>3 DEF TypeInv
<1>8. ASSUME JoinAll PROVE TypeInv'
  <2>1. CountersAccount'
    BY <1>8, Still DEF JoinAll, sched
  <2>2. TypeOK'
    BY <1>8, <1>t DEF JoinAll, TypeOK, sched, flags, tasks, MainPc
  <2>3. Launched' /\ HeldItem'
    BY <1>8, <1>t DEF JoinAll, Launched, HeldItem, flags, tasks, sched, Threads
  <2> QED BY <2>1, <2>2, <2>3 DEF TypeInv
<1>9. ASSUME NEW f \in Fibers, Wake(f) PROVE TypeInv'
  <2>1. CountersAccount'
    BY <1>9, Still DEF Wake, sched
  <2>2. TypeOK'
    BY <1>9, <1>t, EnqueueType DEF Wake, TypeOK, sched, flags, tasks, MainPc
  <2>3. Launched' /\ HeldItem'
    BY <1>9, <1>t DEF Wake, Launched, HeldItem, flags, tasks, sched, Threads
  <2> QED BY <2>1, <2>2, <2>3 DEF TypeInv
<1>10. ASSUME NEW w \in Threads, NEW g \in Fibers, NEW t \in Affinities, Spawn(w, g, t) PROVE TypeInv'
  <2>1. CountersAccount'
    BY <1>10, Still DEF Spawn, sched
  <2>2. TypeOK'
    BY <1>10, <1>t, EnqueueType DEF Spawn, TypeOK, sched, flags, tasks, MainPc
  <2>3. Launched' /\ HeldItem'
    BY <1>10, <1>t DEF Spawn, Launched, HeldItem, flags, tasks, sched, Threads
  <2> QED BY <2>1, <2>2, <2>3 DEF TypeInv
<1>11. ASSUME NEW w \in Threads, TakeTask(w) PROVE TypeInv'
  <2>1. /\ CountersAccount' /\ Launched' /\ pc' \in [Threads -> WorkerPc]
        /\ m_activeThreadCount' \in Nat /\ m_idleThreadCount' \in Nat
    <3>1. CountedMove(w)
      BY <1>11, <1>t
      DEF TakeTask, CountedMove, Goto, TypeOK, sched, flags,
          WorkerPc, HoldsPc, ActivePc, OnStackPc, IdlePc
    <3> QED BY <3>1, Moved
  <2>2. HeldItem' /\ ft' \in [Threads -> QueueItem \cup {NoItem}]
    BY <1>11, <1>t
    DEF TakeTask, HeldItem, TypeOK, Goto, WorkerPc, HoldsPc, ActivePc, OnStackPc, IdlePc
  <2>3. TypeOK'
    BY <1>11, <1>t, <2>1, <2>2, RemoveAtFacts
    DEF TakeTask, TypeOK, sched, flags, tasks
  <2> QED BY <2>1, <2>2, <2>3 DEF TypeInv
<1>12. ASSUME NEW w \in Threads, FindNothing(w) PROVE TypeInv'
  <2>1. /\ CountersAccount' /\ Launched' /\ pc' \in [Threads -> WorkerPc]
        /\ m_activeThreadCount' \in Nat /\ m_idleThreadCount' \in Nat
    <3>1. CountedMove(w)
      BY <1>12, <1>t
      DEF FindNothing, CountedMove, Goto, TypeOK, sched, flags,
          WorkerPc, HoldsPc, ActivePc, OnStackPc, IdlePc
    <3> QED BY <3>1, Moved
  <2>2. HeldItem' /\ ft' \in [Threads -> QueueItem \cup {NoItem}]
    BY <1>12, <1>t
    DEF FindNothing, HeldItem, TypeOK, Goto, WorkerPc, HoldsPc, ActivePc, OnStackPc, IdlePc
  <2>3. TypeOK'
    BY <1>12, <1>t, <2>1, <2>2
    DEF FindNothing, TypeOK, sched, flags, tasks
  <2> QED BY <2>1, <2>2, <2>3 DEF TypeInv
<1>13. ASSUME NEW w \in Threads, Dispatch(w) PROVE TypeInv'
  <2>1. /\ CountersAccount' /\ Launched' /\ pc' \in [Threads -> WorkerPc]
        /\ m_activeThreadCount' \in Nat /\ m_idleThreadCount' \in Nat
    <3>1. CountedMove(w)
      BY <1>13, <1>t
      DEF Dispatch, CountedMove, Goto, TypeOK, sched, flags,
          WorkerPc, HoldsPc, ActivePc, OnStackPc, IdlePc
    <3> QED BY <3>1, Moved
  <2>2. HeldItem' /\ ft' \in [Threads -> QueueItem \cup {NoItem}]
    BY <1>13, <1>t
    DEF Dispatch, HeldItem, TypeOK, Goto, WorkerPc, HoldsPc, ActivePc, OnStackPc, IdlePc
  <2>3. TypeOK'
    BY <1>13, <1>t, <2>1, <2>2
    DEF Dispatch, TypeOK, sched, flags, tasks
  <2> QED BY <2>1, <2>2, <2>3 DEF TypeInv
<1>14. ASSUME NEW w \in Threads, SwapIn(w) PROVE TypeInv'
  <2>1. /\ CountersAccount' /\ Launched' /\ pc' \in [Threads -> WorkerPc]
        /\ m_activeThreadCount' \in Nat /\ m_idleThreadCount' \in Nat
    <3>1. CountedMove(w)
      BY <1>14, <1>t
      DEF SwapIn, CountedMove, Goto, TypeOK, sched, flags,
          WorkerPc, HoldsPc, ActivePc, OnStackPc, IdlePc, Abort
    <3> QED BY <3>1, Moved
  <2>2. HeldItem' /\ ft' \in [Threads -> QueueItem \cup {NoItem}]
    BY <1>14, <1>t
    DEF SwapIn, HeldItem, TypeOK, Goto, WorkerPc, HoldsPc, ActivePc, OnStackPc, IdlePc, Abort
  <2>3. TypeOK'
    BY <1>14, <1>t, <2>1, <2>2, CurType
    DEF SwapIn, TypeOK, sched, flags, tasks, FiberState, Finished, Abort
  <2> QED BY <2>1, <2>2, <2>3 DEF TypeInv
<1>15. ASSUME NEW w \in Threads, Returned(w) PROVE TypeInv'
  <2>1. /\ CountersAccount' /\ Launched' /\ pc' \in [Threads -> WorkerPc]
        /\ m_activeThreadCount' \in Nat /\ m_idleThreadCount' \in Nat
    <3>1. CountedMove(w)
      BY <1>15, <1>t
      DEF Returned, CountedMove, Goto, TypeOK, sched, flags,
          WorkerPc, HoldsPc, ActivePc, OnStackPc, IdlePc
    <3> QED BY <3>1, Moved
  <2>2. HeldItem' /\ ft' \in [Threads -> QueueItem \cup {NoItem}]
    BY <1>15, <1>t
    DEF Returned, HeldItem, TypeOK, Goto, WorkerPc, HoldsPc, ActivePc, OnStackPc, IdlePc
  <2>3. TypeOK'
    BY <1>15, <1>t, <2>1, <2>2
    DEF Returned, TypeOK, sched, flags, tasks
  <2> QED BY <2>1, <2>2, <2>3 DEF TypeInv
<1>16. ASSUME NEW w \in Threads, Requeue(w) PROVE TypeInv'
  <2>1. /\ CountersAccount' /\ Launched' /\ pc' \in [Threads -> WorkerPc]
        /\ m_activeThreadCount' \in Nat /\ m_idleThreadCount' \in Nat
    <3>1. CountedMove(w)
      BY <1>16, <1>t
      DEF Requeue, CountedMove, Goto, TypeOK, sched, flags,
          WorkerPc, HoldsPc, ActivePc, OnStackPc, IdlePc
    <3> QED BY <3>1, Moved
  <2>2. HeldItem' /\ ft' \in [Threads -> QueueItem \cup {NoItem}]
    BY <1>16, <1>t
    DEF Requeue, HeldItem, TypeOK, Goto, WorkerPc, HoldsPc, ActivePc, OnStackPc, IdlePc
  <2>3. m_fibers' \in Seq(QueueItem)
    <3>1. Cur(w) \in Fibers
      BY <1>16, <1>t, CurType DEF Requeue, HoldsPc
    <3> QED BY <1>16, <1>t, <3>1, EnqueueType DEF Requeue, TypeOK
  <2>4. TypeOK'
    BY <1>16, <1>t, <2>1, <2>2, <2>3
    DEF Requeue, TypeOK, sched, flags, tasks
  <2> QED BY <2>1, <2>2, <2>4 DEF TypeInv
<1>17. ASSUME NEW w \in Threads, LookAfter(w) PROVE TypeInv'
  <2>1. /\ CountersAccount' /\ Launched' /\ pc' \in [Threads -> WorkerPc]
        /\ m_activeThreadCount' \in Nat /\ m_idleThreadCount' \in Nat
    <3>1. CountedMove(w)
      BY <1>17, <1>t
      DEF LookAfter, CountedMove, Goto, TypeOK, sched, flags,
          WorkerPc, HoldsPc, ActivePc, OnStackPc, IdlePc
    <3> QED BY <3>1, Moved
  <2>2. HeldItem' /\ ft' \in [Threads -> QueueItem \cup {NoItem}]
    <3>1. pc[w] = "post"
      BY <1>17 DEF LookAfter
    <3>2. CASE ft' = [ft EXCEPT ![w] = NoItem] /\ Goto(w, "fetch")
      BY <1>t, <3>2
      DEF HeldItem, TypeOK, Goto, HoldsPc, ActivePc, OnStackPc
    <3>3. CASE UNCHANGED ft /\ Goto(w, "setHold")
      BY <1>t, <3>1, <3>3
      DEF HeldItem, TypeOK, Goto, HoldsPc, ActivePc, OnStackPc
    <3> QED BY <1>17, <3>2, <3>3 DEF LookAfter
  <2>3. TypeOK'
    BY <1>17, <1>t, <2>1, <2>2
    DEF LookAfter, TypeOK, sched, flags, tasks
  <2> QED BY <2>1, <2>2, <2>3 DEF TypeInv
<1>18. ASSUME NEW w \in Threads, SetHold(w) PROVE TypeInv'
  <2>1. /\ CountersAccount' /\ Launched' /\ pc' \in [Threads -> WorkerPc]
        /\ m_activeThreadCount' \in Nat /\ m_idleThreadCount' \in Nat
    <3>1. CountedMove(w)
      BY <1>18, <1>t
      DEF SetHold, CountedMove, Goto, TypeOK, sched, flags,
          WorkerPc, HoldsPc, ActivePc, OnStackPc, IdlePc
    <3> QED BY <3>1, Moved
  <2>2. HeldItem' /\ ft' \in [Threads -> QueueItem \cup {NoItem}]
    BY <1>18, <1>t
    DEF SetHold, HeldItem, TypeOK, Goto, WorkerPc, HoldsPc, ActivePc, OnStackPc, IdlePc
  <2>3. TypeOK'
    BY <1>18, <1>t, <2>1, <2>2, CurType
    DEF SetHold, TypeOK, sched, flags, tasks, FiberState, Finished
  <2> QED BY <2>1, <2>2, <2>3 DEF TypeInv
<1>19. ASSUME NEW w \in Threads, IdleExit(w) PROVE TypeInv'
  <2>1. /\ CountersAccount' /\ Launched' /\ pc' \in [Threads -> WorkerPc]
        /\ m_activeThreadCount' \in Nat /\ m_idleThreadCount' \in Nat
    <3>1. CountedMove(w)
      BY <1>19, <1>t
      DEF IdleExit, CountedMove, Goto, TypeOK, sched, flags,
          WorkerPc, HoldsPc, ActivePc, OnStackPc, IdlePc
    <3> QED BY <3>1, Moved
  <2>2. HeldItem' /\ ft' \in [Threads -> QueueItem \cup {NoItem}]
    BY <1>19, <1>t
    DEF IdleExit, HeldItem, TypeOK, Goto, WorkerPc, HoldsPc, ActivePc, OnStackPc, IdlePc
  <2>3. TypeOK'
    BY <1>19, <1>t, <2>1, <2>2
    DEF IdleExit, TypeOK, sched, flags, tasks
  <2> QED BY <2>1, <2>2, <2>3 DEF TypeInv
<1>20. ASSUME NEW w \in Threads, IdleEnter(w) PROVE TypeInv'
  <2>1. /\ CountersAccount' /\ Launched' /\ pc' \in [Threads -> WorkerPc]
        /\ m_activeThreadCount' \in Nat /\ m_idleThreadCount' \in Nat
    <3>1. CountedMove(w)
      BY <1>20, <1>t
      DEF IdleEnter, CountedMove, Goto, TypeOK, sched, flags,
          WorkerPc, HoldsPc, ActivePc, OnStackPc, IdlePc
    <3> QED BY <3>1, Moved
  <2>2. HeldItem' /\ ft' \in [Threads -> QueueItem \cup {NoItem}]
    BY <1>20, <1>t
    DEF IdleEnter, HeldItem, TypeOK, Goto, WorkerPc, HoldsPc, ActivePc, OnStackPc, IdlePc
  <2>3. TypeOK'
    BY <1>20, <1>t, <2>1, <2>2
    DEF IdleEnter, TypeOK, sched, flags, tasks
  <2> QED BY <2>1, <2>2, <2>3 DEF TypeInv
<1>21. ASSUME NEW w \in Threads, IdleCheck(w) PROVE TypeInv'
  <2>1. /\ CountersAccount' /\ Launched' /\ pc' \in [Threads -> WorkerPc]
        /\ m_activeThreadCount' \in Nat /\ m_idleThreadCount' \in Nat
    <3>1. CountedMove(w)
      BY <1>21, <1>t
      DEF IdleCheck, CountedMove, Goto, TypeOK, sched, flags,
          WorkerPc, HoldsPc, ActivePc, OnStackPc, IdlePc
    <3> QED BY <3>1, Moved
  <2>2. HeldItem' /\ ft' \in [Threads -> QueueItem \cup {NoItem}]
    BY <1>21, <1>t
    DEF IdleCheck, HeldItem, TypeOK, Goto, WorkerPc, HoldsPc, ActivePc, OnStackPc, IdlePc
  <2>3. TypeOK'
    BY <1>21, <1>t, <2>1, <2>2
    DEF IdleCheck, TypeOK, sched, flags, tasks, Stopping
  <2> QED BY <2>1, <2>2, <2>3 DEF TypeInv
<1>22. ASSUME NEW w \in Threads, IdleLeave(w) PROVE TypeInv'
  <2>1. /\ CountersAccount' /\ Launched' /\ pc' \in [Threads -> WorkerPc]
        /\ m_activeThreadCount' \in Nat /\ m_idleThreadCount' \in Nat
    <3>1. CountedMove(w)
      BY <1>22, <1>t
      DEF IdleLeave, CountedMove, Goto, TypeOK, sched, flags,
          WorkerPc, HoldsPc, ActivePc, OnStackPc, IdlePc
    <3> QED BY <3>1, Moved
  <2>2. HeldItem' /\ ft' \in [Threads -> QueueItem \cup {NoItem}]
    BY <1>22, <1>t
    DEF IdleLeave, HeldItem, TypeOK, Goto, WorkerPc, HoldsPc, ActivePc, OnStackPc, IdlePc
  <2>3. TypeOK'
    BY <1>22, <1>t, <2>1, <2>2
    DEF IdleLeave, TypeOK, sched, flags, tasks
  <2> QED BY <2>1, <2>2, <2>3 DEF TypeInv
<1>23. ASSUME NEW w \in Threads, Wait(w) PROVE TypeInv'
  <2>1. /\ CountersAccount' /\ Launched' /\ pc' \in [Threads -> WorkerPc]
        /\ m_activeThreadCount' \in Nat /\ m_idleThreadCount' \in Nat
    <3>1. CountedMove(w)
      BY <1>23, <1>t
      DEF Wait, CountedMove, Goto, TypeOK, sched, flags,
          WorkerPc, HoldsPc, ActivePc, OnStackPc, IdlePc
    <3> QED BY <3>1, Moved
  <2>2. HeldItem' /\ ft' \in [Threads -> QueueItem \cup {NoItem}]
    BY <1>23, <1>t
    DEF Wait, HeldItem, TypeOK, Goto, WorkerPc, HoldsPc, ActivePc, OnStackPc, IdlePc
  <2>3. TypeOK'
    BY <1>23, <1>t, <2>1, <2>2, CurType
    DEF Wait, TypeOK, sched, flags, tasks, CountYield
  <2> QED BY <2>1, <2>2, <2>3 DEF TypeInv
<1>24. ASSUME NEW w \in Threads, NEW t \in Threads, SwitchTo(w, t) PROVE TypeInv'
  <2>1. /\ CountersAccount' /\ Launched' /\ pc' \in [Threads -> WorkerPc]
        /\ m_activeThreadCount' \in Nat /\ m_idleThreadCount' \in Nat
    <3>1. CountedMove(w)
      BY <1>24, <1>t
      DEF SwitchTo, CountedMove, Goto, TypeOK, sched, flags,
          WorkerPc, HoldsPc, ActivePc, OnStackPc, IdlePc
    <3> QED BY <3>1, Moved
  <2>2. HeldItem' /\ ft' \in [Threads -> QueueItem \cup {NoItem}]
    BY <1>24, <1>t
    DEF SwitchTo, HeldItem, TypeOK, Goto, WorkerPc, HoldsPc, ActivePc, OnStackPc, IdlePc
  <2>3. TypeOK'
    BY <1>24, <1>t, <2>1, <2>2, CurType, EnqueueType
    DEF SwitchTo, TypeOK, sched, flags, tasks, CountYield
  <2> QED BY <2>1, <2>2, <2>3 DEF TypeInv
<1>25. ASSUME NEW w \in Threads, YieldToHold(w) PROVE TypeInv'
  <2>1. /\ CountersAccount' /\ Launched' /\ pc' \in [Threads -> WorkerPc]
        /\ m_activeThreadCount' \in Nat /\ m_idleThreadCount' \in Nat
    <3>1. CountedMove(w)
      BY <1>25, <1>t
      DEF YieldToHold, CountedMove, Goto, TypeOK, sched, flags,
          WorkerPc, HoldsPc, ActivePc, OnStackPc, IdlePc, Abort
    <3> QED BY <3>1, Moved
  <2>2. HeldItem' /\ ft' \in [Threads -> QueueItem \cup {NoItem}]
    BY <1>25, <1>t
    DEF YieldToHold, HeldItem, TypeOK, Goto, WorkerPc, HoldsPc, ActivePc, OnStackPc, IdlePc, Abort
  <2>3. TypeOK'
    BY <1>25, <1>t, <2>1, <2>2, CurType
    DEF YieldToHold, TypeOK, sched, flags, tasks, FiberState, Finished, Abort
  <2> QED BY <2>1, <2>2, <2>3 DEF TypeInv
<1>26. ASSUME NEW w \in Threads, YieldToReady(w) PROVE TypeInv'
  <2>1. /\ CountersAccount' /\ Launched' /\ pc' \in [Threads -> WorkerPc]
        /\ m_activeThreadCount' \in Nat /\ m_idleThreadCount' \in Nat
    <3>1. CountedMove(w)
      BY <1>26, <1>t
      DEF YieldToReady, CountedMove, Goto, TypeOK, sched, flags,
          WorkerPc, HoldsPc, ActivePc, OnStackPc, IdlePc
    <3> QED BY <3>1, Moved
  <2>2. HeldItem' /\ ft' \in [Threads -> QueueItem \cup {NoItem}]
    BY <1>26, <1>t
    DEF YieldToReady, HeldItem, TypeOK, Goto, WorkerPc, HoldsPc, ActivePc, OnStackPc, IdlePc
  <2>3. TypeOK'
    <3>1. m_state' \in [Fibers -> FiberState]
      BY <1>26, <1>t DEF YieldToReady, TypeOK, FiberState
    <3>2. yields' \in [Fibers -> 0 .. MaxYields]
      <4>1. Cur(w) \in Fibers
        BY <1>26, <1>t, CurType DEF YieldToReady, HoldsPc, ActivePc, OnStackPc
      <4> QED BY <1>26, <1>t, <4>1 DEF YieldToReady, CountYield, TypeOK
    <3> QED BY <1>26, <1>t, <2>1, <2>2, <3>1, <3>2
            DEF YieldToReady, TypeOK, sched, flags
  <2> QED BY <2>1, <2>2, <2>3 DEF TypeInv
<1>27. ASSUME NEW w \in Threads, NEW s \in Finished, Finish(w, s) PROVE TypeInv'
  <2>1. /\ CountersAccount' /\ Launched' /\ pc' \in [Threads -> WorkerPc]
        /\ m_activeThreadCount' \in Nat /\ m_idleThreadCount' \in Nat
    <3>1. CountedMove(w)
      BY <1>27, <1>t
      DEF Finish, CountedMove, Goto, TypeOK, sched, flags,
          WorkerPc, HoldsPc, ActivePc, OnStackPc, IdlePc
    <3> QED BY <3>1, Moved
  <2>2. HeldItem' /\ ft' \in [Threads -> QueueItem \cup {NoItem}]
    BY <1>27, <1>t
    DEF Finish, HeldItem, TypeOK, Goto, WorkerPc, HoldsPc, ActivePc, OnStackPc, IdlePc
  <2>3. TypeOK'
    BY <1>27, <1>t, <2>1, <2>2, CurType
    DEF Finish, TypeOK, sched, flags, tasks, FiberState, Finished
  <2> QED BY <2>1, <2>2, <2>3 DEF TypeInv
<1>28. ASSUME NEW w \in Threads, SwapOut(w) PROVE TypeInv'
  <2>1. /\ CountersAccount' /\ Launched' /\ pc' \in [Threads -> WorkerPc]
        /\ m_activeThreadCount' \in Nat /\ m_idleThreadCount' \in Nat
    <3>1. CountedMove(w)
      BY <1>28, <1>t
      DEF SwapOut, CountedMove, Goto, TypeOK, sched, flags,
          WorkerPc, HoldsPc, ActivePc, OnStackPc, IdlePc
    <3> QED BY <3>1, Moved
  <2>2. HeldItem' /\ ft' \in [Threads -> QueueItem \cup {NoItem}]
    BY <1>28, <1>t
    DEF SwapOut, HeldItem, TypeOK, Goto, WorkerPc, HoldsPc, ActivePc, OnStackPc, IdlePc
  <2>3. TypeOK'
    BY <1>28, <1>t, <2>1, <2>2
    DEF SwapOut, TypeOK, sched, flags, tasks
  <2> QED BY <2>1, <2>2, <2>3 DEF TypeInv
<1>29. ASSUME UNCHANGED vars PROVE TypeInv'
  BY <1>29 DEF TypeInv, TypeOK, CountersAccount, ThreadsAt, Launched, HeldItem, vars, sched, flags, tasks
<1> QED
  BY <1>1, <1>2, <1>3, <1>4, <1>5, <1>6, <1>7, <1>8, <1>9, <1>10, <1>11,
     <1>12, <1>13, <1>14, <1>15, <1>16, <1>17, <1>18, <1>19, <1>20, <1>21,
     <1>22, <1>23, <1>24, <1>25, <1>26, <1>27, <1>28, <1>29
  DEF Next, UserStep, StopStep, RunStep, FiberStep, Terminated

\* Typing and counters, for every set of threads and tasks and whatever the
\* fibers do: the numbers that stopping() (scheduler.cc:275) and tickle()
\* (iomanager.cc:307) read are the numbers of threads at work and idle.
THEOREM TypeCorrect == Spec => []TypeOK
<1>1. Init => TypeInv
  BY InitTypeInv
<1>2. TypeInv /\ [Next]_vars => TypeInv'
  BY NextTypeInv
<1>3. TypeInv => TypeOK
  BY DEF TypeInv
<1> QED BY <1>1, <1>2, <1>3, PTL DEF Spec

\* m_activeThreadCount and m_idleThreadCount are the numbers of threads between their
\* increment and decrement in run() (scheduler.cc:153-245).
THEOREM CountersCorrect == Spec => []CountersAccount
<1>1. Init => TypeInv
  BY InitTypeInv
<1>2. TypeInv /\ [Next]_vars => TypeInv'
  BY NextTypeInv
<1>3. TypeInv => CountersAccount
  BY DEF TypeInv
<1> QED BY <1>1, <1>2, <1>3, PTL DEF Spec
-----------------------------------------------------------------------------
(* Ownership of tasks when no fiber waits.                                 *)

\* No fiber suspends itself with YieldToHold(): it runs to its end or yields
\* with YieldToReady().
NoSuspension == Waiters = {} /\ Switchers = {}

OwnInv == TypeInv /\ Ownership

LEMMA QueueRemove ==
    ASSUME m_fibers \in Seq(QueueItem), NEW i \in DOMAIN m_fibers,
           m_fibers' = RemoveAt(m_fibers, i), QueueDistinct
    PROVE  /\ QueueDistinct'
           /\ \A f : Queued(f)' <=> Queued(f) /\ f # m_fibers[i].fiber
<1>1. /\ Len(m_fibers) \in Nat /\ DOMAIN m_fibers = 1 .. Len(m_fibers)
      /\ i \in 1 .. Len(m_fibers)
  BY LenProperties
<1>2. /\ m_fibers' \in Seq(QueueItem)
      /\ Len(m_fibers') = Len(m_fibers) - 1
      /\ \A j \in 1 .. (Len(m_fibers) - 1) :
           m_fibers'[j] = IF j < i THEN m_fibers[j] ELSE m_fibers[j + 1]
  BY <1>1, RemoveAtFacts
<1>3. DOMAIN m_fibers' = 1 .. (Len(m_fibers) - 1)
  BY <1>2, LenProperties
<1>4. QueueDistinct'
  <2> DEFINE old(j) == IF j < i THEN j ELSE j + 1
  <2>1. \A j \in 1 .. (Len(m_fibers) - 1) :
          old(j) \in 1 .. Len(m_fibers) /\ m_fibers'[j] = m_fibers[old(j)]
    BY <1>1, <1>2
  <2>2. \A j, k \in 1 .. (Len(m_fibers) - 1) : j # k => old(j) # old(k)
    BY <1>1
  <2> HIDE DEF old
  <2> QED BY <1>1, <1>3, <2>1, <2>2 DEF QueueDistinct
<1>5. ASSUME NEW f, Queued(f)' PROVE Queued(f) /\ f # m_fibers[i].fiber
  <2>1. PICK j \in 1 .. (Len(m_fibers) - 1) : m_fibers'[j].fiber = f
    BY <1>3, <1>5 DEF Queued
  <2>2. CASE j < i
    BY <1>1, <1>2, <2>1, <2>2 DEF Queued, QueueDistinct
  <2>3. CASE ~ (j < i)
    <3>1. j + 1 \in 1 .. Len(m_fibers) /\ j + 1 # i
      BY <1>1, <2>3
    <3> QED BY <1>1, <1>2, <2>1, <2>3, <3>1 DEF Queued, QueueDistinct
  <2> QED BY <2>2, <2>3
<1>6. ASSUME NEW f, Queued(f), f # m_fibers[i].fiber PROVE Queued(f)'
  <2>1. PICK j \in 1 .. Len(m_fibers) : m_fibers[j].fiber = f
    BY <1>1, <1>6 DEF Queued
  <2>2. CASE j < i
    BY <1>1, <1>2, <1>3, <2>1, <2>2 DEF Queued
  <2>3. CASE j > i
    <3>1. j - 1 \in 1 .. (Len(m_fibers) - 1) /\ ~ (j - 1 < i) /\ (j - 1) + 1 = j
      BY <1>1, <2>3
    <3> QED BY <1>2, <1>3, <2>1, <3>1 DEF Queued
  <2> QED BY <1>1, <1>6, <2>1, <2>2, <2>3
<1> QED BY <1>4, <1>5, <1>6

LEMMA QueueAppend ==
    ASSUME m_fibers \in Seq(QueueItem), NEW f \in Fibers,
           NEW t \in Threads \cup {AnyThread}, Enqueue(f, t),
           QueueDistinct, ~ Queued(f)
    PROVE  /\ QueueDistinct'
           /\ \A g : Queued(g)' <=> Queued(g) \/ g = f
<1>1. /\ Len(m_fibers) \in Nat /\ DOMAIN m_fibers = 1 .. Len(m_fibers)
      /\ Item(f, t) \in QueueItem /\ Item(f, t).fiber = f
  BY LenProperties DEF Item, QueueItem
<1>2. /\ m_fibers' \in Seq(QueueItem)
      /\ Len(m_fibers') = Len(m_fibers) + 1
      /\ \A j \in 1 .. Len(m_fibers) : m_fibers'[j] = m_fibers[j]
      /\ m_fibers'[Len(m_fibers) + 1] = Item(f, t)
  BY <1>1, AppendFacts DEF Enqueue
<1>3. DOMAIN m_fibers' = 1 .. (Len(m_fibers) + 1)
  BY <1>2, LenProperties
<1>4. \A g : Queued(g)' <=> Queued(g) \/ g = f
  BY <1>1, <1>2, <1>3 DEF Queued
<1>5. QueueDistinct'
  <2> SUFFICES ASSUME NEW i \in DOMAIN m_fibers', NEW j \in DOMAIN m_fibers', i # j
               PROVE  m_fibers'[i].fiber # m_fibers'[j].fiber
    BY DEF QueueDistinct
  <2>1. CASE i \in 1 .. Len(m_fibers) /\ j \in 1 .. Len(m_fibers)
    BY <1>1, <1>2, <2>1 DEF QueueDistinct
  <2>2. CASE i = Len(m_fibers) + 1 /\ j \in 1 .. Len(m_fibers)
    BY <1>1, <1>2, <2>2 DEF Queued
  <2>3. CASE j = Len(m_fibers) + 1 /\ i \in 1 .. Len(m_fibers)
    BY <1>1, <1>2, <2>3 DEF Queued
  <2> QED BY <1>1, <1>3, <2>1, <2>2, <2>3
<1> QED BY <1>4, <1>5

\* Threads that hold no task start, look around, idle or exit.
LEMMA OwnAround ==
    ASSUME OwnInv, UNCHANGED <<m_fibers, m_state, ft, born, armed>>,
           \A w \in Threads :
              IF pc[w] \in HoldsPc THEN pc'[w] = pc[w] ELSE pc'[w] \notin HoldsPc
    PROVE  Ownership'
<1>1. \A f : Queued(f)' <=> Queued(f)
  BY DEF Queued
<1>2. \A w \in Threads, f \in Fibers : Held(w, f)' <=> Held(w, f)
  BY DEF Held
<1>3. \A w \in Threads : StateAt(w)'
  BY DEF OwnInv, Ownership, StateAt, Cur, HoldsPc, ActivePc, OnStackPc
<1>4. QueueDistinct'
  BY DEF OwnInv, Ownership, QueueDistinct
<1> QED BY <1>1, <1>2, <1>3, <1>4 DEF OwnInv, Ownership

\* The thread that holds a task moves on with it and may change its state.
LEMMA OwnAdvance ==
    ASSUME OwnInv, NEW w \in Threads, pc[w] \in HoldsPc,
           NEW label \in HoldsPc, Goto(w, label),
           NEW s \in FiberState, m_state' = [m_state EXCEPT ![Cur(w)] = s],
           UNCHANGED <<m_fibers, ft, born, armed>>, StateAt(w)'
    PROVE  Ownership'
<1>1. \A f : Queued(f)' <=> Queued(f)
  BY DEF Queued
<1>2. \A v \in Threads, f \in Fibers : Held(v, f)' <=> Held(v, f)
  BY DEF Held, Goto, OwnInv, TypeInv, TypeOK
<1>3. Cur(w) \in Fibers /\ Held(w, Cur(w))
  BY CurType DEF OwnInv, TypeInv, Held, Cur
<1>4. ASSUME NEW v \in Threads, v # w PROVE StateAt(v)'
  <2>1. pc'[v] = pc[v] /\ Cur(v)' = Cur(v)
    BY <1>4 DEF Goto, Cur, OwnInv, TypeInv, TypeOK
  <2>2. StateAt(v)
    BY DEF OwnInv, Ownership
  <2>3. CASE pc[v] \in HoldsPc
    <3>1. Cur(v) \in Fibers /\ Held(v, Cur(v))
      BY <2>3, CurType DEF OwnInv, TypeInv, Held, Cur
    <3>2. Cur(v) # Cur(w)
      BY <1>3, <1>4, <3>1 DEF OwnInv, Ownership
    <3>3. m_state'[Cur(v)] = m_state[Cur(v)]
      BY <3>1, <3>2 DEF OwnInv, TypeInv, TypeOK
    <3> QED BY <2>1, <2>2, <3>3 DEF StateAt
  <2>4. CASE pc[v] \notin HoldsPc
    BY <2>1, <2>4 DEF StateAt, HoldsPc, ActivePc, OnStackPc
  <2> QED BY <2>3, <2>4
<1>5. \A f \in Fibers \ {Cur(w)} : m_state'[f] = m_state[f]
  BY DEF OwnInv, TypeInv, TypeOK
<1>6. \A f \in Fibers : Queued(f) => m_state'[f] = m_state[f]
  BY <1>3, <1>5 DEF OwnInv, Ownership
<1>7. QueueDistinct'
  BY DEF OwnInv, Ownership, QueueDistinct
<1>8. \A f \in Fibers :
         IF f \notin born
           THEN m_state'[f] = "INIT"
           ELSE m_state'[f] \in Finished \/ Queued(f) \/ \E v \in Threads : Held(v, f)
  BY <1>3, <1>5 DEF OwnInv, Ownership
<1> QED BY <1>1, <1>2, <1>3, <1>4, <1>6, <1>7, <1>8 DEF OwnInv, Ownership

\* A thread lets go of a task that has ended.
LEMMA OwnDrop ==
    ASSUME OwnInv, NEW w \in Threads, pc[w] \in HoldsPc,
           m_state[Cur(w)] \in Finished, Goto(w, "fetch"),
           ft' = [ft EXCEPT ![w] = NoItem],
           UNCHANGED <<m_fibers, m_state, born, armed>>
    PROVE  Ownership'
<1>1. \A f : Queued(f)' <=> Queued(f)
  BY DEF Queued
<1>2. \A v \in Threads, f \in Fibers : Held(v, f)' <=> v # w /\ Held(v, f)
  BY DEF Held, Goto, OwnInv, TypeInv, TypeOK, HoldsPc, ActivePc, OnStackPc
<1>3. \A v \in Threads : StateAt(v)'
  BY DEF OwnInv, TypeInv, TypeOK, Ownership, StateAt, Cur, Goto
<1>4. QueueDistinct'
  BY DEF OwnInv, Ownership, QueueDistinct
<1>5. \A f \in Fibers : Held(w, f) => m_state[f] \in Finished
  BY DEF Held, Cur
<1> QED BY <1>1, <1>2, <1>3, <1>4, <1>5 DEF OwnInv, Ownership

\* Tasks that were never scheduled enter the queue.
LEMMA OwnEnter ==
    ASSUME OwnInv, NEW S \in SUBSET (Fibers \ born), QueueDistinct',
           \A f : Queued(f)' <=> Queued(f) \/ f \in S,
           born' = born \cup S, UNCHANGED <<m_state, pc, ft, armed>>
    PROVE  Ownership'
<1>1. \A v \in Threads, f \in Fibers : Held(v, f)' <=> Held(v, f)
  BY DEF Held
<1>2. \A v \in Threads : StateAt(v)'
  BY DEF OwnInv, Ownership, StateAt, Cur
<1>3. \A f \in S : m_state[f] = "INIT" /\ ~ Queued(f) /\ \A v \in Threads : ~ Held(v, f)
  BY DEF OwnInv, Ownership
<1> QED BY <1>1, <1>2, <1>3 DEF OwnInv, Ownership

LEMMA QueueAppendTwo ==
    ASSUME m_fibers \in Seq(QueueItem), NEW f \in Fibers, NEW g \in Fibers, f # g,
           m_fibers' = m_fibers \o <<Item(f, AnyThread), Item(g, AnyThread)>>,
           QueueDistinct, ~ Queued(f), ~ Queued(g)
    PROVE  /\ QueueDistinct'
           /\ \A h : Queued(h)' <=> Queued(h) \/ h \in {f, g}
<1> DEFINE n == Len(m_fibers)
           two == <<Item(f, AnyThread), Item(g, AnyThread)>>
<1>1. /\ n \in Nat /\ DOMAIN m_fibers = 1 .. n
      /\ two \in Seq(QueueItem) /\ Len(two) = 2
      /\ two[1].fiber = f /\ two[2].fiber = g
  BY LenProperties DEF Item, QueueItem
<1>2. m_fibers' \in Seq(QueueItem) /\ Len(m_fibers') = n + 2
  BY <1>1, ConcatProperties
<1>3. \A j \in 1 .. (n + 2) :
        m_fibers'[j] = IF j <= n THEN m_fibers[j] ELSE two[j - n]
  BY <1>1, ConcatProperties
<1> HIDE DEF two
<1>4. /\ DOMAIN m_fibers' = 1 .. (n + 2)
      /\ \A j \in 1 .. n : m_fibers'[j] = m_fibers[j]
      /\ m_fibers'[n + 1].fiber = f /\ m_fibers'[n + 2].fiber = g
  BY <1>1, <1>2, <1>3, LenProperties
<1> HIDE DEF n
<1>n. n + 1 \in 1 .. (n + 2) /\ n + 2 \in 1 .. (n + 2) /\ 1 .. n \subseteq 1 .. (n + 2)
  BY <1>1
<1>5. \A h : Queued(h)' <=> Queued(h) \/ h \in {f, g}
  <2>1. ASSUME NEW h, Queued(h)' PROVE Queued(h) \/ h \in {f, g}
    <3>1. PICK j \in 1 .. (n + 2) : m_fibers'[j].fiber = h
      BY <1>4, <2>1 DEF Queued
    <3>2. j \in 1 .. n \/ j = n + 1 \/ j = n + 2
      BY <1>1
    <3> QED BY <1>1, <1>4, <3>1, <3>2 DEF Queued
  <2>2. ASSUME NEW h, Queued(h) PROVE Queued(h)'
    <3>1. PICK j \in 1 .. n : m_fibers[j].fiber = h
      BY <1>1, <2>2 DEF Queued
    <3> QED BY <1>4, <1>n, <3>1 DEF Queued
  <2>3. Queued(f)' /\ Queued(g)'
    BY <1>4, <1>n DEF Queued
  <2> QED BY <2>1, <2>2, <2>3
<1>6. QueueDistinct'
  <2> SUFFICES ASSUME NEW i \in 1 .. (n + 2), NEW j \in 1 .. (n + 2), i < j
               PROVE  m_fibers'[i].fiber # m_fibers'[j].fiber
    BY <1>1, <1>4, <1>n DEF QueueDistinct
  <2>1. CASE j <= n
    <3>1. i \in 1 .. n /\ j \in 1 .. n
      BY <1>1, <2>1
    <3>2. i # j
      OBVIOUS
    <3>3. m_fibers[i].fiber # m_fibers[j].fiber
      BY <1>1, <3>1, <3>2 DEF QueueDistinct
    <3> QED BY <1>4, <3>1, <3>3
  <2>2. CASE j = n + 1
    <3>1. i \in 1 .. n
      BY <1>1, <2>2
    <3> QED BY <1>1, <1>4, <2>2, <3>1 DEF Queued
  <2>3. CASE j = n + 2
    <3>1. i \in 1 .. n \/ i = n + 1
      BY <1>1, <2>3
    <3> QED BY <1>1, <1>4, <2>3, <3>1 DEF Queued
  <2> QED BY <1>1, <2>1, <2>2, <2>3
<1> QED BY <1>5, <1>6

LEMMA InitOwnInv == Init => OwnInv
<1> SUFFICES ASSUME Init PROVE OwnInv
  OBVIOUS
<1>1. DOMAIN m_fibers = {}
  BY DEF Init
<1>2. \A w \in Threads : pc[w] = "off"
  BY DEF Init
<1>3. Ownership
  BY <1>1, <1>2
  DEF Init, Ownership, QueueDistinct, Queued, Held, StateAt, HoldsPc, ActivePc, OnStackPc
<1> QED BY <1>3, InitTypeInv DEF OwnInv

\* When no fiber suspends itself, every step keeps the ownership: one case per
\* action.  The actions of a fiber that suspends itself, of its waker and of a
\* failed assertion are not enabled.
LEMMA NextOwnInv ==
    ASSUME NoSuspension
    PROVE  OwnInv /\ [Next]_vars => OwnInv'
<1> SUFFICES ASSUME OwnInv, [Next]_vars PROVE Ownership'
  BY NextTypeInv DEF OwnInv
<1> USE ConstantsAssumption DEF At, MainAt
<1>t. /\ TypeOK /\ HeldItem /\ m_fibers \in Seq(QueueItem)
      /\ m_state \in [Fibers -> FiberState]
      /\ pc \in [Threads -> WorkerPc]
      /\ ft \in [Threads -> QueueItem \cup {NoItem}]
  BY DEF OwnInv, TypeInv, TypeOK
<1>o. /\ \A w \in Threads : StateAt(w)
      /\ armed = {} /\ QueueDistinct
      /\ \A f \in Fibers : f \notin born => ~ Queued(f)
  BY DEF OwnInv, Ownership
<1>h. \A w \in Threads : pc[w] \in HoldsPc =>
        /\ Cur(w) \in Fibers /\ Held(w, Cur(w)) /\ Cur(w) \in born
        /\ ~ Queued(Cur(w)) /\ \A v \in Threads \ {w} : ~ Held(v, Cur(w))
  <2> SUFFICES ASSUME NEW w \in Threads, pc[w] \in HoldsPc
               PROVE  /\ Cur(w) \in Fibers /\ Held(w, Cur(w)) /\ Cur(w) \in born
                      /\ ~ Queued(Cur(w)) /\ \A v \in Threads \ {w} : ~ Held(v, Cur(w))
    OBVIOUS
  <2>1. Cur(w) \in Fibers /\ Held(w, Cur(w))
    BY <1>t, CurType DEF Held, Cur
  <2> QED BY <2>1 DEF OwnInv, Ownership
<1>1. ASSUME Start PROVE Ownership'
  <2>1. \A w \in Threads : pc[w] = "off" \/ pc'[w] = pc[w]
    BY <1>1 DEF Start, Launched, OwnInv, TypeInv, Threads
  <2>2. \A w \in Threads : pc'[w] = pc[w] \/ pc'[w] = "fetch"
    BY <1>1, <1>t DEF Start
  <2> QED BY <1>1, <2>1, <2>2, OwnAround DEF Start, sched, tasks, HoldsPc, ActivePc, OnStackPc
<1>2. ASSUME RootCall PROVE Ownership'
  <2>1. \A w \in Threads : pc[w] = "off" \/ pc'[w] = pc[w]
    BY <1>2 DEF RootCall, Launched, OwnInv, TypeInv, Threads
  <2>2. \A w \in Threads : pc'[w] = pc[w] \/ pc'[w] = "fetch"
    BY <1>2, <1>t DEF RootCall
  <2> QED BY <1>2, <2>1, <2>2, OwnAround DEF RootCall, sched, tasks, HoldsPc, ActivePc, OnStackPc
<1>3. ASSUME StopBegin PROVE Ownership'
  BY <1>3, OwnAround DEF StopBegin, sched, tasks
<1>4. ASSUME StopSet PROVE Ownership'
  BY <1>4, OwnAround DEF StopSet, sched, tasks
<1>5. ASSUME RootReturn PROVE Ownership'
  BY <1>5, OwnAround DEF RootReturn, sched, tasks
<1>6. ASSUME JoinAll PROVE Ownership'
  BY <1>6, OwnAround DEF JoinAll, sched, tasks
<1>7. ASSUME UNCHANGED vars PROVE Ownership'
  BY <1>7, OwnAround DEF vars, sched, tasks
<1>8. ASSUME NEW w \in Threads, FindNothing(w) PROVE Ownership'
  BY <1>8, <1>t, OwnAround DEF FindNothing, Goto, sched, tasks, HoldsPc, ActivePc, OnStackPc
<1>9. ASSUME NEW w \in Threads, IdleExit(w) PROVE Ownership'
  BY <1>9, <1>t, OwnAround DEF IdleExit, Goto, sched, tasks, HoldsPc, ActivePc, OnStackPc
<1>10. ASSUME NEW w \in Threads, IdleEnter(w) PROVE Ownership'
  BY <1>10, <1>t, OwnAround DEF IdleEnter, Goto, sched, tasks, HoldsPc, ActivePc, OnStackPc
<1>11. ASSUME NEW w \in Threads, IdleCheck(w) PROVE Ownership'
  BY <1>11, <1>t, OwnAround DEF IdleCheck, Goto, sched, tasks, HoldsPc, ActivePc, OnStackPc
<1>12. ASSUME NEW w \in Threads, IdleLeave(w) PROVE Ownership'
  BY <1>12, <1>t, OwnAround DEF IdleLeave, Goto, sched, tasks, HoldsPc, ActivePc, OnStackPc
<1>13. ASSUME NEW f \in Fibers, NEW t \in Affinities, Schedule(f, t) PROVE Ownership'
  <2>1. QueueDistinct' /\ \A g : Queued(g)' <=> Queued(g) \/ g = f
    BY <1>13, <1>t, <1>o, QueueAppend DEF Schedule
  <2> QED BY <1>13, <2>1, OwnEnter DEF Schedule
<1>14. ASSUME NEW w \in Threads, NEW g \in Fibers, NEW t \in Affinities, Spawn(w, g, t) PROVE Ownership'
  <2>1. QueueDistinct' /\ \A f : Queued(f)' <=> Queued(f) \/ f = g
    BY <1>14, <1>t, <1>o, QueueAppend DEF Spawn
  <2> QED BY <1>14, <2>1, OwnEnter DEF Spawn
<1>15. ASSUME NEW f \in Fibers, NEW g \in Fibers, ScheduleBatch(f, g) PROVE Ownership'
  <2>1. QueueDistinct' /\ \A h : Queued(h)' <=> Queued(h) \/ h \in {f, g}
    BY <1>15, <1>t, <1>o, QueueAppendTwo DEF ScheduleBatch
  <2> QED BY <1>15, <2>1, OwnEnter DEF ScheduleBatch
<1>16. ASSUME NEW w \in Threads, TakeTask(w) PROVE Ownership'
  <2>1. PICK i \in DOMAIN m_fibers :
          /\ Takeable(w, m_fibers[i])
          /\ ft' = [ft EXCEPT ![w] = m_fibers[i]]
          /\ m_fibers' = RemoveAt(m_fibers, i)
    BY <1>16 DEF TakeTask
  <2> DEFINE f == m_fibers[i].fiber
  <2>2. m_fibers[i] \in QueueItem /\ f \in Fibers /\ Queued(f)
    <3>1. i \in 1 .. Len(m_fibers)
      BY <1>t, LenProperties
    <3>2. m_fibers[i] \in QueueItem
      BY <1>t, <3>1, ElementOfSeq
    <3> QED BY <3>2 DEF QueueItem, Queued
  <2>3. QueueDistinct' /\ \A g : Queued(g)' <=> Queued(g) /\ g # f
    BY <1>t, <1>o, <2>1, QueueRemove
  <2>4. f \in born /\ m_state[f] \in {"INIT", "READY"} /\ \A v \in Threads : ~ Held(v, f)
    BY <2>2 DEF OwnInv, Ownership
  <2>5. pc[w] = "fetch" /\ pc' = [pc EXCEPT ![w] = "dispatch"] /\ UNCHANGED <<m_state, born, armed>>
    BY <1>16 DEF TakeTask, Goto, tasks
  <2>6. \A v \in Threads, g \in Fibers : Held(v, g)' <=> Held(v, g) \/ (v = w /\ g = f)
    BY <1>t, <2>1, <2>2, <2>5 DEF Held, HoldsPc, ActivePc, OnStackPc
  <2>7. \A v \in Threads : StateAt(v)'
    <3>1. StateAt(w)'
      BY <1>t, <2>1, <2>4, <2>5 DEF StateAt, Cur
    <3>2. ASSUME NEW v \in Threads, v # w PROVE StateAt(v)'
      BY <1>t, <1>o, <2>1, <2>5, <3>2 DEF StateAt, Cur
    <3> QED BY <3>1, <3>2
  <2> HIDE DEF f
  <2> QED BY <2>2, <2>3, <2>4, <2>5, <2>6, <2>7 DEF OwnInv, Ownership
<1>17. ASSUME NEW w \in Threads, Dispatch(w) PROVE Ownership'
  <2>1. m_state[Cur(w)] \in {"INIT", "READY"} /\ pc[w] = "dispatch"
    BY <1>17, <1>o DEF Dispatch, StateAt
  <2>2. Goto(w, "swapIn") /\ UNCHANGED <<m_fibers, m_state, ft, born, armed>>
    BY <1>17, <2>1 DEF Dispatch, Finished, tasks
  <2>3. m_state' = [m_state EXCEPT ![Cur(w)] = m_state[Cur(w)]]
    BY <1>t, <2>2
  <2>4. StateAt(w)'
    BY <1>t, <2>1, <2>2 DEF StateAt, Cur, Goto
  <2> QED BY <1>t, <1>h, <2>1, <2>2, <2>3, <2>4, OwnAdvance DEF HoldsPc, ActivePc, OnStackPc
<1>18. ASSUME NEW w \in Threads, SwapIn(w) PROVE Ownership'
  <2>1. /\ pc[w] = "swapIn" /\ Goto(w, "exec")
        /\ m_state' = [m_state EXCEPT ![Cur(w)] = "EXEC"]
        /\ UNCHANGED <<m_fibers, ft, born, armed>>
    BY <1>18, <1>t, <1>o DEF SwapIn, StateAt, sched, tasks
  <2>2. Cur(w) \in Fibers /\ "EXEC" \in FiberState
    BY <1>t, <1>h, <2>1 DEF HoldsPc, ActivePc, OnStackPc, FiberState, Finished
  <2>3. StateAt(w)'
    BY <1>18, <1>t, <1>o, <2>1, <2>2 DEF StateAt, Cur, Goto, Finished
  <2> QED BY <2>1, <2>2, <2>3, OwnAdvance DEF HoldsPc, ActivePc, OnStackPc
<1>19. ASSUME NEW w \in Threads, Returned(w) PROVE Ownership'
  <2>1. /\ pc[w] = "returned" /\ Goto(w, "post")
        /\ m_state' = [m_state EXCEPT ![Cur(w)] = m_state[Cur(w)]]
        /\ UNCHANGED <<m_fibers, ft, born, armed>>
    BY <1>19, <1>t, <1>o DEF Returned, StateAt, sched, tasks
  <2>2. Cur(w) \in Fibers /\ m_state[Cur(w)] \in FiberState
    BY <1>t, <1>h, <2>1 DEF HoldsPc, ActivePc, OnStackPc, FiberState, Finished
  <2>3. StateAt(w)'
    BY <1>19, <1>t, <1>o, <2>1, <2>2 DEF StateAt, Cur, Goto, Finished
  <2> QED BY <2>1, <2>2, <2>3, OwnAdvance DEF HoldsPc, ActivePc, OnStackPc
<1>20. ASSUME NEW w \in Threads, Requeue(w) PROVE Ownership'
  <2>1. /\ pc[w] = "post" /\ m_state[Cur(w)] = "READY"
        /\ Cur(w) \in Fibers /\ ~ Queued(Cur(w))
        /\ Cur(w) \in born /\ \A v \in Threads \ {w} : ~ Held(v, Cur(w))
    BY <1>20, <1>h DEF Requeue, HoldsPc
  <2>2. QueueDistinct' /\ \A g : Queued(g)' <=> Queued(g) \/ g = Cur(w)
    BY <1>20, <1>t, <1>o, <2>1, QueueAppend DEF Requeue
  <2>3. /\ pc' = [pc EXCEPT ![w] = "fetch"] /\ ft' = [ft EXCEPT ![w] = NoItem]
        /\ UNCHANGED <<m_state, born, armed>>
    BY <1>20 DEF Requeue, Goto, tasks
  <2>4. \A v \in Threads, g \in Fibers : Held(v, g)' <=> v # w /\ Held(v, g)
    BY <1>t, <2>3 DEF Held, HoldsPc, ActivePc, OnStackPc
  <2>5. \A g \in Fibers : Held(w, g) => g = Cur(w)
    BY DEF Held, Cur
  <2>6. \A v \in Threads : StateAt(v)'
    BY <1>t, <1>o, <2>3 DEF StateAt, Cur
  <2> QED BY <2>1, <2>2, <2>3, <2>4, <2>5, <2>6 DEF OwnInv, Ownership
<1>21. ASSUME NEW w \in Threads, LookAfter(w) PROVE Ownership'
  <2>1. pc[w] = "post" /\ m_state[Cur(w)] \in Finished
    BY <1>21, <1>o DEF LookAfter, StateAt
  <2> QED BY <1>21, <2>1, OwnDrop DEF LookAfter, sched, tasks, HoldsPc
<1>22. ASSUME NEW w \in Threads, YieldToReady(w) PROVE Ownership'
  <2>1. /\ pc[w] = "exec" /\ Goto(w, "swapOut")
        /\ m_state' = [m_state EXCEPT ![Cur(w)] = "READY"]
        /\ UNCHANGED <<m_fibers, ft, born, armed>>
    BY <1>22, <1>t, <1>o DEF YieldToReady, StateAt, sched, tasks, CountYield
  <2>2. Cur(w) \in Fibers /\ "READY" \in FiberState
    BY <1>t, <1>h, <2>1 DEF HoldsPc, ActivePc, OnStackPc, FiberState, Finished
  <2>3. StateAt(w)'
    BY <1>22, <1>t, <1>o, <2>1, <2>2 DEF StateAt, Cur, Goto, Finished
  <2> QED BY <2>1, <2>2, <2>3, OwnAdvance DEF HoldsPc, ActivePc, OnStackPc
<1>23. ASSUME NEW w \in Threads, NEW s \in Finished, Finish(w, s) PROVE Ownership'
  <2>1. /\ pc[w] = "exec" /\ Goto(w, "swapOut")
        /\ m_state' = [m_state EXCEPT ![Cur(w)] = s]
        /\ UNCHANGED <<m_fibers, ft, born, armed>>
    BY <1>23, <1>t, <1>o DEF Finish, StateAt, sched, tasks
  <2>2. Cur(w) \in Fibers /\ s \in FiberState
    BY <1>t, <1>h, <2>1 DEF HoldsPc, ActivePc, OnStackPc, FiberState, Finished
  <2>3. StateAt(w)'
    BY <1>23, <1>t, <1>o, <2>1, <2>2 DEF StateAt, Cur, Goto, Finished
  <2> QED BY <2>1, <2>2, <2>3, OwnAdvance DEF HoldsPc, ActivePc, OnStackPc
<1>24. ASSUME NEW w \in Threads, SwapOut(w) PROVE Ownership'
  <2>1. /\ pc[w] = "swapOut" /\ Goto(w, "returned")
        /\ m_state' = [m_state EXCEPT ![Cur(w)] = m_state[Cur(w)]]
        /\ UNCHANGED <<m_fibers, ft, born, armed>>
    BY <1>24, <1>t, <1>o DEF SwapOut, StateAt, sched, tasks
  <2>2. Cur(w) \in Fibers /\ m_state[Cur(w)] \in FiberState
    BY <1>t, <1>h, <2>1 DEF HoldsPc, ActivePc, OnStackPc, FiberState, Finished
  <2>3. StateAt(w)'
    BY <1>24, <1>t, <1>o, <2>1, <2>2 DEF StateAt, Cur, Goto, Finished
  <2> QED BY <2>1, <2>2, <2>3, OwnAdvance DEF HoldsPc, ActivePc, OnStackPc
<1>25. ASSUME NEW w \in Threads, SetHold(w) \/ YieldToHold(w) PROVE Ownership'
  BY <1>25, <1>o DEF SetHold, YieldToHold, StateAt
<1>26. ASSUME NEW w \in Threads, NEW t \in Threads, Wait(w) \/ SwitchTo(w, t) PROVE Ownership'
  BY <1>26 DEF Wait, SwitchTo, NoSuspension
<1>27. ASSUME NEW f \in Fibers, Wake(f) PROVE Ownership'
  BY <1>27, <1>o DEF Wake
<1> QED
  BY <1>1, <1>2, <1>3, <1>4, <1>5, <1>6, <1>7, <1>8, <1>9, <1>10, <1>11,
     <1>12, <1>13, <1>14, <1>15, <1>16, <1>17, <1>18, <1>19, <1>20, <1>21,
     <1>22, <1>23, <1>24, <1>25, <1>26, <1>27
  DEF Next, UserStep, StopStep, RunStep, FiberStep, Terminated

\* What the ownership of tasks says to the reader of the code: no two threads
\* on one stack, no task lost, no task referred to twice, no yield that finds
\* its assertion false, and no finished fiber brought back.
LEMMA OwnInvImplies ==
    ASSUME OwnInv
    PROVE  OnOneThread /\ NoTaskLost /\ OneReference /\ YieldFindsExec
<1>1. OnOneThread
  <2> SUFFICES ASSUME NEW v \in Threads, NEW w \in Threads,
                      v # w, OnStack(v), OnStack(w)
               PROVE  Cur(v) # Cur(w)
    BY DEF OnOneThread
  <2>1. pc[v] \in HoldsPc /\ pc[w] \in HoldsPc
    BY DEF OnStack, HoldsPc, ActivePc
  <2>2. Cur(v) \in Fibers /\ Held(v, Cur(v)) /\ Cur(w) \in Fibers /\ Held(w, Cur(w))
    BY <2>1, CurType DEF OwnInv, TypeInv, Held, Cur
  <2> QED BY <2>2 DEF OwnInv, Ownership
<1>2. NoTaskLost
  BY DEF NoTaskLost, OwnInv, TypeInv, TypeOK, Ownership
<1>3. OneReference
  BY DEF OneReference, OwnInv, Ownership
<1>4. YieldFindsExec
  BY DEF YieldFindsExec, OwnInv, Ownership, StateAt
<1> QED BY <1>1, <1>2, <1>3, <1>4

\* Without YieldToHold() the scheduler keeps the promise of the comment at
\* scheduler.cc:180, for every number of threads and tasks and every affinity:
\* a fiber is on one thread at a time, and none is lost or held twice.
THEOREM SingleOwner ==
    ASSUME NoSuspension
    PROVE  Spec => [](OnOneThread /\ NoTaskLost /\ OneReference /\ YieldFindsExec)
<1>1. Init => OwnInv
  BY InitOwnInv
<1>2. OwnInv /\ [Next]_vars => OwnInv'
  BY NextOwnInv
<1>3. OwnInv => OnOneThread /\ NoTaskLost /\ OneReference /\ YieldFindsExec
  BY OwnInvImplies
<1> QED BY <1>1, <1>2, <1>3, PTL DEF Spec
=============================================================================
