------------------------ MODULE SchedulerStopProofs ------------------------
(***************************************************************************)
(* Proofs about a Scheduler whose fibers do not suspend themselves with    *)
(* YieldToHold(), for every set of threads and tasks and every affinity:   *)
(* what stopping() means, what stop() leaves behind, and that the          *)
(* scheduler implements TaskPool.                                          *)
(***************************************************************************)
EXTENDS SchedulerProofs

-----------------------------------------------------------------------------
(* Ownership, and what an answer of stopping() means.                      *)

\* The strengthening that SingleOwner rests on, itself: where a fiber is decides
\* its state, and every reference to a task is the only one.
THEOREM OwnershipHolds ==
    ASSUME NoSuspension
    PROVE  Spec => []Ownership
<1>1. Init => OwnInv
  BY InitOwnInv
<1>2. OwnInv /\ [Next]_vars => OwnInv'
  BY NextOwnInv
<1>3. OwnInv => Ownership
  BY DEF OwnInv
<1> QED BY <1>1, <1>2, <1>3, PTL DEF Spec

\* No thread is at work when the active count is zero.
LEMMA NobodyActive ==
    ASSUME TypeInv, m_activeThreadCount = 0
    PROVE  \A w \in Threads : pc[w] \notin ActivePc
<1>1. IsFiniteSet(ThreadsAt(ActivePc))
  <2>1. ThreadsAt(ActivePc) \in SUBSET Threads
    BY DEF ThreadsAt
  <2> QED BY <2>1, FS_Subset, ConstantsAssumption
<1>2. Cardinality(ThreadsAt(ActivePc)) = 0
  BY DEF TypeInv, CountersAccount
<1>3. ThreadsAt(ActivePc) = {}
  BY <1>1, <1>2, FS_EmptySet
<1> QED BY <1>3 DEF ThreadsAt

LEMMA StoppingExact == OwnInv => StoppingMeansFinished
<1> SUFFICES ASSUME OwnInv, Stopping, NEW f \in born \ armed, m_state[f] \notin Finished
             PROVE  \E w \in Threads : pc[w] = "post" /\ Cur(w) = f /\ m_state[f] = "READY"
  BY DEF StoppingMeansFinished
<1>1. f \in Fibers
  BY DEF OwnInv, TypeInv, TypeOK
<1>2. ~ Queued(f)
  BY DEF Stopping, Queued
<1>3. PICK w \in Threads : Held(w, f)
  BY <1>1, <1>2 DEF OwnInv, Ownership
<1>4. pc[w] \notin ActivePc
  BY NobodyActive DEF OwnInv, Stopping
<1>5. StateAt(w)
  BY DEF OwnInv, Ownership
<1>6. pc[w] = "post"
  BY <1>3, <1>4, <1>5 DEF Held, HoldsPc, StateAt
<1>7. m_state[f] = "READY" /\ Cur(w) = f
  BY <1>3, <1>5, <1>6 DEF Held, StateAt, Cur
<1> QED BY <1>6, <1>7

\* When stopping() answers yes (scheduler.cc:272-276), what has not ended is READY
\* and in the hands of a thread between lines 204 and 207.
THEOREM StoppingHolds ==
    ASSUME NoSuspension
    PROVE  Spec => []StoppingMeansFinished
<1>1. Init => OwnInv
  BY InitOwnInv
<1>2. OwnInv /\ [Next]_vars => OwnInv'
  BY NextOwnInv
<1> QED BY <1>1, <1>2, StoppingExact, PTL DEF Spec
-----------------------------------------------------------------------------
(* What stop() leaves behind.                                              *)

\* Thread w is going to scan the queue again before it can leave run().
Looks(w) == pc[w] \notin {"off", "done"} /\ ~ (pc[w] = "noTask" /\ idleTerm[w])

UnpinnedQueued == \E i \in DOMAIN m_fibers : m_fibers[i].thread = AnyThread

\* Threads leave only after stop() has set both flags; the pool threads are started
\* together and joined together; and an unpinned task in the queue has a thread that
\* will look at it.
EndInv ==
    /\ mainPc \in {"init", "user"} => ~ m_autoStop
    /\ ~ (m_autoStop /\ m_stopping) => \A w \in Threads : ~ idleTerm[w] /\ pc[w] # "done"
    /\ mainPc # "init" => \A w \in Pool : pc[w] # "off"
    /\ mainPc \in {"join", "stopped"} => \A w \in Root : pc[w] \in {"off", "done"}
    /\ mainPc = "stopped" => \A w \in Pool : pc[w] = "done"
    /\ UnpinnedQueued =>
         \/ \E w \in Threads : Looks(w)
         \/ mainPc = "init"
         \/ Pool = {} /\ mainPc \in {"user", "stopSet", "rootCheck"}

LEMMA InitEndInv == Init => EndInv
<1> SUFFICES ASSUME Init PROVE EndInv
  OBVIOUS
<1>1. DOMAIN m_fibers = {}
  BY DEF Init
<1> QED BY <1>1 DEF Init, EndInv, UnpinnedQueued

\* A thread in run() goes on, and does not stop looking at an unpinned task.
LEMMA EndMoves ==
    ASSUME TypeInv, EndInv, NEW w \in Threads, NEW label, Goto(w, label),
           pc[w] \notin {"off", "done"}, label # "off",
           label = "done" => idleTerm[w],
           UNCHANGED <<flags, idleTerm>>,
           \/ label \notin {"noTask", "done"}
           \/ ~ UnpinnedQueued'
           \/ UnpinnedQueued' = UnpinnedQueued /\ ~ Looks(w)
    PROVE  EndInv'
<1>1. /\ pc' = [pc EXCEPT ![w] = label] /\ pc \in [Threads -> WorkerPc]
      /\ UNCHANGED <<mainPc, m_autoStop, m_stopping, idleTerm>>
  BY DEF Goto, TypeInv, TypeOK, flags
<1>2. pc'[w] = label /\ \A v \in Threads \ {w} : pc'[v] = pc[v]
  BY <1>1
<1>3. \A v \in Threads \ {w} : Looks(v)' <=> Looks(v)
  BY <1>1, <1>2 DEF Looks
<1>4. label \notin {"noTask", "done"} => Looks(w)'
  BY <1>2 DEF Looks
<1>5. UnpinnedQueued' =>
         \/ \E v \in Threads : Looks(v)'
         \/ mainPc' = "init"
         \/ Pool = {} /\ mainPc' \in {"user", "stopSet", "rootCheck"}
  BY <1>1, <1>3, <1>4 DEF EndInv
<1>6. Pool \subseteq Threads /\ Root \subseteq Threads /\ w \in Pool \cup Root
  BY DEF Threads
<1>7. mainPc' # "init" => \A v \in Pool : pc'[v] # "off"
  BY <1>1, <1>2, <1>6 DEF EndInv
<1>8. mainPc' \in {"join", "stopped"} => \A v \in Root : pc'[v] \in {"off", "done"}
  BY <1>1, <1>2, <1>6 DEF EndInv
<1>9. mainPc' = "stopped" => \A v \in Pool : pc'[v] = "done"
  BY <1>1, <1>2, <1>6 DEF EndInv
<1>10. ~ (m_autoStop' /\ m_stopping') => \A v \in Threads : ~ idleTerm'[v] /\ pc'[v] # "done"
  BY <1>1, <1>2 DEF EndInv
<1>11. mainPc' \in {"init", "user"} => ~ m_autoStop'
  BY <1>1 DEF EndInv
<1> QED BY <1>5, <1>7, <1>8, <1>9, <1>10, <1>11 DEF EndInv

\* Before stop() every pool thread looks.
LEMMA PoolLooks ==
    ASSUME EndInv, mainPc = "user", NEW w \in Pool
    PROVE  Looks(w)
  BY DEF EndInv, Looks, Threads

\* The steps of the scheduler but for those of a waker, which acts when every thread may
\* have left.
QuietStep ==
    \/ UserStep
    \/ StopStep
    \/ \E w \in Threads : RunStep(w) \/ FiberStep(w)
    \/ UNCHANGED vars

\* Every quiet step keeps the invariant, provided that a thread which finds no task it
\* may run leaves an unpinned one to somebody else: one case per action.
LEMMA QuietEndInv ==
    ASSUME TypeInv, EndInv, QuietStep,
           \A w \in Threads : FindNothing(w) /\ UnpinnedQueued => \E v \in Threads \ {w} : Looks(v)
    PROVE  EndInv'
<1> USE ConstantsAssumption DEF At, MainAt
<1>t. /\ TypeInv /\ m_fibers \in Seq(QueueItem)
      /\ pc \in [Threads -> WorkerPc] /\ idleTerm \in [Threads -> BOOLEAN]
      /\ mainPc \in MainPc /\ Pool \subseteq Threads /\ Root \subseteq Threads
  BY DEF TypeInv, TypeOK, Threads
<1>1. ASSUME Start PROVE EndInv'
  <2>1. /\ mainPc = "init" /\ mainPc' = "user" /\ ~ m_autoStop' /\ UNCHANGED idleTerm
        /\ \A w \in Pool : pc'[w] = "fetch"
        /\ \A w \in Threads : pc'[w] \in {pc[w], "fetch"}
    BY <1>1, <1>t DEF Start, EndInv
  <2>2. \A w \in Threads : ~ idleTerm'[w] /\ pc'[w] # "done"
    BY <2>1 DEF EndInv
  <2>3. \A w \in Pool : Looks(w)'
    BY <2>1 DEF Looks
  <2> QED BY <1>t, <2>1, <2>2, <2>3 DEF EndInv
<1>2. ASSUME RootCall PROVE EndInv'
  <2>1. mainPc = "rootCheck" /\ UNCHANGED <<m_autoStop, m_stopping, idleTerm, m_fibers>>
    BY <1>2 DEF RootCall, sched
  <2>2. CASE Stopping
    <3>1. mainPc' = "join" /\ pc' = pc /\ \A w \in Root : pc[w] = "off"
      BY <1>2, <1>t, <2>1, <2>2 DEF RootCall, TypeInv, Launched
    <3>2. ~ UnpinnedQueued'
      BY <2>1, <2>2 DEF Stopping, UnpinnedQueued
    <3> QED BY <2>1, <3>1, <3>2 DEF EndInv
  <2>3. CASE ~ Stopping
    <3>1. /\ mainPc' = "inRoot"
          /\ \A w \in Root : pc'[w] = "fetch"
          /\ \A w \in Threads : pc'[w] \in {pc[w], "fetch"}
      BY <1>2, <1>t, <2>3 DEF RootCall
    <3>2. \A w \in Threads : Looks(w) => Looks(w)'
      BY <2>1, <3>1 DEF Looks
    <3>3. \A w \in Root : Looks(w)'
      BY <3>1 DEF Looks
    <3>4. UnpinnedQueued' => \E w \in Threads : Looks(w)'
      BY <1>t, <2>1, <3>2, <3>3, SomeThread DEF EndInv, UnpinnedQueued, Threads
    <3> QED BY <1>t, <2>1, <3>1, <3>4 DEF EndInv
  <2> QED BY <2>2, <2>3
<1>3. ASSUME StopBegin PROVE EndInv'
  <2>1. mainPc = "user" /\ m_autoStop' /\ UNCHANGED <<pc, idleTerm, m_fibers>>
    BY <1>3 DEF StopBegin, sched
  <2>2. (\A w \in Threads : Looks(w)' <=> Looks(w)) /\ (UnpinnedQueued' <=> UnpinnedQueued)
    BY <2>1 DEF Looks, UnpinnedQueued
  <2>3. \A w \in Threads : ~ idleTerm[w] /\ pc[w] # "done"
    BY <2>1 DEF EndInv
  <2>4. CASE mainPc' = "stopSet"
    BY <2>1, <2>2, <2>3, <2>4 DEF EndInv
  <2>5. CASE mainPc' # "stopSet"
    <3>1. mainPc' = "stopped" /\ Pool = {} /\ Stopping'
      BY <1>3, <2>5 DEF StopBegin
    <3>2. ~ UnpinnedQueued'
      BY <3>1 DEF Stopping, UnpinnedQueued
    <3>3. \A w \in Root : pc'[w] = "off"
      BY <1>t, <2>1 DEF TypeInv, Launched
    <3> QED BY <2>1, <2>3, <3>1, <3>2, <3>3 DEF EndInv
  <2> QED BY <2>4, <2>5
<1>4. ASSUME StopSet PROVE EndInv'
  <2>1. /\ mainPc = "stopSet" /\ m_stopping'
        /\ UNCHANGED <<m_autoStop, pc, idleTerm, m_fibers>>
        /\ mainPc' = IF Root # {} THEN "rootCheck" ELSE "join"
    BY <1>4 DEF StopSet, sched
  <2>2. (\A w \in Threads : Looks(w)' <=> Looks(w)) /\ (UnpinnedQueued' <=> UnpinnedQueued)
    BY <2>1 DEF Looks, UnpinnedQueued
  <2>3. Root # {} \/ Pool # {}
    BY SomeThread DEF Threads
  <2> QED BY <2>1, <2>2, <2>3 DEF EndInv
<1>5. ASSUME RootReturn PROVE EndInv'
  <2>1. /\ mainPc = "inRoot" /\ mainPc' = "join" /\ \A w \in Root : pc[w] = "done"
        /\ UNCHANGED <<m_autoStop, m_stopping, pc, idleTerm, m_fibers>>
    BY <1>5 DEF RootReturn, sched
  <2>2. (\A w \in Threads : Looks(w)' <=> Looks(w)) /\ (UnpinnedQueued' <=> UnpinnedQueued)
    BY <2>1 DEF Looks, UnpinnedQueued
  <2> QED BY <2>1, <2>2 DEF EndInv
<1>6. ASSUME JoinAll PROVE EndInv'
  <2>1. /\ mainPc = "join" /\ mainPc' = "stopped" /\ \A w \in Pool : pc[w] = "done"
        /\ UNCHANGED <<m_autoStop, m_stopping, pc, idleTerm, m_fibers>>
    BY <1>6 DEF JoinAll, sched
  <2>2. (\A w \in Threads : Looks(w)' <=> Looks(w)) /\ (UnpinnedQueued' <=> UnpinnedQueued)
    BY <2>1 DEF Looks, UnpinnedQueued
  <2> QED BY <2>1, <2>2 DEF EndInv
<1>7. ASSUME UNCHANGED vars PROVE EndInv'
  BY <1>7 DEF vars, flags, sched, EndInv, Looks, UnpinnedQueued
<1>8. ASSUME mainPc \in {"init", "user"}, UNCHANGED <<flags, pc, idleTerm>> PROVE EndInv'
  <2>1. \A w \in Threads : Looks(w)' <=> Looks(w)
    BY <1>8 DEF Looks
  <2>2. mainPc = "user" => \A w \in Pool : Looks(w)'
    BY <1>t, <2>1, PoolLooks
  <2> QED BY <1>8, <1>t, <2>2 DEF EndInv, flags
<1>9. ASSUME NEW w \in Threads, FindNothing(w) PROVE EndInv'
  <2>1. /\ pc[w] = "fetch" /\ Goto(w, "noTask") /\ UNCHANGED <<flags, idleTerm, m_fibers>>
    BY <1>9 DEF FindNothing, sched
  <2>2. UnpinnedQueued' = UnpinnedQueued
    BY <2>1 DEF UnpinnedQueued
  <2>3. CASE ~ UnpinnedQueued
    BY <1>t, <2>1, <2>2, <2>3, EndMoves
  <2>4. CASE UnpinnedQueued
    <3>1. PICK v \in Threads \ {w} : Looks(v)
      BY <1>9, <2>4
    <3>2. Looks(v)'
      BY <1>t, <2>1, <3>1 DEF Looks, Goto
    <3>3. /\ UNCHANGED <<mainPc, m_autoStop, m_stopping>>
          /\ \A u \in Threads : pc'[u] = pc[u] \/ (u = w /\ pc'[u] = "noTask" /\ pc[u] = "fetch")
      BY <1>t, <2>1 DEF Goto, flags
    <3> QED BY <1>t, <2>1, <3>2, <3>3 DEF EndInv
  <2> QED BY <2>3, <2>4
<1>10. ASSUME NEW w \in Threads, IdleExit(w) PROVE EndInv'
  <2>1. /\ pc[w] = "noTask" /\ idleTerm[w] /\ Goto(w, "done")
        /\ UNCHANGED <<flags, idleTerm, m_fibers>>
    BY <1>10 DEF IdleExit, sched
  <2>2. UnpinnedQueued' = UnpinnedQueued /\ ~ Looks(w)
    BY <2>1 DEF UnpinnedQueued, Looks
  <2> QED BY <1>t, <2>1, <2>2, EndMoves
<1>11. ASSUME NEW w \in Threads, IdleCheck(w) PROVE EndInv'
  <2>1. /\ pc[w] = "idle" /\ pc' = [pc EXCEPT ![w] = "idleBack"] /\ UNCHANGED <<mainPc, m_autoStop, m_stopping>>
        /\ idleTerm' = [idleTerm EXCEPT ![w] = Stopping]
    BY <1>11 DEF IdleCheck, Goto, flags
  <2>2. ~ (m_autoStop /\ m_stopping) => ~ Stopping
    BY DEF Stopping
  <2>3. Looks(w)'
    BY <1>t, <2>1 DEF Looks
  <2>4. ~ (m_autoStop' /\ m_stopping') => \A v \in Threads : ~ idleTerm'[v] /\ pc'[v] # "done"
    BY <1>t, <2>1, <2>2 DEF EndInv
  <2>5. mainPc' # "init" => \A v \in Pool : pc'[v] # "off"
    BY <1>t, <2>1 DEF EndInv
  <2>6. mainPc' \notin {"join", "stopped"} \/ w \notin Root
    BY <2>1 DEF EndInv
  <2>7. mainPc' # "stopped"
    BY <1>t, <2>1, <2>6 DEF EndInv, Threads
  <2>8. mainPc' \in {"join", "stopped"} => \A v \in Root : pc'[v] \in {"off", "done"}
    BY <1>t, <2>1, <2>6 DEF EndInv
  <2> QED BY <2>1, <2>3, <2>4, <2>5, <2>7, <2>8 DEF EndInv
<1>12. ASSUME NEW w \in Threads, NEW label \in WorkerPc \ {"off", "done", "noTask"},
              pc[w] \notin {"off", "done"}, Goto(w, label), UNCHANGED <<flags, idleTerm>>
       PROVE  EndInv'
  BY <1>t, <1>12, EndMoves
<1>13. ASSUME NEW w \in Threads, TakeTask(w) \/ Dispatch(w) \/ SwapIn(w) \/ Returned(w)
                 \/ Requeue(w) \/ LookAfter(w) \/ SetHold(w) \/ IdleEnter(w) \/ IdleLeave(w)
       PROVE  EndInv'
  <2>1. PICK label \in WorkerPc \ {"off", "done", "noTask"} : Goto(w, label)
    BY <1>13 DEF TakeTask, Dispatch, SwapIn, Returned, Requeue, LookAfter, SetHold,
                 IdleEnter, IdleLeave, Abort, WorkerPc, HoldsPc, ActivePc, OnStackPc, IdlePc
  <2>2. pc[w] \notin {"off", "done"} /\ UNCHANGED <<flags, idleTerm>>
    BY <1>13 DEF TakeTask, Dispatch, SwapIn, Returned, Requeue, LookAfter, SetHold,
                 IdleEnter, IdleLeave, Abort
  <2> QED BY <1>12, <2>1, <2>2
<1>14. ASSUME NEW w \in Threads, NEW s \in Finished,
              YieldToReady(w) \/ YieldToHold(w) \/ Finish(w, s) \/ SwapOut(w)
       PROVE  EndInv'
  <2>1. PICK label \in WorkerPc \ {"off", "done", "noTask"} : Goto(w, label)
    BY <1>14 DEF YieldToReady, YieldToHold, Finish, SwapOut, Abort,
                 WorkerPc, HoldsPc, ActivePc, OnStackPc, IdlePc
  <2>2. pc[w] \notin {"off", "done"} /\ UNCHANGED <<flags, idleTerm>>
    BY <1>14 DEF YieldToReady, YieldToHold, Finish, SwapOut, Abort
  <2> QED BY <1>12, <2>1, <2>2
<1>15. ASSUME NEW w \in Threads, NEW g \in Fibers, NEW t \in Affinities, Spawn(w, g, t)
       PROVE  EndInv'
  <2>1. Goto(w, "exec") /\ pc[w] = "exec" /\ UNCHANGED <<flags, idleTerm>>
    BY <1>t, <1>15 DEF Spawn, Goto
  <2> QED BY <1>12, <2>1 DEF WorkerPc, HoldsPc, ActivePc, OnStackPc
<1>16. ASSUME NEW f \in Fibers, NEW t \in Affinities, Schedule(f, t) PROVE EndInv'
  BY <1>8, <1>16 DEF Schedule
<1>17. ASSUME NEW f \in Fibers, NEW g \in Fibers, ScheduleBatch(f, g) PROVE EndInv'
  BY <1>8, <1>17 DEF ScheduleBatch
<1>18. ASSUME NEW w \in Threads, NEW t \in Threads, Wait(w) \/ SwitchTo(w, t) PROVE EndInv'
  <2>1. Goto(w, "yieldHold") /\ pc[w] = "exec" /\ UNCHANGED <<flags, idleTerm>>
    BY <1>18 DEF Wait, SwitchTo
  <2> QED BY <1>12, <2>1 DEF WorkerPc, HoldsPc, ActivePc, OnStackPc
<1>19. ASSUME NEW w \in Threads, Wait(w) PROVE EndInv'
  BY <1>18, <1>19
<1>20. ASSUME NEW w \in Threads, SwapOut(w) \/ YieldToReady(w) \/ YieldToHold(w) PROVE EndInv'
  BY <1>14, <1>20 DEF Finished
<1> QED
  BY <1>1, <1>2, <1>3, <1>4, <1>5, <1>6, <1>7, <1>9, <1>10, <1>11, <1>13, <1>14,
     <1>15, <1>16, <1>17, <1>18, <1>19, <1>20
  DEF QuietStep, UserStep, StopStep, RunStep, FiberStep

LEMMA NextEndInv ==
    ASSUME NoSuspension
    PROVE  OwnInv /\ EndInv /\ [Next]_vars => EndInv'
<1> SUFFICES ASSUME OwnInv, EndInv, [Next]_vars PROVE EndInv'
  OBVIOUS
<1>1. QuietStep
  BY DEF Next, QuietStep, Wake, Terminated, OwnInv, Ownership
<1>2. ASSUME NEW w \in Threads, FindNothing(w) PROVE ~ UnpinnedQueued
  <2>1. m_fibers \in Seq(QueueItem)
    BY DEF OwnInv, TypeInv, TypeOK
  <2>2. ASSUME NEW i \in DOMAIN m_fibers PROVE m_fibers[i].thread # AnyThread
    <3>1. i \in 1 .. Len(m_fibers)
      BY <2>1, LenProperties
    <3>2. m_fibers[i] \in QueueItem
      BY <2>1, <3>1, ElementOfSeq
    <3>3. m_fibers[i].fiber \in Fibers /\ Queued(m_fibers[i].fiber)
      BY <3>2 DEF QueueItem, Queued
    <3>4. m_state[m_fibers[i].fiber] # "EXEC"
      BY <3>3 DEF OwnInv, Ownership
    <3> QED BY <1>2, <3>4 DEF FindNothing, Takeable
  <2> QED BY <2>2 DEF UnpinnedQueued
<1> QED BY <1>1, <1>2, QuietEndInv DEF OwnInv

LEMMA EndExact == OwnInv /\ EndInv => StopDrains
<1> SUFFICES ASSUME OwnInv, EndInv, mainPc = "stopped", NEW f \in born, m_state[f] \notin Finished
             PROVE  StrandedTask(f)
  BY DEF StopDrains
<1>1. \A w \in Threads : pc[w] \in {"off", "done"}
  BY DEF EndInv, Threads
<1>2. \A w \in Threads : ~ Held(w, f) /\ ~ Looks(w)
  BY <1>1 DEF Held, Looks, HoldsPc, ActivePc, OnStackPc
<1>3. f \in Fibers /\ m_fibers \in Seq(QueueItem)
  BY DEF OwnInv, TypeInv, TypeOK
<1>4. PICK i \in DOMAIN m_fibers : m_fibers[i].fiber = f
  BY <1>2, <1>3 DEF OwnInv, Ownership, Queued
<1>5. m_fibers[i].thread # AnyThread
  BY <1>2 DEF EndInv, UnpinnedQueued
<1>6. m_fibers[i].thread \in Threads
  <2>1. i \in 1 .. Len(m_fibers)
    BY <1>3, LenProperties
  <2>2. m_fibers[i] \in QueueItem
    BY <1>3, <2>1, ElementOfSeq
  <2> QED BY <1>5, <2>2 DEF QueueItem
<1> QED BY <1>1, <1>4, <1>6 DEF StrandedTask, LeftRun

\* After stop() every task has ended (scheduler.cc:108-109) but for those pinned to a
\* thread that has left run(): an unpinned task is never left behind, however many
\* threads there are and however often fibers yield.
THEOREM StopDrainsHolds ==
    ASSUME NoSuspension
    PROVE  Spec => []StopDrains
<1>1. Init => OwnInv /\ EndInv
  BY InitOwnInv, InitEndInv
<1>2. OwnInv /\ EndInv /\ [Next]_vars => OwnInv' /\ EndInv'
  BY NextOwnInv, NextEndInv
<1> QED BY <1>1, <1>2, EndExact, PTL DEF Spec
-----------------------------------------------------------------------------
(* The task pool: the state of a fiber says what the pool knows of it.     *)

StatusByState(f) ==
    IF f \notin born THEN "new"
    ELSE IF m_state[f] \in Finished THEN "done"
    ELSE IF m_state[f] = "EXEC" THEN "running"
    ELSE "ready"

StatusKnown == \A f \in Fibers : PoolStatus(f) = StatusByState(f)

PoolClosed == mainPc = "stopped" /\ ~ Stranded

LEMMA StatusIsState == OwnInv => StatusKnown
<1> SUFFICES ASSUME OwnInv, NEW f \in Fibers, f \in born, m_state[f] \notin Finished
             PROVE  m_state[f] = "EXEC" <=> \E w \in Threads : pc[w] = "exec" /\ Cur(w) = f
  BY DEF PoolStatus, StatusByState, StatusKnown, OwnInv, Ownership
<1>1. ASSUME NEW w \in Threads, pc[w] = "exec", Cur(w) = f PROVE m_state[f] = "EXEC"
  BY <1>1 DEF OwnInv, Ownership, StateAt
<1>2. ASSUME m_state[f] = "EXEC" PROVE \E w \in Threads : pc[w] = "exec" /\ Cur(w) = f
  <2>1. PICK w \in Threads : Held(w, f)
    BY <1>2 DEF OwnInv, Ownership
  <2>2. StateAt(w) /\ Cur(w) = f
    BY <2>1 DEF OwnInv, Ownership, Held, Cur
  <2>3. pc[w] = "exec"
    BY <1>2, <2>1, <2>2 DEF Held, StateAt, HoldsPc, ActivePc, OnStackPc, Finished
  <2> QED BY <2>2, <2>3
<1> QED BY <1>1, <1>2

\* A thread on a fiber's stack is there for a task, which it holds.
LEMMA OnStackHolds ==
    ASSUME OwnInv, NEW w \in Threads, OnStack(w)
    PROVE  /\ PoolRunner(w) = Cur(w) /\ Cur(w) \in Fibers /\ Cur(w) # NoItem
           /\ Held(w, Cur(w)) /\ Cur(w) \in born
           /\ pc[w] = "exec" => m_state[Cur(w)] = "EXEC"
           /\ pc[w] = "swapOut" => m_state[Cur(w)] \in {"READY"} \cup Finished
<1>1. pc[w] \in HoldsPc /\ PoolRunner(w) = Cur(w)
  BY DEF OnStack, HoldsPc, ActivePc, PoolRunner
<1>2. ft[w] \in QueueItem
  BY <1>1 DEF OwnInv, TypeInv, HeldItem
<1>3. Cur(w) \in Fibers /\ Cur(w) # NoItem /\ Held(w, Cur(w))
  BY <1>1, <1>2, NoItemAssumption DEF QueueItem, Cur, Held
<1>4. Cur(w) \in born /\ StateAt(w)
  BY <1>3 DEF OwnInv, Ownership
<1> QED BY <1>1, <1>3, <1>4 DEF StateAt

-----------------------------------------------------------------------------
(* Steps of the scheduler that are none of the pool.                       *)

LEMMA PoolStutters ==
    ASSUME StatusKnown, StatusKnown', UNCHANGED <<born, m_state>>,
           \A w \in Threads : PoolRunner(w)' = PoolRunner(w),
           PoolClosed' = PoolClosed
    PROVE  UNCHANGED Contract!vars
<1>1. \A f \in Fibers : PoolStatus(f)' = PoolStatus(f)
  BY DEF StatusKnown, StatusByState
<1> QED BY <1>1 DEF Contract!vars, PoolClosed

\* A thread that moves neither onto a stack nor off one.
LEMMA RunnersStay ==
    ASSUME pc \in [Threads -> WorkerPc], NEW w \in Threads, NEW label, Goto(w, label),
           pc[w] \notin OnStackPc, label \notin OnStackPc,
           \A v \in Threads \ {w} : ft'[v] = ft[v]
    PROVE  \A v \in Threads : PoolRunner(v)' = PoolRunner(v)
  BY DEF Goto, PoolRunner, OnStack, Cur

\* Nothing happens after stop() has returned.
LEMMA StoppedIsLast ==
    ASSUME NoSuspension, OwnInv, EndInv, mainPc = "stopped", [Next]_vars
    PROVE  UNCHANGED vars
<1>1. \A w \in Threads : pc[w] \in {"off", "done"}
  BY DEF EndInv, Threads
<1>2. armed = {}
  BY DEF OwnInv, Ownership
<1>3. \A w \in Threads : ~ RunStep(w)
  BY <1>1 DEF RunStep, At, TakeTask, FindNothing, Dispatch, SwapIn, Returned, Requeue,
     LookAfter, SetHold, IdleExit, IdleEnter, IdleCheck, IdleLeave
<1>4. \A w \in Threads : ~ FiberStep(w)
  BY <1>1 DEF FiberStep, At, Spawn, Wait, SwitchTo, YieldToHold, YieldToReady, Finish, SwapOut
<1>5. ~ UserStep /\ ~ StopStep
  BY DEF UserStep, StopStep, MainAt, Start, Schedule, ScheduleBatch, StopBegin,
     StopSet, RootCall, RootReturn, JoinAll
<1>6. \A f \in Fibers : ~ Wake(f)
  BY <1>2 DEF Wake
<1> QED BY <1>3, <1>4, <1>5, <1>6 DEF Next, Terminated
-----------------------------------------------------------------------------
(* Steps of the scheduler that are steps of the pool.                      *)

\* Tasks enter the queue for the first time.
LEMMA Submits ==
    ASSUME NEW S \in (SUBSET Fibers) \ {{}}, S \cap born = {}, born' = born \cup S,
           StatusKnown, StatusKnown', OwnInv, m_state' = m_state,
           \A w \in Threads : PoolRunner(w)' = PoolRunner(w),
           ~ PoolClosed, ~ PoolClosed'
    PROVE  Contract!Next
<1>1. \A f \in S : m_state[f] = "INIT"
  BY DEF OwnInv, Ownership
<1>2. \A f \in Fibers : PoolStatus(f)' = IF f \in S THEN "ready" ELSE PoolStatus(f)
  BY <1>1 DEF StatusKnown, StatusByState, Finished
<1>3. \A f \in S : PoolStatus(f) = "new"
  BY DEF PoolStatus
<1>4. Contract!Submit(S)
  BY <1>2, <1>3 DEF Contract!Submit, PoolClosed
<1> QED BY <1>4 DEF Contract!Next

\* swapIn() puts the thread on the stack of a task that is on no other.
LEMMA Takes ==
    ASSUME OwnInv, StatusKnown, StatusKnown', NEW w \in Threads, SwapIn(w),
           ~ PoolClosed, ~ PoolClosed'
    PROVE  Contract!Next
<1> DEFINE f == Cur(w)
<1>1. pc[w] = "swapIn" /\ pc \in [Threads -> WorkerPc] /\ m_state \in [Fibers -> FiberState]
  BY DEF SwapIn, At, OwnInv, TypeInv, TypeOK
<1>2. ft[w] \in QueueItem
  BY <1>1 DEF OwnInv, TypeInv, HeldItem, HoldsPc, ActivePc
<1>3. f \in Fibers /\ Held(w, f)
  BY <1>1, <1>2 DEF QueueItem, Cur, Held, HoldsPc, ActivePc
<1>4. f \in born /\ (\A v \in Threads \ {w} : ~ Held(v, f)) /\ m_state[f] \in {"INIT", "READY"}
  BY <1>1, <1>3 DEF OwnInv, Ownership, StateAt
<1>5. /\ m_state' = [m_state EXCEPT ![f] = "EXEC"]
      /\ pc' = [pc EXCEPT ![w] = "exec"] /\ UNCHANGED <<ft, born>>
  BY <1>4 DEF SwapIn, Goto, tasks
<1>6. \A g \in Fibers : PoolStatus(g)' = IF g = f THEN "running" ELSE PoolStatus(g)
  BY <1>1, <1>3, <1>4, <1>5 DEF StatusKnown, StatusByState, Finished
<1>7. PoolStatus(f) = "ready"
  BY <1>3, <1>4 DEF StatusKnown, StatusByState, Finished
<1>8. \A v \in Threads : PoolRunner(v) # f
  <2> SUFFICES ASSUME NEW v \in Threads, PoolRunner(v) = f PROVE FALSE
    OBVIOUS
  <2>1. OnStack(v)
    BY <1>3, NoItemAssumption DEF PoolRunner
  <2>2. Held(v, f) /\ v # w
    BY <1>1, <2>1, OnStackHolds DEF OnStack, OnStackPc
  <2> QED BY <1>4, <2>2
<1>9. /\ PoolRunner(w) = NoItem
      /\ \A v \in Threads : PoolRunner(v)' = IF v = w THEN f ELSE PoolRunner(v)
  BY <1>1, <1>5 DEF PoolRunner, OnStack, OnStackPc, Cur
<1> HIDE DEF f
<1>10. Contract!Take(w, f)
  BY <1>3, <1>6, <1>7, <1>8, <1>9 DEF Contract!Take, PoolClosed
<1> QED BY <1>3, <1>10 DEF Contract!Next

\* A fiber that yields READY or ends stops running, still on its stack.
LEMMA Leaves ==
    ASSUME OwnInv, StatusKnown, StatusKnown', NEW w \in Threads, pc[w] = "exec",
           NEW s \in {"READY"} \cup Finished,
           m_state' = [m_state EXCEPT ![Cur(w)] = s], Goto(w, "swapOut"),
           UNCHANGED <<ft, born>>, ~ PoolClosed, ~ PoolClosed'
    PROVE  Contract!Next
<1> DEFINE f == Cur(w)
           next == IF s = "READY" THEN "ready" ELSE "done"
<1>1. pc \in [Threads -> WorkerPc] /\ m_state \in [Fibers -> FiberState]
  BY DEF OwnInv, TypeInv, TypeOK
<1>2. /\ PoolRunner(w) = f /\ f \in Fibers /\ f # NoItem /\ f \in born
      /\ m_state[f] = "EXEC"
  BY OnStackHolds DEF OnStack, OnStackPc
<1>3. PoolStatus(f) = "running"
  BY <1>2 DEF StatusKnown, StatusByState, Finished
<1>4. \A g \in Fibers : PoolStatus(g)' = IF g = f THEN next ELSE PoolStatus(g)
  BY <1>1, <1>2 DEF StatusKnown, StatusByState, Finished
<1>5. \A v \in Threads : PoolRunner(v)' = PoolRunner(v)
  BY <1>1 DEF PoolRunner, OnStack, OnStackPc, Cur, Goto
<1>6. next \in {"ready", "waiting", "done"}
  OBVIOUS
<1> HIDE DEF f, next
<1>7. Contract!Leave(w, next)
  BY <1>2, <1>3, <1>4, <1>5 DEF Contract!Leave, PoolClosed
<1> QED BY <1>6, <1>7 DEF Contract!Next

\* swapcontext() takes the thread off the stack of a task that no longer runs.
LEMMA Releases ==
    ASSUME OwnInv, StatusKnown, StatusKnown', NEW w \in Threads, SwapOut(w),
           ~ PoolClosed, ~ PoolClosed'
    PROVE  Contract!Next
<1>1. /\ pc[w] = "swapOut" /\ pc \in [Threads -> WorkerPc]
      /\ pc' = [pc EXCEPT ![w] = "returned"] /\ UNCHANGED <<ft, born, m_state>>
  BY DEF SwapOut, At, Goto, tasks, OwnInv, TypeInv, TypeOK
<1>2. /\ PoolRunner(w) = Cur(w) /\ Cur(w) \in Fibers /\ Cur(w) # NoItem
      /\ m_state[Cur(w)] \in {"READY"} \cup Finished
  BY <1>1, OnStackHolds DEF OnStack, OnStackPc
<1>3. PoolStatus(Cur(w)) # "running"
  BY <1>2 DEF StatusKnown, StatusByState, Finished
<1>4. \A v \in Threads : PoolRunner(v)' = IF v = w THEN NoItem ELSE PoolRunner(v)
  BY <1>1 DEF PoolRunner, OnStack, OnStackPc, Cur
<1>5. \A f \in Fibers : PoolStatus(f)' = PoolStatus(f)
  BY <1>1 DEF StatusKnown, StatusByState
<1>6. Contract!Release(w)
  BY <1>2, <1>3, <1>4, <1>5 DEF Contract!Release, PoolClosed
<1> QED BY <1>6 DEF Contract!Next

\* stop() returns: the pool closes, or a stranded task keeps it open.
LEMMA Closes ==
    ASSUME OwnInv, StatusKnown, StatusKnown', StopDrains', OwnInv', EndInv',
           mainPc' = "stopped", UNCHANGED <<born, m_state, pc, ft>>, ~ PoolClosed
    PROVE  Contract!Next \/ UNCHANGED Contract!vars
<1>1. \A f \in Fibers : PoolStatus(f)' = PoolStatus(f)
  BY DEF StatusKnown, StatusByState
<1>2. \A w \in Threads : PoolRunner(w)' = PoolRunner(w)
  BY DEF PoolRunner, OnStack, Cur
<1>3. CASE ~ PoolClosed'
  BY <1>1, <1>2, <1>3 DEF Contract!vars, PoolClosed
<1>4. CASE PoolClosed'
  <2>1. \A f \in born : m_state[f] \in Finished
    <3>1. born \subseteq Fibers
      BY DEF OwnInv, TypeInv, TypeOK
    <3>2. \A f \in Fibers : ~ StrandedTask(f)'
      BY <1>4 DEF PoolClosed, Stranded
    <3> QED BY <3>1, <3>2 DEF StopDrains
  <2>2. \A f \in Fibers : PoolStatus(f) \in {"new", "waiting", "done"}
    BY <2>1 DEF StatusKnown, StatusByState
  <2>3. \A w \in Threads : PoolRunner(w) = NoItem
    BY DEF EndInv, Threads, PoolRunner, OnStack, OnStackPc
  <2>4. Contract!Close
    BY <1>1, <1>2, <1>4, <2>2, <2>3 DEF Contract!Close, PoolClosed
  <2> QED BY <2>4 DEF Contract!Next
<1> QED BY <1>3, <1>4
-----------------------------------------------------------------------------
LEMMA InitRefines == Init => Contract!Init
<1> SUFFICES ASSUME Init PROVE Contract!Init
  OBVIOUS
<1>1. \A f \in Fibers : PoolStatus(f) = "new"
  BY DEF Init, PoolStatus
<1>2. \A w \in Threads : PoolRunner(w) = NoItem
  BY DEF Init, PoolRunner, OnStack, OnStackPc
<1>3. ~ PoolClosed
  BY DEF Init, PoolClosed
<1> QED BY <1>1, <1>2, <1>3 DEF Contract!Init, PoolClosed

\* Every step of the scheduler is a step of the pool or a stutter: one case per action.
LEMMA StepRefines ==
    ASSUME NoSuspension, OwnInv, OwnInv', EndInv, EndInv', StatusKnown, StatusKnown',
           StopDrains', [Next]_vars
    PROVE  [Contract!Next]_Contract!vars
<1> USE DEF At, MainAt
<1>t. /\ pc \in [Threads -> WorkerPc] /\ born \subseteq Fibers
      /\ Pool \subseteq Threads /\ Root \subseteq Threads
  BY DEF OwnInv, TypeInv, TypeOK, Threads
<1>1. ASSUME UNCHANGED vars PROVE UNCHANGED Contract!vars
  <2>1. \A w \in Threads : PoolRunner(w)' = PoolRunner(w)
    BY <1>1 DEF vars, PoolRunner, OnStack, Cur
  <2>2. PoolClosed' = PoolClosed
    BY <1>1 DEF vars, sched, flags, PoolClosed, Stranded, StrandedTask, LeftRun
  <2>3. UNCHANGED <<born, m_state>>
    BY <1>1 DEF vars, tasks
  <2> QED BY <2>1, <2>2, <2>3, PoolStutters
<1>2. CASE mainPc = "stopped"
  BY <1>1, <1>2, StoppedIsLast
<1>3. ASSUME mainPc # "stopped" PROVE ~ PoolClosed
  BY <1>3 DEF PoolClosed
<1>4. ASSUME mainPc # "stopped", mainPc' = mainPc PROVE ~ PoolClosed /\ ~ PoolClosed'
  BY <1>4 DEF PoolClosed
<1>5. ASSUME mainPc # "stopped", mainPc' # "stopped", UNCHANGED <<born, m_state, ft>>,
             \A w \in Threads : pc'[w] = pc[w] \/ {pc[w], pc'[w]} \cap OnStackPc = {}
      PROVE  UNCHANGED Contract!vars
  <2>1. \A w \in Threads : PoolRunner(w)' = PoolRunner(w)
    BY <1>5 DEF PoolRunner, OnStack, Cur
  <2> QED BY <1>5, <2>1, PoolStutters DEF PoolClosed
<1>6. ASSUME mainPc # "stopped", Start \/ StopSet \/ RootCall \/ RootReturn
      PROVE  UNCHANGED Contract!vars
  <2>1. mainPc' # "stopped" /\ UNCHANGED <<born, m_state, ft>>
    BY <1>6 DEF Start, StopSet, RootCall, RootReturn, tasks
  <2>2. \A w \in Threads : pc'[w] = pc[w] \/ (pc[w] = "off" /\ pc'[w] = "fetch")
    BY <1>6, <1>t DEF Start, StopSet, RootCall, RootReturn, TypeInv, OwnInv, Launched
  <2> QED BY <1>5, <1>6, <2>1, <2>2 DEF OnStackPc
<1>7. ASSUME mainPc # "stopped", StopBegin \/ JoinAll
      PROVE  [Contract!Next]_Contract!vars
  <2>1. UNCHANGED <<born, m_state, pc, ft>>
    BY <1>7 DEF StopBegin, JoinAll, tasks
  <2>2. CASE mainPc' = "stopped"
    BY <1>3, <1>7, <2>1, <2>2, Closes
  <2>3. CASE mainPc' # "stopped"
    BY <1>5, <1>7, <2>1, <2>3
  <2> QED BY <2>2, <2>3
<1>8. ASSUME NEW w \in Threads, NEW label \in WorkerPc \ OnStackPc, Goto(w, label),
             mainPc # "stopped", mainPc' = mainPc, pc[w] \notin OnStackPc,
             \A v \in Threads \ {w} : ft'[v] = ft[v], UNCHANGED <<born, m_state>>
      PROVE  UNCHANGED Contract!vars
  <2>1. \A v \in Threads : PoolRunner(v)' = PoolRunner(v)
    BY <1>8, <1>t, RunnersStay
  <2>2. PoolClosed' = PoolClosed
    BY <1>8 DEF PoolClosed
  <2> QED BY <1>8, <2>1, <2>2, PoolStutters
<1>9. ASSUME NEW w \in Threads, mainPc # "stopped",
             \/ TakeTask(w) \/ FindNothing(w) \/ Dispatch(w) \/ Returned(w)
             \/ Requeue(w) \/ LookAfter(w)
             \/ IdleExit(w) \/ IdleEnter(w) \/ IdleCheck(w) \/ IdleLeave(w)
      PROVE  UNCHANGED Contract!vars
  <2>1. PICK label \in WorkerPc \ OnStackPc : Goto(w, label)
    BY <1>9 DEF TakeTask, FindNothing, Dispatch, Returned, Requeue, LookAfter, IdleExit,
       IdleEnter, IdleCheck, IdleLeave, WorkerPc, HoldsPc, ActivePc, OnStackPc, IdlePc
  <2>2. pc[w] \notin OnStackPc /\ UNCHANGED <<mainPc, born, m_state>>
    BY <1>9 DEF TakeTask, FindNothing, Dispatch, Returned, Requeue, LookAfter, IdleExit,
       IdleEnter, IdleCheck, IdleLeave, OnStackPc, flags, tasks
  <2>3. ft \in [Threads -> QueueItem \cup {NoItem}]
    BY DEF OwnInv, TypeInv, TypeOK
  <2>4. \A v \in Threads \ {w} : ft'[v] = ft[v]
    BY <1>9, <2>3 DEF TakeTask, FindNothing, Dispatch, Returned, Requeue, LookAfter, IdleExit,
       IdleEnter, IdleCheck, IdleLeave
  <2> QED BY <1>8, <1>9, <2>1, <2>2, <2>4
<1>10. ASSUME NEW w \in Threads, SetHold(w) \/ YieldToHold(w) PROVE FALSE
  BY <1>10 DEF SetHold, YieldToHold, OwnInv, Ownership, StateAt
<1>11. ASSUME NEW w \in Threads, mainPc # "stopped", SwapIn(w) PROVE Contract!Next
  <2>1. mainPc' = mainPc
    BY <1>11 DEF SwapIn, Abort, flags
  <2> QED BY <1>4, <1>11, <2>1, Takes
<1>12. ASSUME NEW w \in Threads, mainPc # "stopped",
              YieldToReady(w) \/ \E s \in Finished : Finish(w, s)
       PROVE  Contract!Next
  <2>1. pc[w] = "exec" /\ UNCHANGED <<mainPc, ft, born>>
    BY <1>12 DEF YieldToReady, Finish, flags, tasks
  <2>2. m_state[Cur(w)] = "EXEC"
    BY <2>1, OnStackHolds DEF OnStack, OnStackPc
  <2>3. /\ Goto(w, "swapOut")
        /\ \E s \in {"READY"} \cup Finished : m_state' = [m_state EXCEPT ![Cur(w)] = s]
    BY <1>12, <2>2 DEF YieldToReady, Finish
  <2> QED BY <1>4, <1>12, <2>1, <2>3, Leaves
<1>13. ASSUME NEW w \in Threads, mainPc # "stopped", SwapOut(w) PROVE Contract!Next
  <2>1. mainPc' = mainPc
    BY <1>13 DEF SwapOut, flags
  <2> QED BY <1>4, <1>13, <2>1, Releases
<1>14. ASSUME NEW S \in (SUBSET Fibers) \ {{}}, S \cap born = {}, born' = born \cup S,
              mainPc # "stopped", UNCHANGED <<mainPc, m_state, pc, ft>>
       PROVE  Contract!Next
  <2>1. \A w \in Threads : PoolRunner(w)' = PoolRunner(w)
    BY <1>14 DEF PoolRunner, OnStack, Cur
  <2> QED BY <1>4, <1>14, <2>1, Submits
<1>15. ASSUME NEW w \in Threads, NEW g \in Fibers, NEW t \in Affinities,
              mainPc # "stopped", Spawn(w, g, t) \/ Schedule(g, t)
       PROVE  Contract!Next
  BY <1>14, <1>15 DEF Spawn, Schedule, flags
<1>16. ASSUME NEW f \in Fibers, NEW g \in Fibers, mainPc # "stopped", ScheduleBatch(f, g)
       PROVE  Contract!Next
  BY <1>14, <1>16 DEF ScheduleBatch, flags
<1>17. ASSUME NEW w \in Threads, NEW t \in Threads, Wait(w) \/ SwitchTo(w, t) PROVE FALSE
  BY <1>17 DEF Wait, SwitchTo, NoSuspension
<1>18. ASSUME NEW f \in Fibers, Wake(f) PROVE FALSE
  BY <1>18 DEF Wake, OwnInv, Ownership
<1>19. ASSUME mainPc # "stopped", UserStep \/ StopStep PROVE [Contract!Next]_Contract!vars
  <2>1. CASE \E f \in Fibers, t \in Affinities : Schedule(f, t)
    <3>1. PICK f \in Fibers, t \in Affinities : Schedule(f, t)
      BY <2>1
    <3>2. mainPc' = mainPc /\ UNCHANGED <<m_state, pc, ft>> /\ {f} \cap born = {} /\ born' = born \cup {f}
      BY <3>1 DEF Schedule, flags
    <3> QED BY <1>14, <1>19, <3>2
  <2> QED BY <1>6, <1>7, <1>16, <1>19, <2>1 DEF UserStep, StopStep
<1>20. ASSUME NEW w \in Threads, mainPc # "stopped", RunStep(w)
       PROVE  [Contract!Next]_Contract!vars
  BY <1>9, <1>10, <1>11, <1>20 DEF RunStep
<1>21. ASSUME NEW w \in Threads, mainPc # "stopped", FiberStep(w)
       PROVE  [Contract!Next]_Contract!vars
  BY <1>10, <1>12, <1>13, <1>15, <1>17, <1>21 DEF FiberStep
<1> QED BY <1>1, <1>2, <1>18, <1>19, <1>20, <1>21 DEF Next, Terminated

\* The scheduler (scheduler.cc) keeps what TaskPool promises its users: a submitted task is
\* run by one thread at a time, runs again only after it yielded, ends once, and when stop()
\* returns without a stranded task no task is runnable.
THEOREM Implements ==
    ASSUME NoSuspension
    PROVE  Spec => ImplementsPool
<1>1. Init => OwnInv /\ EndInv
  BY InitOwnInv, InitEndInv
<1>2. OwnInv /\ EndInv /\ [Next]_vars => OwnInv' /\ EndInv'
  BY NextOwnInv, NextEndInv
<1>3. OwnInv /\ EndInv => StatusKnown /\ StopDrains
  BY StatusIsState, EndExact
<1>4. /\ OwnInv /\ EndInv /\ StatusKnown
      /\ OwnInv' /\ EndInv' /\ StatusKnown' /\ StopDrains' /\ [Next]_vars
      => [Contract!Next]_Contract!vars
  BY StepRefines
<1> QED BY <1>1, <1>2, <1>3, <1>4, InitRefines, PTL DEF Spec, ImplementsPool, Contract!Spec
=============================================================================
