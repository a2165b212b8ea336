----------------------------- MODULE HookProofs -----------------------------
(***************************************************************************)
(* Proofs about Hook, for every set of descriptors, polling threads and    *)
(* waiting fibers: the three places in which an event is recorded agree,   *)
(* a waiting fiber is waited for once, and no edge of epoll is lost.       *)
(***************************************************************************)
EXTENDS Hook, FiniteSetTheorems, TLAPS

-----------------------------------------------------------------------------
(* The number of events that are waited for.                               *)

Waited(evs) == {e \in Fds \X Event : e[2] \in evs[e[1]]}

LEMMA WaitedFinite ==
    ASSUME NEW evs
    PROVE  IsFiniteSet(Waited(evs)) /\ Cardinality(Waited(evs)) \in Nat
<1>1. IsFiniteSet(Event)
  <2>1. Event = ({} \cup {"READ"}) \cup {"WRITE"}
    BY DEF Event
  <2>2. IsFiniteSet({} \cup {"READ"})
    BY FS_EmptySet, FS_AddElement
  <2> QED BY <2>1, <2>2, FS_AddElement
<1>2. IsFiniteSet(Fds \X Event)
  BY <1>1, FS_Product, IOManagerConstants
<1>3. Waited(evs) \in SUBSET (Fds \X Event)
  BY DEF Waited
<1>4. IsFiniteSet(Waited(evs))
  BY <1>2, <1>3, FS_Subset
<1> QED BY <1>4, FS_CardinalityType

\* A descriptor and some events are as many pairs as events.
LEMMA PairsCount ==
    ASSUME NEW fd, NEW S \in SUBSET Event
    PROVE  /\ IsFiniteSet({<<fd, ev>> : ev \in S})
           /\ Cardinality({<<fd, ev>> : ev \in S}) = Cardinality(S)
<1> DEFINE Pairs == {<<fd, ev>> : ev \in S}
<1>1. ASSUME S = {} PROVE IsFiniteSet(Pairs) /\ Cardinality(Pairs) = Cardinality(S)
  <2>1. Pairs = {}
    BY <1>1
  <2> QED BY <1>1, <2>1, FS_EmptySet
<1>2. ASSUME NEW ev \in Event, S = {ev} PROVE IsFiniteSet(Pairs) /\ Cardinality(Pairs) = Cardinality(S)
  <2>1. Pairs = {<<fd, ev>>}
    BY <1>2
  <2> HIDE DEF Pairs
  <2> QED BY <1>2, <2>1, FS_Singleton
<1>3. ASSUME S = {"READ", "WRITE"} PROVE IsFiniteSet(Pairs) /\ Cardinality(Pairs) = Cardinality(S)
  <2>1. ASSUME NEW x, NEW y, x # y
        PROVE  IsFiniteSet({x, y}) /\ Cardinality({x, y}) = 2
    <3>1. IsFiniteSet({x}) /\ Cardinality({x}) = 1
      BY FS_Singleton
    <3>2. {x, y} = {x} \cup {y} /\ y \notin {x}
      BY <2>1
    <3>3. Cardinality({x} \cup {y}) = Cardinality({x}) + 1
      BY <3>1, <3>2, FS_AddElement
    <3>4. IsFiniteSet({x} \cup {y})
      BY <3>1, FS_AddElement
    <3> QED BY <3>1, <3>2, <3>3, <3>4
  <2>2. Pairs = {<<fd, "READ">>, <<fd, "WRITE">>} /\ <<fd, "READ">> # <<fd, "WRITE">>
    BY <1>3
  <2> HIDE DEF Pairs
  <2>3. IsFiniteSet(Pairs) /\ Cardinality(Pairs) = 2
    BY <2>1, <2>2
  <2>4. "READ" # "WRITE"
    OBVIOUS
  <2>5. Cardinality(S) = 2
    BY <1>3, <2>1, <2>4
  <2> QED BY <2>3, <2>5
<1>4. S = {} \/ S = {"READ"} \/ S = {"WRITE"} \/ S = {"READ", "WRITE"}
  BY DEF Event
<1>5. "READ" \in Event /\ "WRITE" \in Event
  BY DEF Event
<1> HIDE DEF Pairs
<1>6. IsFiniteSet(Pairs) /\ Cardinality(Pairs) = Cardinality(S)
  BY <1>1, <1>2, <1>3, <1>4, <1>5
<1> QED BY <1>6 DEF Pairs

LEMMA WaitedMore ==
    ASSUME NEW evs \in [Fds -> SUBSET Event], NEW fd \in Fds, NEW ev \in Event, ev \notin evs[fd]
    PROVE  Cardinality(Waited([evs EXCEPT ![fd] = @ \cup {ev}])) = Cardinality(Waited(evs)) + 1
<1>1. Waited([evs EXCEPT ![fd] = @ \cup {ev}]) = Waited(evs) \cup {<<fd, ev>>}
  <2>1. ASSUME NEW e \in Fds \X Event
        PROVE e[2] \in [evs EXCEPT ![fd] = @ \cup {ev}][e[1]] <=> e[2] \in evs[e[1]] \/ e = <<fd, ev>>
    OBVIOUS
  <2> QED BY <2>1 DEF Waited
<1>2. <<fd, ev>> \notin Waited(evs)
  BY DEF Waited
<1> QED BY <1>1, <1>2, WaitedFinite, FS_AddElement

LEMMA WaitedLess ==
    ASSUME NEW evs \in [Fds -> SUBSET Event], NEW fd \in Fds, NEW S \in SUBSET evs[fd]
    PROVE  Cardinality(Waited([evs EXCEPT ![fd] = @ \ S])) = Cardinality(Waited(evs)) - Cardinality(S)
<1> DEFINE Pairs == {<<fd, ev>> : ev \in S}
<1>1. Waited([evs EXCEPT ![fd] = @ \ S]) = Waited(evs) \ Pairs
  <2>1. ASSUME NEW e \in Fds \X Event
        PROVE e[2] \in [evs EXCEPT ![fd] = @ \ S][e[1]] <=> e[2] \in evs[e[1]] /\ e \notin Pairs
    <3>1. e \in Pairs <=> e[1] = fd /\ e[2] \in S
      OBVIOUS
    <3>2. [evs EXCEPT ![fd] = @ \ S][e[1]] = IF e[1] = fd THEN evs[fd] \ S ELSE evs[e[1]]
      OBVIOUS
    <3> HIDE DEF Pairs
    <3> QED BY <3>1, <3>2
  <2> QED BY <2>1 DEF Waited
<1>2. Waited(evs) \cap Pairs = Pairs
  BY DEF Waited
<1>3. S \in SUBSET Event
  OBVIOUS
<1>4. Cardinality(Pairs) = Cardinality(S)
  BY <1>3, PairsCount
<1> HIDE DEF Pairs
<1>5. IsFiniteSet(Waited(evs))
  BY WaitedFinite
<1>6. Cardinality(Waited(evs) \ Pairs) = Cardinality(Waited(evs)) - Cardinality(Waited(evs) \cap Pairs)
  BY <1>5, FS_Difference
<1> QED BY <1>1, <1>2, <1>4, <1>6
-----------------------------------------------------------------------------
(* What IOManager knows of its descriptors.                                *)

CtxTypes ==
    /\ events \in [Fds -> SUBSET Event] /\ interest \in [Fds -> SUBSET Event]
    /\ context \in [Fds -> [Event -> Waiters \cup {Callback, Nobody}]]
    /\ m_pendingEventCount \in Nat
    /\ closing \in [Fds -> {"no", "cancelled", "closed", "reopened"}]

\* EventsAgree, that the kernel watches open descriptors only, and that an event is in
\* use exactly when its EventContext is, by a fiber in its own place only.
CtxInv ==
    /\ CtxTypes
    /\ EventsAgree
    /\ \A fd \in Fds : interest[fd] # {} => fd \in open
    /\ \A fd \in Fds, ev \in Event :
         /\ ev \in events[fd] <=> context[fd][ev] # Nobody
         /\ context[fd][ev] \in Waiters => fd = FdOf[context[fd][ev]] /\ ev = EventOf[context[fd][ev]]

LEMMA CtxAdd ==
    ASSUME CtxInv, NEW fd \in Fds, NEW ev \in Event, NEW who \in Waiters \cup {Callback},
           who \in Waiters => fd = FdOf[who] /\ ev = EventOf[who],
           AddEventDone(fd, ev, who), UNCHANGED closing
    PROVE  CtxInv'
<1>1. /\ events' = [events EXCEPT ![fd] = @ \cup {ev}]
      /\ context' = [context EXCEPT ![fd][ev] = who]
      /\ interest' = [interest EXCEPT ![fd] = events[fd] \cup {ev}]
      /\ m_pendingEventCount' = m_pendingEventCount + 1
      /\ ev \notin events[fd] /\ fd \in open /\ open' = open
      /\ (events[fd] = {} <=> interest[fd] = {})
  BY DEF AddEventDone, Register, CtlOk
<1>2. CtxTypes'
  BY <1>1 DEF CtxInv, CtxTypes
<1>3. m_pendingEventCount' = Cardinality({e \in Fds \X Event : e[2] \in events'[e[1]]})
  <2>1. events \in [Fds -> SUBSET Event] /\ m_pendingEventCount = Cardinality(Waited(events))
    BY DEF CtxInv, CtxTypes, EventsAgree, Waited
  <2>2. Cardinality(Waited([events EXCEPT ![fd] = @ \cup {ev}])) = Cardinality(Waited(events)) + 1
    BY <1>1, <2>1, WaitedMore
  <2>3. m_pendingEventCount' = Cardinality(Waited(events'))
    BY <1>1, <2>1, <2>2
  <2> QED BY <2>3 DEF Waited
<1>4. Nobody # who
  BY IOManagerConstants
<1>5. ASSUME NEW d \in Fds
      PROVE  /\ interest'[d] \subseteq events'[d]
             /\ closing'[d] \in {"no", "cancelled"} => interest'[d] = events'[d]
             /\ interest'[d] # {} => d \in open'
  BY <1>1 DEF CtxInv, CtxTypes, EventsAgree
<1>6. ASSUME NEW d \in Fds, NEW e \in Event
      PROVE  /\ e \in events'[d] <=> context'[d][e] # Nobody
             /\ context'[d][e] \in Waiters => d = FdOf[context'[d][e]] /\ e = EventOf[context'[d][e]]
  BY <1>1, <1>4 DEF CtxInv, CtxTypes
<1> QED BY <1>2, <1>3, <1>5, <1>6 DEF CtxInv, EventsAgree

LEMMA CtxTake ==
    ASSUME CtxInv, NEW fd \in Fds, NEW evs \in SUBSET events[fd], TakeOff(fd, evs),
           \/ closing' = closing
           \/ closing' = [closing EXCEPT ![fd] = "cancelled"] /\ closing[fd] = "no"
    PROVE  CtxInv'
<1>1. /\ events' = [events EXCEPT ![fd] = @ \ evs]
      /\ context' = [context EXCEPT ![fd] = [ev \in Event |-> IF ev \in evs THEN Nobody ELSE @[ev]]]
      /\ interest' = [interest EXCEPT ![fd] = events[fd] \ evs]
      /\ m_pendingEventCount' = m_pendingEventCount - Cardinality(evs)
      /\ fd \in open /\ open' = open
  BY DEF TakeOff, Register, CtlOk
<1>2. m_pendingEventCount' = Cardinality({e \in Fds \X Event : e[2] \in events'[e[1]]})
  <2>1. events \in [Fds -> SUBSET Event] /\ m_pendingEventCount = Cardinality(Waited(events))
    BY DEF CtxInv, CtxTypes, EventsAgree, Waited
  <2>2. Cardinality(Waited([events EXCEPT ![fd] = @ \ evs])) = Cardinality(Waited(events)) - Cardinality(evs)
    BY <2>1, WaitedLess
  <2>3. m_pendingEventCount' = Cardinality(Waited(events'))
    BY <1>1, <2>1, <2>2
  <2> QED BY <2>3 DEF Waited
<1>3. m_pendingEventCount' \in Nat
  BY <1>2, WaitedFinite DEF Waited
<1>4. ASSUME NEW d \in Fds, NEW e \in Event
      PROVE  context'[d][e] = IF d = fd /\ e \in evs THEN Nobody ELSE context[d][e]
  BY <1>1 DEF CtxInv, CtxTypes
<1>5. context' \in [Fds -> [Event -> Waiters \cup {Callback, Nobody}]]
  BY <1>1 DEF CtxInv, CtxTypes
<1>6. CtxTypes'
  BY <1>1, <1>3, <1>5 DEF CtxInv, CtxTypes
<1>7. ASSUME NEW d \in Fds
      PROVE  /\ interest'[d] \subseteq events'[d]
             /\ closing'[d] \in {"no", "cancelled"} => interest'[d] = events'[d]
             /\ interest'[d] # {} => d \in open'
  BY <1>1 DEF CtxInv, CtxTypes, EventsAgree
<1>8. ASSUME NEW d \in Fds, NEW e \in Event
      PROVE  /\ e \in events'[d] <=> context'[d][e] # Nobody
             /\ context'[d][e] \in Waiters => d = FdOf[context'[d][e]] /\ e = EventOf[context'[d][e]]
  BY <1>1, <1>4, IOManagerConstants DEF CtxInv, CtxTypes
<1> QED BY <1>2, <1>6, <1>7, <1>8 DEF CtxInv, EventsAgree

LEMMA CtxSame ==
    ASSUME CtxInv, UNCHANGED <<ctxVars, interest>>, open \subseteq open',
           \/ closing' = closing
           \/ \E fd \in Fds :
                 \/ closing[fd] = "closed" /\ closing' = [closing EXCEPT ![fd] = "reopened"]
                 \/ closing[fd] = "no" /\ closing' = [closing EXCEPT ![fd] = "cancelled"]
    PROVE  CtxInv'
<1>1. UNCHANGED <<events, context, m_pendingEventCount, interest>>
  BY DEF ctxVars
<1>2. CtxTypes'
  BY <1>1 DEF CtxInv, CtxTypes
<1>3. \A fd \in Fds : closing'[fd] \in {"no", "cancelled"} => closing[fd] \in {"no", "cancelled"}
  BY DEF CtxInv, CtxTypes
<1> QED BY <1>1, <1>2, <1>3 DEF CtxInv, EventsAgree

LEMMA CtxClose ==
    ASSUME CtxInv, NEW fd \in Fds, CloseEnds(fd)
    PROVE  CtxInv'
<1>1. /\ UNCHANGED <<events, context, m_pendingEventCount>>
      /\ interest' = [interest EXCEPT ![fd] = {}] /\ open' = open \ {fd}
      /\ closing' = [closing EXCEPT ![fd] = "closed"]
  BY DEF CloseEnds, ctxVars
<1>2. CtxTypes'
  BY <1>1 DEF CtxInv, CtxTypes
<1>3. ASSUME NEW d \in Fds
      PROVE  /\ interest'[d] \subseteq events[d]
             /\ closing'[d] \in {"no", "cancelled"} => interest'[d] = events[d]
             /\ interest'[d] # {} => d \in open'
  BY <1>1 DEF CtxInv, CtxTypes, EventsAgree
<1> QED BY <1>1, <1>2, <1>3 DEF CtxInv, EventsAgree
-----------------------------------------------------------------------------
(* One case per action.                                                    *)

LEMMA InitCtxInv == Init => CtxInv
<1> SUFFICES ASSUME Init PROVE CtxInv
  OBVIOUS
<1>1. {e \in Fds \X Event : e[2] \in events[e[1]]} = {}
  BY DEF Init, IOInit
<1>2. Cardinality({}) = 0
  BY FS_EmptySet
<1>3. CtxTypes
  BY DEF Init, IOInit, CtxTypes
<1> QED BY <1>1, <1>2, <1>3, IOManagerConstants DEF Init, IOInit, CtxInv, EventsAgree

LEMMA NextCtxInv == CtxInv /\ [Next]_vars => CtxInv'
<1> SUFFICES ASSUME CtxInv, [Next]_vars PROVE CtxInv'
  OBVIOUS
<1>t. events \in [Fds -> SUBSET Event] /\ FdOf \in [Waiters -> Fds] /\ EventOf \in [Waiters -> Event]
  BY HookConstants DEF CtxInv, CtxTypes
<1>1. ASSUME UNCHANGED <<ctxVars, kernelVars, closing>> PROVE CtxInv'
  BY <1>1, CtxSame DEF kernelVars
<1>2. ASSUME NEW f \in Waiters, WaiterStep(f) PROVE CtxInv'
  <2>1. CASE Call(f) \/ TryAgain(f) \/ SetTimer(f) \/ Resume(f) \/ Expire(f) \/ RunCallback(f)
    BY <1>1, <2>1 DEF Call, TryAgain, SetTimer, Resume, Expire, RunCallback, ioVars
  <2>2. CASE Succeed(f)
    BY <2>2, CtxSame DEF Succeed
  <2>3. CASE AddEvent(f)
    <3>1. CASE AddEventDone(FdOf[f], EventOf[f], f)
      BY <1>t, <2>3, <3>1, CtxAdd DEF AddEvent
    <3>2. CASE ~ AddEventDone(FdOf[f], EventOf[f], f)
      BY <1>1, <2>3, <3>2 DEF AddEvent, AddEventFails, AddEventAborts, Abort, ioVars
    <3> QED BY <3>1, <3>2
  <2>4. CASE CancelByTimer(f)
    <3>1. CASE EventOf[f] \in events[FdOf[f]] /\ CtlOk(FdOf[f], FALSE)
      <4>1. /\ TakeOff(FdOf[f], {EventOf[f]}) /\ {EventOf[f]} \in SUBSET events[FdOf[f]]
            /\ FdOf[f] \in Fds /\ closing' = closing
        BY <1>t, <2>4, <3>1 DEF CancelByTimer, CancelEvent
      <4> QED BY <4>1, CtxTake
    <3>2. CASE ~ (EventOf[f] \in events[FdOf[f]] /\ CtlOk(FdOf[f], FALSE))
      BY <1>1, <2>4, <3>2 DEF CancelByTimer, CancelEvent, ioVars
    <3> QED BY <3>1, <3>2
  <2> QED BY <1>2, <2>1, <2>2, <2>3, <2>4 DEF WaiterStep
<1>3. ASSUME NEW fd \in Fds, CloseCancels(fd) PROVE CtxInv'
  <2>1. closing[fd] = "no" /\ closing' = [closing EXCEPT ![fd] = "cancelled"] /\ CancelAll(fd)
    BY <1>3 DEF CloseCancels
  <2>2. CASE events[fd] # {} /\ CtlOk(fd, FALSE)
    BY <2>1, <2>2, CtxTake DEF CancelAll
  <2>3. CASE ~ (events[fd] # {} /\ CtlOk(fd, FALSE))
    <3>1. UNCHANGED <<ctxVars, interest, open>>
      BY <2>1, <2>3 DEF CancelAll, ioVars, kernelVars
    <3> QED BY <2>1, <3>1, CtxSame
  <2> QED BY <2>2, <2>3
<1>4. ASSUME NEW fd \in Fds, Reopen(fd) PROVE CtxInv'
  BY <1>4, CtxSame DEF Reopen
<1>5. ASSUME NEW fd \in Fds, NEW ev \in Event, AddCallback(fd, ev) PROVE CtxInv'
  <2>1. AddEventDone(fd, ev, Callback) /\ closing' = closing /\ Callback \notin Waiters
    BY <1>5, IOManagerConstants DEF AddCallback, hookVars
  <2> QED BY <2>1, CtxAdd
<1>6. ASSUME NEW fd \in Fds, NEW ev \in Event, DelCallback(fd, ev) PROVE CtxInv'
  <2>1. context[fd][ev] = Callback /\ closing' = closing /\ DelEvent(fd, ev)
    BY <1>6 DEF DelCallback, DelEvent, hookVars
  <2>2. ev \in events[fd]
    BY <2>1, IOManagerConstants DEF CtxInv
  <2>3. CASE CtlOk(fd, FALSE)
    <3>1. TakeOff(fd, {ev}) /\ {ev} \in SUBSET events[fd]
      BY <2>1, <2>2, <2>3 DEF DelEvent
    <3> QED BY <2>1, <3>1, CtxTake
  <2>4. CASE ~ CtlOk(fd, FALSE)
    BY <1>1, <2>1, <2>4 DEF DelEvent, ioVars
  <2> QED BY <2>3, <2>4
<1>7. ASSUME NEW fd \in Fds, NEW ev \in Event, ReadyStep(fd, ev) PROVE CtxInv'
  BY <1>7, CtxSame DEF ReadyStep, BecomesReady, hookVars
<1>8. ASSUME NEW h \in Threads, PollStep(h) PROVE CtxInv'
  BY <1>8, CtxSame DEF PollStep, Poll, hookVars
<1>9. ASSUME NEW h \in Threads, NEW fd \in Fds, SkipStep(h, fd) \/ ServeAbortsStep(h, fd)
      PROVE  CtxInv'
  BY <1>1, <1>9 DEF SkipStep, ServeAbortsStep, Skip, ServeAborts, Abort, hookVars
<1>10. ASSUME NEW h \in Threads, NEW fd \in Fds, ServeStep(h, fd) PROVE CtxInv'
  <2>1. /\ TakeOff(fd, RealEvents(h, fd)) /\ RealEvents(h, fd) \in SUBSET events[fd]
        /\ closing' = closing
    BY <1>10 DEF ServeStep, Serve, hookVars
  <2> QED BY <2>1, CtxTake
<1>11. ASSUME UNCHANGED vars PROVE CtxInv'
  BY <1>1, <1>11 DEF vars, ioVars, hookVars
<1>12. ASSUME NEW fd \in Fds, HangUpStep(fd) PROVE CtxInv'
  BY <1>12, CtxSame DEF HangUpStep, HangUp, hookVars
<1>13. ASSUME NEW fd \in Fds, FdStep(fd) PROVE CtxInv'
  BY <1>3, <1>4, <1>5, <1>6, <1>7, <1>12, <1>13, CtxClose DEF FdStep
<1>14. ASSUME NEW h \in Threads, IdleStep(h) PROVE CtxInv'
  BY <1>8, <1>9, <1>10, <1>14 DEF IdleStep
<1> QED BY <1>2, <1>11, <1>13, <1>14 DEF Next

\* m_pendingEventCount, the FdContexts and the kernel's registrations agree
\* (iomanager.cc:146, 236-241, 405-410), whoever adds, cancels, triggers and closes.
THEOREM EventsAgreeHolds == Spec => []EventsAgree
<1>1. CtxInv => EventsAgree
  BY DEF CtxInv
<1> QED BY <1>1, InitCtxInv, NextCtxInv, PTL DEF Spec
-----------------------------------------------------------------------------
(* Types.                                                                  *)

\* The variables that CtxTypes leaves out: of IOManager, and of the callers.
IoTypes ==
    /\ woken \subseteq Waiters /\ aborted \in BOOLEAN
    /\ got \in [Threads -> [Fds -> SUBSET (Event \cup {Err})]]
    /\ open \subseteq Fds /\ hup \subseteq Fds /\ edge \subseteq Fds
    /\ ready \in [Fds -> SUBSET Event]

CallTypes ==
    /\ pc \in [Waiters -> Pc] /\ cancelling \subseteq Waiters /\ managed \subseteq Fds
    /\ timer \in [Waiters -> BOOLEAN] /\ cancelled \in [Waiters -> BOOLEAN]
    /\ expired \in [Waiters -> 0 .. MaxCallbacks]

LEMMA TypesSplit == TypeOK <=> CtxTypes /\ IoTypes /\ CallTypes
  BY DEF TypeOK, CtxTypes, IoTypes, CallTypes

LEMMA MaskType ==
    ASSUME IoTypes, NEW fd \in Fds, NEW watched
    PROVE  Mask(fd, watched) \in SUBSET (Event \cup {Err})
  BY DEF IoTypes, Mask

LEMMA RegisterType ==
    ASSUME IoTypes, NEW fd \in Fds, NEW watched, Register(fd, watched)
    PROVE  UNCHANGED <<open, ready, hup>> /\ edge' \subseteq Fds
  BY DEF IoTypes, Register

LEMMA NextIoTypes == CtxTypes /\ IoTypes /\ [Next]_vars => IoTypes'
<1> SUFFICES ASSUME CtxTypes, IoTypes, [Next]_vars PROVE IoTypes'
  OBVIOUS
<1>t. FdOf \in [Waiters -> Fds]
  BY HookConstants
<1>0. ASSUME UNCHANGED <<kernelVars, got>>, woken' \subseteq Waiters, aborted' \in BOOLEAN PROVE IoTypes'
  BY <1>0 DEF IoTypes, kernelVars
<1>1. ASSUME UNCHANGED ioVars PROVE IoTypes'
  BY <1>1 DEF IoTypes, ioVars, kernelVars
<1>2. ASSUME NEW fd \in Fds, NEW watched, Register(fd, watched), UNCHANGED <<got, aborted>>,
             woken' \subseteq Waiters
      PROVE  IoTypes'
  BY <1>2, RegisterType DEF IoTypes
<1>3. ASSUME NEW fd \in Fds, NEW evs, TakeOff(fd, evs), Trigger(fd, evs), UNCHANGED <<got, aborted>>
      PROVE  IoTypes'
  <2>1. Register(fd, events[fd] \ evs) /\ woken' \subseteq Waiters
    BY <1>3 DEF TakeOff, Trigger, IoTypes
  <2> QED BY <1>2, <1>3, <2>1
<1>4. ASSUME NEW f \in Waiters, WaiterStep(f) PROVE IoTypes'
  <2>1. CASE Call(f) \/ TryAgain(f) \/ SetTimer(f) \/ Expire(f) \/ RunCallback(f)
    BY <1>1, <2>1 DEF Call, TryAgain, SetTimer, Expire, RunCallback
  <2>2. CASE Resume(f)
    BY <1>0, <2>2 DEF Resume, IoTypes
  <2>3. CASE Succeed(f)
    BY <2>3 DEF Succeed, IoTypes
  <2>4. CASE AddEvent(f)
    <3>1. CASE AddEventDone(FdOf[f], EventOf[f], f)
      <4>1. Register(FdOf[f], events[FdOf[f]] \cup {EventOf[f]}) /\ UNCHANGED <<woken, got, aborted>>
        BY <3>1 DEF AddEventDone
      <4> QED BY <1>t, <1>2, <4>1 DEF IoTypes
    <3>2. CASE ~ AddEventDone(FdOf[f], EventOf[f], f)
      BY <1>0, <1>1, <2>4, <3>2 DEF AddEvent, AddEventFails, AddEventAborts, Abort, IoTypes
    <3> QED BY <3>1, <3>2
  <2>5. CASE CancelByTimer(f)
    BY <1>t, <1>1, <1>3, <2>5 DEF CancelByTimer, CancelEvent
  <2> QED BY <1>4, <2>1, <2>2, <2>3, <2>4, <2>5 DEF WaiterStep
<1>5. ASSUME NEW fd \in Fds, FdStep(fd) PROVE IoTypes'
  <2>1. CASE CloseCancels(fd)
    BY <1>1, <1>3, <2>1 DEF CloseCancels, CancelAll
  <2>2. CASE CloseEnds(fd) \/ Reopen(fd) \/ HangUpStep(fd)
    BY <2>2 DEF CloseEnds, Reopen, HangUpStep, HangUp, IoTypes
  <2>3. ASSUME NEW ev \in Event, AddCallback(fd, ev) PROVE IoTypes'
    <3>1. Register(fd, events[fd] \cup {ev}) /\ UNCHANGED <<woken, got, aborted>>
      BY <2>3 DEF AddCallback, AddEventDone
    <3> QED BY <1>2, <3>1 DEF IoTypes
  <2>4. ASSUME NEW ev \in Event, DelCallback(fd, ev) PROVE IoTypes'
    <3>1. CASE CtlOk(fd, FALSE)
      <4>1. Register(fd, events[fd] \ {ev}) /\ UNCHANGED <<woken, got, aborted>>
        BY <2>4, <3>1 DEF DelCallback, DelEvent, TakeOff
      <4> QED BY <1>2, <4>1 DEF IoTypes
    <3>2. CASE ~ CtlOk(fd, FALSE)
      BY <1>1, <2>4, <3>2 DEF DelCallback, DelEvent
    <3> QED BY <3>1, <3>2
  <2>5. ASSUME NEW ev \in Event, ReadyStep(fd, ev) PROVE IoTypes'
    BY <2>5 DEF ReadyStep, BecomesReady, IoTypes
  <2> QED BY <1>5, <2>1, <2>2, <2>3, <2>4, <2>5 DEF FdStep
<1>6. ASSUME NEW h \in Threads, IdleStep(h) PROVE IoTypes'
  <2>1. CASE PollStep(h)
    <3>1. [fd \in Fds |-> IF fd \in edge THEN Mask(fd, interest[fd]) ELSE {}]
             \in [Fds -> SUBSET (Event \cup {Err})]
      BY MaskType
    <3> HIDE DEF Err
    <3> QED BY <2>1, <3>1 DEF PollStep, Poll, IoTypes
  <2>2. ASSUME NEW fd \in Fds, Taken(h, fd)
        PROVE  got' \in [Threads -> [Fds -> SUBSET (Event \cup {Err})]]
    BY <2>2 DEF Taken, IoTypes
  <2>3. ASSUME NEW fd \in Fds, SkipStep(h, fd) PROVE IoTypes'
    BY <2>2, <2>3 DEF SkipStep, Skip, IoTypes, kernelVars
  <2>4. ASSUME NEW fd \in Fds, ServeStep(h, fd) PROVE IoTypes'
    <3>1. /\ TakeOff(fd, RealEvents(h, fd)) /\ Trigger(fd, RealEvents(h, fd))
          /\ Taken(h, fd) /\ UNCHANGED aborted
      BY <2>4 DEF ServeStep, Serve
    <3>2. Register(fd, events[fd] \ RealEvents(h, fd)) /\ woken' \subseteq Waiters
      BY <3>1 DEF TakeOff, Trigger, IoTypes
    <3> QED BY <2>2, <3>1, <3>2, RegisterType DEF IoTypes
  <2>5. ASSUME NEW fd \in Fds, ServeAbortsStep(h, fd) PROVE IoTypes'
    BY <1>0, <2>5 DEF ServeAbortsStep, ServeAborts, Abort, IoTypes
  <2> QED BY <1>6, <2>1, <2>3, <2>4, <2>5 DEF IdleStep
<1>7. ASSUME UNCHANGED vars PROVE IoTypes'
  BY <1>1, <1>7 DEF vars
<1> QED BY <1>4, <1>5, <1>6, <1>7 DEF Next

LEMMA NextCallTypes == CallTypes /\ [Next]_vars => CallTypes'
<1> SUFFICES ASSUME CallTypes, [Next]_vars PROVE CallTypes'
  OBVIOUS
<1> USE DEF CallTypes
<1>1. ASSUME UNCHANGED hookVars PROVE CallTypes'
  BY <1>1 DEF hookVars, waitVars
<1>2. ASSUME NEW f \in Waiters, Return(f), UNCHANGED managed PROVE CallTypes'
  BY <1>2, HookConstants DEF Return, Pc
<1>3. ASSUME NEW f \in Waiters, NEW place \in Pc, Goto(f, place), UNCHANGED managed PROVE CallTypes'
  BY <1>3 DEF Goto, waitVars
<1>4. ASSUME NEW f \in Waiters, WaiterStep(f) PROVE CallTypes'
  <2>1. CASE Call(f) \/ TryAgain(f)
    <3>1. "try" \in Pc /\ "settimer" \in Pc /\ "addevent" \in Pc
      BY DEF Pc
    <3> QED BY <1>3, <2>1, <3>1 DEF Call, TryAgain
  <2>2. CASE Succeed(f)
    BY <1>2, <2>2 DEF Succeed
  <2>3. CASE AddEvent(f)
    BY <1>2, <1>3, <2>3 DEF AddEvent, Pc, waitVars
  <2>4. CASE SetTimer(f)
    BY <2>4 DEF SetTimer, Pc
  <2>5. CASE Resume(f)
    BY <1>2, <2>5 DEF Resume, Pc
  <2>6. CASE Expire(f)
    BY <2>6, HookConstants DEF Expire
  <2>7. CASE RunCallback(f)
    BY <2>7, HookConstants DEF RunCallback
  <2>8. CASE CancelByTimer(f)
    BY <2>8 DEF CancelByTimer
  <2> QED BY <1>4, <2>1, <2>2, <2>3, <2>4, <2>5, <2>6, <2>7, <2>8 DEF WaiterStep
<1>5. ASSUME NEW fd \in Fds, FdStep(fd) PROVE CallTypes'
  BY <1>1, <1>5 DEF FdStep, CloseCancels, CloseEnds, Reopen, HangUpStep, AddCallback,
     DelCallback, ReadyStep, waitVars
<1>6. ASSUME NEW h \in Threads, IdleStep(h) PROVE CallTypes'
  BY <1>1, <1>6 DEF IdleStep, PollStep, SkipStep, ServeStep, ServeAbortsStep
<1>7. ASSUME UNCHANGED vars PROVE CallTypes'
  BY <1>1, <1>7 DEF vars
<1> QED BY <1>4, <1>5, <1>6, <1>7 DEF Next
-----------------------------------------------------------------------------
(* Who waits for a fiber that waits.                                       *)

Registered(f) == context[FdOf[f]][EventOf[f]] = f

Kept(f) == /\ pc[f] = "hold" <=> (Registered(f) \/ f \in woken)
           /\ ~ (Registered(f) /\ f \in woken)

WaitInv == \A f \in Waiters : Kept(f)

LEMMA KeptForms == CtxInv /\ WaitInv => WaiterKept
<1> SUFFICES ASSUME CtxInv, WaitInv, NEW f \in Waiters
             PROVE  f \in {context[fd][ev] : fd \in Fds, ev \in Event} <=> Registered(f)
  BY DEF WaiterKept, WaitInv, Kept, Registered
<1>1. FdOf[f] \in Fds /\ EventOf[f] \in Event
  BY HookConstants
<1> QED BY <1>1 DEF CtxInv, Registered

LEMMA KeptSame ==
    ASSUME WaitInv, UNCHANGED <<context, woken>>,
           \A f \in Waiters : pc'[f] = "hold" <=> pc[f] = "hold"
    PROVE  WaitInv'
  BY DEF WaitInv, Kept, Registered

\* A place in a call other than YieldToHold().
LEMMA KeptMove ==
    ASSUME WaitInv, CallTypes, NEW f \in Waiters, NEW place \in Pc, place # "hold", pc[f] # "hold",
           pc' = [pc EXCEPT ![f] = place], UNCHANGED <<context, woken>>
    PROVE  WaitInv'
  BY KeptSame DEF CallTypes

\* Whoever waits for the events is told.
LEMMA KeptTake ==
    ASSUME CtxInv, WaitInv, NEW fd \in Fds, NEW evs \in SUBSET Event,
           TakeOff(fd, evs), Trigger(fd, evs), UNCHANGED pc
    PROVE  WaitInv'
<1> SUFFICES ASSUME NEW f \in Waiters PROVE Kept(f)'
  BY DEF WaitInv
<1>1. FdOf[f] \in Fds /\ EventOf[f] \in Event /\ f # Nobody
  BY HookConstants, IOManagerConstants
<1>2. ASSUME NEW d \in Fds, NEW e \in Event
      PROVE  context'[d][e] = IF d = fd /\ e \in evs THEN Nobody ELSE context[d][e]
  BY DEF TakeOff, CtxInv, CtxTypes
<1>3. f \in woken' <=> f \in woken \/ \E ev \in evs : context[fd][ev] = f
  BY DEF Trigger
<1>4. (\E ev \in evs : context[fd][ev] = f) <=> fd = FdOf[f] /\ EventOf[f] \in evs /\ Registered(f)
  BY <1>1 DEF CtxInv, Registered
<1>5. Registered(f)' <=> Registered(f) /\ ~ (fd = FdOf[f] /\ EventOf[f] \in evs)
  BY <1>1, <1>2 DEF Registered
<1> QED BY <1>3, <1>4, <1>5 DEF WaitInv, Kept

LEMMA NextWaitInv == CtxInv /\ CallTypes /\ WaitInv /\ [Next]_vars => WaitInv'
<1> SUFFICES ASSUME CtxInv, CallTypes, WaitInv, [Next]_vars PROVE WaitInv'
  OBVIOUS
<1>t. /\ FdOf \in [Waiters -> Fds] /\ EventOf \in [Waiters -> Event] /\ pc \in [Waiters -> Pc]
      /\ context \in [Fds -> [Event -> Waiters \cup {Callback, Nobody}]]
      /\ events \in [Fds -> SUBSET Event]
  BY HookConstants DEF CallTypes, CtxInv, CtxTypes
<1>1. ASSUME UNCHANGED <<context, woken, pc>> PROVE WaitInv'
  BY <1>1, KeptSame
<1>2. ASSUME NEW f \in Waiters, Return(f), pc[f] # "hold", UNCHANGED <<context, woken>> PROVE WaitInv'
  BY <1>2, KeptMove DEF Return, Pc
<1>3. ASSUME NEW f \in Waiters, WaiterStep(f) PROVE WaitInv'
  <2>1. CASE Call(f) \/ TryAgain(f) \/ SetTimer(f)
    <3>1. PICK place \in Pc \ {"hold"} : pc' = [pc EXCEPT ![f] = place]
      BY <2>1 DEF Call, TryAgain, SetTimer, Goto, Pc
    <3>2. UNCHANGED <<context, woken>> /\ pc[f] # "hold"
      BY <2>1 DEF Call, TryAgain, SetTimer, ioVars, ctxVars
    <3> QED BY <3>1, <3>2, KeptMove
  <2>2. CASE Succeed(f)
    BY <1>2, <2>2 DEF Succeed, ctxVars
  <2>3. CASE AddEvent(f)
    <3>1. CASE AddEventDone(FdOf[f], EventOf[f], f) /\ Goto(f, "hold")
      <4>1. /\ context' = [context EXCEPT ![FdOf[f]][EventOf[f]] = f] /\ woken' = woken
            /\ pc' = [pc EXCEPT ![f] = "hold"] /\ pc[f] # "hold"
            /\ EventOf[f] \notin events[FdOf[f]]
        BY <2>3, <3>1 DEF AddEvent, AddEventDone, Goto
      <4>2. context[FdOf[f]][EventOf[f]] = Nobody
        BY <1>t, <4>1 DEF CtxInv
      <4>3. ASSUME NEW g \in Waiters PROVE Kept(g)'
        <5>1. Registered(g)' <=> Registered(g) \/ g = f
          BY <1>t, <4>1, <4>2, IOManagerConstants DEF Registered
        <5>2. pc'[g] = "hold" <=> pc[g] = "hold" \/ g = f
          BY <1>t, <4>1
        <5>3. Kept(g) /\ Kept(f)
          BY DEF WaitInv
        <5> QED BY <4>1, <5>1, <5>2, <5>3 DEF Kept
      <4> QED BY <4>3 DEF WaitInv
    <3>2. CASE AddEventFails(FdOf[f], EventOf[f]) /\ Return(f)
      BY <1>2, <2>3, <3>2 DEF AddEvent, AddEventFails, ioVars, ctxVars
    <3>3. CASE AddEventAborts(FdOf[f], EventOf[f]) /\ UNCHANGED <<pc, waitVars>>
      BY <1>1, <3>3 DEF AddEventAborts, Abort, ctxVars
    <3> QED BY <2>3, <3>1, <3>2, <3>3 DEF AddEvent
  <2>4. CASE Resume(f)
    <3>1. PICK place \in Pc \ {"hold"} : pc' = [pc EXCEPT ![f] = place]
      BY <2>4 DEF Resume, Return, Pc
    <3>2. f \in woken /\ woken' = woken \ {f} /\ context' = context
      BY <2>4 DEF Resume, ctxVars
    <3>3. ASSUME NEW g \in Waiters PROVE Kept(g)'
      BY <1>t, <3>1, <3>2 DEF WaitInv, Kept, Registered
    <3> QED BY <3>3 DEF WaitInv
  <2>5. CASE Expire(f) \/ RunCallback(f)
    BY <1>1, <2>5 DEF Expire, RunCallback, ioVars, ctxVars
  <2>6. CASE CancelByTimer(f)
    <3>1. CASE EventOf[f] \in events[FdOf[f]] /\ CtlOk(FdOf[f], FALSE)
      <4>1. /\ TakeOff(FdOf[f], {EventOf[f]}) /\ Trigger(FdOf[f], {EventOf[f]}) /\ UNCHANGED pc
            /\ FdOf[f] \in Fds /\ {EventOf[f]} \in SUBSET Event
        BY <1>t, <2>6, <3>1 DEF CancelByTimer, CancelEvent
      <4> QED BY <4>1, KeptTake
    <3>2. CASE ~ (EventOf[f] \in events[FdOf[f]] /\ CtlOk(FdOf[f], FALSE))
      BY <1>1, <2>6, <3>2 DEF CancelByTimer, CancelEvent, ioVars, ctxVars
    <3> QED BY <3>1, <3>2
  <2> QED BY <1>3, <2>1, <2>2, <2>3, <2>4, <2>5, <2>6 DEF WaiterStep
<1>4. ASSUME NEW fd \in Fds, CloseCancels(fd) PROVE WaitInv'
  <2>1. CASE events[fd] # {} /\ CtlOk(fd, FALSE)
    <3>1. TakeOff(fd, events[fd]) /\ Trigger(fd, events[fd]) /\ UNCHANGED pc
      BY <1>4, <2>1 DEF CloseCancels, CancelAll
    <3> QED BY <1>t, <3>1, KeptTake
  <2>2. CASE ~ (events[fd] # {} /\ CtlOk(fd, FALSE))
    BY <1>1, <1>4, <2>2 DEF CloseCancels, CancelAll, ioVars, ctxVars
  <2> QED BY <2>1, <2>2
<1>5. ASSUME NEW fd \in Fds, NEW ev \in Event, AddCallback(fd, ev) \/ DelCallback(fd, ev)
      PROVE  WaitInv'
  <2>1. UNCHANGED <<pc, woken>>
    BY <1>5 DEF AddCallback, AddEventDone, DelCallback, DelEvent, hookVars, ioVars
  <2>2. ASSUME NEW f \in Waiters PROVE Registered(f)' <=> Registered(f)
    <3>1. f # Callback /\ f # Nobody
      BY IOManagerConstants
    <3>2. CASE AddCallback(fd, ev)
      <4>1. ev \notin events[fd] /\ context' = [context EXCEPT ![fd][ev] = Callback]
        BY <3>2 DEF AddCallback, AddEventDone
      <4>2. context[fd][ev] = Nobody
        BY <4>1 DEF CtxInv
      <4> QED BY <1>t, <3>1, <4>1, <4>2 DEF Registered
    <3>3. CASE DelCallback(fd, ev)
      <4>1. /\ context[fd][ev] = Callback
            /\ \/ context' = [context EXCEPT ![fd] = [e \in Event |-> IF e \in {ev} THEN Nobody ELSE @[e]]]
               \/ context' = context
        BY <3>3 DEF DelCallback, DelEvent, TakeOff, ioVars, ctxVars
      <4> QED BY <1>t, <3>1, <4>1 DEF Registered
    <3> QED BY <1>5, <3>2, <3>3
  <2> QED BY <2>1, <2>2 DEF WaitInv, Kept
<1>6. ASSUME NEW fd \in Fds, FdStep(fd) PROVE WaitInv'
  <2>1. CASE CloseEnds(fd) \/ Reopen(fd) \/ HangUpStep(fd)
    BY <1>1, <2>1 DEF CloseEnds, Reopen, HangUpStep, HangUp, hookVars, ctxVars
  <2>2. ASSUME NEW ev \in Event, ReadyStep(fd, ev) PROVE WaitInv'
    BY <1>1, <2>2 DEF ReadyStep, BecomesReady, hookVars, ctxVars
  <2> QED BY <1>4, <1>5, <1>6, <2>1, <2>2 DEF FdStep
<1>7. ASSUME NEW h \in Threads, IdleStep(h) PROVE WaitInv'
  <2>1. ASSUME NEW fd \in Fds, ServeStep(h, fd) PROVE WaitInv'
    <3>1. /\ TakeOff(fd, RealEvents(h, fd)) /\ Trigger(fd, RealEvents(h, fd)) /\ UNCHANGED pc
          /\ RealEvents(h, fd) \in SUBSET Event
      BY <1>t, <2>1 DEF ServeStep, Serve, hookVars
    <3> QED BY <3>1, KeptTake
  <2>2. CASE PollStep(h) \/ \E fd \in Fds : SkipStep(h, fd) \/ ServeAbortsStep(h, fd)
    BY <1>1, <2>2 DEF PollStep, Poll, SkipStep, Skip, ServeAbortsStep, ServeAborts, Abort,
       hookVars, ctxVars
  <2> QED BY <1>7, <2>1, <2>2 DEF IdleStep
<1>8. ASSUME UNCHANGED vars PROVE WaitInv'
  BY <1>1, <1>8 DEF vars, ioVars, ctxVars, hookVars
<1> QED BY <1>3, <1>6, <1>7, <1>8 DEF Next

-----------------------------------------------------------------------------
(* Edges.                                                                  *)

\* A registration puts what it finds ready on the list itself.
LEMMA EdgeRegister ==
    ASSUME IoTypes, CtxTypes, EdgeKept, NEW fd \in Fds, NEW watched, Register(fd, watched),
           \A h \in Threads, d \in Fds \ {fd} : got[h][d] \subseteq got'[h][d]
    PROVE  EdgeKept'
<1> SUFFICES ASSUME NEW d \in Fds, NEW ev \in Mask(d, interest[d])'
             PROVE  d \in edge' \/ \E h \in Threads : ev \in got'[h][d]
  BY DEF EdgeKept
<1>1. CASE d = fd
  BY <1>1 DEF Register, Mask, CtxTypes
<1>2. CASE d # fd
  <2>1. ev \in Mask(d, interest[d]) /\ (d \in edge => d \in edge')
    BY <1>2 DEF Register, Mask, CtxTypes
  <2> QED BY <1>2, <2>1 DEF EdgeKept
<1> QED BY <1>1, <1>2

LEMMA EdgeSame ==
    ASSUME EdgeKept, UNCHANGED <<interest, ready, hup, edge, got>>
    PROVE  EdgeKept'
  BY DEF EdgeKept, Mask

LEMMA NextEdgeKept == CtxInv /\ IoTypes /\ EdgeKept /\ [Next]_vars => EdgeKept'
<1> SUFFICES ASSUME CtxInv, IoTypes, EdgeKept, [Next]_vars PROVE EdgeKept'
  OBVIOUS
<1>t. FdOf \in [Waiters -> Fds] /\ CtxTypes /\ EventsAgree
  BY HookConstants DEF CtxInv
<1>1. ASSUME UNCHANGED <<kernelVars, got>> PROVE EdgeKept'
  BY <1>1, EdgeSame DEF kernelVars
<1>2. ASSUME NEW fd \in Fds, NEW watched, Register(fd, watched), UNCHANGED got PROVE EdgeKept'
  BY <1>t, <1>2, EdgeRegister
<1>3. ASSUME NEW f \in Waiters, WaiterStep(f) PROVE EdgeKept'
  <2>1. CASE Call(f) \/ TryAgain(f) \/ SetTimer(f) \/ Resume(f) \/ Expire(f) \/ RunCallback(f)
    BY <1>1, <2>1 DEF Call, TryAgain, SetTimer, Resume, Expire, RunCallback, ioVars
  <2>2. CASE Succeed(f)
    <3>1. /\ UNCHANGED <<interest, hup, edge, got>>
          /\ \A d \in Fds : ready'[d] \subseteq ready[d]
      BY <1>t, <2>2 DEF Succeed, IoTypes
    <3>2. \A d \in Fds : Mask(d, interest[d])' \subseteq Mask(d, interest[d])
      BY <3>1 DEF Mask
    <3> QED BY <3>1, <3>2 DEF EdgeKept
  <2>3. CASE AddEvent(f)
    BY <1>t, <1>1, <1>2, <2>3 DEF AddEvent, AddEventDone, AddEventFails, AddEventAborts, Abort, ioVars
  <2>4. CASE CancelByTimer(f)
    BY <1>t, <1>1, <1>2, <2>4 DEF CancelByTimer, CancelEvent, TakeOff, ioVars
  <2> QED BY <1>3, <2>1, <2>2, <2>3, <2>4 DEF WaiterStep
<1>4. ASSUME NEW fd \in Fds, FdStep(fd) PROVE EdgeKept'
  <2>1. CASE CloseCancels(fd)
    BY <1>1, <1>2, <2>1 DEF CloseCancels, CancelAll, TakeOff, ioVars
  <2>2. CASE CloseEnds(fd)
    <3>1. /\ interest' = [interest EXCEPT ![fd] = {}] /\ ready' = [ready EXCEPT ![fd] = {}]
          /\ hup' = hup \ {fd} /\ edge' = edge \ {fd} /\ got' = got
      BY <2>2 DEF CloseEnds
    <3>2. \A d \in Fds : Mask(d, interest[d])' = IF d = fd THEN {} ELSE Mask(d, interest[d])
      BY <1>t, <3>1 DEF Mask, IoTypes, CtxTypes
    <3> QED BY <3>1, <3>2 DEF EdgeKept
  <2>3. CASE Reopen(fd)
    BY <2>3, EdgeSame DEF Reopen
  <2>4. CASE HangUpStep(fd)
    <3>1. /\ UNCHANGED <<interest, ready, got>> /\ hup' = hup \cup {fd}
          /\ edge' = IF interest[fd] # {} THEN edge \cup {fd} ELSE edge
      BY <2>4 DEF HangUpStep, HangUp
    <3>2. \A d \in Fds \ {fd} : Mask(d, interest[d])' = Mask(d, interest[d])
      BY <3>1 DEF Mask
    <3>3. interest[fd] = {} => Mask(fd, interest[fd])' = {}
      BY <3>1 DEF Mask
    <3> QED BY <3>1, <3>2, <3>3 DEF EdgeKept
  <2>5. ASSUME NEW ev \in Event, AddCallback(fd, ev) PROVE EdgeKept'
    BY <1>2, <2>5 DEF AddCallback, AddEventDone
  <2>6. ASSUME NEW ev \in Event, DelCallback(fd, ev) PROVE EdgeKept'
    BY <1>1, <1>2, <2>6 DEF DelCallback, DelEvent, TakeOff, ioVars
  <2>7. ASSUME NEW ev \in Event, ReadyStep(fd, ev) PROVE EdgeKept'
    <3>1. /\ UNCHANGED <<interest, hup, got>> /\ ready' = [ready EXCEPT ![fd] = @ \cup {ev}]
          /\ edge' = IF ev \in interest[fd] THEN edge \cup {fd} ELSE edge
      BY <2>7 DEF ReadyStep, BecomesReady
    <3>2. \A d \in Fds : Mask(d, interest[d])' \subseteq
              Mask(d, interest[d]) \cup (IF d = fd /\ ev \in interest[fd] THEN {ev} ELSE {})
      BY <3>1 DEF Mask, IoTypes
    <3> QED BY <3>1, <3>2 DEF EdgeKept
  <2> QED BY <1>4, <2>1, <2>2, <2>3, <2>4, <2>5, <2>6, <2>7 DEF FdStep
<1>5. ASSUME NEW h \in Threads, PollStep(h) PROVE EdgeKept'
  <2>1. /\ UNCHANGED <<interest, ready, hup>> /\ edge' = {}
        /\ \A fd \in Fds : got[h][fd] = {}
        /\ got' = [got EXCEPT ![h] = [fd \in Fds |->
                      IF fd \in edge THEN Mask(fd, interest[fd]) ELSE {}]]
    BY <1>5 DEF PollStep, Poll
  <2>2. SUFFICES ASSUME NEW d \in Fds, NEW ev \in Mask(d, interest[d])'
                 PROVE  \E k \in Threads : ev \in got'[k][d]
    BY DEF EdgeKept
  <2>3. ev \in Mask(d, interest[d])
    BY <2>1 DEF Mask
  <2>4. CASE d \in edge
    BY <2>1, <2>3, <2>4 DEF IoTypes
  <2>5. CASE d \notin edge
    <3>1. PICK k \in Threads : ev \in got[k][d]
      BY <2>3, <2>5 DEF EdgeKept
    <3>2. k # h
      BY <2>1, <3>1
    <3> QED BY <2>1, <3>1, <3>2 DEF IoTypes
  <2> QED BY <2>4, <2>5
<1>6. ASSUME NEW h \in Threads, NEW fd \in Fds, SkipStep(h, fd) PROVE EdgeKept'
  <2>1. /\ UNCHANGED <<interest, ready, hup, edge>> /\ got' = [got EXCEPT ![h][fd] = {}]
        /\ events[fd] \cap RealEvents(h, fd) = {} \/ ~ CtlOk(fd, FALSE)
    BY <1>6 DEF SkipStep, Skip, Taken, kernelVars
  <2>2. ASSUME NEW ev \in Mask(fd, interest[fd]), ev \in got[h][fd] PROVE FALSE
    <3>1. interest[fd] # {} /\ fd \in open /\ interest[fd] \subseteq events[fd]
      BY <2>2 DEF Mask, CtxInv, EventsAgree
    <3>2. CtlOk(fd, FALSE)
      BY <3>1 DEF CtlOk
    <3>3. ev \in interest[fd] \cap Event \/ ev = Err
      BY <1>t, <2>2 DEF Mask, CtxTypes
    <3> QED BY <1>t, <2>1, <2>2, <3>1, <3>2, <3>3 DEF RealEvents, CtxTypes
  <2>3. SUFFICES ASSUME NEW d \in Fds, NEW ev \in Mask(d, interest[d])'
                 PROVE  d \in edge' \/ \E k \in Threads : ev \in got'[k][d]
    BY DEF EdgeKept
  <2>4. ev \in Mask(d, interest[d])
    BY <2>1 DEF Mask
  <2>5. CASE d \in edge
    BY <2>1, <2>5
  <2>6. CASE d \notin edge
    <3>1. PICK k \in Threads : ev \in got[k][d]
      BY <2>4, <2>6 DEF EdgeKept
    <3>2. k # h \/ d # fd
      BY <2>2, <2>4, <3>1
    <3> QED BY <2>1, <3>1, <3>2 DEF IoTypes
  <2> QED BY <2>5, <2>6
<1>7. ASSUME NEW h \in Threads, NEW fd \in Fds, ServeStep(h, fd) PROVE EdgeKept'
  <2>1. /\ Register(fd, events[fd] \ RealEvents(h, fd))
        /\ got' = [got EXCEPT ![h][fd] = {}]
    BY <1>7 DEF ServeStep, Serve, TakeOff, Taken
  <2>2. \A k \in Threads, d \in Fds \ {fd} : got[k][d] \subseteq got'[k][d]
    BY <2>1 DEF IoTypes
  <2> QED BY <1>t, <2>1, <2>2, EdgeRegister
<1>8. ASSUME NEW h \in Threads, NEW fd \in Fds, ServeAbortsStep(h, fd) PROVE EdgeKept'
  BY <1>1, <1>8 DEF ServeAbortsStep, ServeAborts, Abort
<1>9. ASSUME UNCHANGED vars PROVE EdgeKept'
  BY <1>1, <1>9 DEF vars, ioVars
<1> QED BY <1>3, <1>4, <1>5, <1>6, <1>7, <1>8, <1>9 DEF Next, IdleStep

-----------------------------------------------------------------------------
HookInv == CtxInv /\ IoTypes /\ CallTypes /\ WaitInv /\ EdgeKept

LEMMA InitHookInv == Init => HookInv
<1> SUFFICES ASSUME Init PROVE HookInv
  OBVIOUS
<1>1. IoTypes /\ CallTypes
  <2>1. 0 \in 0 .. MaxCallbacks /\ "out" \in Pc
    BY HookConstants DEF Pc
  <2>2. CallTypes
    BY <2>1 DEF Init, CallTypes
  <2>3. IoTypes
    BY DEF Init, IOInit, IoTypes
  <2> QED BY <2>2, <2>3
<1>2. WaitInv
  BY HookConstants, IOManagerConstants DEF Init, IOInit, WaitInv, Kept, Registered
<1>3. EdgeKept
  BY DEF Init, IOInit, EdgeKept, Mask
<1> QED BY <1>1, <1>2, <1>3, InitCtxInv DEF HookInv

LEMMA HookInvariant == Spec => []HookInv
<1>1. HookInv /\ [Next]_vars => HookInv'
  BY NextCtxInv, NextIoTypes, NextCallTypes, NextWaitInv, NextEdgeKept DEF HookInv, CtxInv
<1> QED BY <1>1, InitHookInv, PTL DEF Spec

\* The type invariant of the hooked calls and the IOManager below them.
THEOREM HookTypeCorrect == Spec => []TypeOK
<1>1. HookInv => TypeOK
  BY TypesSplit DEF HookInv, CtxInv
<1> QED BY <1>1, HookInvariant, PTL

\* A fiber in YieldToHold() (hook.cc:174, 307) is waited for in exactly one place, its
\* EventContext or the scheduler, whichever of the event, the timer and close() comes first.
THEOREM WaiterKeptHolds == Spec => []WaiterKept
<1>1. HookInv => WaiterKept
  BY KeptForms DEF HookInv
<1> QED BY <1>1, HookInvariant, PTL

\* What the kernel has to report is on the ready list or in the hands of a thread that has
\* yet to handle it (iomanager.cc:352-431), for any number of threads and descriptors.
THEOREM EdgeKeptHolds == Spec => []EdgeKept
<1>1. HookInv => EdgeKept
  BY DEF HookInv
<1> QED BY <1>1, HookInvariant, PTL
=============================================================================
