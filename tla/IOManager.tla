----------------------------- MODULE IOManager -----------------------------
(***************************************************************************)
(* The descriptor side of IOManager (iomanager.h, iomanager.cc): one       *)
(* FdContext per descriptor, the epoll instance, and the idle fiber that   *)
(* turns reported events into scheduled fibers.  Every operation holds the *)
(* mutex of its FdContext from the test of its events to the end, so each  *)
(* is one step; what epoll_wait() has reported is handled later, one       *)
(* descriptor at a time, and may be stale by then.                         *)
(*                                                                         *)
(* The descriptors are below 32, the size that the constructor gives       *)
(* m_fdContexts: contextResize() is not called again.  Timers are in       *)
(* TimerManager, stop() in Scheduler, and the callers in Hook.             *)
(***************************************************************************)
EXTENDS Integers, FiniteSets

CONSTANTS
    Fds,        \* descriptors
    Threads,    \* threads whose idle fiber polls
    Waiters,    \* the fibers that wait for events
    Callback,   \* stands for an event_ctx.cb in place of a fiber
    Nobody      \* an EventContext that is not in use

ASSUME IOManagerConstants ==
    /\ IsFiniteSet(Fds)
    /\ Callback \notin Waiters /\ Nobody \notin Waiters /\ Callback # Nobody

VARIABLES
    events,               \* fd_ctx->events
    context,              \* who waits for an event of a descriptor
    m_pendingEventCount,
    woken,                \* the fibers handed to the scheduler, not yet resumed
    got,                  \* per thread and descriptor: reported, not yet handled
    aborted,              \* a SYLAR_ASSERT has failed
    open,                 \* kernel: descriptors in use
    ready,                \* kernel: what a descriptor is ready for
    hup,                  \* kernel: descriptors with EPOLLERR or EPOLLHUP
    interest,             \* kernel: the events registered, {} after EPOLL_CTL_DEL
    edge                  \* kernel: descriptors on the ready list

ctxVars    == <<events, context, m_pendingEventCount>>
kernelVars == <<open, ready, hup, interest, edge>>
ioVars     == <<ctxVars, woken, got, aborted, kernelVars>>

Event == {"READ", "WRITE"}

\* EPOLLERR and EPOLLHUP in a reported mask.
Err == "ERR"

IOInit ==
    /\ events = [fd \in Fds |-> {}]
    /\ context = [fd \in Fds |-> [ev \in Event |-> Nobody]]
    /\ m_pendingEventCount = 0
    /\ woken = {}
    /\ got = [h \in Threads |-> [fd \in Fds |-> {}]]
    /\ aborted = FALSE
    /\ open = Fds
    /\ ready = [fd \in Fds |-> {}]
    /\ hup = {}
    /\ interest = [fd \in Fds |-> {}]
    /\ edge = {}

\* SYLAR_ASSERT(x) with x false ends the process.
Abort ==
    /\ aborted' = TRUE
    /\ UNCHANGED <<ctxVars, woken, got, kernelVars>>
-----------------------------------------------------------------------------
(* epoll: a registration succeeds when EPOLL_CTL_ADD meets an unregistered  *)
(* open descriptor, EPOLL_CTL_MOD and EPOLL_CTL_DEL a registered one; it    *)
(* puts a descriptor that is ready already on the ready list.              *)

\* The result of epoll_ctl() when the code takes the descriptor to be new or not.
CtlOk(fd, new) == fd \in open /\ (new <=> interest[fd] = {})

\* The mask that epoll_wait() reports for a descriptor.
Mask(fd, watched) ==
    IF watched = {} THEN {}
    ELSE (ready[fd] \cap watched) \cup (IF fd \in hup THEN {Err} ELSE {})

Register(fd, watched) ==
    /\ interest' = [interest EXCEPT ![fd] = watched]
    /\ edge' = IF Mask(fd, watched) # {} THEN edge \cup {fd} ELSE edge \ {fd}
    /\ UNCHANGED <<open, ready, hup>>

\* The peer, or the network: the descriptor becomes ready for ev.
BecomesReady(fd, ev) ==
    /\ ~ aborted
    /\ fd \in open /\ ev \notin ready[fd]
    /\ ready' = [ready EXCEPT ![fd] = @ \cup {ev}]
    /\ edge' = IF ev \in interest[fd] THEN edge \cup {fd} ELSE edge
    /\ UNCHANGED <<ctxVars, woken, got, aborted, open, hup, interest>>

HangUp(fd) ==
    /\ ~ aborted
    /\ fd \in open \ hup
    /\ hup' = hup \cup {fd}
    /\ edge' = IF interest[fd] # {} THEN edge \cup {fd} ELSE edge
    /\ UNCHANGED <<ctxVars, woken, got, aborted, open, ready, interest>>
-----------------------------------------------------------------------------
(* addEvent(), by who: a fiber or the callback.                            *)

\* Line 136: the event has a waiter already.
AddEventAborts(fd, ev) == ev \in events[fd] /\ Abort

\* Lines 145-152.
AddEventFails(fd, ev) ==
    /\ ev \notin events[fd]
    /\ ~ CtlOk(fd, events[fd] = {})
    /\ UNCHANGED ioVars

AddEventDone(fd, ev, who) ==
    /\ ev \notin events[fd]
    /\ CtlOk(fd, events[fd] = {})
    /\ Register(fd, events[fd] \cup {ev})
    /\ m_pendingEventCount' = m_pendingEventCount + 1
    /\ events' = [events EXCEPT ![fd] = @ \cup {ev}]
    /\ context' = [context EXCEPT ![fd][ev] = who]
    /\ UNCHANGED <<woken, got, aborted>>

(* Taking events off a descriptor, in delEvent(), cancelEvent(),            *)
(* cancelAll() and idle().                                                  *)

\* Faulty variant: EPOLL_CTL_DEL although another event is left.
TakeOffDeletes(fd, evs) ==
    /\ CtlOk(fd, FALSE)
    /\ Register(fd, {})
    /\ events' = [events EXCEPT ![fd] = @ \ evs]
    /\ context' = [context EXCEPT ![fd] = [ev \in Event |-> IF ev \in evs THEN Nobody ELSE @[ev]]]
    /\ m_pendingEventCount' = m_pendingEventCount - Cardinality(evs)

\* The kernel is told first; the count follows; the contexts are emptied.
TakeOff(fd, evs) ==
    /\ CtlOk(fd, FALSE)
    /\ Register(fd, events[fd] \ evs)
    /\ events' = [events EXCEPT ![fd] = @ \ evs]
    /\ context' = [context EXCEPT ![fd] = [ev \in Event |-> IF ev \in evs THEN Nobody ELSE @[ev]]]
    /\ m_pendingEventCount' = m_pendingEventCount - Cardinality(evs)

\* Faulty variant: the waiter of one event is forgotten.
TriggerOne(fd, evs) ==
    \E ev \in evs : woken' = woken \cup ({context[fd][ev]} \cap Waiters)

\* triggerEvent() of each: the waiting fibers go to the scheduler.
Trigger(fd, evs) == woken' = woken \cup ({context[fd][ev] : ev \in evs} \cap Waiters)

\* delEvent() for an event that has a callback: nobody is told.
DelEvent(fd, ev) ==
    /\ ~ aborted
    /\ context[fd][ev] = Callback
    /\ IF CtlOk(fd, FALSE)
         THEN TakeOff(fd, {ev}) /\ UNCHANGED <<woken, got, aborted>>
         ELSE UNCHANGED ioVars

\* cancelEvent(), whether or not there is something to cancel.
CancelEvent(fd, ev) ==
    IF ev \in events[fd] /\ CtlOk(fd, FALSE)
      THEN TakeOff(fd, {ev}) /\ Trigger(fd, {ev}) /\ UNCHANGED <<got, aborted>>
      ELSE UNCHANGED ioVars

\* cancelAll()
CancelAll(fd) ==
    IF events[fd] # {} /\ CtlOk(fd, FALSE)
      THEN TakeOff(fd, events[fd]) /\ Trigger(fd, events[fd]) /\ UNCHANGED <<got, aborted>>
      ELSE UNCHANGED ioVars
-----------------------------------------------------------------------------
(* The idle fiber.                                                         *)

\* epoll_wait() empties the ready list (fewer than MAX_EVNETS descriptors).
Poll(h) ==
    /\ ~ aborted
    /\ \A fd \in Fds : got[h][fd] = {}
    /\ edge # {}
    /\ got' = [got EXCEPT ![h] = [fd \in Fds |->
                  IF fd \in edge THEN Mask(fd, interest[fd]) ELSE {}]]
    /\ edge' = {}
    /\ UNCHANGED <<ctxVars, woken, aborted, open, ready, hup, interest>>

\* Faulty variant: an error is not passed on to the waiters.
RealEventsNoError(h, fd) == got[h][fd] \cap Event

\* real_events, lines 391-403: an error counts for whatever is waited for now.
RealEvents(h, fd) ==
    (got[h][fd] \cap Event) \cup (IF Err \in got[h][fd] THEN events[fd] ELSE {})

Taken(h, fd) == got' = [got EXCEPT ![h][fd] = {}]

\* Faulty variant: a mask that is stale in part is dropped as a whole.
SkipPartial(h, fd) ==
    /\ ~ aborted
    /\ got[h][fd] # {}
    /\ ~ (RealEvents(h, fd) \subseteq events[fd]) \/ ~ CtlOk(fd, FALSE)
    /\ Taken(h, fd)
    /\ UNCHANGED <<ctxVars, woken, aborted, kernelVars>>

\* Lines 405-408 and 413-420: nothing of it is waited for any more, or epoll_ctl()
\* fails.
Skip(h, fd) ==
    /\ ~ aborted
    /\ got[h][fd] # {}
    /\ events[fd] \cap RealEvents(h, fd) = {} \/ ~ CtlOk(fd, FALSE)
    /\ Taken(h, fd)
    /\ UNCHANGED <<ctxVars, woken, aborted, kernelVars>>

Serve(h, fd) ==
    /\ ~ aborted
    /\ got[h][fd] # {}
    /\ RealEvents(h, fd) # {} /\ RealEvents(h, fd) \subseteq events[fd]
    /\ TakeOff(fd, RealEvents(h, fd))
    /\ Trigger(fd, RealEvents(h, fd))
    /\ Taken(h, fd)
    /\ UNCHANGED aborted

\* Lines 422-431 trigger every event of the mask, but line 405 has only tested
\* that one of them is waited for: triggerEvent() asserts (line 41).
ServeAborts(h, fd) ==
    /\ ~ aborted
    /\ events[fd] \cap RealEvents(h, fd) # {} /\ CtlOk(fd, FALSE)
    /\ ~ (RealEvents(h, fd) \subseteq events[fd])
    /\ Abort
=============================================================================
