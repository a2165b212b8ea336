-------------------------------- MODULE Hook --------------------------------
(***************************************************************************)
(* The hooked system calls (hook.cc) as callers of IOManager: do_io() and  *)
(* connect_with_timeout(), which wait for an event or a timer, close(),    *)
(* and the descriptors that FdManager knows (fd_manager.cc).               *)
(*                                                                         *)
(* A timer may expire at any time after it is set: TimerManager says when. *)
(* YieldToHold() is taken to be atomic here: Scheduler shows what happens  *)
(* when it is not.                                                         *)
(***************************************************************************)
EXTENDS IOManager

CONSTANTS
    FdOf,          \* the descriptor each waiter uses
    EventOf,       \* READ or WRITE, by the kind of its calls
    TimedWaiters,  \* those whose descriptor has a timeout
    CallbackEvents,\* <<fd, event>> on which other code registers a callback
    ClosedFds,     \* the descriptors that are closed, once, and opened again
    MaxCallbacks   \* bound: expired callbacks of one call not yet run

ASSUME HookConstants ==
    /\ FdOf \in [Waiters -> Fds] /\ EventOf \in [Waiters -> Event]
    /\ TimedWaiters \subseteq Waiters
    /\ CallbackEvents \subseteq Fds \X Event /\ ClosedFds \subseteq Fds
    /\ \A f \in Waiters : <<FdOf[f], EventOf[f]>> \notin CallbackEvents
    /\ MaxCallbacks \in Nat \ {0}

VARIABLES
    pc,          \* where a waiter is in its call, see Pc
    timer,       \* its timer is in m_timers
    expired,     \* its callbacks that listExpiredCb() has handed out
    cancelled,   \* tinfo->cancelled
    cancelling,  \* callbacks between t->cancelled = ETIMEDOUT and cancelEvent()
    managed,     \* descriptors with an FdCtx
    closing      \* "no", "cancelled" (cancelAll() done), "closed", "reopened"

waitVars == <<timer, expired, cancelled, cancelling>>
hookVars == <<pc, waitVars, managed, closing>>
vars == <<ioVars, hookVars>>

\* out: not in a call; try: at retry; settimer: EAGAIN was returned; addevent:
\* before addEvent(); hold: in YieldToHold().
Pc == {"out", "try", "settimer", "addevent", "hold"}

Init ==
    /\ IOInit
    /\ pc = [f \in Waiters |-> "out"]
    /\ timer = [f \in Waiters |-> FALSE]
    /\ expired = [f \in Waiters |-> 0]
    /\ cancelled = [f \in Waiters |-> FALSE]
    /\ cancelling = {}
    /\ managed = Fds
    /\ closing = [fd \in Fds |-> "no"]

\* The call returns: its tinfo is gone, and with it what expired callbacks could do.
Return(f) ==
    /\ pc' = [pc EXCEPT ![f] = "out"]
    /\ timer' = [timer EXCEPT ![f] = FALSE]
    /\ expired' = [expired EXCEPT ![f] = 0]
    /\ cancelled' = [cancelled EXCEPT ![f] = FALSE]
    /\ UNCHANGED cancelling

Goto(f, place) == pc' = [pc EXCEPT ![f] = place] /\ UNCHANGED waitVars
-----------------------------------------------------------------------------
(* do_io() and connect_with_timeout().                                     *)

\* Lines 101-125.  isClose() is never true: nothing sets m_isClosed.
Call(f) ==
    /\ ~ aborted
    /\ pc[f] = "out"
    /\ FdOf[f] \in managed
    /\ Goto(f, "try")
    /\ UNCHANGED <<ioVars, managed, closing>>

\* The system call: it succeeds and may leave the descriptor ready for more; it
\* fails on a closed descriptor; or EAGAIN, or EINPROGRESS.
Succeed(f) ==
    /\ ~ aborted
    /\ pc[f] = "try"
    /\ FdOf[f] \notin open \/ EventOf[f] \in ready[FdOf[f]] \/ FdOf[f] \in hup
    /\ \E left \in {ready[FdOf[f]], ready[FdOf[f]] \ {EventOf[f]}} :
          ready' = [ready EXCEPT ![FdOf[f]] = left]
    /\ Return(f)
    /\ UNCHANGED <<ctxVars, woken, got, aborted, open, hup, interest, edge, managed, closing>>

TryAgain(f) ==
    /\ ~ aborted
    /\ pc[f] = "try"
    /\ FdOf[f] \in open \ hup /\ EventOf[f] \notin ready[FdOf[f]]
    /\ Goto(f, IF f \in TimedWaiters THEN "settimer" ELSE "addevent")
    /\ UNCHANGED <<ioVars, managed, closing>>

\* Lines 141-156, before the event is added.
SetTimer(f) ==
    /\ ~ aborted
    /\ pc[f] = "settimer"
    /\ pc' = [pc EXCEPT ![f] = "addevent"]
    /\ timer' = [timer EXCEPT ![f] = TRUE]
    /\ UNCHANGED <<ioVars, expired, cancelled, cancelling, managed, closing>>

\* Lines 158-174.
AddEvent(f) ==
    /\ ~ aborted
    /\ pc[f] = "addevent"
    /\ \/ AddEventDone(FdOf[f], EventOf[f], f) /\ Goto(f, "hold")
       \/ AddEventFails(FdOf[f], EventOf[f]) /\ Return(f)
       \/ AddEventAborts(FdOf[f], EventOf[f]) /\ UNCHANGED <<pc, waitVars>>
    /\ UNCHANGED <<managed, closing>>

\* Lines 174-184: the fiber runs again; timer->cancel(); the reason is looked at.
\* do_io() tries again, connect_with_timeout() returns (lines 307-339).
Resume(f) ==
    /\ ~ aborted
    /\ pc[f] = "hold"
    /\ f \in woken
    /\ woken' = woken \ {f}
    /\ \/ Return(f)
       \/ /\ ~ cancelled[f]
          /\ pc' = [pc EXCEPT ![f] = "try"]
          /\ timer' = [timer EXCEPT ![f] = FALSE]
          /\ UNCHANGED <<expired, cancelled, cancelling>>
    /\ UNCHANGED <<ctxVars, got, aborted, kernelVars, managed, closing>>
-----------------------------------------------------------------------------
(* The callback of the timer.                                              *)

Expire(f) ==
    /\ ~ aborted
    /\ timer[f]
    /\ expired[f] < MaxCallbacks
    /\ timer' = [timer EXCEPT ![f] = FALSE]
    /\ expired' = [expired EXCEPT ![f] = @ + 1]
    /\ UNCHANGED <<ioVars, pc, cancelled, cancelling, managed, closing>>

\* Lines 146-152.  At most one callback of a fiber is past them at a time.
RunCallback(f) ==
    /\ ~ aborted
    /\ expired[f] > 0
    /\ f \notin cancelling
    /\ expired' = [expired EXCEPT ![f] = @ - 1]
    /\ cancelled' = [cancelled EXCEPT ![f] = TRUE]
    /\ cancelling' = IF cancelled[f] THEN cancelling ELSE cancelling \cup {f}
    /\ UNCHANGED <<ioVars, pc, timer, managed, closing>>

\* Line 153; by now the call may have returned, and another wait be cancelled.
CancelByTimer(f) ==
    /\ ~ aborted
    /\ f \in cancelling
    /\ cancelling' = cancelling \ {f}
    /\ CancelEvent(FdOf[f], EventOf[f])
    /\ UNCHANGED <<pc, timer, expired, cancelled, managed, closing>>
-----------------------------------------------------------------------------
(* close(), by a fiber that does not wait on the descriptor itself.        *)

CloseCancels(fd) ==
    /\ ~ aborted
    /\ fd \in ClosedFds
    /\ closing[fd] = "no"
    /\ closing' = [closing EXCEPT ![fd] = "cancelled"]
    /\ CancelAll(fd)
    /\ UNCHANGED <<pc, waitVars, managed>>

\* FdMgr::del() and close_f(): the kernel forgets the registration.
CloseEnds(fd) ==
    /\ ~ aborted
    /\ closing[fd] = "cancelled"
    /\ closing' = [closing EXCEPT ![fd] = "closed"]
    /\ managed' = managed \ {fd}
    /\ open' = open \ {fd}
    /\ interest' = [interest EXCEPT ![fd] = {}]
    /\ ready' = [ready EXCEPT ![fd] = {}]
    /\ hup' = hup \ {fd} /\ edge' = edge \ {fd}
    /\ UNCHANGED <<ctxVars, woken, got, aborted, pc, waitVars>>

\* socket() or accept() returns the same number; FdMgr::get(fd, true).
Reopen(fd) ==
    /\ ~ aborted
    /\ closing[fd] = "closed"
    /\ closing' = [closing EXCEPT ![fd] = "reopened"]
    /\ managed' = managed \cup {fd}
    /\ open' = open \cup {fd}
    /\ UNCHANGED <<ctxVars, woken, got, aborted, ready, hup, interest, edge, pc, waitVars>>

\* addEvent() with a callback, and delEvent(), by other code.
AddCallback(fd, ev) ==
    /\ ~ aborted
    /\ <<fd, ev>> \in CallbackEvents
    /\ ev \notin events[fd]
    /\ AddEventDone(fd, ev, Callback)
    /\ UNCHANGED hookVars
-----------------------------------------------------------------------------
WaiterStep(f) ==
    \/ Call(f) \/ Succeed(f) \/ TryAgain(f) \/ SetTimer(f) \/ AddEvent(f) \/ Resume(f)
    \/ Expire(f) \/ RunCallback(f) \/ CancelByTimer(f)

\* The steps of IOManager and of the kernel, seen from here.
PollStep(h)            == Poll(h) /\ UNCHANGED hookVars
SkipStep(h, fd)        == Skip(h, fd) /\ UNCHANGED hookVars
ServeStep(h, fd)       == Serve(h, fd) /\ UNCHANGED hookVars
ServeAbortsStep(h, fd) == ServeAborts(h, fd) /\ UNCHANGED hookVars
DelCallback(fd, ev)    == DelEvent(fd, ev) /\ UNCHANGED hookVars
ReadyStep(fd, ev)      == BecomesReady(fd, ev) /\ UNCHANGED hookVars
HangUpStep(fd)         == HangUp(fd) /\ UNCHANGED hookVars

IdleStep(h) ==
    \/ PollStep(h)
    \/ \E fd \in Fds : SkipStep(h, fd) \/ ServeStep(h, fd) \/ ServeAbortsStep(h, fd)

FdStep(fd) ==
    \/ CloseCancels(fd) \/ CloseEnds(fd) \/ Reopen(fd) \/ HangUpStep(fd)
    \/ \E ev \in Event : AddCallback(fd, ev) \/ DelCallback(fd, ev) \/ ReadyStep(fd, ev)

Next ==
    \/ \E f \in Waiters : WaiterStep(f)
    \/ \E fd \in Fds : FdStep(fd)
    \/ \E h \in Threads : IdleStep(h)

Spec == Init /\ [][Next]_vars

\* The threads poll and handle what they got.
FairSpec ==
    Spec /\ \A h \in Threads : WF_vars(IdleStep(h))
-----------------------------------------------------------------------------
(* Properties.                                                             *)

\* The type invariant.
TypeOK ==
    /\ events \in [Fds -> SUBSET Event] /\ interest \in [Fds -> SUBSET Event]
    /\ context \in [Fds -> [Event -> Waiters \cup {Callback, Nobody}]]
    /\ m_pendingEventCount \in Nat
    /\ woken \subseteq Waiters /\ cancelling \subseteq Waiters
    /\ got \in [Threads -> [Fds -> SUBSET (Event \cup {Err})]]
    /\ aborted \in BOOLEAN
    /\ open \subseteq Fds /\ hup \subseteq Fds /\ edge \subseteq Fds /\ managed \subseteq Fds
    /\ ready \in [Fds -> SUBSET Event]
    /\ pc \in [Waiters -> Pc]
    /\ timer \in [Waiters -> BOOLEAN] /\ cancelled \in [Waiters -> BOOLEAN]
    /\ expired \in [Waiters -> 0 .. MaxCallbacks]
    /\ closing \in [Fds -> {"no", "cancelled", "closed", "reopened"}]

\* An event is in three places, each changed by those who add, trigger and cancel it
\* and by close(): m_pendingEventCount, which keeps stop() from ending the threads, is
\* the number of events that are waited for; the kernel watches nothing that the
\* FdContext does not know of, and everything that it knows of as long as the
\* descriptor has not been closed (iomanager.cc:146, 236-241, 405-410).
EventsAgree ==
    /\ m_pendingEventCount = Cardinality({e \in Fds \X Event : e[2] \in events[e[1]]})
    /\ \A fd \in Fds :
         /\ interest[fd] \subseteq events[fd]
         /\ closing[fd] \in {"no", "cancelled"} => interest[fd] = events[fd]

\* A fiber in YieldToHold() is waited for in exactly one place: its EventContext or
\* the scheduler.  It is neither lost nor scheduled twice, whichever of the event,
\* the timer and close() come first.
WaiterKept ==
    \A f \in Waiters :
        LET registered == f \in {context[fd][ev] : fd \in Fds, ev \in Event}
        IN  /\ pc[f] = "hold" <=> (registered \/ f \in woken)
            /\ ~ (registered /\ f \in woken)
            /\ registered => context[FdOf[f]][EventOf[f]] = f

\* What the kernel has to report is on the ready list, or a thread has it and has
\* yet to handle it: no edge is lost between EPOLLET, the events that are left
\* over, the threads that poll and those that add and cancel.
EdgeKept ==
    \A fd \in Fds : \A ev \in Mask(fd, interest[fd]) :
        fd \in edge \/ \E h \in Threads : ev \in got[h][fd]

\* A registration that the kernel has is served once the descriptor is ready.
ReadyWakes ==
    \A f \in Waiters :
        LET Waits == context[FdOf[f]][EventOf[f]] = f /\ EventOf[f] \in interest[FdOf[f]]
        IN  Waits /\ EventOf[f] \in ready[FdOf[f]]
              ~> ~ Waits \/ EventOf[f] \notin ready[FdOf[f]] \/ aborted

\* A fiber that waits with a timeout has its timer, or a callback on its way that
\* will cancel the event (hook.cc:140-156).
TimeoutCancels ==
    \A f \in TimedWaiters :
        pc[f] = "hold" /\ f \notin woken
          => timer[f] \/ expired[f] > 0 \/ f \in cancelling

\* No SYLAR_ASSERT fails: triggerEvent() is called for events that are waited for
\* (iomanager.cc:41), and an event is added once (line 136).
NoAbort == ~ aborted
=============================================================================
