----------------------------- MODULE FdContexts -----------------------------
(***************************************************************************)
(* The table m_fdContexts of IOManager (iomanager.cc): how addEvent() lets *)
(* it grow, with the read lock given up in between, and what that does to  *)
(* an event that waits in a context of the table.  Events are handled as a *)
(* whole in IOManager.tla; here a descriptor has one, READ.                *)
(*                                                                         *)
(* A context is the number of its making for its descriptor; 0 is none.    *)
(***************************************************************************)
EXTENDS Integers

CONSTANTS
    TableThreads,
    TableFds,       \* descriptors on which threads wait
    TableSize,      \* contexts to begin with, 32
    MaxContexts     \* bound: the contexts that are made for a descriptor

ASSUME FdContextsConstants ==
    /\ TableFds \subseteq Nat \ {0, 1, 2}
    /\ TableSize \in Nat /\ MaxContexts \in Nat

VARIABLES
    m_fdContexts,
    lastContext,    \* the contexts made for a descriptor
    inEpoll,        \* the context whose events is READ and which epevent.data.ptr of the
                    \* kernel points at, 0 if the descriptor is not registered
    tableStep,      \* where a thread is in addEvent()
    waiting,        \* history: addEvent() has succeeded and the event is still to come
    droppedFds      \* history: the table was made smaller and lost these

tableVars == <<m_fdContexts, lastContext, inEpoll, tableStep, waiting, droppedFds>>

OutOfCall == [at |-> "idle", fd |-> 0, ctx |-> 0]

\* The constructor: contextResize(32).
TableInit ==
    /\ m_fdContexts = [fd \in 0 .. TableSize - 1 |-> 1]
    /\ lastContext = [fd \in TableFds |-> IF fd < TableSize THEN 1 ELSE 0]
    /\ inEpoll = [fd \in TableFds |-> 0]
    /\ tableStep = [t \in TableThreads |-> OutOfCall]
    /\ waiting = {} /\ droppedFds = {}

Exists(fd) == fd \in DOMAIN m_fdContexts

\* Another thread is not in addEvent() for the same descriptor: it has one reader.
AddEventLooks(t, fd) ==
    /\ tableStep[t].at = "idle"
    /\ fd \notin waiting /\ \A u \in TableThreads : tableStep[u].fd # fd
    /\ tableStep' = [tableStep EXCEPT ![t] =
           IF Exists(fd) THEN [at |-> "add", fd |-> fd, ctx |-> m_fdContexts[fd]]
                         ELSE [at |-> "resize", fd |-> fd, ctx |-> 0]]
    /\ UNCHANGED <<m_fdContexts, lastContext, inEpoll, waiting, droppedFds>>

\* Faulty variant: contextResize() makes every context anew.
ContextResizeAnew(size) ==
    LET Made(fd) == IF fd \in TableFds THEN lastContext[fd] + 1 ELSE 1
    IN  /\ m_fdContexts' = [fd \in 0 .. size - 1 |-> Made(fd)]
        /\ lastContext' = [fd \in TableFds |-> IF fd < size THEN Made(fd) ELSE lastContext[fd]]
        /\ droppedFds' = droppedFds

ContextResize(size) ==
    LET Made(fd) == IF fd \in TableFds THEN lastContext[fd] + 1 ELSE 1
        New == 0 .. size - 1
    IN  /\ m_fdContexts' = [fd \in New |-> IF Exists(fd) THEN m_fdContexts[fd] ELSE Made(fd)]
        /\ lastContext' = [fd \in TableFds |->
               IF fd \in New /\ ~ Exists(fd) THEN Made(fd) ELSE lastContext[fd]]
        /\ droppedFds' = droppedFds \cup (DOMAIN m_fdContexts \ New)

\* Under the write lock, without looking again.
AddEventResizes(t) ==
    LET fd == tableStep[t].fd
    IN  /\ tableStep[t].at = "resize"
        /\ \A f \in TableFds : lastContext[f] < MaxContexts
        /\ ContextResize((fd * 3) \div 2)
        /\ tableStep' = [tableStep EXCEPT ![t] =
               [at |-> "add", fd |-> fd, ctx |-> m_fdContexts'[fd]]]
        /\ UNCHANGED <<inEpoll, waiting>>

\* The rest, under fd_ctx->mutex.
AddEventAdds(t) ==
    LET fd == tableStep[t].fd
    IN  /\ tableStep[t].at = "add"
        /\ inEpoll' = [inEpoll EXCEPT ![fd] = tableStep[t].ctx]
        /\ waiting' = waiting \cup {fd}
        /\ tableStep' = [tableStep EXCEPT ![t] = OutOfCall]
        /\ UNCHANGED <<m_fdContexts, lastContext, droppedFds>>

Taken(fd) ==
    /\ inEpoll' = [inEpoll EXCEPT ![fd] = 0]
    /\ waiting' = waiting \ {fd}
    /\ UNCHANGED <<m_fdContexts, lastContext, tableStep, droppedFds>>

\* delEvent(), cancelEvent(), cancelAll() find the context in the table and have
\* nothing to do if the event is not in it.
CancelEvent(fd) ==
    /\ Exists(fd) /\ m_fdContexts[fd] = inEpoll[fd]
    /\ Taken(fd)

\* idle() finds it in epevent.data.ptr.
EventFires(fd) ==
    /\ inEpoll[fd] # 0
    /\ Taken(fd)

TableNext ==
    \/ \E t \in TableThreads :
         \/ AddEventResizes(t) \/ AddEventAdds(t)
         \/ \E fd \in TableFds : AddEventLooks(t, fd)
    \/ \E fd \in TableFds : CancelEvent(fd) \/ EventFires(fd)

TableSpec == TableInit /\ [][TableNext]_tableVars
-----------------------------------------------------------------------------
(* Properties.                                                             *)

\* An event that waits is found by those who cancel it, the timer of its call and
\* close(): its context is the one in the table, however the table has grown since.
\* The exception is a table that became smaller: a thread that found its descriptor
\* missing resizes to fd * 1.5 even if another has made more room in between
\* (iomanager.cc:125), and the contexts behind that are lost with what waits there.
ContextKept ==
    \A fd \in waiting : fd \notin droppedFds => Exists(fd) /\ m_fdContexts[fd] = inEpoll[fd]
=============================================================================
