----------------------------- MODULE FdManager -----------------------------
(***************************************************************************)
(* FdManager and FdCtx (fd_manager.h, fd_manager.cc) with the hooked calls *)
(* that make and drop an FdCtx (socket(), accept(), close()) or change     *)
(* O_NONBLOCK (fcntl(), ioctl()) in hook.cc, over the numbers that the     *)
(* kernel gives out.  hook.cc is correct only if the FdCtx that get(fd)    *)
(* returns belongs to the socket that has the number now: it is FdCtx's    *)
(* constructor that makes the socket non-blocking.                         *)
(***************************************************************************)
EXTENDS Integers, FiniteSetsExt

CONSTANTS
    FdThreads,
    Hooked,         \* threads where t_hook_enable is set
    Fds,            \* numbers that sockets get
    DatasSize,      \* entries of m_datas to begin with, 64
    MaxSockets      \* bound: the sockets that are opened

\* 0 to 2 are taken; fd * 1.5 is more than fd for any other number.
ASSUME FdManagerConstants ==
    /\ Hooked \subseteq FdThreads
    /\ Fds \subseteq Nat \ {0, 1, 2}
    /\ DatasSize \in Nat /\ MaxSockets \in Nat

VARIABLES
    socketOf,       \* kernel: the socket that has a number; Free
    nonblock,       \* kernel: O_NONBLOCK
    fdDatas,        \* m_datas: the socket for which an entry's FdCtx was made; Free for nullptr
    fdStep,         \* where a thread is, and with which number
    opened,         \* history: how many sockets there were
    keptCtx,        \* history: numbers whose FdCtx has outlived its socket
    madeBlocking    \* history: numbers on which ioctl() has cleared O_NONBLOCK

fdVars == <<socketOf, nonblock, fdDatas, fdStep, opened, keptCtx, madeBlocking>>

Free == 0

IdleStep == [at |-> "idle", fd |-> 0]

FdInit ==
    /\ socketOf = [fd \in Fds |-> Free]
    /\ nonblock = [fd \in Fds |-> FALSE]
    /\ fdDatas = [fd \in 0 .. DatasSize - 1 |-> Free]
    /\ fdStep = [t \in FdThreads |-> IdleStep]
    /\ opened = 0
    /\ keptCtx = {} /\ madeBlocking = {}

Goes(t, at, fd) == fdStep' = [fdStep EXCEPT ![t] = [at |-> at, fd |-> fd]]

Leaves(t) == fdStep' = [fdStep EXCEPT ![t] = IdleStep]

\* The program has the number: no call that opens or closes it is under way.
HasFd(fd) == socketOf[fd] # Free /\ \A t \in FdThreads : fdStep[t].fd # fd
-----------------------------------------------------------------------------
(* socket(), accept() and FdManager::get(fd, true).                        *)

\* socket_f() and accept_f(): the lowest free number.
NewSocket(t, fd) ==
    /\ fdStep[t].at = "idle" /\ opened < MaxSockets
    /\ socketOf[fd] = Free
    /\ fd = Min({f \in Fds : socketOf[f] = Free})
    /\ socketOf' = [socketOf EXCEPT ![fd] = opened + 1]
    /\ nonblock' = [nonblock EXCEPT ![fd] = FALSE]
    /\ madeBlocking' = madeBlocking \ {fd}
    /\ opened' = opened + 1
    /\ UNCHANGED <<fdDatas, keptCtx>>

\* socket() asks whether the thread has hooks.
Socket(t) ==
    \E fd \in Fds :
        /\ NewSocket(t, fd)
        /\ IF t \in Hooked THEN Goes(t, "get", fd) ELSE UNCHANGED fdStep

\* accept() does not: do_io() only waits where there are hooks, and get() is called.
Accept(t) == \E fd \in Fds : NewSocket(t, fd) /\ Goes(t, "get", fd)

\* get(), under the read lock.
GetLooks(t) ==
    LET fd == fdStep[t].fd
        found == fd \in DOMAIN fdDatas /\ fdDatas[fd] # Free
    IN  /\ fdStep[t].at = "get"
        /\ IF found THEN Leaves(t) ELSE Goes(t, "create", fd)
        /\ UNCHANGED <<socketOf, nonblock, fdDatas, opened, keptCtx, madeBlocking>>

\* get(), under the write lock; FdCtx::init() sets O_NONBLOCK.
GetCreates(t) ==
    LET fd == fdStep[t].fd
        size == IF fd \in DOMAIN fdDatas THEN DOMAIN fdDatas ELSE 0 .. (fd * 3) \div 2 - 1
    IN  /\ fdStep[t].at = "create"
        /\ fdDatas' = [f \in size |-> IF f = fd THEN socketOf[fd]
                                      ELSE IF f \in DOMAIN fdDatas THEN fdDatas[f] ELSE Free]
        /\ nonblock' = [nonblock EXCEPT ![fd] = TRUE]
        /\ Leaves(t)
        /\ UNCHANGED <<socketOf, opened, keptCtx, madeBlocking>>
-----------------------------------------------------------------------------
(* close() and FdManager::del(fd).                                         *)

CtxOf(fd) == IF fd \in DOMAIN fdDatas THEN fdDatas[fd] ELSE Free

\* The test of t_hook_enable, and get(fd).
Close(t, fd) ==
    /\ fdStep[t].at = "idle"
    /\ HasFd(fd)
    /\ Goes(t, IF t \in Hooked /\ CtxOf(fd) # Free THEN "del" ELSE "close_f", fd)
    /\ UNCHANGED <<socketOf, nonblock, fdDatas, opened, keptCtx, madeBlocking>>

\* Faulty variant: the number is given back before del().
DelAfterClose(t) ==
    LET fd == fdStep[t].fd
    IN  \/ /\ fdStep[t].at = "del"
           /\ socketOf' = [socketOf EXCEPT ![fd] = Free]
           /\ Goes(t, "late", fd)
           /\ UNCHANGED <<nonblock, fdDatas, opened, keptCtx, madeBlocking>>
        \/ /\ fdStep[t].at = "late"
           /\ fdDatas' = [fdDatas EXCEPT ![fd] = Free]
           /\ Leaves(t)
           /\ UNCHANGED <<socketOf, nonblock, opened, keptCtx, madeBlocking>>

Del(t) ==
    LET fd == fdStep[t].fd
    IN  /\ fdStep[t].at = "del"
        /\ fdDatas' = [fdDatas EXCEPT ![fd] = Free]
        /\ keptCtx' = keptCtx \ {fd}
        /\ Goes(t, "close_f", fd)
        /\ UNCHANGED <<socketOf, nonblock, opened, madeBlocking>>

CloseF(t) ==
    LET fd == fdStep[t].fd
    IN  /\ fdStep[t].at = "close_f"
        /\ socketOf' = [socketOf EXCEPT ![fd] = Free]
        /\ keptCtx' = IF CtxOf(fd) # Free THEN keptCtx \cup {fd} ELSE keptCtx
        /\ Leaves(t)
        /\ UNCHANGED <<nonblock, fdDatas, opened, madeBlocking>>
-----------------------------------------------------------------------------
\* fcntl(F_SETFL): the flag of the caller goes to the FdCtx, the socket stays
\* non-blocking; without an FdCtx it goes to the kernel.
FcntlSetFl(fd, flag) ==
    /\ HasFd(fd)
    /\ nonblock' = [nonblock EXCEPT ![fd] = CtxOf(fd) # Free \/ flag]
    /\ madeBlocking' = madeBlocking \ {fd}
    /\ UNCHANGED <<socketOf, fdDatas, fdStep, opened, keptCtx>>

\* ioctl(FIONBIO): the flag goes to the FdCtx and to the kernel as well.
IoctlFionbio(fd, flag) ==
    /\ HasFd(fd)
    /\ nonblock' = [nonblock EXCEPT ![fd] = flag]
    /\ madeBlocking' = IF flag THEN madeBlocking \ {fd} ELSE madeBlocking \cup {fd}
    /\ UNCHANGED <<socketOf, fdDatas, fdStep, opened, keptCtx>>

FdNext ==
    \/ \E t \in FdThreads :
         \/ Socket(t) \/ Accept(t) \/ GetLooks(t) \/ GetCreates(t) \/ Del(t) \/ CloseF(t)
         \/ \E fd \in Fds : Close(t, fd)
    \/ \E fd \in Fds, flag \in BOOLEAN : FcntlSetFl(fd, flag) \/ IoctlFionbio(fd, flag)

FdSpec == FdInit /\ [][FdNext]_fdVars
-----------------------------------------------------------------------------
(* Properties.                                                             *)

\* A number that has an FdCtx has that of its socket, and the socket does not block,
\* as do_io() relies on: a fiber that met a blocking one would stop its thread
\* (hook.cc:117).  Numbers are given out again at once, and the table is locked only
\* within get() and del().  A thread without hooks gets an FdCtx from accept(), but not
\* from socket().  Two ways out of this: close() on such a thread leaves the FdCtx
\* behind for the next socket of that number (hook.cc:410-413), and ioctl() hands
\* FIONBIO to the kernel (hook.cc:554).
CtxFits ==
    \A fd \in Fds :
        HasFd(fd) /\ CtxOf(fd) # Free =>
            /\ CtxOf(fd) = socketOf[fd] <=> fd \notin keptCtx
            /\ fd \notin keptCtx \cup madeBlocking => nonblock[fd]
=============================================================================
