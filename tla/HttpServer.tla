----------------------------- MODULE HttpServer -----------------------------
(***************************************************************************)
(* TcpServer (tcp_server.h, tcp_server.cc) with the sessions of HttpServer *)
(* (HttpSession): bind(), start(), the fibers of startAccept() and the     *)
(* function that stop() schedules, all of which run concurrently.          *)
(*                                                                         *)
(* A Socket lives while m_socks or a fiber of startAccept() refers to it.  *)
(* m_isStop is an unprotected bool: every test of it is a step.            *)
(*                                                                         *)
(* The accept worker has several threads, so accept fibers run between the *)
(* steps of stop()'s function; with one thread they would not.  The calls  *)
(* run on threads with hooks.  The function of a second stop() runs after  *)
(* that of the first: two at once would change m_socks without a lock.     *)
(***************************************************************************)
EXTENDS HttpSession

CONSTANTS
    Socks,      \* sockets that bind() makes, one for each address
    MaxStarts,  \* bound: calls of start() that start something
    MaxStops    \* bound: calls of stop()

ASSUME HttpServerConstants == MaxStarts \in Nat /\ MaxStops \in Nat

VARIABLES
    m_socks,
    m_isStop,
    starts,         \* how often start() has scheduled accept fibers
    stops,          \* how often stop() was called
    stopTasks,      \* functions of stop() that have not begun
    closing,        \* where the function of stop() is, and with which socket
    bound,          \* sockets that listen while something refers to them
    accept,         \* the accept fiber of a socket and a start(), see AcceptAt
    at,             \* the socket through which a client has connected
    early,          \* history: start() found accept fibers of an earlier start()
    aborted         \* a SYLAR_ASSERT has failed

stopVars == <<stops, stopTasks, closing>>
serverVars == <<m_socks, m_isStop, starts, stopVars, bound, accept, at, early, aborted>>
vars == <<sessionVars, serverVars>>

\* off: not scheduled; queued; test: before while(!m_isStop); call: in accept();
\* wait: in its YieldToHold(), READ registered; late: the same, but registered after
\* close() has cancelled the socket's events; ended.
AcceptAt == {"off", "queued", "test", "call", "wait", "late", "ended"}

\* idle: no function of stop() runs; next: at the loop over m_socks; cancel: before
\* sock->close(); close: behind the cancelAll() of the hooked close().
ClosingAt == {"idle", "next", "cancel", "close"}

NoClosing == [at |-> "idle", sock |-> {}]

Acceptors == Socks \X (1 .. MaxStarts)

Init ==
    /\ SessionInit
    /\ m_socks = {} /\ bound = {}
    /\ m_isStop = TRUE
    /\ starts = 0 /\ stops = 0 /\ stopTasks = 0 /\ closing = NoClosing
    /\ accept = [a \in Acceptors |-> "off"]
    /\ at = [c \in Clients |-> {}]
    /\ early = FALSE /\ aborted = FALSE

Running(a) == accept[a] \in {"queued", "test", "call", "wait", "late"}

Listening(s) == s \in bound /\ (s \in m_socks \/ \E a \in Acceptors : a[1] = s /\ Running(a))
-----------------------------------------------------------------------------
(* The user's thread.                                                      *)

\* bind(), before the first start() or stop(), as it changes m_socks without a lock:
\* one address that fails takes all of m_socks with it.
Bind(S, fails) ==
    /\ starts = 0 /\ stops = 0 /\ S # {} /\ fails \subseteq S /\ S \cap bound = {}
    /\ m_socks' = IF fails = {} THEN m_socks \cup S ELSE {}
    /\ bound' = bound \cup (S \ fails)
    /\ UNCHANGED <<sessionVars, m_isStop, starts, stopVars, accept, at, early, aborted>>

\* start() that does not ask whether the server runs.
StartAgain ==
    /\ starts < MaxStarts
    /\ m_isStop' = FALSE
    /\ starts' = starts + 1
    /\ accept' = [a \in Acceptors |->
                     IF a[1] \in m_socks /\ a[2] = starts' THEN "queued" ELSE accept[a]]
    /\ early' = (early \/ \E a \in Acceptors : a[1] \in m_socks /\ Running(a))
    /\ UNCHANGED <<sessionVars, m_socks, stopVars, bound, at, aborted>>

Start ==
    /\ m_isStop
    /\ starts < MaxStarts
    /\ m_isStop' = FALSE
    /\ starts' = starts + 1
    /\ accept' = [a \in Acceptors |->
                     IF a[1] \in m_socks /\ a[2] = starts' THEN "queued" ELSE accept[a]]
    /\ early' = (early \/ \E a \in Acceptors : a[1] \in m_socks /\ Running(a))
    /\ UNCHANGED <<sessionVars, m_socks, stopVars, bound, at, aborted>>

Stop ==
    /\ stops < MaxStops
    /\ m_isStop' = TRUE
    /\ stops' = stops + 1
    /\ stopTasks' = stopTasks + 1
    /\ UNCHANGED <<sessionVars, m_socks, starts, closing, bound, accept, at, early, aborted>>
-----------------------------------------------------------------------------
(* The accept worker.                                                      *)

GoAccept(a, label) == accept' = [accept EXCEPT ![a] = label]

\* cancelAll() that finds no event to trigger.
WakeNobody(s) == UNCHANGED accept

\* cancelAll(fd) wakes the fiber that waits for a connection.
WakeAcceptor(s) ==
    accept' = [a \in Acceptors |->
                  IF a[1] = s /\ accept[a] = "wait" THEN "call" ELSE accept[a]]

\* The function that stop() has scheduled begins.
StopTask ==
    /\ stopTasks > 0 /\ closing.at = "idle"
    /\ stopTasks' = stopTasks - 1
    /\ closing' = [at |-> "next", sock |-> {}]
    /\ UNCHANGED <<sessionVars, m_socks, m_isStop, starts, stops, bound, accept, at, early, aborted>>

\* sock->cancelAll().
CancelAll ==
    /\ closing.at = "next"
    /\ \E s \in m_socks \cap bound :
         /\ WakeAcceptor(s)
         /\ closing' = [at |-> "cancel", sock |-> {s}]
    /\ UNCHANGED <<sessionVars, m_socks, m_isStop, starts, stops, stopTasks, bound, at, early, aborted>>

\* sock->close(): the hook cancels again what was registered in between.
CloseCancels ==
    /\ closing.at = "cancel"
    /\ \E s \in closing.sock : WakeAcceptor(s)
    /\ closing' = [closing EXCEPT !.at = "close"]
    /\ UNCHANGED <<sessionVars, m_socks, m_isStop, starts, stops, stopTasks, bound, at, early, aborted>>

\* close_f(): the kernel drops the descriptor, and with it what epoll knew of it.
CloseF ==
    /\ closing.at = "close"
    /\ bound' = bound \ closing.sock
    /\ closing' = [at |-> "next", sock |-> {}]
    /\ UNCHANGED <<sessionVars, m_socks, m_isStop, starts, stops, stopTasks, accept, at, early, aborted>>

\* All are closed: m_socks.clear().
ClearSocks ==
    /\ closing.at = "next" /\ m_socks \cap bound = {}
    /\ m_socks' = {}
    /\ closing' = NoClosing
    /\ UNCHANGED <<sessionVars, m_isStop, starts, stops, stopTasks, bound, accept, at, early, aborted>>

BeginAccept(a) ==
    /\ accept[a] = "queued"
    /\ GoAccept(a, "test")
    /\ UNCHANGED <<sessionVars, m_socks, m_isStop, starts, stopVars, bound, at, early, aborted>>

TestStop(a) ==
    /\ accept[a] = "test"
    /\ GoAccept(a, IF m_isStop THEN "ended" ELSE "call")
    /\ UNCHANGED <<sessionVars, m_socks, m_isStop, starts, stopVars, bound, at, early, aborted>>

\* The clients in the kernel's queue of socket s.
Backlog(s) == {c \in Clients : place[c] = "pending" /\ at[c] = {s}}

\* accept() returns a connection: handleClient() is scheduled for it.
Accept(a) ==
    /\ accept[a] = "call" /\ a[1] \in bound
    /\ \E c \in Backlog(a[1]) : place' = [place EXCEPT ![c] = "queued"]
    /\ GoAccept(a, "test")
    /\ UNCHANGED <<wire, fed, request, clientVars, handled, spoiled, untimed,
                   m_socks, m_isStop, starts, stopVars, bound, at, early, aborted>>

\* accept() returns -1, for a closed socket (EBADF), for want of a descriptor, or without
\* waiting when close() has dropped the FdCtx.
AcceptFails(a) ==
    /\ accept[a] = "call"
    /\ GoAccept(a, "test")
    /\ UNCHANGED <<sessionVars, m_socks, m_isStop, starts, stopVars, bound, at, early, aborted>>

\* EAGAIN: do_io() registers READ, which addEvent() asserts is not registered.
AcceptWaits(a) ==
    /\ accept[a] = "call" /\ a[1] \in bound /\ Backlog(a[1]) = {}
    /\ IF \E b \in Acceptors : b[1] = a[1] /\ accept[b] \in {"wait", "late"}
         THEN aborted' = TRUE /\ UNCHANGED accept
         ELSE /\ GoAccept(a, IF closing = [at |-> "close", sock |-> {a[1]}] THEN "late" ELSE "wait")
              /\ UNCHANGED aborted
    /\ UNCHANGED <<sessionVars, m_socks, m_isStop, starts, stopVars, bound, at, early>>

\* The socket becomes readable: retry.
AcceptWakes(a) ==
    /\ accept[a] \in {"wait", "late"} /\ a[1] \in bound /\ Backlog(a[1]) # {}
    /\ GoAccept(a, "call")
    /\ UNCHANGED <<sessionVars, m_socks, m_isStop, starts, stopVars, bound, at, early, aborted>>
-----------------------------------------------------------------------------
(* The network.                                                            *)

ClientConnects(c) ==
    /\ place[c] = "out"
    /\ \E s \in Socks :
         /\ Listening(s)
         /\ at' = [at EXCEPT ![c] = {s}]
    /\ place' = [place EXCEPT ![c] = "pending"]
    /\ UNCHANGED <<wire, fed, request, clientVars, handled, spoiled, untimed,
                   m_socks, m_isStop, starts, stopVars, bound, accept, early, aborted>>

\* The kernel resets connections that nobody accepts when the socket is closed.
Reset(c) ==
    /\ place[c] = "pending" /\ \A s \in at[c] : ~ Listening(s)
    /\ Close(c)
    /\ UNCHANGED <<clientVars, handled, spoiled, serverVars>>

AcceptStep(a) ==
    BeginAccept(a) \/ TestStop(a) \/ Accept(a) \/ AcceptFails(a) \/ AcceptWaits(a) \/ AcceptWakes(a)

UserStep == Start \/ Stop \/ \E S \in SUBSET Socks : \E fails \in SUBSET S : Bind(S, fails)

NetworkStep(c) ==
    \/ ClientConnects(c) \/ Reset(c)
    \/ (ClientStep(c) \/ TimeoutLost(c)) /\ UNCHANGED serverVars

ServeStep(c) == SessionStep(c) /\ UNCHANGED serverVars

StopStep == StopTask \/ CancelAll \/ CloseCancels \/ CloseF \/ ClearSocks

Next ==
    /\ ~ aborted
    /\ \/ UserStep \/ StopStep
       \/ \E a \in Acceptors : AcceptStep(a)
       \/ \E c \in Clients : ServeStep(c) \/ NetworkStep(c)

Spec == Init /\ [][Next]_vars

\* The workers run what is scheduled, a servlet returns, and so does a read or a write
\* of a session that can go on, or whose timeout has come; nothing makes the user or
\* a client do anything.
Fairness ==
    /\ WF_vars(~ aborted /\ StopStep)
    /\ \A a \in Acceptors : WF_vars(~ aborted /\ AcceptStep(a))
    /\ \A c \in Clients : WF_vars(~ aborted /\ ServeStep(c))

FairSpec == Spec /\ Fairness
-----------------------------------------------------------------------------
(* Properties.                                                             *)

TypeOK ==
    /\ place \in [Clients -> Place]
    /\ \A flag \in {gone, spoiled, untimed} : flag \in [Clients -> BOOLEAN]
    /\ \A c \in Clients :
         /\ answers[c] \in 0 .. MaxRequests /\ Len(sent[c]) <= MaxRequests
         /\ place[c] = "body" <=> Len(request[c].body) < request[c].length
         /\ fed[c] # {} => place[c] = "recv"
         /\ Cardinality(at[c]) = (IF place[c] = "out" THEN 0 ELSE 1)
    /\ m_socks \subseteq Socks /\ bound \subseteq Socks
    /\ accept \in [Acceptors -> AcceptAt]
    /\ m_isStop \in BOOLEAN /\ early \in BOOLEAN /\ aborted \in BOOLEAN
    /\ closing \in [at : ClosingAt, sock : SUBSET Socks]
    /\ starts \in 0 .. MaxStarts /\ stops \in 0 .. MaxStops /\ stopTasks \in 0 .. stops

\* What recvRequest() should return for the i-th request.
Expected(i, kind) ==
    [line |-> i, keepalive |-> kind.keepalive, length |-> IF kind.body THEN 2 ELSE 0,
     body |-> IF kind.body THEN Line(i, "body") ELSE <<>>]

\* However the bytes are cut into reads, the n-th request handled on a
\* connection is the n-th one sent, with its own body, as long as no read ended
\* inside a line of a header and none went on behind its request (the parser's
\* marks, http11_parser.rl, and the local buffer of recvRequest()).
InOrder ==
    \A c \in Clients : ~ spoiled[c] =>
        /\ Len(handled[c]) <= Len(sent[c])
        /\ \A i \in DOMAIN handled[c] : handled[c][i] = Expected(i, sent[c][i])

\* Two fibers wait for one listening socket, and addEvent() asserts, only if a start()
\* after a stop() did not wait for the accept fibers of the start() before it to end
\* (tcp_server.cc:102: start() of a server that runs does nothing).
OneAcceptor == aborted => stops > 0 /\ early

\* After stop(), unless the server is started again, no socket listens and the accept
\* fibers end.  Only a fiber is left that close() itself woke, with its cancelAll()
\* (hook.cc:421), and that got EAGAIN and registered READ once more before close_f()
\* (425): the kernel forgets it, and it waits for ever.
StopStops ==
    stopTasks > 0 ~>
        \/ aborted \/ ~ m_isStop
        \/ \A a \in Acceptors : (Running(a) => accept[a] = "late") /\ ~ Listening(a[1])

\* What a session waits for without a timeout, and the client does not do: to read, or
\* to send anything once the timeout of a read was lost; nor does it leave.
Stuck(c) ==
    \/ place[c] = "blocked"
    \/ untimed[c] /\ wire[c] = <<>> /\ ~ gone[c]

\* A connection that was accepted is closed in the end, whatever its client does, but
\* for a client that leaves the session stuck for ever.
EveryClientCloses ==
    \A c \in Clients : []<> ~ Stuck(c) => (place[c] = "queued" ~> place[c] = "closed" \/ aborted)
=============================================================================
