------------------------- MODULE HttpConnectionPool -------------------------
(***************************************************************************)
(* HttpConnectionPool (htttp/http_connection.h, http_connection.cc):       *)
(* fibers on several threads call doRequest(), which leases a connection   *)
(* with getConnection(), sends a request, receives the response and gives  *)
(* the connection back through ReleasePtr(), the deleter of its pointer.   *)
(*                                                                         *)
(* Only the list is locked.  delete, new and the atomic m_total are steps  *)
(* of their own.  m_createTime is 0 for ever and m_maxAliveTime is below   *)
(* any wall clock, so the tests of the age are false; m_maxSize is unused. *)
(* The server answers every request with one response, or closes.          *)
(***************************************************************************)
EXTENDS Integers, Sequences, FiniteSets

CONSTANTS
    Users,          \* fibers that call doRequest()
    Conns,          \* bound: the HttpConnection objects of a run
    m_maxRequest,
    MaxCalls,       \* bound: calls of doRequest() by each user
    Null

ASSUME PoolConstants ==
    /\ IsFiniteSet(Users) /\ IsFiniteSet(Conns)
    /\ m_maxRequest \in Nat \ {0} /\ MaxCalls \in Nat
    /\ Null \notin Conns

VARIABLES
    m_conns,        \* the list
    m_total,
    live,           \* objects that new has made and delete has not destroyed
    used,           \* history: objects that new has made
    m_request,
    connected,      \* Socket::m_isConnected
    server,         \* per connection: requests that the server has to answer,
    inbox,          \* responses that have not been read,
    serverOpen,     \* and whether the server still holds it
    pc,             \* where a user is in doRequest(), see Pc
    conn,           \* the connection it has, or Null
    invalid,        \* invalid_conns of its getConnection()
    call,           \* history: how often it has called doRequest()
    answer          \* history: the response of its last call, or Null

poolVars == <<m_conns, m_total, live, used, m_request>>
wireVars == <<connected, server, inbox, serverOpen>>
userVars == <<pc, conn, invalid, call, answer>>
vars == <<poolVars, wireVars, userVars>>

\* get: before the lock; delete: behind it; subtract: before m_total -= size();
\* make: the list gave nothing; add: before ++m_total; send, recv: sendRequest()
\* and recvResponse(); release: before ReleasePtr(); drop: before --m_total.
Pc == {"out", "get", "delete", "subtract", "make", "add", "send", "recv", "release", "drop"}

Init ==
    /\ m_conns = <<>> /\ m_total = 0
    /\ live = {} /\ used = {}
    /\ m_request = [c \in Conns |-> 0]
    /\ connected = [c \in Conns |-> FALSE]
    /\ server = [c \in Conns |-> <<>>] /\ inbox = [c \in Conns |-> <<>>]
    /\ serverOpen = [c \in Conns |-> FALSE]
    /\ pc = [u \in Users |-> "out"]
    /\ conn = [u \in Users |-> Null]
    /\ invalid = [u \in Users |-> {}]
    /\ call = [u \in Users |-> 0]
    /\ answer = [u \in Users |-> Null]

At(u, place) == pc[u] = place

Goto(u, place) == pc' = [pc EXCEPT ![u] = place]

\* What identifies a request and its response.
Request(u) == <<u, call[u]>>
-----------------------------------------------------------------------------
(* getConnection()                                                         *)

Begin(u) ==
    /\ At(u, "out") /\ call[u] < MaxCalls
    /\ Goto(u, "get")
    /\ call' = [call EXCEPT ![u] = @ + 1]
    /\ answer' = [answer EXCEPT ![u] = Null]
    /\ UNCHANGED <<poolVars, wireVars, conn, invalid>>

\* The loop under the lock: up to the first connection that is connected.
Pop(u) ==
    /\ At(u, "get")
    /\ \E n \in 0 .. Len(m_conns) :
          /\ \A i \in 1 .. n : ~ connected[m_conns[i]]
          /\ n < Len(m_conns) => connected[m_conns[n + 1]]
          /\ invalid' = [invalid EXCEPT ![u] = {m_conns[i] : i \in 1 .. n}]
          /\ IF n < Len(m_conns)
               THEN /\ conn' = [conn EXCEPT ![u] = m_conns[n + 1]]
                    /\ m_conns' = SubSeq(m_conns, n + 2, Len(m_conns))
               ELSE /\ m_conns' = <<>>
                    /\ UNCHANGED conn
    /\ Goto(u, "delete")
    /\ UNCHANGED <<m_total, live, used, m_request, wireVars, call, answer>>

DeleteInvalid(u) ==
    /\ At(u, "delete")
    /\ live' = live \ invalid[u]
    /\ Goto(u, "subtract")
    /\ UNCHANGED <<m_conns, m_total, used, m_request, wireVars, conn, invalid, call, answer>>

SubtractInvalid(u) ==
    /\ At(u, "subtract")
    /\ m_total' = m_total - Cardinality(invalid[u])
    /\ invalid' = [invalid EXCEPT ![u] = {}]
    /\ Goto(u, IF conn[u] = Null THEN "make" ELSE "send")
    /\ UNCHANGED <<m_conns, live, used, m_request, wireVars, conn, call, answer>>

\* No address, no socket, or connect() fails: nullptr is returned.
ConnectFails(u) ==
    /\ At(u, "make")
    /\ Goto(u, "out")
    /\ UNCHANGED <<poolVars, wireVars, conn, invalid, call, answer>>

Connect(u) ==
    /\ At(u, "make")
    /\ \E c \in Conns \ used :
          /\ live' = live \cup {c} /\ used' = used \cup {c}
          /\ connected' = [connected EXCEPT ![c] = TRUE]
          /\ serverOpen' = [serverOpen EXCEPT ![c] = TRUE]
          /\ conn' = [conn EXCEPT ![u] = c]
    /\ Goto(u, "add")
    /\ UNCHANGED <<m_conns, m_total, m_request, server, inbox, invalid, call, answer>>

AddNew(u) ==
    /\ At(u, "add")
    /\ m_total' = m_total + 1
    /\ Goto(u, "send")
    /\ UNCHANGED <<m_conns, live, used, m_request, wireVars, conn, invalid, call, answer>>
-----------------------------------------------------------------------------
(* doRequest()                                                             *)

\* sendRequest() hands the request to the kernel; a server that has closed the
\* connection will not answer it.
Send(u) ==
    /\ At(u, "send")
    /\ connected[conn[u]]
    /\ server' = IF serverOpen[conn[u]]
                   THEN [server EXCEPT ![conn[u]] = Append(@, Request(u))] ELSE server
    /\ Goto(u, "recv")
    /\ UNCHANGED <<poolVars, connected, inbox, serverOpen, conn, invalid, call, answer>>

\* It reports an error, and the connection is left as it is.
SendFails(u) ==
    /\ At(u, "send")
    /\ ~ connected[conn[u]] \/ ~ serverOpen[conn[u]]
    /\ Goto(u, "release")
    /\ UNCHANGED <<poolVars, wireVars, conn, invalid, call, answer>>

\* recvResponse() returns a response.
Recv(u) ==
    /\ At(u, "recv")
    /\ connected[conn[u]] /\ inbox[conn[u]] # <<>>
    /\ answer' = [answer EXCEPT ![u] = Head(inbox[conn[u]])]
    /\ inbox' = [inbox EXCEPT ![conn[u]] = Tail(@)]
    /\ Goto(u, "release")
    /\ UNCHANGED <<poolVars, connected, server, serverOpen, conn, invalid, call>>

\* Faulty variant: a connection whose response is late is not closed.
RecvFailsOpen(u) ==
    /\ At(u, "recv")
    /\ Goto(u, "release")
    /\ UNCHANGED <<poolVars, wireVars, conn, invalid, call, answer>>

\* A timeout, an error, the end of the stream or a response that cannot be parsed:
\* close() and nullptr.
RecvFails(u) ==
    /\ At(u, "recv")
    /\ connected' = [connected EXCEPT ![conn[u]] = FALSE]
    /\ Goto(u, "release")
    /\ UNCHANGED <<poolVars, server, inbox, serverOpen, conn, invalid, call, answer>>
-----------------------------------------------------------------------------
(* ReleasePtr(), when the last pointer of doRequest() goes.                *)

\* Faulty variant: one request too many.
WornOutLate(c) == ~ connected[c] \/ m_request[c] + 1 > m_maxRequest

WornOut(c) == ~ connected[c] \/ m_request[c] + 1 >= m_maxRequest

ReleaseDelete(u) ==
    /\ At(u, "release")
    /\ WornOut(conn[u])
    /\ m_request' = [m_request EXCEPT ![conn[u]] = @ + 1]
    /\ live' = live \ {conn[u]}
    /\ conn' = [conn EXCEPT ![u] = Null]
    /\ Goto(u, "drop")
    /\ UNCHANGED <<m_conns, m_total, used, wireVars, invalid, call, answer>>

\* Faulty variant: the connection is counted out before it goes back to the list.
ReleaseKeepSubtracts(u) ==
    /\ At(u, "release")
    /\ ~ WornOut(conn[u])
    /\ m_request' = [m_request EXCEPT ![conn[u]] = @ + 1]
    /\ m_conns' = Append(m_conns, conn[u])
    /\ m_total' = m_total - 1
    /\ conn' = [conn EXCEPT ![u] = Null]
    /\ Goto(u, "out")
    /\ UNCHANGED <<live, used, wireVars, invalid, call, answer>>

\* Faulty variant: no return after delete: a connection goes to the list always.
ReleaseKeepAlways(u) ==
    /\ At(u, "release")
    /\ m_request' = [m_request EXCEPT ![conn[u]] = @ + 1]
    /\ live' = IF WornOut(conn[u]) THEN live \ {conn[u]} ELSE live
    /\ m_conns' = Append(m_conns, conn[u])
    /\ conn' = [conn EXCEPT ![u] = Null]
    /\ Goto(u, "out")
    /\ UNCHANGED <<m_total, used, wireVars, invalid, call, answer>>

ReleaseKeep(u) ==
    /\ At(u, "release")
    /\ ~ WornOut(conn[u])
    /\ m_request' = [m_request EXCEPT ![conn[u]] = @ + 1]
    /\ m_conns' = Append(m_conns, conn[u])
    /\ conn' = [conn EXCEPT ![u] = Null]
    /\ Goto(u, "out")
    /\ UNCHANGED <<m_total, live, used, wireVars, invalid, call, answer>>

Drop(u) ==
    /\ At(u, "drop")
    /\ m_total' = m_total - 1
    /\ Goto(u, "out")
    /\ UNCHANGED <<m_conns, live, used, m_request, wireVars, conn, invalid, call, answer>>
-----------------------------------------------------------------------------
(* The server, and code that has kept the Socket of a connection.          *)

ServerAnswers(c) ==
    /\ serverOpen[c] /\ server[c] # <<>>
    /\ inbox' = [inbox EXCEPT ![c] = Append(@, Head(server[c]))]
    /\ server' = [server EXCEPT ![c] = Tail(@)]
    /\ UNCHANGED <<poolVars, connected, serverOpen, userVars>>

ServerCloses(c) ==
    /\ serverOpen[c]
    /\ serverOpen' = [serverOpen EXCEPT ![c] = FALSE]
    /\ UNCHANGED <<poolVars, connected, server, inbox, userVars>>

\* getSocket()->close() on a connection that is back in the pool.
SocketClosed(c) ==
    /\ c \in live /\ connected[c]
    /\ \A u \in Users : conn[u] # c
    /\ connected' = [connected EXCEPT ![c] = FALSE]
    /\ UNCHANGED <<poolVars, server, inbox, serverOpen, userVars>>
-----------------------------------------------------------------------------
UserStep(u) ==
    \/ Begin(u) \/ Pop(u) \/ DeleteInvalid(u) \/ SubtractInvalid(u)
    \/ ConnectFails(u) \/ Connect(u) \/ AddNew(u)
    \/ Send(u) \/ SendFails(u) \/ Recv(u) \/ RecvFails(u)
    \/ ReleaseDelete(u) \/ ReleaseKeep(u) \/ Drop(u)

WireStep(c) == ServerAnswers(c) \/ ServerCloses(c) \/ SocketClosed(c)

Next ==
    \/ \E u \in Users : UserStep(u)
    \/ \E c \in Conns : WireStep(c)

Spec == Init /\ [][Next]_vars
-----------------------------------------------------------------------------
(* Properties.                                                             *)

\* The type invariant.
TypeOK ==
    /\ m_conns \in Seq(Conns) /\ m_total \in Int
    /\ live \subseteq used /\ used \subseteq Conns
    /\ m_request \in [Conns -> 0 .. m_maxRequest]
    /\ connected \in [Conns -> BOOLEAN] /\ serverOpen \in [Conns -> BOOLEAN]
    /\ pc \in [Users -> Pc]
    /\ conn \in [Users -> Conns \cup {Null}] /\ invalid \in [Users -> SUBSET Conns]
    /\ call \in [Users -> 0 .. MaxCalls]

\* A connection that exists is in one place only: once in the list, leased to one
\* user, or waiting to be deleted by one; and nobody holds one that is deleted.
HeldOnce ==
    LET Pooled(c)  == {i \in 1 .. Len(m_conns) : m_conns[i] = c}
        Leased(c)  == {u \in Users : conn[u] = c}
        Doomed(c)  == {u \in Users : pc[u] = "delete" /\ c \in invalid[u]}
    IN  \A c \in Conns :
          Cardinality(Pooled(c)) + Cardinality(Leased(c)) + Cardinality(Doomed(c))
              = IF c \in live THEN 1 ELSE 0

\* m_total is the number of connections, but for the updates that are under way:
\* it is changed outside the lock, after new and after delete.
CountExact ==
    LET Behind(place) == {u \in Users : pc[u] = place}
    IN  m_total + Cardinality(Behind("add")) =
            Cardinality(live) + Cardinality(Behind("drop"))
                + Cardinality(UNION {invalid[u] : u \in Behind("subtract")})

\* doRequest() returns the response to its own request, although connections are
\* reused and a response may come after its request has timed out.
OwnAnswer == \A u \in Users : answer[u] \in {Null, Request(u)}

\* A connection in the list can take at least one more request.
PooledFit == \A i \in 1 .. Len(m_conns) : m_request[m_conns[i]] < m_maxRequest
=============================================================================
