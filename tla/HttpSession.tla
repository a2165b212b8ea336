---------------------------- MODULE HttpSession ----------------------------
(***************************************************************************)
(* A connection as HttpServer::handleClient() serves it: recvRequest()     *)
(* with the parser it feeds (htttp/http_session.cc, http_parser.cc,        *)
(* http11_parser.rl), the servlet, sendResponse() and the keep-alive loop  *)
(* (htttp/http_server.cc), together with a client at the other end.        *)
(*                                                                         *)
(* A request is a sequence of pieces <<i, part, half>>, i being its number *)
(* on the connection.  A read returns any number of pieces, so it may end  *)
(* inside a line.  The parser keeps its automaton between two calls but    *)
(* sets its marks to the start of the new buffer: a header field that a    *)
(* read has cut is dropped (its name has length 0 or is only a tail), and  *)
(* a request line that was cut is an error or has a wrong path.            *)
(*                                                                         *)
(* Every header fits the 4096 bytes of the buffer, and offset is 0 at each *)
(* read: execute() consumes all it is given until the header ends.         *)
(***************************************************************************)
EXTENDS Integers, Sequences, FiniteSetsExt

CONSTANTS
    Clients,
    Pipeliners,     \* clients that send without waiting for the response
    Kinds,          \* requests, as [keepalive : BOOLEAN, body : BOOLEAN]
    m_isKeepalive,
    MaxRequests     \* bound: the requests of a client

ASSUME HttpSessionConstants ==
    /\ Pipeliners \subseteq Clients
    /\ Kinds \subseteq [keepalive : BOOLEAN, body : BOOLEAN]
    /\ m_isKeepalive \in BOOLEAN /\ MaxRequests \in Nat

VARIABLES
    place,      \* where a connection is, see Place
    wire,       \* pieces sent by the client and not yet read
    fed,        \* the reads that the parser of the current request was given,
                \* each a set of pieces
    request,    \* what recvRequest() has made of the current request
    sent,       \* history: the kinds of the requests that the client sent
    answers,    \* responses that the client got
    handled,    \* history: the requests given to the dispatcher
    spoiled,    \* history: a read has cut a line, or bytes were thrown away
    gone,       \* the client has closed its end
    untimed     \* a read waits whose timer fired before READ was registered

clientVars  == <<sent, answers, gone>>
sessionVars == <<place, wire, fed, request, clientVars, handled, spoiled, untimed>>

\* out: not connected; pending: not accepted; queued: handleClient() is scheduled;
\* recv, body: in recvRequest(); handle, send: the rest of the loop; blocked: in
\* sendResponse(), waiting for room in the socket; woken: there is some; closed.
Place == {"out", "pending", "queued", "recv", "body", "handle", "send", "blocked", "woken",
          "closed"}

\* A line of the header in two halves, the empty line, and a body of two bytes.
Line(i, part) == <<<<i, part, 1>>, <<i, part, 2>>>>

Pieces(i, kind) ==
    Line(i, "line")
        \o (IF kind.keepalive THEN Line(i, "connection") ELSE <<>>)
        \o (IF kind.body THEN Line(i, "length") ELSE <<>>)
        \o <<<<i, "end", 1>>>>
        \o (IF kind.body THEN Line(i, "body") ELSE <<>>)

NoRequest == [line |-> 0, keepalive |-> FALSE, length |-> 0, body |-> <<>>]

SessionInit ==
    /\ place = [c \in Clients |-> "out"]
    /\ wire = [c \in Clients |-> <<>>]
    /\ fed = [c \in Clients |-> {}]
    /\ request = [c \in Clients |-> NoRequest]
    /\ sent = [c \in Clients |-> <<>>]
    /\ answers = [c \in Clients |-> 0]
    /\ handled = [c \in Clients |-> <<>>]
    /\ spoiled = [c \in Clients |-> FALSE]
    /\ gone = [c \in Clients |-> FALSE]
    /\ untimed = [c \in Clients |-> FALSE]
-----------------------------------------------------------------------------
(* The parser.                                                             *)

\* A line whose two halves were in one read.
Intact(reads, part) ==
    \E chunk \in reads : \E p, q \in chunk :
        p[2] = part /\ p[3] = 1 /\ q[2] = part /\ q[3] = 2

\* The number of the request, 0 when its line was cut.
LineOf(reads) ==
    IF Intact(reads, "line")
      THEN (CHOOSE p \in UNION reads : p[2] = "line")[1]
      ELSE 0

\* getContentLength(): 0 when there is no such header.
ContentLength(reads) == IF Intact(reads, "length") THEN 2 ELSE 0

\* isClose(): m_close is true unless the header says keep-alive.
IsKeepalive(reads) == Intact(reads, "connection")

\* Where execute() stops in data: behind the empty line, or at the end.
NParse(data) ==
    LET ends == {j \in DOMAIN data : data[j][2] = "end"}
    IN IF ends = {} THEN Len(data) ELSE Min(ends)

PiecesUpTo(data, n) == {data[j] : j \in 1 .. n}

\* A request that does not start with the start of a line is an error.
BadStart(c, data) == fed[c] = {} /\ (data[1][2] # "line" \/ data[1][3] # 1)

\* The second half of the request line comes without the first.
LineCut(data) == data[1][2] = "line" /\ data[1][3] = 2
-----------------------------------------------------------------------------
(* recvRequest().                                                          *)

\* close(), and handleClient() leaves its loop.
Close(c) ==
    /\ place' = [place EXCEPT ![c] = "closed"]
    /\ fed' = [fed EXCEPT ![c] = {}]
    /\ request' = [request EXCEPT ![c] = NoRequest]
    /\ wire' = [wire EXCEPT ![c] = <<>>]
    /\ untimed' = [untimed EXCEPT ![c] = FALSE]

\* The loop of handleClient() goes on after a failure.
RecvFailsGoesOn(c) ==
    /\ place[c] \in {"recv", "body"}
    /\ place' = [place EXCEPT ![c] = "recv"]
    /\ fed' = [fed EXCEPT ![c] = {}]
    /\ request' = [request EXCEPT ![c] = NoRequest]
    /\ wire' = [wire EXCEPT ![c] = <<>>]
    /\ untimed' = [untimed EXCEPT ![c] = FALSE]
    /\ UNCHANGED <<clientVars, handled, spoiled>>

\* EAGAIN, and the timer of do_io() fires before addEvent(): it finds no event to
\* cancel, and the read waits without a timeout (hook.cc:141-158, see Hook).
TimeoutLost(c) ==
    /\ place[c] \in {"recv", "body"} /\ wire[c] = <<>> /\ ~ gone[c]
    /\ untimed' = [untimed EXCEPT ![c] = TRUE]
    /\ UNCHANGED <<place, wire, fed, request, clientVars, handled, spoiled>>

\* read() returns 0, an error or a timeout (lines 23-28, 75-79 of http_session.cc).
\* A read whose timer fired too early returns the timeout when something wakes it.
RecvFails(c) ==
    /\ place[c] \in {"recv", "body"}
    /\ ~ untimed[c] \/ wire[c] # <<>> \/ gone[c]
    /\ Close(c)
    /\ UNCHANGED <<clientVars, handled, spoiled>>

\* hasError() after execute().
RecvError(c, data) ==
    /\ BadStart(c, data) \/ LineCut(data)
    /\ Close(c)
    /\ UNCHANGED <<clientVars, handled, spoiled>>

\* The header is not complete: read again.
RecvPart(c, data) ==
    /\ ~ BadStart(c, data)
    /\ \A j \in DOMAIN data : data[j][2] # "end"
    /\ fed' = [fed EXCEPT ![c] = @ \cup {PiecesUpTo(data, Len(data))}]
    /\ wire' = [wire EXCEPT ![c] = SubSeq(@, Len(data) + 1, Len(@))]
    /\ spoiled' = [spoiled EXCEPT ![c] = @ \/ data[Len(data)][3] = 1]
    /\ UNCHANGED <<place, request, clientVars, handled, untimed>>

\* Every byte that was read with the header is taken for the body.
RecvHeaderTakesAll(c, data) ==
    /\ ~ BadStart(c, data)
    /\ \E j \in DOMAIN data : data[j][2] = "end"
    /\ LET n == NParse(data)
           reads == fed[c] \cup {PiecesUpTo(data, n)}
           rest == SubSeq(data, n + 1, Len(data))
           length == ContentLength(reads)
       IN /\ request' = [request EXCEPT ![c] =
                 [line |-> LineOf(reads), keepalive |-> IsKeepalive(reads),
                  length |-> length, body |-> rest]]
          /\ place' = [place EXCEPT ![c] =
                 IF Len(rest) < length THEN "body" ELSE "handle"]
    /\ wire' = [wire EXCEPT ![c] = SubSeq(@, Len(data) + 1, Len(@))]
    /\ fed' = [fed EXCEPT ![c] = {}]
    /\ UNCHANGED <<clientVars, handled, spoiled, untimed>>

\* isFinished(): of the bytes behind the header, the body gets what it needs;
\* any others are lost with the buffer, which is local to the call.
RecvHeader(c, data) ==
    /\ ~ BadStart(c, data)
    /\ \E j \in DOMAIN data : data[j][2] = "end"
    /\ LET n == NParse(data)
           reads == fed[c] \cup {PiecesUpTo(data, n)}
           rest == SubSeq(data, n + 1, Len(data))
           length == ContentLength(reads)
           taken == Min({length, Len(rest)})
       IN /\ request' = [request EXCEPT ![c] =
                 [line |-> LineOf(reads), keepalive |-> IsKeepalive(reads),
                  length |-> length, body |-> SubSeq(rest, 1, taken)]]
          /\ place' = [place EXCEPT ![c] =
                 IF taken < length THEN "body" ELSE "handle"]
          /\ spoiled' = [spoiled EXCEPT ![c] = @ \/ taken < Len(rest)]
    /\ wire' = [wire EXCEPT ![c] = SubSeq(@, Len(data) + 1, Len(@))]
    /\ fed' = [fed EXCEPT ![c] = {}]
    /\ UNCHANGED <<clientVars, handled, untimed>>

Recv(c) ==
    /\ place[c] = "recv" /\ ~ untimed[c]
    /\ \E n \in 1 .. Len(wire[c]) :
         LET data == SubSeq(wire[c], 1, n)
         IN RecvError(c, data) \/ RecvPart(c, data) \/ RecvHeader(c, data)

\* A turn of readFixSize(), which asks for what is missing of the body.
ReadBody(c) ==
    /\ place[c] = "body" /\ ~ untimed[c]
    /\ \E n \in 1 .. Len(wire[c]) :
         LET body == request[c].body \o SubSeq(wire[c], 1, n)
         IN /\ Len(body) <= request[c].length
            /\ request' = [request EXCEPT ![c].body = body]
            /\ place' = [place EXCEPT ![c] =
                   IF Len(body) < request[c].length THEN "body" ELSE "handle"]
            /\ wire' = [wire EXCEPT ![c] = SubSeq(@, n + 1, Len(@))]
    /\ UNCHANGED <<fed, clientVars, handled, spoiled, untimed>>
-----------------------------------------------------------------------------
(* The rest of handleClient(), and the client.                             *)

StartSession(c) ==
    /\ place[c] = "queued"
    /\ place' = [place EXCEPT ![c] = "recv"]
    /\ UNCHANGED <<wire, fed, request, clientVars, handled, spoiled, untimed>>

Handle(c) ==
    /\ place[c] = "handle"
    /\ handled' = [handled EXCEPT ![c] = Append(@, request[c])]
    /\ place' = [place EXCEPT ![c] = "send"]
    /\ UNCHANGED <<wire, fed, request, clientVars, spoiled, untimed>>

\* sendResponse() returns, since the client reads or has gone or the socket has room;
\* nobody tests its result, and the loop ends or goes on.
Respond(c) ==
    /\ place[c] \in {"send", "woken"}
    /\ answers' = [answers EXCEPT ![c] = IF gone[c] THEN @ ELSE @ + 1]
    /\ \/ /\ ~ m_isKeepalive \/ ~ request[c].keepalive
          /\ Close(c)
       \/ /\ m_isKeepalive /\ request[c].keepalive
          /\ place' = [place EXCEPT ![c] = "recv"]
          /\ request' = [request EXCEPT ![c] = NoRequest]
          /\ UNCHANGED <<wire, fed, untimed>>
    /\ UNCHANGED <<sent, gone, handled, spoiled>>

\* The client does not read and the socket is full: do_io() waits for WRITE without a
\* timeout, as startAccept() sets that of reads only (tcp_server.cc:89).  A response
\* that fills the socket several times waits once here: a client that reads again
\* takes all of it.
SendWaits(c) ==
    /\ place[c] = "send" /\ ~ gone[c]
    /\ place' = [place EXCEPT ![c] = "blocked"]
    /\ UNCHANGED <<wire, fed, request, clientVars, handled, spoiled, untimed>>

ClientSends(c) ==
    /\ place[c] \notin {"out", "closed"} /\ ~ gone[c]
    /\ Len(sent[c]) < MaxRequests
    /\ c \in Pipeliners \/ answers[c] = Len(sent[c])
    /\ \E kind \in Kinds :
         /\ sent' = [sent EXCEPT ![c] = Append(@, kind)]
         /\ wire' = [wire EXCEPT ![c] = @ \o Pieces(Len(sent[c]) + 1, kind)]
    /\ UNCHANGED <<place, fed, request, answers, gone, handled, spoiled, untimed>>

\* A client that did not read reads: WRITE wakes sendResponse().
ClientReads(c) ==
    /\ place[c] = "blocked"
    /\ place' = [place EXCEPT ![c] = "woken"]
    /\ UNCHANGED <<wire, fed, request, clientVars, handled, spoiled, untimed>>

\* A fiber that waits to write is woken by the reset.
ClientLeaves(c) ==
    /\ place[c] \notin {"out", "closed"} /\ ~ gone[c]
    /\ gone' = [gone EXCEPT ![c] = TRUE]
    /\ place' = [place EXCEPT ![c] = IF @ = "blocked" THEN "woken" ELSE @]
    /\ UNCHANGED <<wire, fed, request, sent, answers, handled, spoiled, untimed>>

SessionStep(c) ==
    \/ StartSession(c) \/ Recv(c) \/ ReadBody(c) \/ RecvFails(c) \/ Handle(c)
    \/ Respond(c) \/ SendWaits(c)

ClientStep(c) ==
    ClientSends(c) \/ ClientReads(c) \/ ClientLeaves(c)
=============================================================================
