-------------------------- MODULE HttpServerProofs --------------------------
(***************************************************************************)
(* Proofs about HttpServer and the sessions it serves, for any number of   *)
(* sockets, clients, requests, starts and stops: the accept fibers first,  *)
(* then what a client sends against what the dispatcher gets; and about    *)
(* ServletDispatch, for every set of paths and patterns and whatever       *)
(* matches what.                                                           *)
(***************************************************************************)
EXTENDS HttpServer, ServletDispatch, SequenceTheorems, WellFoundedInduction, TLAPS

\* Accept fibers belong to the start() calls there were, two of them run for one socket
\* only if a start() came early, and that needs a stop(): before it, start() does nothing
\* on a server that runs.
AcceptInv ==
    /\ accept \in [Acceptors -> AcceptAt]
    /\ starts \in Nat /\ stops \in Nat
    /\ stops = 0 => ~ early /\ (m_isStop => starts = 0)
    /\ \A a \in Acceptors : accept[a] # "off" => a[2] <= starts
    /\ \A a, b \in Acceptors : a[1] = b[1] /\ a # b /\ Running(a) /\ Running(b) => early
    /\ aborted => early

LEMMA AcceptSame ==
    ASSUME AcceptInv, UNCHANGED <<m_isStop, starts, stops, accept, early, aborted>>
    PROVE  AcceptInv'
BY DEF AcceptInv, Running

\* No fiber is scheduled.
LEMMA AcceptMoves ==
    ASSUME AcceptInv, accept' \in [Acceptors -> AcceptAt],
           \A a \in Acceptors : accept'[a] # accept[a] => Running(a),
           UNCHANGED <<m_isStop, starts, stops, early, aborted>>
    PROVE  AcceptInv'
<1>1. \A a \in Acceptors : accept'[a] # "off" => accept[a] # "off"
  BY DEF Running
<1>2. \A a \in Acceptors : Running(a)' => Running(a)
  BY DEF Running
<1> QED BY <1>1, <1>2 DEF AcceptInv

\* One fiber that runs goes on.
LEMMA FiberMoves ==
    ASSUME AcceptInv, NEW a \in Acceptors, NEW label \in AcceptAt, GoAccept(a, label),
           Running(a), UNCHANGED <<m_isStop, starts, stops, early, aborted>>
    PROVE  AcceptInv'
<1>1. accept' \in [Acceptors -> AcceptAt] /\ \A b \in Acceptors : accept'[b] # accept[b] => Running(b)
  BY DEF GoAccept, AcceptInv
<1> QED BY <1>1, AcceptMoves

\* start() schedules fibers.
LEMMA AcceptStarts ==
    ASSUME AcceptInv, Start
    PROVE  AcceptInv'
<1>1. /\ m_isStop /\ ~ m_isStop' /\ starts' = starts + 1 /\ starts \in Nat
      /\ accept' = [a \in Acceptors |->
                       IF a[1] \in m_socks /\ a[2] = starts' THEN "queued" ELSE accept[a]]
      /\ early' = (early \/ \E a \in Acceptors : a[1] \in m_socks /\ Running(a))
      /\ UNCHANGED <<stops, aborted>>
  BY DEF Start, AcceptInv, stopVars
<1>2. accept' \in [Acceptors -> AcceptAt]
  BY <1>1 DEF AcceptInv, AcceptAt
<1>3. \A a \in Acceptors : a[2] \in Nat /\ a[2] >= 1
  BY HttpServerConstants DEF Acceptors
<1>4. \A a \in Acceptors : accept'[a] # "off" => a[2] <= starts'
  BY <1>1, <1>3 DEF AcceptInv
<1>5. stops' = 0 => ~ early'
  <2>1. ASSUME stops = 0, NEW a \in Acceptors PROVE ~ Running(a)
    <3>1. starts = 0
      BY <1>1, <2>1 DEF AcceptInv
    <3>2. accept[a] = "off"
      BY <1>3, <3>1 DEF AcceptInv
    <3> QED BY <3>2 DEF Running
  <2> QED BY <1>1, <2>1 DEF AcceptInv
<1>6. ASSUME NEW a \in Acceptors, NEW b \in Acceptors, a[1] = b[1], a # b, Running(a)', Running(b)'
      PROVE  early'
  <2>1. a[2] # b[2]
    BY <1>6 DEF Acceptors
  <2>2. \A d \in Acceptors : Running(d)' => Running(d) \/ (d[1] \in m_socks /\ d[2] = starts')
    BY <1>1 DEF Running
  <2>3. CASE Running(a) /\ Running(b)
    BY <1>1, <1>6, <2>3 DEF AcceptInv
  <2>4. CASE Running(a) /\ b[1] \in m_socks
    BY <1>1, <1>6, <2>4
  <2>5. CASE Running(b) /\ a[1] \in m_socks
    BY <1>1, <1>6, <2>5
  <2> QED BY <1>6, <2>1, <2>2, <2>3, <2>4, <2>5
<1>7. aborted' => early'
  BY <1>1 DEF AcceptInv
<1>8. stops' = 0 => ~ m_isStop'
  BY <1>1
<1>9. starts' \in Nat /\ stops' \in Nat
  BY <1>1 DEF AcceptInv
<1> QED BY <1>2, <1>4, <1>5, <1>6, <1>7, <1>8, <1>9 DEF AcceptInv

\* The function of stop() wakes fibers.
LEMMA AcceptStops ==
    ASSUME AcceptInv, StopStep
    PROVE  AcceptInv'
<1>1. CASE StopTask \/ CloseF \/ ClearSocks
  BY <1>1, AcceptSame DEF StopTask, CloseF, ClearSocks
<1>2. CASE CancelAll \/ CloseCancels
  <2>1. PICK s : WakeAcceptor(s)
    BY <1>2 DEF CancelAll, CloseCancels
  <2>2. UNCHANGED <<m_isStop, starts, stops, early, aborted>>
    BY <1>2 DEF CancelAll, CloseCancels
  <2>3. accept' \in [Acceptors -> AcceptAt]
    BY <2>1 DEF WakeAcceptor, AcceptInv, AcceptAt
  <2>4. \A a \in Acceptors : accept'[a] # accept[a] => Running(a)
    BY <2>1 DEF WakeAcceptor, Running
  <2> QED BY <2>2, <2>3, <2>4, AcceptMoves
<1> QED BY <1>1, <1>2 DEF StopStep

\* A fiber that would wait next to another one of its socket aborts: one of them is from an
\* earlier start().
LEMMA AcceptWaitsInv ==
    ASSUME AcceptInv, NEW a \in Acceptors, AcceptWaits(a)
    PROVE  AcceptInv'
<1>1. accept[a] = "call" /\ UNCHANGED <<m_isStop, starts, stops, early>>
  BY DEF AcceptWaits, stopVars
<1>2. CASE \E b \in Acceptors : b[1] = a[1] /\ accept[b] \in {"wait", "late"}
  <2>1. PICK b \in Acceptors : b[1] = a[1] /\ accept[b] \in {"wait", "late"}
    BY <1>2
  <2>2. a # b /\ Running(a) /\ Running(b)
    BY <1>1, <2>1 DEF Running
  <2>3. early
    BY <2>1, <2>2 DEF AcceptInv
  <2>4. UNCHANGED accept
    BY <1>2 DEF AcceptWaits
  <2> QED BY <1>1, <2>3, <2>4 DEF AcceptInv, Running
<1>3. CASE ~ \E b \in Acceptors : b[1] = a[1] /\ accept[b] \in {"wait", "late"}
  <2>1. PICK label \in AcceptAt : GoAccept(a, label)
    BY <1>3 DEF AcceptWaits, AcceptAt
  <2>2. UNCHANGED aborted /\ Running(a)
    BY <1>1, <1>3 DEF AcceptWaits, Running
  <2> QED BY <1>1, <2>1, <2>2, FiberMoves
<1> QED BY <1>2, <1>3

LEMMA NextAccept ==
    ASSUME AcceptInv, [Next]_vars
    PROVE  AcceptInv'
<1>1. ASSUME NEW S \in SUBSET Socks, NEW fails \in SUBSET S, Bind(S, fails) PROVE AcceptInv'
  BY <1>1, AcceptSame DEF Bind, stopVars
<1>2. CASE Stop
  BY <1>2 DEF Stop, AcceptInv, Running
<1>3. ASSUME NEW a \in Acceptors,
             BeginAccept(a) \/ TestStop(a) \/ Accept(a) \/ AcceptFails(a) \/ AcceptWakes(a)
      PROVE  AcceptInv'
  <2>1. PICK label \in AcceptAt : GoAccept(a, label)
    BY <1>3 DEF BeginAccept, TestStop, Accept, AcceptFails, AcceptWakes, AcceptAt
  <2>2. Running(a) /\ UNCHANGED <<m_isStop, starts, stops, early, aborted>>
    BY <1>3 DEF BeginAccept, TestStop, Accept, AcceptFails, AcceptWakes, Running, stopVars
  <2> QED BY <2>1, <2>2, FiberMoves
<1>4. ASSUME NEW a \in Acceptors, AcceptStep(a) PROVE AcceptInv'
  BY <1>3, <1>4, AcceptWaitsInv DEF AcceptStep
<1>5. ASSUME NEW c \in Clients, ServeStep(c) \/ NetworkStep(c) PROVE AcceptInv'
  BY <1>5, AcceptSame DEF ServeStep, NetworkStep, ClientConnects, Reset, serverVars, stopVars
<1>6. CASE UNCHANGED vars
  BY <1>6, AcceptSame DEF vars, serverVars, stopVars
<1> QED BY <1>1, <1>2, <1>4, <1>5, <1>6, AcceptStarts, AcceptStops DEF Next, UserStep

\* start() of a server that runs does nothing (tcp_server.cc:102-105): two fibers wait in
\* accept() for one socket, and addEvent() asserts, only after a stop() and a start() that
\* did not wait for the fibers of the start() before to end.
THEOREM OneAcceptorHolds == Spec => []OneAcceptor
<1>1. Init => AcceptInv
  BY DEF Init, AcceptInv, AcceptAt, Running
<1>2. AcceptInv /\ [Next]_vars => AcceptInv'
  BY NextAccept
<1>3. AcceptInv => OneAcceptor
  BY DEF AcceptInv, OneAcceptor
<1> QED BY <1>1, <1>2, <1>3, PTL DEF Spec
-----------------------------------------------------------------------------
(* The pieces of a request.                                                *)

Kind  == [keepalive : BOOLEAN, body : BOOLEAN]
Part  == {"line", "connection", "length", "end", "body"}
Piece == Nat \X Part \X {1, 2}

\* Where the empty line of a request is.
EndOf(kind) == 3 + (IF kind.keepalive THEN 2 ELSE 0) + (IF kind.body THEN 2 ELSE 0)

\* r is s, of length m, and behind it t, of length n.
Joins(r, s, t, m, n) ==
    /\ Len(r) = m + n
    /\ \A j \in 1 .. m : r[j] = s[j]
    /\ \A j \in 1 .. n : r[m + j] = t[j]

\* Where the elements of two joined sequences are.
LEMMA JoinParts ==
    ASSUME NEW D, NEW s \in Seq(D), NEW t \in Seq(D)
    PROVE  s \o t \in Seq(D) /\ Joins(s \o t, s, t, Len(s), Len(t))
<1>m. PICK m \in Nat : m = Len(s)
  OBVIOUS
<1>n. PICK n \in Nat : n = Len(t)
  OBVIOUS
<1>1. PICK r : r = s \o t
  OBVIOUS
<1>2. /\ r \in Seq(D) /\ Len(r) = Len(s) + Len(t)
      /\ \A j \in 1 .. Len(s) + Len(t) : r[j] = IF j <= Len(s) THEN s[j] ELSE t[j - Len(s)]
  BY <1>1, ConcatProperties
<1>3. \A j \in 1 .. m : r[j] = s[j]
  BY <1>m, <1>n, <1>2
<1>4. ASSUME NEW j \in 1 .. n PROVE r[m + j] = t[j]
  <2>1. m + j \in 1 .. m + n /\ ~ m + j <= m /\ (m + j) - m = j
    OBVIOUS
  <2> QED BY <1>m, <1>n, <1>2, <2>1
<1> QED BY <1>m, <1>n, <1>1, <1>2, <1>3, <1>4 DEF Joins

\* A line is two pieces.
LEMMA LineFacts ==
    ASSUME NEW i \in Nat, NEW part \in Part
    PROVE  /\ Line(i, part) \in Seq(Piece) /\ Len(Line(i, part)) = 2
           /\ Line(i, part)[1] = <<i, part, 1>> /\ Line(i, part)[2] = <<i, part, 2>>
BY DEF Line, Piece

\* The parts of the header in their order.
LEMMA HeaderFacts ==
    ASSUME NEW i \in Nat, NEW kind \in Kind
    PROVE  \E k \in {2, 4}, e \in {3, 5, 7} :
             /\ k = (IF kind.keepalive THEN 4 ELSE 2) /\ e = EndOf(kind)
             /\ e = k + 1 + (IF kind.body THEN 2 ELSE 0)
             /\ Pieces(i, kind) \in Seq(Piece)
             /\ Len(Pieces(i, kind)) = e + (IF kind.body THEN 2 ELSE 0)
             /\ Pieces(i, kind)[1] = <<i, "line", 1>> /\ Pieces(i, kind)[2] = <<i, "line", 2>>
             /\ kind.keepalive => /\ Pieces(i, kind)[3] = <<i, "connection", 1>>
                                  /\ Pieces(i, kind)[4] = <<i, "connection", 2>>
             /\ kind.body => /\ Pieces(i, kind)[k + 1] = <<i, "length", 1>>
                             /\ Pieces(i, kind)[k + 2] = <<i, "length", 2>>
                             /\ Pieces(i, kind)[e + 1] = <<i, "body", 1>>
                             /\ Pieces(i, kind)[e + 2] = <<i, "body", 2>>
             /\ Pieces(i, kind)[e] = <<i, "end", 1>>
<1> DEFINE con == IF kind.keepalive THEN Line(i, "connection") ELSE <<>>
           len == IF kind.body THEN Line(i, "length") ELSE <<>>
           bod == IF kind.body THEN Line(i, "body") ELSE <<>>
           cn  == IF kind.keepalive THEN 2 ELSE 0
           bn  == IF kind.body THEN 2 ELSE 0
           end == <<<<i, "end", 1>>>>
           lin == Line(i, "line")
<1>1. cn \in Nat /\ bn \in Nat
  OBVIOUS
<1>2. /\ con \in Seq(Piece) /\ Len(con) = cn
      /\ kind.keepalive => con[1] = <<i, "connection", 1>> /\ con[2] = <<i, "connection", 2>>
  <2>1. CASE kind.keepalive
    BY <2>1, LineFacts DEF Part
  <2>2. CASE ~ kind.keepalive
    BY <2>2
  <2> QED BY <2>1, <2>2
<1>3. /\ len \in Seq(Piece) /\ Len(len) = bn
      /\ kind.body => len[1] = <<i, "length", 1>> /\ len[2] = <<i, "length", 2>>
  <2>1. CASE kind.body
    BY <2>1, LineFacts DEF Part
  <2>2. CASE ~ kind.body
    BY <2>2
  <2> QED BY <2>1, <2>2
<1>4. /\ bod \in Seq(Piece) /\ Len(bod) = bn
      /\ kind.body => bod[1] = <<i, "body", 1>> /\ bod[2] = <<i, "body", 2>>
  <2>1. CASE kind.body
    BY <2>1, LineFacts DEF Part
  <2>2. CASE ~ kind.body
    BY <2>2
  <2> QED BY <2>1, <2>2
<1>5. end \in Seq(Piece) /\ Len(end) = 1 /\ end[1] = <<i, "end", 1>>
  BY DEF Piece, Part
<1>6. /\ lin \in Seq(Piece) /\ Len(lin) = 2
      /\ lin[1] = <<i, "line", 1>> /\ lin[2] = <<i, "line", 2>>
  BY LineFacts DEF Part
<1>7. Pieces(i, kind) = lin \o con \o len \o end \o bod
  BY DEF Pieces
<1>8. kind.keepalive => cn = 2
  OBVIOUS
<1>9. kind.body => bn = 2
  OBVIOUS
<1>10. EndOf(kind) = 2 + cn + bn + 1 /\ cn \in {0, 2} /\ bn \in {0, 2}
  BY DEF EndOf
<1>11. cn = IF kind.keepalive THEN 2 ELSE 0
  OBVIOUS
<1>12. bn = IF kind.body THEN 2 ELSE 0
  OBVIOUS
<1> HIDE DEF con, len, bod, cn, bn, end, lin
<1> DEFINE a == lin \o con
           b == a \o len
           d == b \o end
           p == d \o bod
<1>13. a \in Seq(Piece) /\ Joins(a, lin, con, 2, cn)
  <2>1. lin \in Seq(Piece) /\ con \in Seq(Piece) /\ Len(lin) = 2 /\ Len(con) = cn
    BY <1>2, <1>6 DEF Joins
  <2>2. a \in Seq(Piece) /\ Joins(a, lin, con, Len(lin), Len(con))
    BY <2>1, JoinParts
  <2> QED BY <2>1, <2>2
<1> HIDE DEF a
<1>14. b \in Seq(Piece) /\ Joins(b, a, len, 2 + cn, bn)
  <2>1. a \in Seq(Piece) /\ len \in Seq(Piece) /\ Len(a) = 2 + cn /\ Len(len) = bn
    BY <1>1, <1>3, <1>13 DEF Joins
  <2>2. b \in Seq(Piece) /\ Joins(b, a, len, Len(a), Len(len))
    BY <2>1, JoinParts
  <2> QED BY <2>1, <2>2
<1> HIDE DEF b
<1>15. d \in Seq(Piece) /\ Joins(d, b, end, 2 + cn + bn, 1)
  <2>1. b \in Seq(Piece) /\ end \in Seq(Piece) /\ Len(b) = 2 + cn + bn /\ Len(end) = 1
    BY <1>1, <1>5, <1>14 DEF Joins
  <2>2. d \in Seq(Piece) /\ Joins(d, b, end, Len(b), Len(end))
    BY <2>1, JoinParts
  <2> QED BY <2>1, <2>2
<1> HIDE DEF d
<1>16. p \in Seq(Piece) /\ Joins(p, d, bod, 2 + cn + bn + 1, bn)
  <2>1. d \in Seq(Piece) /\ bod \in Seq(Piece) /\ Len(d) = 2 + cn + bn + 1 /\ Len(bod) = bn
    BY <1>1, <1>4, <1>15 DEF Joins
  <2>2. p \in Seq(Piece) /\ Joins(p, d, bod, Len(d), Len(bod))
    BY <2>1, JoinParts
  <2> QED BY <2>1, <2>2
<1> HIDE DEF p
<1>17. Pieces(i, kind) = p
  BY <1>7 DEF a, b, d, p
<1>18. /\ a[1] = lin[1] /\ a[2] = lin[2]
       /\ kind.keepalive => a[3] = con[1] /\ a[4] = con[2]
  BY <1>8, <1>13 DEF Joins
<1>19. /\ \A j \in 1 .. 2 + cn : p[j] = a[j]
       /\ \A j \in 1 .. bn : p[2 + cn + j] = len[j]
  BY <1>1, <1>10, <1>14, <1>15, <1>16 DEF Joins
<1>20. p[2 + cn + bn + 1] = end[1]
  BY <1>1, <1>10, <1>15, <1>16 DEF Joins
<1>22. \A j \in 1 .. bn : p[2 + cn + bn + 1 + j] = bod[j]
  BY <1>16 DEF Joins
<1>23. /\ p[1] = lin[1] /\ p[2] = lin[2]
       /\ kind.keepalive => p[3] = con[1] /\ p[4] = con[2]
  BY <1>8, <1>10, <1>18, <1>19
<1>24. kind.body => /\ p[2 + cn + 1] = len[1] /\ p[2 + cn + 2] = len[2]
                    /\ p[2 + cn + bn + 1 + 1] = bod[1] /\ p[2 + cn + bn + 1 + 2] = bod[2]
  BY <1>9, <1>19, <1>22
<1>25. Len(p) = 2 + cn + bn + 1 + bn
  BY <1>16 DEF Joins
<1>21. 2 + cn \in {2, 4} /\ 2 + cn + bn + 1 \in {3, 5, 7}
  BY <1>10
<1> QED
  <2>1. PICK k \in {2, 4} : k = 2 + cn
    BY <1>21
  <2>2. PICK e \in {3, 5, 7} : e = 2 + cn + bn + 1
    BY <1>21
  <2>3. k = (IF kind.keepalive THEN 4 ELSE 2) /\ e = EndOf(kind) /\ e = k + 1 + bn
    BY <1>10, <1>11, <2>1, <2>2
  <2>4. p[1] = <<i, "line", 1>> /\ p[2] = <<i, "line", 2>> /\ p[e] = <<i, "end", 1>>
    BY <1>5, <1>6, <1>20, <1>23, <2>2
  <2>5. kind.keepalive => p[3] = <<i, "connection", 1>> /\ p[4] = <<i, "connection", 2>>
    BY <1>2, <1>23
  <2>6. kind.body => /\ p[k + 1] = <<i, "length", 1>> /\ p[k + 2] = <<i, "length", 2>>
                     /\ p[e + 1] = <<i, "body", 1>> /\ p[e + 2] = <<i, "body", 2>>
    BY <1>3, <1>4, <1>24, <2>1, <2>2
  <2>7. p \in Seq(Piece) /\ Len(p) = e + bn
    BY <1>16, <1>25, <2>2
  <2> QED BY <1>12, <1>17, <2>3, <2>4, <2>5, <2>6, <2>7

\* The pieces p of the i-th request: e of the header, each line of it in two halves.
OfRequest(p, i, kind, e) ==
    /\ p \in Seq(Piece) /\ e \in Nat \ {0}
    /\ Len(p) = e + (IF kind.body THEN 2 ELSE 0)
    /\ p[1] = <<i, "line", 1>> /\ p[e] = <<i, "end", 1>> /\ 1 < e
    /\ \A j \in 1 .. e - 1 :
         /\ p[j][1] = i /\ p[j][2] # "end"
         /\ p[j][3] = 1 => /\ j + 1 < e
                           /\ p[j + 1][2] = p[j][2] /\ p[j + 1][3] = 2
    /\ kind.keepalive <=> \E j \in 1 .. e - 1 : p[j][2] = "connection" /\ p[j][3] = 1
    /\ kind.body <=> \E j \in 1 .. e - 1 : p[j][2] = "length" /\ p[j][3] = 1
    /\ kind.body => p[e + 1] = <<i, "body", 1>> /\ p[e + 2] = <<i, "body", 2>>

\* What the proofs use of the pieces of a request.
LEMMA RequestFacts ==
    ASSUME NEW i \in Nat, NEW kind \in Kind
    PROVE  OfRequest(Pieces(i, kind), i, kind, EndOf(kind))
<1>1. PICK p : p = Pieces(i, kind)
  OBVIOUS
<1>2. PICK k \in {2, 4}, e \in {3, 5, 7} :
         /\ k = (IF kind.keepalive THEN 4 ELSE 2) /\ e = EndOf(kind)
         /\ e = k + 1 + (IF kind.body THEN 2 ELSE 0)
         /\ p \in Seq(Piece) /\ Len(p) = e + (IF kind.body THEN 2 ELSE 0)
         /\ p[1] = <<i, "line", 1>> /\ p[2] = <<i, "line", 2>>
         /\ kind.keepalive => p[3] = <<i, "connection", 1>> /\ p[4] = <<i, "connection", 2>>
         /\ kind.body => /\ p[k + 1] = <<i, "length", 1>> /\ p[k + 2] = <<i, "length", 2>>
                         /\ p[e + 1] = <<i, "body", 1>> /\ p[e + 2] = <<i, "body", 2>>
         /\ p[e] = <<i, "end", 1>>
  BY <1>1, HeaderFacts
<1> DEFINE Half(j, part) == p[j] = <<i, part, 1>> /\ p[j + 1] = <<i, part, 2>>
<1>3. Half(1, "line") /\ (kind.keepalive => Half(3, "connection")) /\ (kind.body => Half(k + 1, "length"))
  BY <1>2
<1>4. ASSUME NEW j \in 1 .. e - 1
      PROVE  \/ j \in {1, 2}
             \/ kind.keepalive /\ j \in {3, 4}
             \/ kind.body /\ j \in {k + 1, k + 2}
  BY <1>2
<1>5. ASSUME NEW j \in 1 .. e - 1, NEW a \in 1 .. e - 1, NEW part,
             Half(a, part), j \in {a, a + 1}, part # "end", a + 1 < e
      PROVE  /\ p[j][1] = i /\ p[j][2] = part
             /\ p[j][3] = 1 => j = a /\ p[j + 1][2] = p[j][2] /\ p[j + 1][3] = 2
  BY <1>5
<1>6. 1 + 1 < e /\ (kind.keepalive => 3 + 1 < e /\ k = 4) /\ (kind.body => k + 1 + 1 < e)
  BY <1>2
<1> HIDE DEF Half
<1>7. ASSUME NEW j \in 1 .. e - 1
      PROVE  \E a \in 1 .. e - 1, part \in {"line", "connection", "length"} :
               /\ Half(a, part) /\ j \in {a, a + 1} /\ a + 1 < e
               /\ part = "connection" => kind.keepalive
               /\ part = "length" => kind.body
  <2>1. CASE j \in {1, 2}
    <3>1. 1 \in 1 .. e - 1 /\ j \in {1, 1 + 1}
      BY <2>1, <1>6
    <3> QED BY <3>1, <1>3, <1>6
  <2>2. CASE kind.keepalive /\ j \in {3, 4}
    <3>1. 3 \in 1 .. e - 1 /\ j \in {3, 3 + 1}
      BY <2>2, <1>6
    <3> QED BY <2>2, <3>1, <1>3, <1>6
  <2>3. CASE kind.body /\ j \in {k + 1, k + 2}
    <3>1. k + 1 \in 1 .. e - 1 /\ j \in {k + 1, k + 1 + 1}
      BY <2>3, <1>6
    <3> QED BY <2>3, <3>1, <1>3, <1>6
  <2> QED BY <1>4, <2>1, <2>2, <2>3
<1>8. ASSUME NEW j \in 1 .. e - 1
      PROVE  /\ p[j][1] = i /\ p[j][2] # "end"
             /\ p[j][3] = 1 => j + 1 < e /\ p[j + 1][2] = p[j][2] /\ p[j + 1][3] = 2
             /\ p[j][2] = "connection" => kind.keepalive
             /\ p[j][2] = "length" => kind.body
  <2>1. PICK a \in 1 .. e - 1, part \in {"line", "connection", "length"} :
               /\ Half(a, part) /\ j \in {a, a + 1} /\ a + 1 < e
               /\ part = "connection" => kind.keepalive
               /\ part = "length" => kind.body
    BY <1>7
  <2>2. /\ p[j][1] = i /\ p[j][2] = part
        /\ p[j][3] = 1 => j = a /\ p[j + 1][2] = p[j][2] /\ p[j + 1][3] = 2
    BY <1>5, <2>1
  <2> QED BY <2>1, <2>2
<1>9. kind.keepalive => \E j \in 1 .. e - 1 : p[j][2] = "connection" /\ p[j][3] = 1
  <2>1. kind.keepalive => 3 \in 1 .. e - 1 /\ p[3][2] = "connection" /\ p[3][3] = 1
    BY <1>2, <1>6
  <2> QED BY <2>1
<1>10. kind.body => \E j \in 1 .. e - 1 : p[j][2] = "length" /\ p[j][3] = 1
  <2>1. kind.body => k + 1 \in 1 .. e - 1 /\ p[k + 1][2] = "length" /\ p[k + 1][3] = 1
    BY <1>2, <1>6
  <2> QED BY <2>1
<1>11. kind.keepalive \in BOOLEAN /\ kind.body \in BOOLEAN
  BY DEF Kind
<1>12. kind.keepalive <=> \E j \in 1 .. e - 1 : p[j][2] = "connection" /\ p[j][3] = 1
  BY <1>8, <1>9, <1>11
<1>13. kind.body <=> \E j \in 1 .. e - 1 : p[j][2] = "length" /\ p[j][3] = 1
  BY <1>8, <1>10, <1>11
<1>14. e \in Nat \ {0} /\ 1 < e
  OBVIOUS
<1>15. OfRequest(p, i, kind, e)
  BY <1>2, <1>8, <1>12, <1>13, <1>14 DEF OfRequest
<1> QED BY <1>1, <1>2, <1>15

\* Lines that reads of the parser did not cut: the n pieces of p that were read.
Whole(reads, p, n) ==
    /\ UNION reads = {p[j] : j \in 1 .. n}
    /\ \A chunk \in reads : \A a \in chunk :
         a[3] = 1 /\ a[2] # "end" => \E b \in chunk : b[2] = a[2] /\ b[3] = 2

\* The parser finds what the header says.
LEMMA HeaderRead ==
    ASSUME NEW i \in Nat, NEW kind \in Kind, NEW p, NEW e, OfRequest(p, i, kind, e),
           NEW reads, Whole(reads, p, e)
    PROVE  /\ LineOf(reads) = i /\ IsKeepalive(reads) = kind.keepalive
           /\ ContentLength(reads) = IF kind.body THEN 2 ELSE 0
<1>1. /\ e \in Nat \ {0} /\ p[1] = <<i, "line", 1>> /\ p[e] = <<i, "end", 1>> /\ 1 < e
      /\ \A j \in 1 .. e - 1 : p[j][1] = i /\ p[j][2] # "end"
      /\ kind.keepalive <=> \E j \in 1 .. e - 1 : p[j][2] = "connection" /\ p[j][3] = 1
      /\ kind.body <=> \E j \in 1 .. e - 1 : p[j][2] = "length" /\ p[j][3] = 1
  BY DEF OfRequest
<1>2. ASSUME NEW part, part # "end"
      PROVE  Intact(reads, part) <=> \E j \in 1 .. e - 1 : p[j][2] = part /\ p[j][3] = 1
  <2>1. ASSUME Intact(reads, part) PROVE \E j \in 1 .. e - 1 : p[j][2] = part /\ p[j][3] = 1
    <3>1. PICK chunk \in reads : \E a, b \in chunk :
                 a[2] = part /\ a[3] = 1 /\ b[2] = part /\ b[3] = 2
      BY <2>1 DEF Intact
    <3>2. PICK a \in chunk : a[2] = part /\ a[3] = 1
      BY <3>1
    <3>3. a \in {p[j] : j \in 1 .. e}
      BY <3>2 DEF Whole
    <3>4. PICK j \in 1 .. e : a = p[j]
      BY <3>3
    <3>5. j # e
      <4>1. p[e][2] = "end"
        BY <1>1
      <4> QED BY <1>2, <3>2, <3>4, <4>1
    <3>6. j \in 1 .. e - 1
      BY <1>1, <3>5
    <3> QED BY <3>2, <3>4, <3>6
  <2>2. ASSUME NEW j \in 1 .. e - 1, p[j][2] = part, p[j][3] = 1 PROVE Intact(reads, part)
    <3>1. j \in 1 .. e
      BY <1>1
    <3>2. p[j] \in UNION reads
      BY <3>1 DEF Whole
    <3>3. PICK chunk \in reads : p[j] \in chunk
      BY <3>2
    <3>4. \E b \in chunk : b[2] = part /\ b[3] = 2
      BY <1>2, <2>2, <3>3 DEF Whole
    <3> QED BY <2>2, <3>3, <3>4 DEF Intact
  <2> QED BY <2>1, <2>2
<1>3. LineOf(reads) = i
  <2>1. 1 \in 1 .. e - 1 /\ p[1][2] = "line" /\ p[1][3] = 1 /\ p[1][1] = i
    BY <1>1
  <2>2. Intact(reads, "line")
    BY <1>2, <2>1
  <2>3. p[1] \in UNION reads
    <3>1. 1 \in 1 .. e
      BY <1>1
    <3> QED BY <3>1 DEF Whole
  <2>4. \A a \in UNION reads : a[1] = i
    <3>1. ASSUME NEW j \in 1 .. e PROVE p[j][1] = i
      <4>1. CASE j = e
        BY <1>1, <4>1
      <4>2. CASE j # e
        <5>1. j \in 1 .. e - 1
          BY <1>1, <4>2
        <5> QED BY <1>1, <5>1
      <4> QED BY <4>1, <4>2
    <3> QED BY <3>1 DEF Whole
  <2>5. (CHOOSE a \in UNION reads : a[2] = "line") \in UNION reads
    BY <2>1, <2>3
  <2> QED BY <2>2, <2>4, <2>5 DEF LineOf
<1>4. Intact(reads, "connection") <=> kind.keepalive
  BY <1>1, <1>2
<1>5. Intact(reads, "length") <=> kind.body
  BY <1>1, <1>2
<1>6. kind.keepalive \in BOOLEAN
  BY DEF Kind
<1>7. IsKeepalive(reads) = kind.keepalive
  BY <1>4, <1>6 DEF IsKeepalive, Intact
<1>8. ContentLength(reads) = IF kind.body THEN 2 ELSE 0
  BY <1>5 DEF ContentLength
<1> QED BY <1>3, <1>7, <1>8

\* A read that does not end inside a line, of the pieces behind the n that were read.
LEMMA ReadMore ==
    ASSUME NEW i, NEW kind, NEW p, NEW e, OfRequest(p, i, kind, e), NEW n \in Nat, NEW m \in Nat,
           NEW reads, Whole(reads, p, n), n + m <= e,
           NEW data, \A j \in 1 .. m : data[j] = p[n + j],
           n + m < e => data[m][3] # 1 /\ m > 0
    PROVE  Whole(reads \cup {PiecesUpTo(data, m)}, p, n + m)
<1>1. \A j \in 1 .. n + m : j \in 1 .. n \/ \E l \in 1 .. m : j = n + l
  <2>1. \A j \in 1 .. n + m : j \in 1 .. n \/ (j - n \in 1 .. m /\ j = n + (j - n))
    OBVIOUS
  <2> QED BY <2>1
<1>2. PiecesUpTo(data, m) = {p[n + j] : j \in 1 .. m}
  BY DEF PiecesUpTo
<1>3. \A j \in 1 .. m : n + j \in 1 .. n + m
  OBVIOUS
<1>4. \A j \in 1 .. n : j \in 1 .. n + m
  OBVIOUS
<1>5. {p[j] : j \in 1 .. n + m} = {p[j] : j \in 1 .. n} \cup {p[n + j] : j \in 1 .. m}
  BY <1>1, <1>3, <1>4
<1>6. UNION (reads \cup {PiecesUpTo(data, m)}) = {p[j] : j \in 1 .. n + m}
  BY <1>2, <1>5 DEF Whole
<1>7. ASSUME NEW a \in PiecesUpTo(data, m), a[3] = 1, a[2] # "end"
      PROVE  \E b \in PiecesUpTo(data, m) : b[2] = a[2] /\ b[3] = 2
  <2>1. PICK j \in 1 .. m : a = p[n + j]
    BY <1>2
  <2>2. n + j # e
    BY <1>7, <2>1 DEF OfRequest
  <2>3. n + j \in 1 .. e - 1 /\ e \in Nat
    BY <2>2 DEF OfRequest
  <2>4. n + j + 1 < e /\ p[n + j + 1][2] = a[2] /\ p[n + j + 1][3] = 2
    BY <1>7, <2>1, <2>3 DEF OfRequest
  <2>5. j # m
    <3>1. ASSUME j = m PROVE FALSE
      <4>1. n + m < e
        BY <2>3, <2>4, <3>1
      <4>2. data[m] = a
        BY <2>1, <3>1
      <4> QED BY <1>7, <4>1, <4>2
    <3> QED BY <3>1
  <2>6. j + 1 \in 1 .. m /\ n + (j + 1) = n + j + 1
    BY <2>5
  <2> QED BY <1>2, <2>4, <2>6
<1> QED BY <1>6, <1>7 DEF Whole

-----------------------------------------------------------------------------
(* What is on the wire.                                                    *)

\* The n-th element of s and those behind it up to the m-th.
LEMMA CutOut ==
    ASSUME NEW D, NEW s \in Seq(D), NEW n \in Nat, NEW m \in Nat, n <= m, m <= Len(s)
    PROVE  /\ SubSeq(s, n + 1, m) \in Seq(D) /\ Len(SubSeq(s, n + 1, m)) = m - n
           /\ \A j \in 1 .. m - n : SubSeq(s, n + 1, m)[j] = s[n + j]
<1>1. \A j \in n + 1 .. m : s[j] \in D
  BY LenProperties
<1>2. n + 1 \in Int /\ m \in Int
  OBVIOUS
<1>3. /\ SubSeq(s, n + 1, m) \in Seq(D)
      /\ Len(SubSeq(s, n + 1, m)) = IF n + 1 <= m THEN m - (n + 1) + 1 ELSE 0
      /\ \A j \in 1 .. m - (n + 1) + 1 : SubSeq(s, n + 1, m)[j] = s[n + 1 + j - 1]
  BY <1>1, <1>2, SubSeqProperties
<1>4. ASSUME NEW j \in 1 .. m - n PROVE SubSeq(s, n + 1, m)[j] = s[n + j]
  <2>1. j \in 1 .. m - (n + 1) + 1 /\ n + 1 + j - 1 = n + j
    OBVIOUS
  <2> QED BY <1>3, <2>1
<1> QED BY <1>3, <1>4

\* The request i starts behind the piece begin[i] of the wire; the first of them may have
\* been read in part, so that it starts before the wire does.
Located(onWire, kinds, begin, first) ==
    /\ begin \in [Nat -> Int] /\ begin[Len(kinds) + 1] = Len(onWire)
    /\ \A i \in first .. Len(kinds) :
         /\ begin[i + 1] = begin[i] + Len(Pieces(i, kinds[i]))
         /\ begin[i + 1] <= Len(onWire)
         /\ \A j \in 1 .. Len(Pieces(i, kinds[i])) :
              begin[i] + j >= 1 => onWire[begin[i] + j] = Pieces(i, kinds[i])[j]

\* The first of the requests starts behind piece x.
LocatedAt(onWire, kinds, first, x) ==
    \E begin : Located(onWire, kinds, begin, first) /\ begin[first] = x

\* Some pieces are read.
LEMMA WireRead ==
    ASSUME NEW onWire \in Seq(Piece), NEW kinds \in Seq(Kind), NEW begin, NEW first \in Nat \ {0},
           Located(onWire, kinds, begin, first), NEW n \in 1 .. Len(onWire)
    PROVE  Located(SubSeq(onWire, n + 1, Len(onWire)), kinds, [i \in Nat |-> begin[i] - n], first)
<1>1. PICK len \in Nat : len = Len(onWire)
  OBVIOUS
<1>2. PICK last \in Nat : last = Len(kinds)
  OBVIOUS
<1>3. PICK rest : rest = SubSeq(onWire, n + 1, Len(onWire))
  OBVIOUS
<1>4. Len(rest) = len - n /\ \A j \in 1 .. len - n : rest[j] = onWire[n + j]
  BY <1>1, <1>3, CutOut
<1>5. PICK b : b = [i \in Nat |-> begin[i] - n]
  OBVIOUS
<1>6. begin \in [Nat -> Int] /\ b \in [Nat -> Int] /\ \A i \in Nat : b[i] = begin[i] - n
  <2>1. begin \in [Nat -> Int] /\ n \in Int
    BY DEF Located
  <2>2. \A i \in Nat : begin[i] - n \in Int
    BY <2>1
  <2> QED BY <1>5, <2>1, <2>2
<1>7. begin[last + 1] = len
  BY <1>1, <1>2 DEF Located
<1>8. b[last + 1] = Len(rest)
  BY <1>4, <1>6, <1>7
<1>9. ASSUME NEW i \in first .. last
      PROVE  /\ b[i + 1] = b[i] + Len(Pieces(i, kinds[i]))
             /\ b[i + 1] <= Len(rest)
             /\ \A j \in 1 .. Len(Pieces(i, kinds[i])) :
                  b[i] + j >= 1 => rest[b[i] + j] = Pieces(i, kinds[i])[j]
  <2>1. PICK p : p = Pieces(i, kinds[i])
    OBVIOUS
  <2>2. PICK k : k = Len(p)
    OBVIOUS
  <2>3. i \in Nat \ {0} /\ kinds[i] \in Kind /\ i + 1 \in Nat
    BY <1>2
  <2>4. k \in Nat
    BY <2>1, <2>2, <2>3, RequestFacts DEF OfRequest
  <2>5. /\ begin[i + 1] = begin[i] + k /\ begin[i + 1] <= len
        /\ \A j \in 1 .. k : begin[i] + j >= 1 => onWire[begin[i] + j] = p[j]
    BY <1>1, <1>2, <2>1, <2>2 DEF Located
  <2>6. begin[i] \in Int /\ begin[i + 1] \in Int /\ b[i] = begin[i] - n /\ b[i + 1] = begin[i + 1] - n
    BY <1>6, <2>3
  <2>7. ASSUME NEW j \in 1 .. k, b[i] + j >= 1 PROVE rest[b[i] + j] = p[j]
    <3>1. b[i] + j \in 1 .. len - n /\ n + (b[i] + j) = begin[i] + j /\ begin[i] + j >= 1
      <4>1. PICK x \in Int : x = begin[i]
        BY <2>6
      <4>2. b[i] = x - n /\ x + k <= len
        BY <2>5, <2>6, <4>1
      <4>3. n \in Nat /\ j \in 1 .. k /\ (x - n) + j >= 1
        BY <1>1, <2>7, <4>2
      <4>4. (x - n) + j \in 1 .. len - n /\ n + ((x - n) + j) = x + j /\ x + j >= 1
        BY <2>4, <4>2, <4>3
      <4> QED BY <4>1, <4>2, <4>4
    <3>2. rest[b[i] + j] = onWire[begin[i] + j]
      BY <1>4, <3>1
    <3> QED BY <2>5, <3>1, <3>2
  <2>8. b[i + 1] = b[i] + k /\ b[i + 1] <= Len(rest)
    BY <1>4, <2>4, <2>5, <2>6
  <2> QED BY <2>1, <2>2, <2>7, <2>8
<1> QED BY <1>2, <1>3, <1>5, <1>6, <1>8, <1>9 DEF Located

\* A client sends a request.
LEMMA WireSent ==
    ASSUME NEW onWire \in Seq(Piece), NEW kinds \in Seq(Kind), NEW begin, NEW first \in Nat \ {0},
           Located(onWire, kinds, begin, first), NEW kind \in Kind, first <= Len(kinds) + 1
    PROVE  LocatedAt(onWire \o Pieces(Len(kinds) + 1, kind), Append(kinds, kind), first,
                     begin[first])
<1>0. PICK last \in Nat : last = Len(kinds)
  OBVIOUS
<1>1. PICK len \in Nat : len = Len(onWire)
  OBVIOUS
<1>2. PICK new : new = Pieces(last + 1, kind)
  OBVIOUS
<1>3. PICK n \in Nat : n = Len(new) /\ new \in Seq(Piece)
  <2>1. new \in Seq(Piece)
    BY <1>2, RequestFacts DEF OfRequest
  <2> QED BY <2>1
<1>4. PICK wide : wide = onWire \o new
  OBVIOUS
<1>5. Joins(wide, onWire, new, len, n)
  BY <1>1, <1>3, <1>4, JoinParts
<1>6. PICK more : more = Append(kinds, kind)
  OBVIOUS
<1>7. more \in Seq(Kind) /\ Len(more) = last + 1 /\ more[last + 1] = kind
      /\ \A i \in 1 .. last : more[i] = kinds[i]
  BY <1>0, <1>6
<1>8. begin \in [Nat -> Int] /\ begin[last + 1] = len
  BY <1>0, <1>1 DEF Located
<1> DEFINE b == [i \in Nat |-> IF i = last + 2 THEN len + n ELSE begin[i]]
<1>9. /\ b \in [Nat -> Int] /\ b[last + 2] = len + n
      /\ \A i \in Nat : i <= last + 1 => b[i] = begin[i]
  BY <1>8
<1> HIDE DEF b
<1>10. Len(wide) = len + n
  BY <1>5 DEF Joins
<1>11. ASSUME NEW i \in first .. last
       PROVE  /\ b[i + 1] = b[i] + Len(Pieces(i, more[i])) /\ b[i + 1] <= Len(wide)
              /\ \A j \in 1 .. Len(Pieces(i, more[i])) :
                   b[i] + j >= 1 => wide[b[i] + j] = Pieces(i, more[i])[j]
  <2>1. i \in 1 .. last /\ more[i] = kinds[i] /\ b[i] = begin[i] /\ b[i + 1] = begin[i + 1]
    <3>1. i \in Nat /\ first <= i /\ i <= last /\ i >= 1
      BY <1>0
    <3>2. i \in 1 .. last
      BY <3>1
    <3>3. more[i] = kinds[i]
      BY <1>7, <3>2
    <3>4. b[i] = begin[i] /\ b[i + 1] = begin[i + 1]
      BY <1>9, <3>1
    <3> QED BY <3>2, <3>3, <3>4
  <2>2. PICK p : p = Pieces(i, kinds[i])
    OBVIOUS
  <2>3. PICK k \in Nat : k = Len(p)
    <3>1. i \in Nat /\ kinds[i] \in Kind
      BY <1>0, <2>1
    <3>2. OfRequest(Pieces(i, kinds[i]), i, kinds[i], EndOf(kinds[i]))
      BY <3>1, RequestFacts
    <3>3. p \in Seq(Piece)
      BY <2>2, <3>2 DEF OfRequest
    <3> QED BY <3>3
  <2>4. /\ begin[i + 1] = begin[i] + k /\ begin[i + 1] <= len
        /\ \A j \in 1 .. k : begin[i] + j >= 1 => onWire[begin[i] + j] = p[j]
    BY <1>0, <1>1, <2>2, <2>3 DEF Located
  <2>5. begin[i] \in Int /\ begin[i + 1] \in Int
    <3>1. i \in Nat /\ i + 1 \in Nat
      BY <1>0, <2>1
    <3> QED BY <1>8, <3>1
  <2>6. ASSUME NEW j \in 1 .. k, b[i] + j >= 1 PROVE wide[b[i] + j] = p[j]
    <3>1. b[i] + j \in 1 .. len
      BY <2>1, <2>4, <2>5, <2>6
    <3>2. wide[b[i] + j] = onWire[b[i] + j]
      BY <1>5, <3>1 DEF Joins
    <3> QED BY <2>1, <2>4, <2>6, <3>2
  <2>7. b[i + 1] = b[i] + k /\ b[i + 1] <= len + n
    BY <2>1, <2>4, <2>5
  <2> QED BY <1>10, <2>1, <2>2, <2>3, <2>6, <2>7
<1>12. /\ b[last + 2] = b[last + 1] + n /\ b[last + 2] <= Len(wide)
       /\ \A j \in 1 .. n : b[last + 1] + j >= 1 => wide[b[last + 1] + j] = new[j]
  <2>1. b[last + 1] = len
    BY <1>8, <1>9
  <2> QED BY <1>5, <1>9, <1>10, <2>1 DEF Joins
<1>13. ASSUME NEW i \in first .. last + 1
       PROVE  /\ b[i + 1] = b[i] + Len(Pieces(i, more[i])) /\ b[i + 1] <= Len(wide)
              /\ \A j \in 1 .. Len(Pieces(i, more[i])) :
                   b[i] + j >= 1 => wide[b[i] + j] = Pieces(i, more[i])[j]
  <2>1. CASE i = last + 1
    <3>1. i + 1 = last + 2 /\ Pieces(i, more[i]) = new
      BY <1>2, <1>7, <2>1
    <3> QED BY <1>3, <1>12, <2>1, <3>1
  <2>2. CASE i # last + 1
    <3>1. i \in first .. last
      BY <2>2
    <3> QED BY <1>11, <3>1
  <2> QED BY <2>1, <2>2
<1>14. b[(last + 1) + 1] = Len(wide)
  BY <1>9, <1>10
<1>15. Located(wide, more, b, first)
  BY <1>7, <1>9, <1>13, <1>14 DEF Located
<1>16. b[first] = begin[first]
  BY <1>0, <1>9
<1> QED BY <1>0, <1>2, <1>4, <1>6, <1>15, <1>16 DEF LocatedAt

\* data is m pieces, which are those behind the n-th of p as far as p goes.
Follows(data, m, p, n) ==
    /\ data \in Seq(Piece) /\ Len(data) = m
    /\ \A j \in 1 .. m : n + j <= Len(p) => data[j] = p[n + j]

\* The first m elements follow from the start.
LEMMA Firsts ==
    ASSUME NEW s \in Seq(Piece), NEW m \in Nat, m <= Len(s)
    PROVE  Follows(SubSeq(s, 1, m), m, s, 0)
<1>1. 0 \in Nat /\ 0 <= m /\ 0 + 1 = 1 /\ m - 0 = m
  OBVIOUS
<1>2. /\ SubSeq(s, 0 + 1, m) \in Seq(Piece) /\ Len(SubSeq(s, 0 + 1, m)) = m - 0
      /\ \A j \in 1 .. m - 0 : SubSeq(s, 0 + 1, m)[j] = s[0 + j]
  BY <1>1, CutOut
<1> QED BY <1>1, <1>2 DEF Follows

\* What is read first is what follows of the first request.
LEMMA WireFront ==
    ASSUME NEW onWire \in Seq(Piece), NEW kinds \in Seq(Kind), NEW begin, NEW first \in Nat \ {0},
           Located(onWire, kinds, begin, first), NEW n \in Nat, begin[first] = 0 - n,
           first <= Len(kinds) + 1, NEW m \in 1 .. Len(onWire)
    PROVE  /\ first <= Len(kinds) /\ kinds[first] \in Kind
           /\ Follows(SubSeq(onWire, 1, m), m, Pieces(first, kinds[first]), n)
<1>1. PICK last \in Nat : last = Len(kinds)
  OBVIOUS
<1>2. PICK data : data = SubSeq(onWire, 1, m)
  OBVIOUS
<1>3. data \in Seq(Piece) /\ Len(data) = m /\ \A j \in 1 .. m : data[j] = onWire[j]
  <2>1. Follows(data, m, onWire, 0)
    BY <1>2, Firsts
  <2>2. \A j \in 1 .. m : 0 + j <= Len(onWire) /\ 0 + j = j
    OBVIOUS
  <2> QED BY <2>1, <2>2 DEF Follows
<1>4. first <= last
  <2>1. ASSUME first = last + 1 PROVE FALSE
    BY <1>1, <2>1 DEF Located
  <2> QED BY <1>1, <2>1
<1>5. first \in first .. last /\ first \in 1 .. last
  BY <1>4
<1>6. PICK p : p = Pieces(first, kinds[first])
  OBVIOUS
<1>7. kinds[first] \in Kind
  BY <1>1, <1>5
<1>8. PICK k \in Nat : k = Len(p)
  BY <1>6, <1>7, RequestFacts DEF OfRequest
<1>9. \A j \in 1 .. k : begin[first] + j >= 1 => onWire[begin[first] + j] = p[j]
  BY <1>1, <1>5, <1>6, <1>8 DEF Located
<1>10. ASSUME NEW j \in 1 .. m, n + j <= k PROVE data[j] = p[n + j]
  <2>1. n + j \in 1 .. k /\ begin[first] + (n + j) = j
    BY <1>10
  <2>2. onWire[j] = p[n + j]
    BY <1>9, <2>1
  <2> QED BY <1>3, <2>2
<1>11. Follows(data, m, p, n)
  BY <1>3, <1>8, <1>10 DEF Follows
<1> QED BY <1>1, <1>2, <1>4, <1>6, <1>7, <1>11

-----------------------------------------------------------------------------
(* A connection on which no read has cut a line.                           *)

Answer == {Expected(i, kind) : i \in Nat, kind \in Kind}

\* What recvRequest() has of the body of request i, n pieces of which were read.
BodyRead(req, i, kind, n) ==
    /\ req = [line |-> i, keepalive |-> kind.keepalive, length |-> 2, body |-> req.body]
    /\ req.body \in Seq(Piece) /\ Len(req.body) < 2 /\ n = EndOf(kind) + Len(req.body)
    /\ \A j \in 1 .. Len(req.body) : req.body[j] = Pieces(i, kind)[EndOf(kind) + j]

\* n pieces of request i were read.
Reached(at_, reads, req, kinds, i, n) ==
    \/ at_ \in {"out", "pending", "queued", "recv", "send", "blocked", "woken"} /\ n = 0 /\ reads = {}
    \/ /\ at_ = "recv" /\ i <= Len(kinds) /\ n \in Nat /\ n < EndOf(kinds[i])
       /\ Whole(reads, Pieces(i, kinds[i]), n)
    \/ at_ = "body" /\ i <= Len(kinds) /\ kinds[i].body /\ BodyRead(req, i, kinds[i], n)
    \/ /\ at_ = "handle" /\ i <= Len(kinds) /\ n = Len(Pieces(i, kinds[i]))
       /\ req = Expected(i, kinds[i])

\* The requests that were handled, and where the connection is in the next one.
InStep(at_, onWire, reads, req, kinds, done) ==
    /\ onWire \in Seq(Piece) /\ kinds \in Seq(Kind) /\ done \in Seq(Answer)
    /\ Len(done) <= Len(kinds)
    /\ \A i \in 1 .. Len(done) : done[i] = Expected(i, kinds[i])
    /\ at_ # "recv" => reads = {}
    /\ at_ # "closed" =>
         \E begin \in [Nat -> Int] :
            /\ Located(onWire, kinds, begin, Len(done) + 1)
            /\ Reached(at_, reads, req, kinds, Len(done) + 1, 0 - begin[Len(done) + 1])

\* The connection is closed.
LEMMA CloseStep ==
    ASSUME NEW at_, NEW onWire, NEW reads, NEW req, NEW kinds, NEW done,
           InStep(at_, onWire, reads, req, kinds, done)
    PROVE  InStep("closed", <<>>, {}, NoRequest, kinds, done)
BY DEF InStep

\* The connection is between two requests.
LEMMA WaitStep ==
    ASSUME NEW at_, NEW onWire, NEW reads, NEW req, NEW kinds, NEW done,
           InStep(at_, onWire, reads, req, kinds, done),
           at_ \in {"out", "pending", "queued", "send", "blocked", "woken"}, NEW r,
           NEW to \in {"pending", "queued", "recv", "blocked", "woken"}
    PROVE  InStep(to, onWire, reads, r, kinds, done)
<1>1. PICK i : i = Len(done) + 1
  OBVIOUS
<1>2. PICK begin \in [Nat -> Int] :
         /\ Located(onWire, kinds, begin, i) /\ Reached(at_, reads, req, kinds, i, 0 - begin[i])
  BY <1>1 DEF InStep
<1>3. reads = {} /\ 0 - begin[i] = 0
  BY <1>2 DEF Reached
<1>4. Reached(to, reads, r, kinds, i, 0 - begin[i])
  BY <1>3 DEF Reached
<1> QED BY <1>1, <1>2, <1>3, <1>4 DEF InStep

\* A client sends a request.
LEMMA SendsStep ==
    ASSUME NEW at_, NEW onWire, NEW reads, NEW req, NEW kinds, NEW done,
           InStep(at_, onWire, reads, req, kinds, done), at_ # "closed", NEW kind \in Kind
    PROVE  InStep(at_, onWire \o Pieces(Len(kinds) + 1, kind), reads, req,
                  Append(kinds, kind), done)
<1>1. PICK i \in Nat \ {0} : i = Len(done) + 1
  BY DEF InStep
<1>2. PICK last \in Nat : last = Len(kinds)
  BY DEF InStep
<1>3. PICK begin \in [Nat -> Int] :
         /\ Located(onWire, kinds, begin, i) /\ Reached(at_, reads, req, kinds, i, 0 - begin[i])
  BY <1>1 DEF InStep
<1>4. onWire \in Seq(Piece) /\ kinds \in Seq(Kind) /\ done \in Seq(Answer) /\ i <= last + 1
  BY <1>1, <1>2 DEF InStep
<1>5. PICK more : more = Append(kinds, kind)
  OBVIOUS
<1>6. more \in Seq(Kind) /\ Len(more) = last + 1 /\ \A j \in 1 .. last : more[j] = kinds[j]
  BY <1>2, <1>4, <1>5
<1>7. PICK wide : wide = onWire \o Pieces(last + 1, kind)
  OBVIOUS
<1>8. PICK b : Located(wide, more, b, i) /\ b[i] = begin[i]
  <2>1. i <= Len(kinds) + 1
    BY <1>2, <1>4
  <2>2. LocatedAt(onWire \o Pieces(Len(kinds) + 1, kind), Append(kinds, kind), i, begin[i])
    BY <1>3, <1>4, <2>1, WireSent
  <2> QED BY <1>2, <1>5, <1>7, <2>2 DEF LocatedAt
<1>9. wide \in Seq(Piece)
  <2>1. Pieces(last + 1, kind) \in Seq(Piece)
    BY RequestFacts DEF OfRequest
  <2> QED BY <1>4, <1>7, <2>1
<1>10. i <= last => more[i] = kinds[i]
  BY <1>6
<1>11. i <= Len(kinds) => i <= Len(more) /\ more[i] = kinds[i]
  BY <1>2, <1>6, <1>10
<1>12. Reached(at_, reads, req, more, i, 0 - b[i])
  BY <1>3, <1>8, <1>11 DEF Reached
<1>13. b \in [Nat -> Int]
  BY <1>8 DEF Located
<1>14. Len(done) <= Len(more) /\ \A j \in 1 .. Len(done) : done[j] = Expected(j, more[j])
  <2>1. PICK n \in Nat : n = Len(done)
    BY <1>4
  <2>2. n <= last /\ \A j \in 1 .. n : done[j] = Expected(j, kinds[j])
    BY <1>2, <2>1 DEF InStep
  <2>3. \A j \in 1 .. n : j \in 1 .. last
    BY <2>2
  <2> QED BY <1>6, <2>1, <2>2, <2>3
<1>15. at_ # "recv" => reads = {}
  BY DEF InStep
<1> QED BY <1>1, <1>2, <1>4, <1>5, <1>6, <1>7, <1>8, <1>9, <1>12, <1>13, <1>14, <1>15 DEF InStep

\* The dispatcher gets the request.
LEMMA HandleStep ==
    ASSUME NEW at_, NEW onWire, NEW reads, NEW req, NEW kinds, NEW done,
           InStep(at_, onWire, reads, req, kinds, done), at_ = "handle"
    PROVE  InStep("send", onWire, reads, req, kinds, Append(done, req))
<1>1. PICK i \in Nat \ {0} : i = Len(done) + 1
  BY DEF InStep
<1>2. PICK begin \in [Nat -> Int] :
         /\ Located(onWire, kinds, begin, i) /\ Reached(at_, reads, req, kinds, i, 0 - begin[i])
  BY <1>1 DEF InStep
<1>3. onWire \in Seq(Piece) /\ kinds \in Seq(Kind) /\ done \in Seq(Answer) /\ reads = {}
  BY DEF InStep
<1>4. PICK last \in Nat : last = Len(kinds)
  BY <1>3
<1>5. /\ i <= last /\ 0 - begin[i] = Len(Pieces(i, kinds[i]))
      /\ req = Expected(i, kinds[i])
  BY <1>2, <1>4 DEF Reached
<1>6. i \in 1 .. last /\ kinds[i] \in Kind
  BY <1>3, <1>4, <1>5
<1>7. PICK k \in Nat : k = Len(Pieces(i, kinds[i]))
  <2>1. Pieces(i, kinds[i]) \in Seq(Piece)
    BY <1>6, RequestFacts DEF OfRequest
  <2> QED BY <2>1
<1>8. begin[i + 1] = begin[i] + k /\ begin[i] \in Int
  <2>1. i \in i .. Len(kinds)
    BY <1>4, <1>5
  <2>2. begin[i + 1] = begin[i] + Len(Pieces(i, kinds[i]))
    BY <1>2, <2>1 DEF Located
  <2> QED BY <1>7, <2>2
<1>9. 0 - begin[i + 1] = 0
  BY <1>5, <1>7, <1>8
<1>10. PICK new : new = Append(done, req)
  OBVIOUS
<1>11. req \in Answer
  BY <1>5, <1>6 DEF Answer
<1>12. new \in Seq(Answer) /\ Len(new) = i /\ new[i] = req /\ \A j \in 1 .. i - 1 : new[j] = done[j]
  BY <1>1, <1>3, <1>10, <1>11
<1>13. Len(new) <= Len(kinds) /\ \A j \in 1 .. Len(new) : new[j] = Expected(j, kinds[j])
  <2>1. ASSUME NEW j \in 1 .. i PROVE new[j] = Expected(j, kinds[j])
    <3>1. CASE j = i
      BY <1>5, <1>12, <3>1
    <3>2. CASE j # i
      <4>1. j \in 1 .. i - 1 /\ j \in 1 .. Len(done)
        BY <1>1, <3>2
      <4> QED BY <1>12, <4>1 DEF InStep
    <3> QED BY <3>1, <3>2
  <2> QED BY <1>4, <1>5, <1>12, <2>1
<1>14. Located(onWire, kinds, begin, i + 1)
  BY <1>2, <1>4 DEF Located
<1>15. Reached("send", reads, req, kinds, i + 1, 0 - begin[i + 1])
  BY <1>3, <1>9 DEF Reached
<1> QED BY <1>2, <1>3, <1>10, <1>12, <1>13, <1>14, <1>15 DEF InStep

\* Request i comes next, n pieces of it were read.
AtRequest(onWire, kinds, done, i, begin, n) ==
    /\ i \in Nat \ {0} /\ i = Len(done) + 1
    /\ begin \in [Nat -> Int] /\ Located(onWire, kinds, begin, i)
    /\ n \in Nat /\ begin[i] = 0 - n

\* The first m pieces of what is on the wire.
LEMMA FrontRead ==
    ASSUME NEW at_, NEW onWire, NEW reads, NEW req, NEW kinds, NEW done,
           InStep(at_, onWire, reads, req, kinds, done),
           NEW i, NEW begin, NEW n, AtRequest(onWire, kinds, done, i, begin, n),
           NEW m \in 1 .. Len(onWire)
    PROVE  /\ i <= Len(kinds) /\ kinds[i] \in Kind
           /\ Follows(SubSeq(onWire, 1, m), m, Pieces(i, kinds[i]), n)
<1>1. onWire \in Seq(Piece) /\ kinds \in Seq(Kind) /\ i <= Len(kinds) + 1
  BY DEF InStep, AtRequest
<1> QED BY <1>1, WireFront DEF AtRequest

\* The connection after m pieces more.
LEMMA Further ==
    ASSUME NEW at_, NEW onWire, NEW reads, NEW req, NEW kinds, NEW done,
           InStep(at_, onWire, reads, req, kinds, done),
           NEW i, NEW begin, NEW n, AtRequest(onWire, kinds, done, i, begin, n),
           NEW m \in 1 .. Len(onWire),
           NEW to, NEW rs, NEW r, Reached(to, rs, r, kinds, i, n + m), to # "recv" => rs = {}
    PROVE  InStep(to, SubSeq(onWire, m + 1, Len(onWire)), rs, r, kinds, done)
<1>1. onWire \in Seq(Piece) /\ kinds \in Seq(Kind)
  BY DEF InStep
<1>2. PICK rest : rest = SubSeq(onWire, m + 1, Len(onWire))
  OBVIOUS
<1>3. rest \in Seq(Piece)
  <2>1. m \in Nat /\ Len(onWire) \in Nat /\ m <= Len(onWire)
    BY <1>1
  <2> QED BY <1>1, <1>2, <2>1, CutOut
<1>4. PICK b : b = [j \in Nat |-> begin[j] - m]
  OBVIOUS
<1>5. Located(rest, kinds, b, i)
  BY <1>1, <1>2, <1>4, WireRead DEF AtRequest
<1>6. m \in Nat
  BY <1>1
<1>7. b \in [Nat -> Int] /\ 0 - b[i] = n + m
  <2>1. i \in Nat /\ n \in Nat /\ begin[i] = 0 - n /\ begin \in [Nat -> Int]
    BY DEF AtRequest
  <2>2. PICK x : x = begin[i]
    OBVIOUS
  <2>3. b[i] = x - m
    BY <1>4, <2>1, <2>2
  <2>4. 0 - (x - m) = n + m
    BY <1>6, <2>1, <2>2
  <2>5. b \in [Nat -> Int]
    BY <1>4, <1>6, <2>1
  <2> QED BY <2>3, <2>4, <2>5
<1>8. Reached(to, rs, r, kinds, i, 0 - b[i])
  BY <1>7
<1> QED BY <1>2, <1>3, <1>5, <1>7, <1>8 DEF InStep, AtRequest

\* Where the connection is before a read.
LEMMA Before ==
    ASSUME NEW at_, NEW onWire, NEW reads, NEW req, NEW kinds, NEW done,
           InStep(at_, onWire, reads, req, kinds, done), at_ # "closed"
    PROVE  \E i \in Nat \ {0}, begin \in [Nat -> Int] :
             /\ i = Len(done) + 1 /\ Located(onWire, kinds, begin, i)
             /\ Reached(at_, reads, req, kinds, i, 0 - begin[i])
<1>1. PICK i \in Nat \ {0} : i = Len(done) + 1
  BY DEF InStep
<1>2. PICK begin \in [Nat -> Int] :
         /\ Located(onWire, kinds, begin, i) /\ Reached(at_, reads, req, kinds, i, 0 - begin[i])
  BY <1>1 DEF InStep
<1> QED BY <1>1, <1>2

\* The parser has whole lines of request i, n pieces of them.
InHeader(reads, kinds, i, n) ==
    /\ i <= Len(kinds) /\ kinds[i] \in Kind
    /\ Whole(reads, Pieces(i, kinds[i]), n) /\ n < EndOf(kinds[i])

\* Where the connection is in the header before a read of recvRequest().
LEMMA BeforeRecv ==
    ASSUME NEW onWire, NEW reads, NEW req, NEW kinds, NEW done,
           InStep("recv", onWire, reads, req, kinds, done), NEW m \in 1 .. Len(onWire)
    PROVE  \E i, begin, n :
             AtRequest(onWire, kinds, done, i, begin, n) /\ InHeader(reads, kinds, i, n)
<1>1. PICK i \in Nat \ {0}, begin \in [Nat -> Int] :
         /\ i = Len(done) + 1 /\ Located(onWire, kinds, begin, i)
         /\ Reached("recv", reads, req, kinds, i, 0 - begin[i])
  BY Before
<1>2. PICK n \in Nat : begin[i] = 0 - n
  <2>1. 0 - begin[i] \in Nat
    BY <1>1 DEF Reached
  <2>2. begin[i] = 0 - (0 - begin[i])
    OBVIOUS
  <2> QED BY <2>1, <2>2
<1>3. AtRequest(onWire, kinds, done, i, begin, n)
  BY <1>1, <1>2 DEF AtRequest
<1>4. i <= Len(kinds) /\ kinds[i] \in Kind
  BY <1>3, FrontRead
<1>5. 0 - begin[i] = n
  BY <1>2
<1>6. (n = 0 /\ reads = {}) \/ (n < EndOf(kinds[i]) /\ Whole(reads, Pieces(i, kinds[i]), n))
  BY <1>1, <1>5 DEF Reached
<1>7. ASSUME n = 0, reads = {} PROVE InHeader(reads, kinds, i, n)
  <2>1. Whole(reads, Pieces(i, kinds[i]), n)
    BY <1>7 DEF Whole
  <2>2. n < EndOf(kinds[i])
    BY <1>7 DEF EndOf
  <2> QED BY <1>4, <2>1, <2>2 DEF InHeader
<1>8. InHeader(reads, kinds, i, n)
  BY <1>4, <1>6, <1>7 DEF InHeader
<1> QED BY <1>3, <1>8

\* A read that brings no empty line and ends behind a line.
LEMMA PartStep ==
    ASSUME NEW onWire, NEW reads, NEW req, NEW kinds, NEW done,
           InStep("recv", onWire, reads, req, kinds, done), NEW m \in 1 .. Len(onWire),
           NEW data, data = SubSeq(onWire, 1, m), \A j \in DOMAIN data : data[j][2] # "end",
           data[Len(data)][3] # 1
    PROVE  InStep("recv", SubSeq(onWire, Len(data) + 1, Len(onWire)),
                  reads \cup {PiecesUpTo(data, Len(data))}, req, kinds, done)
<1>1. PICK i, begin, n :
         AtRequest(onWire, kinds, done, i, begin, n) /\ InHeader(reads, kinds, i, n)
  BY BeforeRecv
<1>a. n \in Nat /\ i \in Nat
  BY <1>1 DEF AtRequest
<1>2. PICK p : p = Pieces(i, kinds[i])
  OBVIOUS
<1>3. PICK e : e = EndOf(kinds[i])
  OBVIOUS
<1>4. OfRequest(p, i, kinds[i], e) /\ Whole(reads, p, n) /\ n < e
  BY <1>1, <1>2, <1>3, <1>a, RequestFacts DEF InHeader
<1>5. e \in Nat /\ e <= Len(p) /\ p[e][2] = "end"
  BY <1>4 DEF OfRequest
<1>6. m \in Nat /\ m >= 1
  BY DEF InStep
<1>7. /\ Len(data) = m /\ data \in Seq(Piece)
      /\ \A j \in 1 .. m : n + j <= Len(p) => data[j] = p[n + j]
  BY <1>1, <1>2, FrontRead DEF Follows
<1>8. n + m < e
  <2>1. ASSUME e <= n + m PROVE FALSE
    <3>1. e - n \in 1 .. m /\ n + (e - n) = e
      BY <1>a, <1>4, <1>5, <1>6, <2>1
    <3>2. data[e - n] = p[e]
      BY <1>5, <1>7, <3>1
    <3>3. e - n \in DOMAIN data
      BY <1>7, <3>1
    <3> QED BY <1>5, <3>2, <3>3
  <2> QED BY <1>a, <1>5, <1>6, <2>1
<1>9. \A j \in 1 .. m : data[j] = p[n + j]
  <2>1. \A j \in 1 .. m : n + j <= Len(p)
    BY <1>a, <1>4, <1>5, <1>6, <1>7, <1>8 DEF OfRequest
  <2> QED BY <1>7, <2>1
<1>10. PICK rs : rs = reads \cup {PiecesUpTo(data, m)}
  OBVIOUS
<1>11. Whole(rs, p, n + m)
  <2>1. n + m <= e /\ data[m][3] # 1 /\ m > 0
    BY <1>a, <1>5, <1>6, <1>7, <1>8
  <2> QED BY <1>a, <1>4, <1>6, <1>9, <1>10, <2>1, ReadMore
<1>12. Reached("recv", rs, req, kinds, i, n + m)
  BY <1>a, <1>1, <1>2, <1>3, <1>6, <1>8, <1>11 DEF Reached, InHeader
<1>13. InStep("recv", SubSeq(onWire, m + 1, Len(onWire)), rs, req, kinds, done)
  BY <1>1, <1>12, Further
<1> QED BY <1>7, <1>10, <1>13

\* The connection once the header is read and r bytes of the body.
LEMMA AtBody ==
    ASSUME NEW kinds, NEW i \in Nat, i <= Len(kinds), kinds[i] \in Kind,
           NEW body \in Seq(Piece), NEW r \in Nat, Len(body) = r,
           NEW length, length = (IF kinds[i].body THEN 2 ELSE 0), r <= length,
           \A j \in 1 .. r : body[j] = Pieces(i, kinds[i])[EndOf(kinds[i]) + j]
    PROVE  Reached(IF r < length THEN "body" ELSE "handle", {},
                   [line |-> i, keepalive |-> kinds[i].keepalive, length |-> length, body |-> body],
                   kinds, i, EndOf(kinds[i]) + r)
<1>1. PICK kind \in Kind : kind = kinds[i]
  OBVIOUS
<1>2. PICK p : p = Pieces(i, kind)
  OBVIOUS
<1>3. PICK e : e = EndOf(kind)
  OBVIOUS
<1>4. OfRequest(p, i, kind, e)
  BY <1>2, <1>3, RequestFacts
<1>5. e \in Nat /\ Len(p) = e + length /\ p = Pieces(i, kind)
  BY <1>1, <1>2, <1>4 DEF OfRequest
<1>6. PICK req :
         req = [line |-> i, keepalive |-> kind.keepalive, length |-> length, body |-> body]
  OBVIOUS
<1>7. CASE r < length
  <2>1. kind.body /\ length = 2
    BY <1>1, <1>7
  <2>2. BodyRead(req, i, kind, e + r)
    BY <1>1, <1>3, <1>6, <1>7, <2>1 DEF BodyRead
  <2>3. Reached("body", {}, req, kinds, i, e + r)
    BY <1>1, <2>1, <2>2 DEF Reached
  <2> QED BY <1>1, <1>3, <1>6, <1>7, <2>3
<1>8. CASE ~ r < length
  <2>1. r = length /\ e + r = Len(p)
    BY <1>1, <1>5, <1>8
  <2>2. body = IF kind.body THEN Line(i, "body") ELSE <<>>
    <3>1. CASE kind.body
      <4>1. r = 2 /\ Len(body) = 2
        BY <1>1, <2>1, <3>1
      <4>2. body[1] = p[e + 1] /\ body[2] = p[e + 2]
        BY <1>1, <1>2, <1>3, <4>1
      <4>3. p[e + 1] = <<i, "body", 1>> /\ p[e + 2] = <<i, "body", 2>>
        BY <1>4, <3>1 DEF OfRequest
      <4>4. PICK line : line = Line(i, "body")
        OBVIOUS
      <4>5. line \in Seq(Piece) /\ Len(line) = 2 /\ line[1] = body[1] /\ line[2] = body[2]
        BY <4>2, <4>3, <4>4, LineFacts DEF Part
      <4>6. \A j \in 1 .. Len(body) : body[j] = line[j]
        BY <4>1, <4>5
      <4>7. Len(body) = Len(line)
        BY <4>1, <4>5
      <4>8. body = line
        BY <4>5, <4>6, <4>7, SeqEqual
      <4> QED BY <3>1, <4>4, <4>8
    <3>2. CASE ~ kind.body
      <4>1. Len(body) = 0
        BY <1>1, <2>1, <3>2
      <4>2. body = <<>>
        BY <4>1
      <4> QED BY <3>2, <4>2
    <3> QED BY <3>1, <3>2
  <2>3. req = Expected(i, kind)
    BY <1>1, <1>6, <2>2 DEF Expected
  <2>4. Reached("handle", {}, req, kinds, i, e + r)
    BY <1>1, <1>2, <2>1, <2>3 DEF Reached
  <2> QED BY <1>1, <1>3, <1>6, <1>8, <2>4
<1> QED BY <1>7, <1>8

\* What is taken is all there is.
LEMMA TakesAll ==
    ASSUME NEW a \in Nat, NEW b \in Nat, ~ Min({a, b}) < b
    PROVE  Min({a, b}) = b /\ b <= a
<1>1. PICK x \in Nat : x = IF a <= b THEN a ELSE b
  OBVIOUS
<1>2. x \in {a, b} /\ \A y \in {a, b} : x <= y
  BY <1>1
<1>3. \A y \in {a, b} : (\A z \in {a, b} : y <= z) => y = x
  BY <1>1, <1>2
<1>4. Min({a, b}) = x
  BY <1>2, <1>3 DEF Min
<1> QED BY <1>1, <1>4

\* new is what RecvHeader() makes of the request: the parser was given rs, the last of it up
\* to the empty line in data; of the rest of data the body gets what it needs.
Parsed(new, reads, data, rs, rest, length, taken) ==
    /\ rs = reads \cup {PiecesUpTo(data, NParse(data))}
    /\ rest = SubSeq(data, NParse(data) + 1, Len(data))
    /\ length = ContentLength(rs) /\ taken = Min({length, Len(rest)})
    /\ new = [line |-> LineOf(rs), keepalive |-> IsKeepalive(rs), length |-> length,
              body |-> SubSeq(rest, 1, taken)]

ReadFrom(data, onWire) == \E m \in 1 .. Len(onWire) : data = SubSeq(onWire, 1, m)

\* A read that brings the empty line, and nothing behind the request.
LEMMA HeaderStep ==
    ASSUME NEW onWire, NEW reads, NEW req, NEW kinds, NEW done,
           InStep("recv", onWire, reads, req, kinds, done),
           NEW data, ReadFrom(data, onWire), \E j \in DOMAIN data : data[j][2] = "end",
           NEW new, NEW rs, NEW rest, NEW length, NEW taken,
           Parsed(new, reads, data, rs, rest, length, taken), ~ taken < Len(rest)
    PROVE  InStep(IF taken < length THEN "body" ELSE "handle",
                  SubSeq(onWire, Len(data) + 1, Len(onWire)), {}, new, kinds, done)
<1>0. /\ rs = reads \cup {PiecesUpTo(data, NParse(data))}
      /\ rest = SubSeq(data, NParse(data) + 1, Len(data))
      /\ length = ContentLength(rs) /\ taken = Min({length, Len(rest)})
      /\ new = [line |-> LineOf(rs), keepalive |-> IsKeepalive(rs), length |-> length,
                body |-> SubSeq(rest, 1, taken)]
  BY DEF Parsed
<1>m. PICK m \in 1 .. Len(onWire) : data = SubSeq(onWire, 1, m)
  BY DEF ReadFrom
<1>1. PICK i, begin, n :
         AtRequest(onWire, kinds, done, i, begin, n) /\ InHeader(reads, kinds, i, n)
  BY <1>m, BeforeRecv
<1>2. n \in Nat /\ i \in Nat /\ m \in Nat /\ m >= 1
  BY <1>1 DEF AtRequest, InStep
<1>3. PICK kind \in Kind : kind = kinds[i]
  BY <1>1 DEF InHeader
<1>4. PICK p : p = Pieces(i, kind)
  OBVIOUS
<1>5. PICK e : e = EndOf(kind)
  OBVIOUS
<1>6. OfRequest(p, i, kind, e) /\ Whole(reads, p, n) /\ n < e
  BY <1>1, <1>2, <1>3, <1>4, <1>5, RequestFacts DEF InHeader
<1>7. PICK bytes \in {0, 2} : bytes = IF kind.body THEN 2 ELSE 0
  OBVIOUS
<1>8. e \in Nat /\ Len(p) = e + bytes /\ p[e][2] = "end" /\ \A j \in 1 .. e - 1 : p[j][2] # "end"
  <2>1. e \in Nat /\ p[e] = <<i, "end", 1>> /\ \A j \in 1 .. e - 1 : p[j][2] # "end"
    BY <1>6 DEF OfRequest
  <2>2. Len(p) = e + bytes
    BY <1>6, <1>7 DEF OfRequest
  <2> QED BY <2>1, <2>2
<1>9. Follows(data, m, p, n)
  BY <1>m, <1>1, <1>3, <1>4, FrontRead
<1>10. /\ Len(data) = m /\ data \in Seq(Piece) /\ DOMAIN data = 1 .. m
       /\ \A j \in 1 .. m : n + j <= e + bytes => data[j] = p[n + j]
  BY <1>8, <1>9 DEF Follows
<1>11. \A j \in 1 .. m : n + j < e => data[j][2] # "end"
  <2>1. ASSUME NEW j \in 1 .. m, n + j < e PROVE data[j][2] # "end"
    <3>1. n + j \in 1 .. e - 1 /\ n + j <= e + bytes
      BY <1>2, <1>8, <2>1
    <3> QED BY <1>8, <1>10, <3>1
  <2> QED BY <2>1
<1>12. PICK k \in Nat : k = e - n
  BY <1>2, <1>6, <1>8
<1>13. k \in 1 .. m /\ n + k = e
  <2>1. PICK j \in 1 .. m : data[j][2] = "end"
    BY <1>10
  <2>2. ~ n + j < e
    BY <1>11, <2>1
  <2> QED BY <1>2, <1>6, <1>8, <1>12, <2>2
<1>14. data[k][2] = "end"
  <2>1. n + k <= e + bytes
    BY <1>8, <1>13
  <2> QED BY <1>8, <1>10, <1>13, <2>1
<1>15. NParse(data) = k
  <2> DEFINE ends == {j \in DOMAIN data : data[j][2] = "end"}
  <2>1. k \in ends /\ ends \subseteq Nat
    BY <1>10, <1>13, <1>14
  <2>2. \A j \in ends : k <= j
    <3>1. ASSUME NEW j \in ends PROVE k <= j
      <4>1. j \in 1 .. m /\ ~ n + j < e
        BY <1>10, <1>11
      <4> QED BY <1>2, <1>8, <1>13, <4>1
    <3> QED BY <3>1
  <2>3. NParse(data) = Min(ends)
    BY <2>1 DEF NParse
  <2> HIDE DEF ends
  <2>4. Min(ends) = k
    <3>1. \A x \in ends : (\A y \in ends : x <= y) => x = k
      BY <2>1, <2>2
    <3> QED BY <2>1, <2>2, <3>1 DEF Min
  <2> QED BY <2>3, <2>4
<1>16. Whole(rs, p, e)
  <2>1. \A j \in 1 .. k : data[j] = p[n + j]
    <3>1. \A j \in 1 .. k : j \in 1 .. m /\ n + j <= e + bytes
      BY <1>2, <1>8, <1>13
    <3> QED BY <1>10, <3>1
  <2>2. n + k <= e /\ ~ n + k < e
    BY <1>8, <1>13
  <2>3. Whole(reads \cup {PiecesUpTo(data, k)}, p, n + k)
    BY <1>2, <1>6, <2>1, <2>2, ReadMore
  <2> QED BY <1>0, <1>13, <1>15, <2>3
<1>17. LineOf(rs) = i /\ IsKeepalive(rs) = kind.keepalive /\ length = bytes
  BY <1>0, <1>2, <1>6, <1>7, <1>16, HeaderRead
<1>18. /\ rest \in Seq(Piece) /\ Len(rest) = m - k
       /\ \A j \in 1 .. m - k : rest[j] = data[k + j]
  <2>1. k \in Nat /\ m \in Nat /\ k <= m /\ m <= Len(data)
    BY <1>2, <1>10, <1>13
  <2>2. rest = SubSeq(data, k + 1, m) /\ data \in Seq(Piece)
    BY <1>0, <1>10, <1>15
  <2> QED BY <2>1, <2>2, CutOut
<1>19. PICK r \in Nat : r = m - k
  BY <1>2, <1>13
<1>20. taken = r /\ r <= bytes
  <2>1. taken = Min({bytes, r}) /\ ~ Min({bytes, r}) < r
    BY <1>0, <1>17, <1>18, <1>19
  <2>2. bytes \in Nat /\ r \in Nat
    OBVIOUS
  <2>3. Min({bytes, r}) = r /\ r <= bytes
    BY <2>1, <2>2, TakesAll, Zenon
  <2> QED BY <2>1, <2>3
<1>21. PICK body : body = SubSeq(rest, 1, taken)
  OBVIOUS
<1>22. body \in Seq(Piece) /\ Len(body) = r /\ \A j \in 1 .. r : body[j] = rest[j]
  <2>1. rest \in Seq(Piece) /\ r <= Len(rest)
    BY <1>18, <1>19
  <2>2. Follows(body, r, rest, 0)
    BY <1>20, <1>21, <2>1, Firsts
  <2>3. \A j \in 1 .. r : 0 + j <= Len(rest) /\ 0 + j = j
    BY <2>1
  <2> QED BY <2>2, <2>3 DEF Follows
<1>23. ASSUME NEW j \in 1 .. r PROVE body[j] = p[e + j]
  <2>1. k + j \in 1 .. m /\ n + (k + j) = e + j /\ e + j <= e + bytes
    BY <1>2, <1>8, <1>13, <1>19, <1>20
  <2>2. data[k + j] = p[e + j]
    BY <1>10, <2>1
  <2> QED BY <1>18, <1>19, <1>22, <2>2
<1>24. new = [line |-> i, keepalive |-> kind.keepalive, length |-> bytes, body |-> body]
  BY <1>0, <1>17, <1>21
<1>25. PICK to : to = IF r < bytes THEN "body" ELSE "handle"
  OBVIOUS
<1>26. Reached(to, {}, new, kinds, i, e + r)
  <2>1. i <= Len(kinds) /\ kinds[i] \in Kind
    BY <1>1 DEF InHeader
  <2> QED BY <1>2, <1>3, <1>4, <1>5, <1>7, <1>20, <1>22, <1>23, <1>24, <1>25, <2>1, AtBody
<1>27. e + r = n + m
  BY <1>2, <1>8, <1>13, <1>19
<1>28. InStep(to, SubSeq(onWire, m + 1, Len(onWire)), {}, new, kinds, done)
  BY <1>1, <1>26, <1>27, Further
<1> QED BY <1>10, <1>17, <1>20, <1>25, <1>28

\* readFixSize() goes on with the body.
LEMMA BodyStep ==
    ASSUME NEW onWire, NEW reads, NEW req, NEW kinds, NEW done,
           InStep("body", onWire, reads, req, kinds, done), NEW m \in 1 .. Len(onWire),
           NEW body, body = req.body \o SubSeq(onWire, 1, m), Len(body) <= req.length
    PROVE  InStep(IF Len(body) < req.length THEN "body" ELSE "handle",
                  SubSeq(onWire, m + 1, Len(onWire)), reads, [req EXCEPT !.body = body],
                  kinds, done)
<1>1. PICK i \in Nat \ {0}, begin \in [Nat -> Int] :
         /\ i = Len(done) + 1 /\ Located(onWire, kinds, begin, i)
         /\ Reached("body", reads, req, kinds, i, 0 - begin[i])
  BY Before
<1>2. i <= Len(kinds) /\ kinds[i].body /\ BodyRead(req, i, kinds[i], 0 - begin[i])
  BY <1>1 DEF Reached
<1>3. onWire \in Seq(Piece) /\ kinds \in Seq(Kind) /\ reads = {} /\ m \in Nat
  BY DEF InStep
<1>4. PICK kind \in Kind : kind = kinds[i]
  BY <1>2, <1>3
<1>5. PICK p : p = Pieces(i, kind)
  OBVIOUS
<1>6. PICK e : e = EndOf(kind)
  OBVIOUS
<1>7. PICK old : old = req.body
  OBVIOUS
<1>8. /\ req = [line |-> i, keepalive |-> kind.keepalive, length |-> 2, body |-> old]
      /\ old \in Seq(Piece) /\ 0 - begin[i] = e + Len(old)
      /\ \A j \in 1 .. Len(old) : old[j] = p[e + j]
  BY <1>2, <1>4, <1>5, <1>6, <1>7 DEF BodyRead
<1>9. OfRequest(p, i, kind, e) /\ kind.body
  BY <1>2, <1>4, <1>5, <1>6, RequestFacts
<1>10. e \in Nat /\ Len(p) = e + 2
  BY <1>9 DEF OfRequest
<1>11. PICK a \in Nat : a = Len(old)
  <2>1. old \in Seq(Piece)
    BY <1>8
  <2> QED BY <2>1
<1>12. PICK n \in Nat : n = e + a
  BY <1>10
<1>13. AtRequest(onWire, kinds, done, i, begin, n)
  <2>1. PICK x \in Int : x = begin[i]
    BY <1>1
  <2>2. 0 - x = e + a
    BY <1>8, <1>11, <2>1
  <2>3. x = 0 - n
    BY <1>10, <1>12, <2>2
  <2> QED BY <1>1, <2>1, <2>3 DEF AtRequest
<1>14. PICK data : data = SubSeq(onWire, 1, m)
  OBVIOUS
<1>15. Follows(data, m, p, n)
  BY <1>4, <1>5, <1>13, <1>14, FrontRead
<1>16. data \in Seq(Piece) /\ Len(data) = m /\ \A j \in 1 .. m : n + j <= e + 2 => data[j] = p[n + j]
  BY <1>10, <1>15 DEF Follows
<1>17. body \in Seq(Piece) /\ Joins(body, old, data, a, m)
  <2>1. body = old \o data
    BY <1>7, <1>14
  <2>2. body \in Seq(Piece) /\ Joins(body, old, data, Len(old), Len(data))
    BY <1>8, <1>16, <2>1, JoinParts
  <2> QED BY <1>11, <1>16, <2>2
<1>18. PICK r \in Nat : r = a + m
  BY <1>3
<1>19. Len(body) = r /\ r <= 2
  BY <1>8, <1>17, <1>18 DEF Joins
<1>20. ASSUME NEW j \in 1 .. r PROVE body[j] = p[e + j]
  <2>1. CASE j <= a
    <3>1. j \in 1 .. a
      BY <2>1
    <3>2. body[j] = old[j]
      BY <1>17, <3>1 DEF Joins
    <3> QED BY <1>8, <1>11, <3>1, <3>2
  <2>2. CASE ~ j <= a
    <3>1. PICK l \in Nat : l = j - a
      BY <2>2
    <3>2. l \in 1 .. m /\ a + l = j /\ n + l = e + j /\ n + l <= e + 2
      BY <1>3, <1>10, <1>12, <1>18, <1>19, <2>2, <3>1
    <3>3. body[a + l] = data[l]
      BY <1>17, <3>2 DEF Joins
    <3>4. data[l] = p[n + l]
      BY <1>16, <3>2
    <3> QED BY <3>2, <3>3, <3>4
  <2> QED BY <2>1, <2>2
<1>21. PICK new :
          new = [line |-> i, keepalive |-> kind.keepalive, length |-> 2, body |-> body]
  OBVIOUS
<1>22. new = [req EXCEPT !.body = body] /\ req.length = 2
  <2>1. req.length = 2
    BY <1>8
  <2>2. [req EXCEPT !.body = body]
          \in [line : {i}, keepalive : {kind.keepalive}, length : {2}, body : {body}]
    BY <1>8
  <2>3. \A y \in [line : {i}, keepalive : {kind.keepalive}, length : {2}, body : {body}] : y = new
    BY <1>21
  <2> QED BY <2>1, <2>2, <2>3
<1>23. PICK to : to = IF r < 2 THEN "body" ELSE "handle"
  OBVIOUS
<1>24. Reached(to, {}, new, kinds, i, e + r)
  <2>1. i \in Nat /\ i <= Len(kinds) /\ kinds[i] \in Kind
    BY <1>2, <1>4
  <2>2. 2 = IF kinds[i].body THEN 2 ELSE 0
    BY <1>2
  <2>3. \A j \in 1 .. r : body[j] = Pieces(i, kinds[i])[EndOf(kinds[i]) + j]
    BY <1>4, <1>5, <1>6, <1>20
  <2>4. Reached(IF r < 2 THEN "body" ELSE "handle", {},
                [line |-> i, keepalive |-> kinds[i].keepalive, length |-> 2, body |-> body],
                kinds, i, EndOf(kinds[i]) + r)
    BY <1>17, <1>19, <2>1, <2>2, <2>3, AtBody
  <2> QED BY <1>4, <1>6, <1>21, <1>23, <2>4
<1>25. e + r = n + m
  BY <1>3, <1>10, <1>12, <1>18
<1>26. InStep(to, SubSeq(onWire, m + 1, Len(onWire)), {}, new, kinds, done)
  BY <1>13, <1>24, <1>25, Further
<1> QED BY <1>3, <1>19, <1>22, <1>23, <1>26

-----------------------------------------------------------------------------
(* The connections of the server.                                          *)

Domains ==
    /\ DOMAIN place = Clients /\ DOMAIN wire = Clients /\ DOMAIN fed = Clients
    /\ DOMAIN request = Clients /\ DOMAIN sent = Clients /\ DOMAIN handled = Clients
    /\ spoiled \in [Clients -> BOOLEAN]

Steady(c) == InStep(place[c], wire[c], fed[c], request[c], sent[c], handled[c])

SessionInv == Domains /\ \A c \in Clients : ~ spoiled[c] => Steady(c)

\* The connection of d does not move.
Rests(d) ==
    /\ place'[d] = place[d] /\ wire'[d] = wire[d] /\ fed'[d] = fed[d]
    /\ request'[d] = request[d] /\ sent'[d] = sent[d] /\ handled'[d] = handled[d]
    /\ spoiled'[d] = spoiled[d]

\* Only one connection moves.
LEMMA OneMoves ==
    ASSUME SessionInv, NEW c \in Clients, \A d \in Clients : d # c => Rests(d), Domains',
           ~ spoiled'[c] => ~ spoiled[c], ~ spoiled[c] /\ ~ spoiled'[c] /\ Steady(c) => Steady(c)'
    PROVE  SessionInv'
<1>1. ASSUME NEW d \in Clients, ~ spoiled'[d] PROVE Steady(d)'
  <2>1. CASE d = c
    BY <1>1, <2>1 DEF SessionInv
  <2>2. CASE d # c
    BY <1>1, <2>2 DEF SessionInv, Steady, Rests
  <2> QED BY <2>1, <2>2
<1> QED BY <1>1 DEF SessionInv

\* It holds before any client connects.
LEMMA InitSessionInv == Init => SessionInv
<1> SUFFICES ASSUME Init PROVE SessionInv
  OBVIOUS
<1>1. SessionInit
  BY DEF Init
<1>2. Domains
  BY <1>1 DEF SessionInit, Domains
<1>3. InStep("out", <<>>, {}, NoRequest, <<>>, <<>>)
  <2>1. PICK b : b = [i \in Nat |-> 0]
    OBVIOUS
  <2>a. b \in [Nat -> Int] /\ 1 \in Nat /\ b[1] = 0
    BY <2>1
  <2>2. b \in [Nat -> Int] /\ b[1] = 0 /\ 0 - b[1] = 0
    BY <2>a
  <2>3. Len(<<>>) = 0 /\ 0 + 1 = 1 /\ 1 .. 0 = {}
    OBVIOUS
  <2>4. Located(<<>>, <<>>, b, 1)
    BY <2>2, <2>3 DEF Located
  <2>5. Reached("out", {}, NoRequest, <<>>, 1, 0 - b[1])
    BY <2>2 DEF Reached
  <2>6. <<>> \in Seq(Piece) /\ <<>> \in Seq(Kind) /\ <<>> \in Seq(Answer)
    OBVIOUS
  <2> QED BY <2>2, <2>3, <2>4, <2>5, <2>6 DEF InStep
<1>4. ASSUME NEW c \in Clients PROVE Steady(c)
  BY <1>1, <1>3 DEF SessionInit, Steady
<1> QED BY <1>2, <1>4 DEF SessionInv

\* A step that closes the connection of c.
LEMMA Closes ==
    ASSUME SessionInv, NEW c \in Clients, Close(c), UNCHANGED <<sent, handled, spoiled>>
    PROVE  SessionInv'
<1>1. /\ place' = [place EXCEPT ![c] = "closed"] /\ wire' = [wire EXCEPT ![c] = <<>>]
      /\ fed' = [fed EXCEPT ![c] = {}] /\ request' = [request EXCEPT ![c] = NoRequest]
  BY DEF Close
<1>2. Domains'
  BY <1>1 DEF SessionInv, Domains
<1>3. \A d \in Clients : d # c => Rests(d)
  BY <1>1 DEF SessionInv, Domains, Rests
<1>4. Steady(c) => Steady(c)'
  <2>1. /\ place'[c] = "closed" /\ wire'[c] = <<>> /\ fed'[c] = {} /\ request'[c] = NoRequest
        /\ sent'[c] = sent[c] /\ handled'[c] = handled[c]
    BY <1>1 DEF SessionInv, Domains
  <2> QED BY <2>1, CloseStep DEF Steady
<1> QED BY <1>2, <1>3, <1>4, OneMoves

\* A step that only moves a connection that is between two requests.
LEMMA Waits ==
    ASSUME SessionInv, NEW c \in Clients,
           place[c] \in {"out", "pending", "queued", "send", "blocked", "woken"},
           NEW to \in {"pending", "queued", "recv", "blocked", "woken"}, place' = [place EXCEPT ![c] = to],
           UNCHANGED <<wire, fed, sent, handled, spoiled>>,
           \/ UNCHANGED request
           \/ request' = [request EXCEPT ![c] = NoRequest]
    PROVE  SessionInv'
<1>1. Domains'
  BY DEF SessionInv, Domains
<1>2. \A d \in Clients : d # c => Rests(d)
  BY DEF SessionInv, Domains, Rests
<1>3. Steady(c) => Steady(c)'
  <2>1. place'[c] = to
    BY DEF SessionInv, Domains
  <2> QED BY <2>1, WaitStep DEF Steady
<1> QED BY <1>1, <1>2, <1>3, OneMoves

\* A read of the header: it fails, brings a part of it, or its end.
LEMMA RecvInv ==
    ASSUME SessionInv, NEW c \in Clients, Recv(c)
    PROVE  SessionInv'
<1>1. PICK m \in 1 .. Len(wire[c]) :
         LET data == SubSeq(wire[c], 1, m)
         IN  RecvError(c, data) \/ RecvPart(c, data) \/ RecvHeader(c, data)
  BY DEF Recv
<1>2. PICK data : data = SubSeq(wire[c], 1, m)
  OBVIOUS
<1>3. place[c] = "recv" /\ (RecvError(c, data) \/ RecvPart(c, data) \/ RecvHeader(c, data))
  BY <1>1, <1>2 DEF Recv
<1>4. CASE RecvError(c, data)
  BY <1>4, Closes DEF RecvError, clientVars
<1>5. CASE RecvPart(c, data)
  <2>1. /\ \A j \in DOMAIN data : data[j][2] # "end"
        /\ fed' = [fed EXCEPT ![c] = fed[c] \cup {PiecesUpTo(data, Len(data))}]
        /\ wire' = [wire EXCEPT ![c] = SubSeq(wire[c], Len(data) + 1, Len(wire[c]))]
        /\ spoiled' = [spoiled EXCEPT ![c] = spoiled[c] \/ data[Len(data)][3] = 1]
        /\ UNCHANGED <<place, request, sent, handled>>
    BY <1>5 DEF RecvPart, clientVars
  <2>2. Domains'
    BY <2>1 DEF SessionInv, Domains
  <2>3. \A d \in Clients : d # c => Rests(d)
    BY <2>1 DEF SessionInv, Domains, Rests
  <2>4. /\ fed'[c] = fed[c] \cup {PiecesUpTo(data, Len(data))}
        /\ wire'[c] = SubSeq(wire[c], Len(data) + 1, Len(wire[c]))
        /\ ~ spoiled'[c] => ~ spoiled[c] /\ data[Len(data)][3] # 1
    BY <2>1 DEF SessionInv, Domains
  <2>5. ASSUME ~ spoiled'[c], Steady(c) PROVE Steady(c)'
    <3>1. InStep("recv", wire[c], fed[c], request[c], sent[c], handled[c])
      BY <1>3, <2>5 DEF Steady
    <3>2. InStep("recv", SubSeq(wire[c], Len(data) + 1, Len(wire[c])),
                 fed[c] \cup {PiecesUpTo(data, Len(data))}, request[c], sent[c], handled[c])
      BY <1>2, <2>1, <2>4, <2>5, <3>1, PartStep
    <3> QED BY <1>3, <2>1, <2>4, <3>2 DEF Steady
  <2> QED BY <2>2, <2>3, <2>4, <2>5, OneMoves
<1>6. CASE RecvHeader(c, data)
  <2>1. PICK rs : rs = fed[c] \cup {PiecesUpTo(data, NParse(data))}
    OBVIOUS
  <2>2. PICK rest : rest = SubSeq(data, NParse(data) + 1, Len(data))
    OBVIOUS
  <2>3. PICK length : length = ContentLength(rs)
    OBVIOUS
  <2>4. PICK taken : taken = Min({length, Len(rest)})
    OBVIOUS
  <2>5. PICK new : new = [line |-> LineOf(rs), keepalive |-> IsKeepalive(rs), length |-> length,
                          body |-> SubSeq(rest, 1, taken)]
    OBVIOUS
  <2>6. /\ \E j \in DOMAIN data : data[j][2] = "end"
        /\ request' = [request EXCEPT ![c] = new]
        /\ place' = [place EXCEPT ![c] = IF taken < length THEN "body" ELSE "handle"]
        /\ spoiled' = [spoiled EXCEPT ![c] = spoiled[c] \/ taken < Len(rest)]
        /\ wire' = [wire EXCEPT ![c] = SubSeq(wire[c], Len(data) + 1, Len(wire[c]))]
        /\ fed' = [fed EXCEPT ![c] = {}]
        /\ UNCHANGED <<sent, handled>>
    BY <1>6, <2>1, <2>2, <2>3, <2>4, <2>5 DEF RecvHeader, clientVars
  <2>7. Domains'
    BY <2>6 DEF SessionInv, Domains
  <2>8. \A d \in Clients : d # c => Rests(d)
    BY <2>6 DEF SessionInv, Domains, Rests
  <2>9. /\ request'[c] = new /\ fed'[c] = {}
        /\ place'[c] = IF taken < length THEN "body" ELSE "handle"
        /\ wire'[c] = SubSeq(wire[c], Len(data) + 1, Len(wire[c]))
        /\ ~ spoiled'[c] => ~ spoiled[c] /\ ~ taken < Len(rest)
    BY <2>6 DEF SessionInv, Domains
  <2>10. ASSUME ~ spoiled'[c], Steady(c) PROVE Steady(c)'
    <3>1. InStep("recv", wire[c], fed[c], request[c], sent[c], handled[c])
      BY <1>3, <2>10 DEF Steady
    <3>2. InStep(IF taken < length THEN "body" ELSE "handle",
                 SubSeq(wire[c], Len(data) + 1, Len(wire[c])), {}, new, sent[c], handled[c])
      <4>1. (\E j \in DOMAIN data : data[j][2] = "end") /\ ~ taken < Len(rest)
        BY <2>6, <2>9, <2>10
      <4>2. Parsed(new, fed[c], data, rs, rest, length, taken)
        BY <2>1, <2>2, <2>3, <2>4, <2>5 DEF Parsed
      <4>3. ReadFrom(data, wire[c])
        BY <1>2 DEF ReadFrom
      <4> QED BY <3>1, <4>1, <4>2, <4>3, HeaderStep
    <3> QED BY <2>6, <2>9, <3>2 DEF Steady
  <2> QED BY <2>7, <2>8, <2>9, <2>10, OneMoves
<1> QED BY <1>3, <1>4, <1>5, <1>6

\* A read of the body.
LEMMA ReadBodyInv ==
    ASSUME SessionInv, NEW c \in Clients, ReadBody(c)
    PROVE  SessionInv'
<1>1. PICK m \in 1 .. Len(wire[c]) :
         LET body == request[c].body \o SubSeq(wire[c], 1, m)
         IN  /\ Len(body) <= request[c].length
             /\ request' = [request EXCEPT ![c].body = body]
             /\ place' = [place EXCEPT ![c] =
                    IF Len(body) < request[c].length THEN "body" ELSE "handle"]
             /\ wire' = [wire EXCEPT ![c] = SubSeq(wire[c], m + 1, Len(wire[c]))]
  BY DEF ReadBody
<1>2. PICK body : body = request[c].body \o SubSeq(wire[c], 1, m)
  OBVIOUS
<1>3. PICK new : new = [request[c] EXCEPT !.body = body]
  OBVIOUS
<1>4. /\ Len(body) <= request[c].length
      /\ request' = [request EXCEPT ![c] = new]
      /\ place' = [place EXCEPT ![c] = IF Len(body) < request[c].length THEN "body" ELSE "handle"]
      /\ wire' = [wire EXCEPT ![c] = SubSeq(wire[c], m + 1, Len(wire[c]))]
      /\ place[c] = "body" /\ UNCHANGED <<fed, sent, handled, spoiled>>
  BY <1>1, <1>2, <1>3 DEF ReadBody, clientVars
<1>5. Domains'
  BY <1>4 DEF SessionInv, Domains
<1>6. \A d \in Clients : d # c => Rests(d)
  BY <1>4 DEF SessionInv, Domains, Rests
<1>7. /\ request'[c] = new /\ wire'[c] = SubSeq(wire[c], m + 1, Len(wire[c]))
      /\ place'[c] = IF Len(body) < request[c].length THEN "body" ELSE "handle"
  BY <1>4 DEF SessionInv, Domains
<1>8. ASSUME Steady(c) PROVE Steady(c)'
  <2>1. InStep("body", wire[c], fed[c], request[c], sent[c], handled[c])
    BY <1>4, <1>8 DEF Steady
  <2>2. InStep(IF Len(body) < request[c].length THEN "body" ELSE "handle",
               SubSeq(wire[c], m + 1, Len(wire[c])), fed[c], new, sent[c], handled[c])
    BY <1>2, <1>3, <1>4, <2>1, BodyStep
  <2> QED BY <1>4, <1>7, <2>2 DEF Steady
<1>9. ~ spoiled'[c] => ~ spoiled[c]
  BY <1>4
<1> QED BY <1>5, <1>6, <1>8, <1>9, OneMoves

\* A step of handleClient().
LEMMA SessionStepInv ==
    ASSUME SessionInv, NEW c \in Clients, SessionStep(c)
    PROVE  SessionInv'
<1>1. CASE StartSession(c)
  BY <1>1, Waits DEF StartSession, clientVars
<1>2. CASE RecvFails(c)
  BY <1>2, Closes DEF RecvFails, clientVars
<1>3. CASE Handle(c)
  <2>1. /\ place[c] = "handle" /\ handled' = [handled EXCEPT ![c] = Append(handled[c], request[c])]
        /\ place' = [place EXCEPT ![c] = "send"]
        /\ UNCHANGED <<wire, fed, request, sent, spoiled>>
    BY <1>3 DEF Handle, clientVars
  <2>2. Domains'
    BY <2>1 DEF SessionInv, Domains
  <2>3. \A d \in Clients : d # c => Rests(d)
    BY <2>1 DEF SessionInv, Domains, Rests
  <2>4. handled'[c] = Append(handled[c], request[c]) /\ place'[c] = "send"
    BY <2>1 DEF SessionInv, Domains
  <2>5. Steady(c) => Steady(c)'
    BY <2>1, <2>4, HandleStep DEF Steady
  <2>6. spoiled'[c] = spoiled[c]
    BY <2>1
  <2> QED BY <2>2, <2>3, <2>5, <2>6, OneMoves
<1>4. CASE Respond(c)
  <2>1. place[c] \in {"send", "woken"} /\ UNCHANGED <<sent, handled, spoiled>>
    BY <1>4 DEF Respond
  <2>2. CASE Close(c)
    BY <2>1, <2>2, Closes
  <2>3. CASE /\ place' = [place EXCEPT ![c] = "recv"]
             /\ request' = [request EXCEPT ![c] = NoRequest]
             /\ UNCHANGED <<wire, fed>>
    BY <2>1, <2>3, Waits
  <2> QED BY <1>4, <2>2, <2>3 DEF Respond
<1>5. CASE SendWaits(c)
  BY <1>5, Waits DEF SendWaits, clientVars
<1> QED BY <1>1, <1>2, <1>3, <1>4, <1>5, RecvInv, ReadBodyInv DEF SessionStep

\* A client sends a request, whatever the session does.
LEMMA ClientSendsInv ==
    ASSUME SessionInv, NEW c \in Clients, ClientSends(c)
    PROVE  SessionInv'
<1>1. PICK kind \in Kinds :
         /\ sent' = [sent EXCEPT ![c] = Append(sent[c], kind)]
         /\ wire' = [wire EXCEPT ![c] = wire[c] \o Pieces(Len(sent[c]) + 1, kind)]
  BY DEF ClientSends
<1>2. place[c] # "closed" /\ UNCHANGED <<place, fed, request, handled, spoiled>>
  BY DEF ClientSends
<1>3. kind \in Kind
  BY HttpSessionConstants DEF Kind
<1>4. Domains'
  BY <1>1, <1>2 DEF SessionInv, Domains
<1>5. \A d \in Clients : d # c => Rests(d)
  BY <1>1, <1>2 DEF SessionInv, Domains, Rests
<1>6. /\ sent'[c] = Append(sent[c], kind)
      /\ wire'[c] = wire[c] \o Pieces(Len(sent[c]) + 1, kind)
  BY <1>1 DEF SessionInv, Domains
<1>7. ASSUME Steady(c) PROVE Steady(c)'
  <2>1. InStep(place[c], wire[c], fed[c], request[c], sent[c], handled[c])
    BY <1>7 DEF Steady
  <2>2. InStep(place[c], wire[c] \o Pieces(Len(sent[c]) + 1, kind), fed[c], request[c],
               Append(sent[c], kind), handled[c])
    BY <1>2, <1>3, <2>1, SendsStep
  <2> QED BY <1>2, <1>6, <2>2 DEF Steady
<1>8. spoiled'[c] = spoiled[c]
  BY <1>2
<1> QED BY <1>4, <1>5, <1>7, <1>8, OneMoves

\* Nothing of the sessions moves.
LEMMA SessionsRest ==
    ASSUME SessionInv, UNCHANGED <<place, wire, fed, request, sent, handled, spoiled>>
    PROVE  SessionInv'
BY DEF SessionInv, Domains, Steady

\* Every step keeps the invariant.
LEMMA NextSessionInv ==
    ASSUME SessionInv, [Next]_vars
    PROVE  SessionInv'
<1>1. CASE UserStep \/ StopStep
  BY <1>1, SessionsRest DEF UserStep, Start, Stop, Bind, StopStep, StopTask, CancelAll,
                            CloseCancels, CloseF, ClearSocks, sessionVars, clientVars
<1>2. ASSUME NEW a \in Acceptors, AcceptStep(a) PROVE SessionInv'
  <2>1. CASE Accept(a)
    <3>1. PICK c \in Backlog(a[1]) : place' = [place EXCEPT ![c] = "queued"]
      BY <2>1 DEF Accept
    <3>2. c \in Clients /\ place[c] = "pending"
      BY DEF Backlog
    <3>3. UNCHANGED <<wire, fed, request, sent, handled, spoiled>>
      BY <2>1 DEF Accept, clientVars
    <3> QED BY <3>1, <3>2, <3>3, Waits
  <2>2. CASE BeginAccept(a) \/ TestStop(a) \/ AcceptFails(a) \/ AcceptWaits(a) \/ AcceptWakes(a)
    BY <2>2, SessionsRest DEF BeginAccept, TestStop, AcceptFails, AcceptWaits, AcceptWakes,
                              sessionVars, clientVars
  <2> QED BY <1>2, <2>1, <2>2 DEF AcceptStep
<1>3. ASSUME NEW c \in Clients, ServeStep(c) PROVE SessionInv'
  BY <1>3, SessionStepInv DEF ServeStep
<1>4. ASSUME NEW c \in Clients, NetworkStep(c) PROVE SessionInv'
  <2>1. CASE ClientConnects(c)
    BY <2>1, Waits DEF ClientConnects, clientVars
  <2>2. CASE Reset(c)
    BY <2>2, Closes DEF Reset, clientVars
  <2>3. CASE ClientSends(c)
    BY <2>3, ClientSendsInv
  <2>4. CASE ClientLeaves(c)
    <3>1. CASE place[c] = "blocked"
      BY <2>4, <3>1, Waits DEF ClientLeaves
    <3>2. CASE place[c] # "blocked"
      <4>1. /\ place' = [place EXCEPT ![c] = place[c]]
            /\ UNCHANGED <<wire, fed, request, sent, handled, spoiled>>
        BY <2>4, <3>2 DEF ClientLeaves
      <4>2. Domains'
        BY <4>1 DEF SessionInv, Domains
      <4>3. \A d \in Clients : Rests(d)
        BY <4>1 DEF SessionInv, Domains, Rests
      <4>4. Steady(c) => Steady(c)'
        BY <4>3 DEF Steady, Rests
      <4> QED BY <4>1, <4>2, <4>3, <4>4, OneMoves
    <3> QED BY <3>1, <3>2
  <2>5. CASE ClientReads(c)
    BY <2>5, Waits DEF ClientReads, clientVars
  <2>6. CASE TimeoutLost(c)
    BY <2>6, SessionsRest DEF TimeoutLost, clientVars
  <2> QED BY <1>4, <2>1, <2>2, <2>3, <2>4, <2>5, <2>6 DEF NetworkStep, ClientStep
<1>5. CASE UNCHANGED vars
  BY <1>5, SessionsRest DEF vars, sessionVars, clientVars
<1> QED BY <1>1, <1>2, <1>3, <1>4, <1>5 DEF Next

\* However the bytes are cut into reads, the n-th request given to the dispatcher is the n-th
\* that the client sent, with its own body, as long as no read has cut a line and none went on
\* behind its request (http_session.cc:14-98).
THEOREM InOrderHolds == Spec => []InOrder
<1>1. SessionInv => InOrder
  <2> SUFFICES ASSUME SessionInv, NEW c \in Clients, ~ spoiled[c]
               PROVE  /\ Len(handled[c]) <= Len(sent[c])
                      /\ \A i \in DOMAIN handled[c] : handled[c][i] = Expected(i, sent[c][i])
    BY DEF InOrder
  <2>1. InStep(place[c], wire[c], fed[c], request[c], sent[c], handled[c])
    BY DEF SessionInv, Steady
  <2> QED BY <2>1 DEF InStep
<1>2. SessionInv /\ [Next]_vars => SessionInv'
  BY NextSessionInv
<1> QED BY <1>1, <1>2, InitSessionInv, PTL DEF Spec
-----------------------------------------------------------------------------
(* ServletDispatch: what handles a request.                                *)

\* The lowest of some numbers is one of them.
LEMMA LowestFree ==
    ASSUME NEW S \in SUBSET Nat, S # {}
    PROVE  Min(S) \in S /\ \A y \in S : Min(S) <= y
<1> DEFINE less == OpToRel(<, Nat)
<1>1. \A x, y \in Nat : <<x, y>> \in less <=> x < y
  BY DEF OpToRel
<1>2. IsWellFoundedOn(less, Nat)
  BY NatLessThanWellFounded
<1> HIDE DEF less
<1>3. PICK x \in S : \A y \in S : <<y, x>> \notin less
  BY <1>2, WFMin
<1>4. ASSUME NEW y \in S PROVE x <= y
  <2>1. x \in Nat /\ y \in Nat /\ <<y, x>> \notin less
    BY <1>3
  <2>2. ~ (y < x)
    BY <1>1, <2>1
  <2> QED BY <2>1, <2>2
<1> QED BY <1>3, <1>4 DEF Min

DispatchCall ==
    [table : {"exact", "glob"}, name : Uris \cup Patterns, servlet : Servlets \cup {NoServlet}]

DispatchTypes ==
    /\ calls \in Seq(DispatchCall)
    /\ m_datas \in [Uris -> Servlets \cup {NoServlet}]
    /\ m_globs \in Seq([pattern : Patterns, servlet : Servlets])

\* The table of the exact names holds the standing calls.
DatasFollow ==
    \A uri \in Uris :
        /\ \A i \in Standing("exact") : calls[i].name = uri => m_datas[uri] = calls[i].servlet
        /\ m_datas[uri] # NoServlet => \E i \in Standing("exact") : calls[i].name = uri

\* The patterns of globs were registered by the calls of S, the k-th one by call f[k], in
\* the order of the calls.
FollowsBy(globs, f, S) ==
    /\ f \in [DOMAIN globs -> S]
    /\ \A k, l \in DOMAIN globs : k < l => f[k] < f[l]
    /\ \A i \in S : \E k \in DOMAIN globs : f[k] = i
    /\ \A k \in DOMAIN globs :
         globs[k].pattern = calls[f[k]].name /\ globs[k].servlet = calls[f[k]].servlet

DispatchInv == DispatchTypes /\ DatasFollow /\ \E f : FollowsBy(m_globs, f, Standing("glob"))

\* An empty dispatcher.
LEMMA InitDispatchInv == DispatchInit => DispatchInv
<1> SUFFICES ASSUME DispatchInit PROVE DispatchInv
  OBVIOUS
<1>1. calls = <<>> /\ m_globs = <<>> /\ m_datas = [uri \in Uris |-> NoServlet]
  BY DEF DispatchInit
<1>2. \A table : Standing(table) = {}
  BY <1>1 DEF Standing
<1>3. DispatchTypes
  BY <1>1 DEF DispatchTypes
<1>4. DatasFollow
  BY <1>1, <1>2 DEF DatasFollow
<1>5. FollowsBy(m_globs, [k \in {} |-> 0], Standing("glob"))
  BY <1>1, <1>2 DEF FollowsBy
<1> QED BY <1>3, <1>4, <1>5 DEF DispatchInv

\* A call overrules those of its table and name before it.
LEMMA StandingAfter ==
    ASSUME DispatchTypes, NEW call \in DispatchCall, calls' = Append(calls, call),
           NEW n \in Nat, n = Len(calls)
    PROVE  /\ calls' \in Seq(DispatchCall)
           /\ \A table : Standing(table) \subseteq 1 .. n
           /\ \A i \in 1 .. n : calls'[i] = calls[i]
           /\ calls'[n + 1] = call
           /\ \A table : Standing(table)' =
                {i \in Standing(table) : call.table = table => calls[i].name # call.name}
                    \cup {i \in {n + 1} : call.table = table /\ call.servlet # NoServlet}
<1>1. calls \in Seq(DispatchCall) /\ DOMAIN calls = 1 .. n
  BY DEF DispatchTypes
<1>2. /\ calls' \in Seq(DispatchCall) /\ Len(calls') = n + 1 /\ DOMAIN calls' = 1 .. n + 1
      /\ calls'[n + 1] = call /\ \A i \in 1 .. n : calls'[i] = calls[i]
  BY <1>1
<1>3. ASSUME NEW table
      PROVE  Standing(table)' =
                {i \in Standing(table) : call.table = table => calls[i].name # call.name}
                    \cup {i \in {n + 1} : call.table = table /\ call.servlet # NoServlet}
  <2>1. Standing(table) =
            {i \in 1 .. n :
                /\ calls[i].table = table /\ calls[i].servlet # NoServlet
                /\ \A j \in i + 1 .. n : calls[j].table = table => calls[j].name # calls[i].name}
    BY <1>1 DEF Standing
  <2>2. Standing(table)' =
            {i \in 1 .. n + 1 :
                /\ calls'[i].table = table /\ calls'[i].servlet # NoServlet
                /\ \A j \in i + 1 .. n + 1 :
                     calls'[j].table = table => calls'[j].name # calls'[i].name}
    BY <1>2 DEF Standing
  <2>3. ASSUME NEW i \in 1 .. n
        PROVE  i \in Standing(table)' <=>
                 i \in Standing(table) /\ (call.table = table => calls[i].name # call.name)
    <3>1. i + 1 .. n + 1 = (i + 1 .. n) \cup {n + 1} /\ i + 1 .. n \subseteq 1 .. n
      OBVIOUS
    <3> QED BY <1>2, <2>1, <2>2, <2>3, <3>1
  <2>4. n + 1 \in Standing(table)' <=> call.table = table /\ call.servlet # NoServlet
    <3>1. (n + 1) + 1 .. n + 1 = {}
      OBVIOUS
    <3> QED BY <1>2, <2>2, <3>1
  <2>5. Standing(table) \subseteq 1 .. n /\ Standing(table)' \subseteq (1 .. n) \cup {n + 1}
    BY <2>1, <2>2
  <2>6. n + 1 \notin 1 .. n
    OBVIOUS
  <2> QED BY <2>3, <2>4, <2>5, <2>6
<1>4. \A table : Standing(table) \subseteq 1 .. n
  BY <1>1 DEF Standing
<1> QED BY <1>2, <1>3, <1>4

\* Two standing calls of a table have two names.
LEMMA StandingNames ==
    ASSUME DispatchTypes, NEW table, NEW i \in Standing(table), NEW j \in Standing(table),
           calls[i].name = calls[j].name
    PROVE  i = j
<1>1. PICK n \in Nat : n = Len(calls)
  BY DEF DispatchTypes
<1>2. DOMAIN calls = 1 .. n
  BY <1>1 DEF DispatchTypes
<1>3. /\ i \in 1 .. n /\ calls[i].table = table
      /\ \A k \in i + 1 .. n : calls[k].table = table => calls[k].name # calls[i].name
      /\ j \in 1 .. n /\ calls[j].table = table
      /\ \A k \in j + 1 .. n : calls[k].table = table => calls[k].name # calls[j].name
  BY <1>1, <1>2 DEF Standing
<1>4. ~ i < j /\ ~ j < i
  BY <1>3
<1> QED BY <1>3, <1>4

\* The table of the exact names after a call that sets the servlet of a name.
LEMMA DatasStep ==
    ASSUME DispatchInv, NEW uri \in Uris, NEW slt \in Servlets \cup {NoServlet},
           Called("exact", uri, slt), m_datas' = [m_datas EXCEPT ![uri] = slt],
           UNCHANGED m_globs
    PROVE  DispatchInv'
<1> DEFINE call == [table |-> "exact", name |-> uri, servlet |-> slt]
<1>1. call \in DispatchCall /\ calls' = Append(calls, call)
  BY DEF DispatchCall, Called
<1>2. call.table = "exact" /\ call.name = uri /\ call.servlet = slt
  OBVIOUS
<1> HIDE DEF call
<1>3. PICK n \in Nat : n = Len(calls)
  BY DEF DispatchInv, DispatchTypes
<1>4. /\ calls' \in Seq(DispatchCall)
      /\ \A table : Standing(table) \subseteq 1 .. n
      /\ \A i \in 1 .. n : calls'[i] = calls[i]
      /\ calls'[n + 1] = call
      /\ \A table : Standing(table)' =
           {i \in Standing(table) : call.table = table => calls[i].name # call.name}
               \cup {i \in {n + 1} : call.table = table /\ call.servlet # NoServlet}
  BY <1>1, <1>3, StandingAfter DEF DispatchInv
<1>5. Standing("glob")' = Standing("glob")
  BY <1>2, <1>4
<1>6. Standing("exact")' =
          {i \in Standing("exact") : calls[i].name # uri} \cup {i \in {n + 1} : slt # NoServlet}
  BY <1>2, <1>4
<1>7. DispatchTypes'
  BY <1>4 DEF DispatchInv, DispatchTypes
<1>8. DatasFollow'
  <2>1. /\ m_datas'[uri] = slt
        /\ \A other \in Uris : other # uri => m_datas'[other] = m_datas[other]
    BY DEF DispatchInv, DispatchTypes
  <2> SUFFICES ASSUME NEW other \in Uris
               PROVE  /\ \A i \in Standing("exact")' :
                           calls'[i].name = other => m_datas'[other] = calls'[i].servlet
                      /\ m_datas'[other] # NoServlet =>
                           \E i \in Standing("exact")' : calls'[i].name = other
    BY DEF DatasFollow
  <2>2. CASE other = uri
    BY <1>2, <1>4, <1>6, <2>1, <2>2
  <2>3. CASE other # uri
    BY <1>2, <1>4, <1>6, <2>1, <2>3 DEF DispatchInv, DatasFollow
  <2> QED BY <2>2, <2>3
<1>9. \E f : FollowsBy(m_globs, f, Standing("glob"))'
  <2>1. PICK f : FollowsBy(m_globs, f, Standing("glob"))
    BY DEF DispatchInv
  <2>2. FollowsBy(m_globs, f, Standing("glob"))'
    BY <1>4, <1>5, <2>1 DEF FollowsBy
  <2> QED BY <2>2
<1> QED BY <1>7, <1>8, <1>9 DEF DispatchInv

\* w is s, of length n, without its k-th element.
LeavesOut(w, s, k, n) ==
    /\ Len(w) = n - 1
    /\ \A i \in 1 .. k - 1 : w[i] = s[i]
    /\ \A i \in k .. n - 1 : w[i] = s[i + 1]

\* RemoveAt() leaves out one element.
LEMMA RemoveOne ==
    ASSUME NEW D, NEW s \in Seq(D), NEW n \in Nat, n = Len(s), NEW k \in 1 .. n
    PROVE  RemoveAt(s, k) \in Seq(D) /\ LeavesOut(RemoveAt(s, k), s, k, n)
<1>w. PICK w : w = RemoveAt(s, k)
  OBVIOUS
<1> DEFINE front == SubSeq(s, 1, k - 1)
           back  == SubSeq(s, k + 1, n)
<1>1. front \in Seq(D) /\ Len(front) = k - 1 /\ \A i \in 1 .. k - 1 : front[i] = s[i]
  <2>1. k - 1 \in Nat /\ k - 1 <= Len(s)
    OBVIOUS
  <2>2. 0 + 1 = 1 /\ (k - 1) - 0 = k - 1 /\ \A i \in 1 .. k - 1 : 0 + i = i
    OBVIOUS
  <2> QED BY <2>1, <2>2, CutOut
<1>2. back \in Seq(D) /\ Len(back) = n - k /\ \A i \in 1 .. n - k : back[i] = s[k + i]
  BY CutOut
<1>3. w = front \o back
  BY <1>w DEF RemoveAt
<1> HIDE DEF front, back
<1>4. /\ w \in Seq(D) /\ Len(w) = Len(front) + Len(back)
      /\ \A i \in 1 .. Len(front) + Len(back) :
           w[i] = IF i <= Len(front) THEN front[i] ELSE back[i - Len(front)]
  <2>1. front \in Seq(D) /\ back \in Seq(D)
    BY <1>1, <1>2
  <2> QED BY <1>3, <2>1, ConcatProperties
<1>5. Len(front) + Len(back) = n - 1
  BY <1>1, <1>2
<1>6. ASSUME NEW i \in 1 .. k - 1 PROVE w[i] = s[i]
  <2>1. i \in 1 .. n - 1 /\ i <= k - 1
    OBVIOUS
  <2>2. Len(front) = k - 1 /\ front[i] = s[i]
    BY <1>1
  <2> QED BY <1>4, <1>5, <2>1, <2>2
<1>7. ASSUME NEW i \in k .. n - 1 PROVE w[i] = s[i + 1]
  <2>1. i \in 1 .. n - 1 /\ ~ i <= k - 1
    OBVIOUS
  <2>2. w[i] = back[i - (k - 1)]
    BY <1>1, <1>4, <1>5, <2>1
  <2>3. i - (k - 1) \in 1 .. n - k /\ k + (i - (k - 1)) = i + 1
    OBVIOUS
  <2> QED BY <1>2, <2>2, <2>3
<1> QED BY <1>w, <1>4, <1>5, <1>6, <1>7 DEF LeavesOut

\* The standing calls of patterns but for one name.
OtherNames(pattern) == {i \in Standing("glob") : calls[i].name # pattern}

\* What is left of m_globs without a pattern follows the other calls.
LEMMA WithoutFollows ==
    ASSUME DispatchTypes, NEW f, FollowsBy(m_globs, f, Standing("glob")), NEW pattern
    PROVE  /\ Without(m_globs, pattern) \in Seq([pattern : Patterns, servlet : Servlets])
           /\ \E g : FollowsBy(Without(m_globs, pattern), g, OtherNames(pattern))
<1> DEFINE places == {i \in DOMAIN m_globs : m_globs[i].pattern = pattern}
<1>1. m_globs \in Seq([pattern : Patterns, servlet : Servlets])
  BY DEF DispatchTypes
<1>2. PICK n \in Nat : n = Len(m_globs) /\ DOMAIN m_globs = 1 .. n
  BY <1>1
<1>3. /\ f \in [1 .. n -> Standing("glob")]
      /\ \A k, l \in 1 .. n : k < l => f[k] < f[l]
      /\ \A i \in Standing("glob") : \E k \in 1 .. n : f[k] = i
      /\ \A k \in 1 .. n :
           m_globs[k].pattern = calls[f[k]].name /\ m_globs[k].servlet = calls[f[k]].servlet
  BY <1>2 DEF FollowsBy
<1>4. CASE places = {}
  <2>1. Without(m_globs, pattern) = m_globs
    BY <1>4 DEF Without
  <2>2. \A k \in 1 .. n : f[k] \in OtherNames(pattern)
    BY <1>2, <1>3, <1>4 DEF OtherNames
  <2>3. f \in [1 .. n -> OtherNames(pattern)]
    BY <1>3, <2>2
  <2>4. \A i \in OtherNames(pattern) : \E k \in 1 .. n : f[k] = i
    BY <1>3 DEF OtherNames
  <2>5. FollowsBy(m_globs, f, OtherNames(pattern))
    BY <1>2, <1>3, <2>3, <2>4 DEF FollowsBy
  <2> QED BY <1>1, <2>1, <2>5
<1>5. CASE places # {}
  <2>1. PICK k : k = Min(places)
    OBVIOUS
  <2>2. Without(m_globs, pattern) = RemoveAt(m_globs, k)
    BY <1>5, <2>1 DEF Without
  <2>3. places \subseteq Nat
    BY <1>2
  <2>4. k \in places
    <3> HIDE DEF places
    <3> QED BY <1>5, <2>1, <2>3, LowestFree
  <2>5. k \in 1 .. n /\ calls[f[k]].name = pattern
    BY <1>2, <1>3, <2>4
  <2>6. PICK w : w = RemoveAt(m_globs, k)
    OBVIOUS
  <2>7. /\ w \in Seq([pattern : Patterns, servlet : Servlets]) /\ DOMAIN w = 1 .. n - 1
        /\ \A i \in 1 .. n - 1 : w[i] = IF i < k THEN m_globs[i] ELSE m_globs[i + 1]
    <3>1. n = Len(m_globs) /\ k \in 1 .. n
      BY <1>2, <2>5
    <3>2. /\ w \in Seq([pattern : Patterns, servlet : Servlets]) /\ Len(w) = n - 1
          /\ \A i \in 1 .. k - 1 : w[i] = m_globs[i]
          /\ \A i \in k .. n - 1 : w[i] = m_globs[i + 1]
      <4>1. w \in Seq([pattern : Patterns, servlet : Servlets]) /\ LeavesOut(w, m_globs, k, n)
        BY <1>1, <2>6, <3>1, RemoveOne
      <4> QED BY <4>1 DEF LeavesOut
    <3> QED BY <3>1, <3>2
  <2> DEFINE Old(i) == IF i < k THEN i ELSE i + 1
  <2>8. ASSUME NEW i \in 1 .. n - 1
        PROVE  Old(i) \in 1 .. n /\ Old(i) # k /\ w[i] = m_globs[Old(i)]
    BY <2>5, <2>7
  <2>9. \A i, j \in 1 .. n - 1 : i < j => Old(i) < Old(j)
    BY <2>5
  <2>10. \A j \in 1 .. n : j # k => \E i \in 1 .. n - 1 : Old(i) = j
    <3> SUFFICES ASSUME NEW j \in 1 .. n, j # k PROVE \E i \in 1 .. n - 1 : Old(i) = j
      OBVIOUS
    <3>1. CASE j < k
      BY <2>5, <3>1
    <3>2. CASE ~ j < k
      <4>1. j - 1 \in 1 .. n - 1 /\ Old(j - 1) = j
        BY <2>5, <3>2
      <4> QED BY <4>1
    <3> QED BY <3>1, <3>2
  <2> DEFINE g == [i \in 1 .. n - 1 |-> f[Old(i)]]
  <2>11. ASSUME NEW i \in 1 .. n - 1 PROVE g[i] = f[Old(i)] /\ g[i] \in OtherNames(pattern)
    <3> HIDE DEF Old
    <3>1. Old(i) \in 1 .. n /\ Old(i) # k
      BY <2>8
    <3>2. f[Old(i)] \in Standing("glob") /\ f[k] \in Standing("glob") /\ f[Old(i)] # f[k]
      <4>1. f[Old(i)] \in Standing("glob") /\ f[k] \in Standing("glob")
        BY <1>3, <2>5, <3>1
      <4>2. Standing("glob") \subseteq Int
        BY DEF Standing, DispatchTypes
      <4>3. Old(i) < k => f[Old(i)] < f[k]
        BY <1>3, <2>5, <3>1
      <4>4. k < Old(i) => f[k] < f[Old(i)]
        BY <1>3, <2>5, <3>1
      <4>5. Old(i) < k \/ k < Old(i)
        BY <2>5, <3>1
      <4> QED BY <4>1, <4>2, <4>3, <4>4, <4>5
    <3>3. calls[f[Old(i)]].name # pattern
      BY <2>5, <3>2, StandingNames
    <3> QED BY <3>2, <3>3 DEF OtherNames
  <2>12. g \in [1 .. n - 1 -> OtherNames(pattern)]
    BY <2>11
  <2> HIDE DEF Old, g
  <2>13. \A i, j \in 1 .. n - 1 : i < j => g[i] < g[j]
    BY <1>3, <2>8, <2>9, <2>11
  <2>14. ASSUME NEW i \in OtherNames(pattern) PROVE \E j \in 1 .. n - 1 : g[j] = i
    <3>1. i \in Standing("glob") /\ calls[i].name # pattern
      BY DEF OtherNames
    <3>2. PICK j \in 1 .. n : f[j] = i
      BY <1>3, <3>1
    <3>3. j # k
      BY <2>5, <3>1, <3>2
    <3>4. PICK m \in 1 .. n - 1 : Old(m) = j
      BY <2>10, <3>3
    <3> QED BY <2>11, <3>2, <3>4
  <2>15. \A i \in 1 .. n - 1 : w[i].pattern = calls[g[i]].name /\ w[i].servlet = calls[g[i]].servlet
    BY <1>3, <2>8, <2>11
  <2>16. FollowsBy(w, g, OtherNames(pattern))
    BY <2>7, <2>12, <2>13, <2>14, <2>15 DEF FollowsBy
  <2> QED BY <2>2, <2>6, <2>7, <2>16
<1> QED BY <1>4, <1>5

\* m_globs after a call that takes the pattern out, and puts it at the end for a servlet.
LEMMA GlobsStep ==
    ASSUME DispatchInv, NEW pattern \in Patterns, NEW slt \in Servlets \cup {NoServlet},
           Called("glob", pattern, slt), UNCHANGED m_datas,
           IF slt = NoServlet THEN m_globs' = Without(m_globs, pattern)
             ELSE m_globs' = Append(Without(m_globs, pattern),
                                    [pattern |-> pattern, servlet |-> slt])
    PROVE  DispatchInv'
<1> DEFINE call == [table |-> "glob", name |-> pattern, servlet |-> slt]
<1>1. call \in DispatchCall /\ calls' = Append(calls, call)
  BY DEF DispatchCall, Called
<1>2. call.table = "glob" /\ call.name = pattern /\ call.servlet = slt
  OBVIOUS
<1> HIDE DEF call
<1>3. PICK n \in Nat : n = Len(calls)
  BY DEF DispatchInv, DispatchTypes
<1>4. /\ calls' \in Seq(DispatchCall)
      /\ \A table : Standing(table) \subseteq 1 .. n
      /\ \A i \in 1 .. n : calls'[i] = calls[i]
      /\ calls'[n + 1] = call
      /\ \A table : Standing(table)' =
           {i \in Standing(table) : call.table = table => calls[i].name # call.name}
               \cup {i \in {n + 1} : call.table = table /\ call.servlet # NoServlet}
  BY <1>1, <1>3, StandingAfter DEF DispatchInv
<1>5. Standing("exact")' = Standing("exact")
  BY <1>2, <1>4
<1>6. Standing("glob")' = OtherNames(pattern) \cup {i \in {n + 1} : slt # NoServlet}
  BY <1>2, <1>4 DEF OtherNames
<1>7. OtherNames(pattern) \subseteq 1 .. n
  BY <1>4 DEF OtherNames
<1>8. DatasFollow'
  BY <1>4, <1>5 DEF DispatchInv, DatasFollow
<1>9. PICK w : w = Without(m_globs, pattern)
  OBVIOUS
<1>a. PICK g : FollowsBy(w, g, OtherNames(pattern))
  BY <1>9, WithoutFollows DEF DispatchInv
<1>10. /\ g \in [DOMAIN w -> OtherNames(pattern)]
       /\ \A k, l \in DOMAIN w : k < l => g[k] < g[l]
       /\ \A i \in OtherNames(pattern) : \E k \in DOMAIN w : g[k] = i
       /\ \A k \in DOMAIN w :
            w[k].pattern = calls[g[k]].name /\ w[k].servlet = calls[g[k]].servlet
  BY <1>a DEF FollowsBy
<1>11. w \in Seq([pattern : Patterns, servlet : Servlets])
  BY <1>9, WithoutFollows DEF DispatchInv
<1>12. CASE slt = NoServlet
  <2>1. m_globs' = w /\ Standing("glob")' = OtherNames(pattern)
    BY <1>6, <1>9, <1>12
  <2>2. FollowsBy(m_globs, g, Standing("glob"))'
    BY <1>4, <1>7, <1>10, <2>1 DEF FollowsBy
  <2> QED BY <1>4, <1>8, <1>11, <2>1, <2>2 DEF DispatchInv, DispatchTypes
<1>13. CASE slt # NoServlet
  <2> DEFINE entry == [pattern |-> pattern, servlet |-> slt]
  <2>1. m_globs' = Append(w, entry) /\ Standing("glob")' = OtherNames(pattern) \cup {n + 1}
    BY <1>6, <1>9, <1>13
  <2>2. entry \in [pattern : Patterns, servlet : Servlets]
    BY <1>13
  <2>3. entry.pattern = call.name /\ entry.servlet = call.servlet
    BY <1>2
  <2> HIDE DEF entry
  <2>4. PICK m \in Nat : m = Len(w) /\ DOMAIN w = 1 .. m
    BY <1>11
  <2>5. PICK v : v = m_globs'
    OBVIOUS
  <2>6. /\ v \in Seq([pattern : Patterns, servlet : Servlets])
        /\ DOMAIN v = 1 .. m + 1 /\ v[m + 1] = entry /\ \A k \in 1 .. m : v[k] = w[k]
    BY <1>11, <2>1, <2>2, <2>4, <2>5
  <2> DEFINE h == [k \in 1 .. m + 1 |-> IF k = m + 1 THEN n + 1 ELSE g[k]]
  <2>7. /\ h \in [1 .. m + 1 -> OtherNames(pattern) \cup {n + 1}]
        /\ h[m + 1] = n + 1 /\ \A k \in 1 .. m : h[k] = g[k]
    BY <1>10, <2>4
  <2> HIDE DEF h
  <2>8. ASSUME NEW k \in 1 .. m + 1, NEW l \in 1 .. m + 1, k < l PROVE h[k] < h[l]
    <3>1. k \in 1 .. m
      BY <2>8
    <3>2. CASE l = m + 1
      <4>1. h[k] \in 1 .. n
        BY <1>7, <1>10, <2>4, <2>7, <3>1
      <4> QED BY <2>7, <3>2, <4>1
    <3>3. CASE l # m + 1
      <4>1. l \in 1 .. m
        BY <3>3
      <4> QED BY <1>10, <2>4, <2>7, <2>8, <3>1, <4>1
    <3> QED BY <3>2, <3>3
  <2>9. ASSUME NEW i \in OtherNames(pattern) \cup {n + 1} PROVE \E k \in 1 .. m + 1 : h[k] = i
    <3>1. CASE i = n + 1
      BY <2>7, <3>1
    <3>2. CASE i \in OtherNames(pattern)
      <4>1. PICK k \in 1 .. m : g[k] = i
        BY <1>10, <2>4, <3>2
      <4>2. k \in 1 .. m + 1
        OBVIOUS
      <4> QED BY <2>7, <4>1, <4>2
    <3> QED BY <3>1, <3>2
  <2>10. ASSUME NEW k \in 1 .. m + 1
         PROVE  v[k].pattern = calls'[h[k]].name /\ v[k].servlet = calls'[h[k]].servlet
    <3>1. CASE k = m + 1
      <4>1. v[k] = entry /\ calls'[h[k]] = call
        BY <1>4, <2>6, <2>7, <3>1
      <4> QED BY <2>3, <4>1
    <3>2. CASE k # m + 1
      <4>1. k \in 1 .. m
        BY <3>2
      <4>2. g[k] \in 1 .. n
        BY <1>7, <1>10, <2>4, <4>1
      <4>3. v[k] = w[k] /\ h[k] = g[k] /\ calls'[g[k]] = calls[g[k]]
        BY <1>4, <2>6, <2>7, <4>1, <4>2
      <4> QED BY <1>10, <2>4, <4>1, <4>3
    <3> QED BY <3>1, <3>2
  <2>11. FollowsBy(m_globs, h, Standing("glob"))'
    BY <2>1, <2>5, <2>6, <2>7, <2>8, <2>9, <2>10 DEF FollowsBy
  <2> QED BY <1>4, <1>8, <2>5, <2>6, <2>11 DEF DispatchInv, DispatchTypes
<1> QED BY <1>12, <1>13

\* Every call keeps the invariant.
LEMMA NextDispatchInv ==
    ASSUME DispatchInv, [DispatchNext]_dispatchVars
    PROVE  DispatchInv'
<1>1. ASSUME NEW uri \in Uris, NEW slt \in Servlets, AddServlet(uri, slt) PROVE DispatchInv'
  BY <1>1, DatasStep DEF AddServlet
<1>2. ASSUME NEW uri \in Uris, DelServlet(uri) PROVE DispatchInv'
  BY <1>2, DatasStep DEF DelServlet
<1>3. ASSUME NEW pattern \in Patterns, NEW slt \in Servlets, AddGlobServlet(pattern, slt)
      PROVE  DispatchInv'
  <2>1. slt # NoServlet
    BY DispatchConstants
  <2> QED BY <1>3, <2>1, GlobsStep DEF AddGlobServlet
<1>4. ASSUME NEW pattern \in Patterns, DelGlobServlet(pattern) PROVE DispatchInv'
  BY <1>4, GlobsStep DEF DelGlobServlet
<1>5. CASE UNCHANGED dispatchVars
  <2>1. UNCHANGED <<m_datas, m_globs, calls>>
    BY <1>5 DEF dispatchVars
  <2>2. \A table : Standing(table)' = Standing(table)
    BY <2>1 DEF Standing
  <2>3. PICK f : FollowsBy(m_globs, f, Standing("glob"))
    BY DEF DispatchInv
  <2>4. FollowsBy(m_globs, f, Standing("glob"))'
    BY <2>1, <2>2, <2>3 DEF FollowsBy
  <2>5. DispatchTypes' /\ DatasFollow'
    BY <2>1, <2>2 DEF DispatchInv, DispatchTypes, DatasFollow
  <2> QED BY <2>4, <2>5 DEF DispatchInv
<1> QED BY <1>1, <1>2, <1>3, <1>4, <1>5 DEF DispatchNext

\* The first pattern that matches is that of the oldest standing call that matches.
LEMMA FirstMatch ==
    ASSUME DispatchTypes, NEW f, FollowsBy(m_globs, f, Standing("glob")), NEW uri,
           NEW hits, hits = {k \in DOMAIN m_globs : <<m_globs[k].pattern, uri>> \in Fnmatch},
           NEW globs, globs = {i \in Standing("glob") : <<calls[i].name, uri>> \in Fnmatch}
    PROVE  /\ hits = {} <=> globs = {}
           /\ hits # {} => m_globs[Min(hits)].servlet = calls[Min(globs)].servlet
<1>1. PICK n \in Nat : DOMAIN m_globs = 1 .. n
  BY DEF DispatchTypes
<1>2. Standing("glob") \subseteq Nat
  BY DEF Standing, DispatchTypes
<1>3. /\ f \in [1 .. n -> Standing("glob")]
      /\ \A k, l \in 1 .. n : k < l => f[k] < f[l]
      /\ \A i \in Standing("glob") : \E k \in 1 .. n : f[k] = i
      /\ \A k \in 1 .. n :
           m_globs[k].pattern = calls[f[k]].name /\ m_globs[k].servlet = calls[f[k]].servlet
  BY <1>1 DEF FollowsBy
<1>4. \A k \in hits : k \in 1 .. n /\ f[k] \in globs
  BY <1>1, <1>3
<1>5. ASSUME NEW i \in globs PROVE \E k \in hits : f[k] = i
  BY <1>1, <1>3
<1>6. hits \subseteq Nat /\ globs \subseteq Nat
  BY <1>1, <1>2
<1>7. ASSUME hits # {} PROVE m_globs[Min(hits)].servlet = calls[Min(globs)].servlet
  <2>1. globs # {}
    BY <1>4, <1>7
  <2>2. Min(hits) \in hits /\ \A k \in hits : Min(hits) <= k
    BY <1>6, <1>7, LowestFree
  <2>3. Min(globs) \in globs /\ \A i \in globs : Min(globs) <= i
    BY <1>6, <2>1, LowestFree
  <2>4. PICK k \in hits : f[k] = Min(globs)
    BY <1>5, <2>3
  <2>5. PICK m : m = Min(hits)
    OBVIOUS
  <2>6. m \in 1 .. n /\ k \in 1 .. n /\ m <= k
    BY <1>4, <2>2, <2>4, <2>5
  <2>7. f[m] \in Nat /\ f[k] \in Nat /\ f[k] <= f[m]
    BY <1>4, <1>6, <2>2, <2>3, <2>4, <2>5
  <2>8. ~ m < k
    BY <1>3, <2>6, <2>7
  <2>9. m = k
    BY <2>6, <2>8
  <2> QED BY <1>3, <2>4, <2>5, <2>6, <2>9
<1> QED BY <1>4, <1>5, <1>7

\* The match, from the two tables.
LEMMA MatchFromInv == DispatchInv => MatchFollowsCalls
<1> SUFFICES ASSUME DispatchInv, NEW uri \in Uris,
                    NEW exact, exact = {i \in Standing("exact") : calls[i].name = uri},
                    NEW globs,
                    globs = {i \in Standing("glob") : <<calls[i].name, uri>> \in Fnmatch}
             PROVE  GetMatchedServlet(uri) =
                        IF exact # {} THEN calls[Max(exact)].servlet
                        ELSE IF globs # {} THEN calls[Min(globs)].servlet
                        ELSE m_default
  BY Zenon DEF MatchFollowsCalls
<1>1. PICK hits : hits = {k \in DOMAIN m_globs : <<m_globs[k].pattern, uri>> \in Fnmatch}
  OBVIOUS
<1>2. /\ hits = {} <=> globs = {}
      /\ hits # {} => m_globs[Min(hits)].servlet = calls[Min(globs)].servlet
  BY <1>1, FirstMatch DEF DispatchInv
<1>3. GetMatchedServlet(uri) =
          IF m_datas[uri] # NoServlet THEN m_datas[uri]
          ELSE IF hits # {} THEN m_globs[Min(hits)].servlet
          ELSE m_default
  BY <1>1 DEF GetMatchedServlet
<1>4. exact \subseteq Int /\ \A i \in exact : calls[i].servlet # NoServlet
  BY DEF Standing, DispatchInv, DispatchTypes
<1>5. \A i, j \in exact : i = j
  BY StandingNames DEF DispatchInv
<1>6. exact # {} => Max(exact) \in exact
  BY <1>4, <1>5 DEF Max
<1>7. /\ \A i \in exact : m_datas[uri] = calls[i].servlet
      /\ m_datas[uri] # NoServlet => exact # {}
  BY DEF DispatchInv, DatasFollow
<1>8. CASE exact # {}
  BY <1>3, <1>4, <1>6, <1>7, <1>8
<1>9. CASE exact = {}
  BY <1>2, <1>3, <1>7, <1>9
<1> QED BY <1>8, <1>9

\* What getMatchedServlet() finds is decided by the calls alone: the last registration of
\* the exact name, else the oldest standing pattern that matches, else the default
\* (servlet.cc:107-123), however names and patterns are added and deleted.
THEOREM MatchFollowsCallsHolds == DispatchSpec => []MatchFollowsCalls
<1>1. DispatchInv /\ [DispatchNext]_dispatchVars => DispatchInv'
  BY NextDispatchInv
<1> QED BY <1>1, InitDispatchInv, MatchFromInv, PTL DEF DispatchSpec
=============================================================================
