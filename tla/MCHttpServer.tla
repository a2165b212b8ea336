---------------------------- MODULE MCHttpServer ----------------------------
(* One address and a client that may send its requests ahead, with or        *)
(* without a body.                                                           *)
EXTENDS HttpServer

CONSTANTS c1, s1

OneClient == {c1}
OneSock   == {s1}
SomeKinds == {[keepalive |-> k, body |-> b] : k, b \in BOOLEAN}

\* Bound: a behaviour has at most two calls of stop() and requests of a client, taken
\* together.  It restrains only the user and the clients, who are not fair.
StopsOrRequests == \A c \in Clients : stops' + Len(sent'[c]) <= MaxRequests

BoundedSpec == Init /\ [][Next /\ StopsOrRequests]_vars /\ Fairness
=============================================================================
