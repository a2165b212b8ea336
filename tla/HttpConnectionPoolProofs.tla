---------------------- MODULE HttpConnectionPoolProofs ----------------------
(***************************************************************************)
(* Proofs about HttpConnectionPool for every number of users, connections, *)
(* calls and requests per connection.                                      *)
(***************************************************************************)
EXTENDS HttpConnectionPool, FiniteSetTheorems, SequenceTheorems, TLAPS

-----------------------------------------------------------------------------
(* Where a connection is.                                                  *)

Listed(c)    == \E i \in 1 .. Len(m_conns) : m_conns[i] = c
Doomed(u, c) == pc[u] = "delete" /\ c \in invalid[u]

Types ==
    /\ m_conns \in Seq(Conns) /\ m_total \in Int
    /\ used \in SUBSET Conns /\ live \in SUBSET used
    /\ pc \in [Users -> Pc]
    /\ conn \in [Users -> Conns \cup {Null}] /\ invalid \in [Users -> SUBSET Conns]

\* What a user has at each place of doRequest().
Holds ==
    \A u \in Users :
        /\ pc[u] \in {"out", "get", "make", "drop"} => conn[u] = Null
        /\ pc[u] \in {"add", "send", "recv", "release"} => conn[u] # Null
        /\ pc[u] \notin {"delete", "subtract"} => invalid[u] = {}

\* A connection is in one place only, and it exists if and only if it is in one.
Places ==
    /\ \A i, j \in 1 .. Len(m_conns) : m_conns[i] = m_conns[j] => i = j
    /\ \A c \in Conns, u \in Users :
         /\ Listed(c) => conn[u] # c /\ ~ Doomed(u, c)
         /\ \A v \in Users :
              /\ conn[u] = c => ~ Doomed(v, c)
              /\ conn[u] = c /\ conn[v] = c => u = v
              /\ Doomed(u, c) /\ Doomed(v, c) => u = v
    /\ \A c \in Conns :
         c \in live <=> Listed(c) \/ \E u \in Users : conn[u] = c \/ Doomed(u, c)

\* Connections that were deleted and are still counted belong to one user.
Deleted ==
    \A u \in Users : pc[u] = "subtract" =>
        /\ invalid[u] \subseteq used /\ invalid[u] \cap live = {}
        /\ \A v \in Users \ {u} : pc[v] = "subtract" => invalid[u] \cap invalid[v] = {}

PlaceInv == Types /\ Holds /\ Places /\ Deleted

LEMMA InitPlaceInv == Init => PlaceInv
<1> SUFFICES ASSUME Init PROVE PlaceInv
  OBVIOUS
<1>1. m_conns = <<>> /\ Len(m_conns) = 0 /\ \A c \in Conns : ~ Listed(c)
  BY DEF Init, Listed
<1>2. Types
  BY <1>1 DEF Init, Types, Pc
<1>3. Holds /\ Deleted
  BY DEF Init, Holds, Deleted
<1>4. Places
  BY <1>1, PoolConstants DEF Init, Places, Doomed
<1> QED BY <1>2, <1>3, <1>4 DEF PlaceInv

\* A user moves on with what it has.
LEMMA PlaceMove ==
    ASSUME PlaceInv, NEW u \in Users, NEW place \in Pc, pc' = [pc EXCEPT ![u] = place],
           pc[u] \notin {"delete", "subtract"}, place \notin {"delete", "subtract"},
           place \in {"out", "get", "make", "drop"} => conn[u] = Null,
           place \in {"add", "send", "recv", "release"} => conn[u] # Null,
           m_total' \in Int, UNCHANGED <<m_conns, live, used, conn, invalid>>
    PROVE  PlaceInv'
<1>1. Types'
  BY DEF PlaceInv, Types
<1>2. \A v \in Users : pc'[v] = IF v = u THEN place ELSE pc[v]
  BY DEF PlaceInv, Types
<1>3. \A v \in Users, c \in Conns : Doomed(v, c)' <=> Doomed(v, c)
  BY <1>2 DEF Doomed
<1>4. \A c \in Conns : Listed(c)' <=> Listed(c)
  BY DEF Listed
<1>5. Places'
  BY <1>3, <1>4 DEF PlaceInv, Places
<1>6. Holds'
  BY <1>2 DEF PlaceInv, Holds
<1>7. Deleted'
  BY <1>2 DEF PlaceInv, Deleted
<1> QED BY <1>1, <1>5, <1>6, <1>7 DEF PlaceInv

\* Nothing of this is touched.
LEMMA PlaceSame ==
    ASSUME PlaceInv, UNCHANGED <<m_conns, m_total, live, used, pc, conn, invalid>>
    PROVE  PlaceInv'
<1>1. \A v \in Users, c \in Conns : Doomed(v, c)' <=> Doomed(v, c)
  BY DEF Doomed
<1>2. \A c \in Conns : Listed(c)' <=> Listed(c)
  BY DEF Listed
<1>3. Places'
  BY <1>1, <1>2 DEF PlaceInv, Places
<1> QED BY <1>3 DEF PlaceInv, Types, Holds, Deleted

-----------------------------------------------------------------------------
(* The list.                                                               *)

LEMMA PopPlaces ==
    ASSUME PlaceInv, NEW u \in Users, Pop(u)
    PROVE  PlaceInv'
<1>1. PICK n \in 0 .. Len(m_conns) :
          /\ \A i \in 1 .. n : ~ connected[m_conns[i]]
          /\ invalid' = [invalid EXCEPT ![u] = {m_conns[i] : i \in 1 .. n}]
          /\ IF n < Len(m_conns)
               THEN /\ conn' = [conn EXCEPT ![u] = m_conns[n + 1]]
                    /\ m_conns' = SubSeq(m_conns, n + 2, Len(m_conns))
               ELSE m_conns' = <<>> /\ UNCHANGED conn
  BY DEF Pop
<1>2. /\ pc[u] = "get" /\ pc' = [pc EXCEPT ![u] = "delete"]
      /\ UNCHANGED <<m_total, live, used>>
  BY DEF Pop, At, Goto
<1>3. /\ m_conns \in Seq(Conns) /\ Len(m_conns) \in Nat /\ n \in Nat /\ n <= Len(m_conns)
      /\ \A i \in 1 .. Len(m_conns) : m_conns[i] \in Conns
      /\ conn[u] = Null /\ invalid[u] = {}
  <2>1. m_conns \in Seq(Conns)
    BY DEF PlaceInv, Types
  <2> QED BY <1>2, <2>1, LenProperties, ElementOfSeq DEF PlaceInv, Holds
<1> DEFINE gone == {m_conns[i] : i \in 1 .. n}
<1>4. gone \in SUBSET Conns
  BY <1>3
<1>5. /\ m_conns' \in Seq(Conns)
      /\ Len(m_conns') = IF n < Len(m_conns) THEN Len(m_conns) - (n + 1) ELSE 0
      /\ \A i \in 1 .. Len(m_conns') : m_conns'[i] = m_conns[n + 1 + i]
  <2>1. CASE n < Len(m_conns)
    <3>1. /\ n + 2 \in 1 .. Len(m_conns) + 1 /\ Len(m_conns) \in n + 2 - 1 .. Len(m_conns)
      BY <1>3, <2>1
    <3>2. m_conns' = SubSeq(m_conns, n + 2, Len(m_conns))
      BY <1>1, <2>1
    <3> HIDE DEF gone
    <3>3. /\ m_conns' \in Seq(Conns)
          /\ Len(m_conns') = Len(m_conns) - (n + 2) + 1
          /\ \A i \in 1 .. Len(m_conns) - (n + 2) + 1 : m_conns'[i] = m_conns[(n + 2) + i - 1]
      BY <1>3, <3>1, <3>2, SubSeqProperties
    <3> QED BY <1>3, <2>1, <3>3
  <2>2. CASE ~ (n < Len(m_conns))
    BY <1>1, <2>2
  <2> QED BY <2>1, <2>2
<1>6. ASSUME NEW c \in Conns PROVE Listed(c)' <=> \E i \in n + 2 .. Len(m_conns) : m_conns[i] = c
  <2>1. ASSUME NEW i \in 1 .. Len(m_conns'), m_conns'[i] = c
        PROVE  n + 1 + i \in n + 2 .. Len(m_conns) /\ m_conns[n + 1 + i] = c
    BY <1>3, <1>5, <2>1
  <2>2. ASSUME NEW i \in n + 2 .. Len(m_conns), m_conns[i] = c
        PROVE  i - (n + 1) \in 1 .. Len(m_conns') /\ m_conns'[i - (n + 1)] = c
    <3>1. n < Len(m_conns) /\ i - (n + 1) \in 1 .. Len(m_conns')
      BY <1>3, <1>5, <2>2
    <3>2. m_conns'[i - (n + 1)] = m_conns[n + 1 + (i - (n + 1))]
      BY <1>5, <3>1
    <3>3. n + 1 + (i - (n + 1)) = i
      BY <1>3
    <3> QED BY <2>2, <3>1, <3>2, <3>3
  <2> QED BY <2>1, <2>2 DEF Listed
<1>7. ASSUME NEW c \in Conns
      PROVE  /\ c \in gone <=> \E i \in 1 .. n : m_conns[i] = c
             /\ Listed(c) <=> Listed(c)' \/ c \in gone \/ (n < Len(m_conns) /\ c = m_conns[n + 1])
             /\ ~ (Listed(c)' /\ c \in gone)
             /\ n < Len(m_conns) /\ c = m_conns[n + 1] => c \notin gone /\ ~ Listed(c)'
  <2>1. c \in gone <=> \E i \in 1 .. n : m_conns[i] = c
    OBVIOUS
  <2>2. \A i, j \in 1 .. Len(m_conns) : m_conns[i] = m_conns[j] => i = j
    BY DEF PlaceInv, Places
  <2> HIDE DEF gone
  <2> QED BY <1>3, <1>6, <2>1, <2>2 DEF Listed
<1>8. \A v \in Users, c \in Conns :
         conn'[v] = c <=> conn[v] = c \/ (v = u /\ n < Len(m_conns) /\ c = m_conns[n + 1])
  BY <1>1, <1>3, PoolConstants DEF PlaceInv, Types
<1>9. \A v \in Users, c \in Conns : Doomed(v, c)' <=> Doomed(v, c) \/ (v = u /\ c \in gone)
  <2>1. \A v \in Users : /\ invalid'[v] = IF v = u THEN gone ELSE invalid[v]
                         /\ pc'[v] = IF v = u THEN "delete" ELSE pc[v]
    BY <1>1, <1>2 DEF PlaceInv, Types
  <2> HIDE DEF gone
  <2> QED BY <1>2, <2>1 DEF Doomed
<1> HIDE DEF gone
<1>10. Types'
  <2>1. conn' \in [Users -> Conns \cup {Null}]
    BY <1>1, <1>3 DEF PlaceInv, Types
  <2>2. invalid' \in [Users -> SUBSET Conns]
    BY <1>1, <1>4 DEF PlaceInv, Types, gone
  <2> QED BY <1>2, <1>5, <2>1, <2>2 DEF PlaceInv, Types, Pc
<1>11. Holds'
  BY <1>1, <1>2 DEF PlaceInv, Types, Holds
<1>12. Deleted'
  BY <1>1, <1>2 DEF PlaceInv, Types, Deleted
<1>13. Places'
  <2>1. \A i, j \in 1 .. Len(m_conns') : m_conns'[i] = m_conns'[j] => i = j
    <3>1. ASSUME NEW i \in 1 .. Len(m_conns'), NEW j \in 1 .. Len(m_conns'), m_conns'[i] = m_conns'[j]
          PROVE  i = j
      <4>1. m_conns[n + 1 + i] = m_conns[n + 1 + j] /\ n + 1 + i \in 1 .. Len(m_conns) /\ n + 1 + j \in 1 .. Len(m_conns)
        BY <1>3, <1>5, <3>1
      <4>2. n + 1 + i = n + 1 + j
        BY <4>1 DEF PlaceInv, Places
      <4> QED BY <1>3, <1>5, <4>2
    <3> QED BY <3>1
  <2>2. ASSUME NEW c \in Conns, NEW v \in Users
        PROVE  Listed(c)' => conn'[v] # c /\ ~ Doomed(v, c)'
    BY <1>7, <1>8, <1>9 DEF PlaceInv, Places
  <2>3. ASSUME NEW c \in Conns, NEW v \in Users, NEW w \in Users
        PROVE  /\ conn'[v] = c => ~ Doomed(w, c)'
               /\ conn'[v] = c /\ conn'[w] = c => v = w
               /\ Doomed(v, c)' /\ Doomed(w, c)' => v = w
    BY <1>7, <1>8, <1>9 DEF PlaceInv, Places
  <2>4. ASSUME NEW c \in Conns
        PROVE  c \in live' <=> Listed(c)' \/ \E v \in Users : conn'[v] = c \/ Doomed(v, c)'
    BY <1>2, <1>7, <1>8, <1>9 DEF PlaceInv, Places
  <2> QED BY <2>1, <2>2, <2>3, <2>4 DEF Places
<1> QED BY <1>10, <1>11, <1>12, <1>13 DEF PlaceInv

\* ReleasePtr() puts the connection back.
LEMMA KeepPlaces ==
    ASSUME PlaceInv, NEW u \in Users, ReleaseKeep(u)
    PROVE  PlaceInv'
<1> DEFINE d == conn[u]
<1>1. /\ m_conns' = Append(m_conns, d) /\ conn' = [conn EXCEPT ![u] = Null]
      /\ pc[u] = "release" /\ pc' = [pc EXCEPT ![u] = "out"]
      /\ UNCHANGED <<m_total, live, used, invalid>>
  BY DEF ReleaseKeep, At, Goto
<1>2. d \in Conns /\ m_conns \in Seq(Conns) /\ d # Null
  BY <1>1 DEF PlaceInv, Types, Holds
<1> HIDE DEF d
<1>3. /\ m_conns' \in Seq(Conns) /\ Len(m_conns') = Len(m_conns) + 1 /\ Len(m_conns) \in Nat
      /\ \A i \in 1 .. Len(m_conns) : m_conns'[i] = m_conns[i]
      /\ m_conns'[Len(m_conns) + 1] = d
  BY <1>1, <1>2, AppendProperties, LenProperties
<1>4. \A c \in Conns : Listed(c)' <=> Listed(c) \/ c = d
  BY <1>3 DEF Listed
<1>5. \A v \in Users, c \in Conns : conn'[v] = c <=> conn[v] = c /\ v # u
  BY <1>1, PoolConstants DEF PlaceInv, Types
<1>6. \A v \in Users, c \in Conns : Doomed(v, c)' <=> Doomed(v, c)
  BY <1>1 DEF Doomed, PlaceInv, Types
<1>7. conn[u] = d
  BY DEF d
<1>8. ~ Listed(d)
  BY <1>2, <1>7 DEF PlaceInv, Places
<1>9. Places'
  <2>1. ASSUME NEW i \in 1 .. Len(m_conns'), NEW j \in 1 .. Len(m_conns'), m_conns'[i] = m_conns'[j]
        PROVE  i = j
    <3>1. \A k, l \in 1 .. Len(m_conns) : m_conns[k] = m_conns[l] => k = l
      BY DEF PlaceInv, Places
    <3>2. \A k \in 1 .. Len(m_conns) : m_conns[k] # d
      BY <1>8 DEF Listed
    <3> QED BY <1>3, <2>1, <3>1, <3>2
  <2>2. ASSUME NEW c \in Conns, NEW v \in Users, NEW w \in Users
        PROVE  /\ Listed(c)' => conn'[v] # c /\ ~ Doomed(v, c)'
               /\ conn'[v] = c => ~ Doomed(w, c)'
               /\ conn'[v] = c /\ conn'[w] = c => v = w
               /\ Doomed(v, c)' /\ Doomed(w, c)' => v = w
    BY <1>4, <1>5, <1>6, <1>7 DEF PlaceInv, Places
  <2>3. ASSUME NEW c \in Conns
        PROVE  c \in live' <=> Listed(c)' \/ \E v \in Users : conn'[v] = c \/ Doomed(v, c)'
    BY <1>1, <1>4, <1>5, <1>6, <1>7 DEF PlaceInv, Places
  <2> QED BY <2>1, <2>2, <2>3 DEF Places
<1>10. Types'
  BY <1>1, <1>3 DEF PlaceInv, Types, Pc
<1>11. Holds'
  BY <1>1 DEF PlaceInv, Types, Holds
<1>12. Deleted'
  BY <1>1 DEF PlaceInv, Types, Deleted
<1> QED BY <1>9, <1>10, <1>11, <1>12 DEF PlaceInv

-----------------------------------------------------------------------------
(* new and delete.                                                         *)

LEMMA DeletePlaces ==
    ASSUME PlaceInv, NEW u \in Users, DeleteInvalid(u)
    PROVE  PlaceInv'
<1>1. /\ pc[u] = "delete" /\ pc' = [pc EXCEPT ![u] = "subtract"] /\ live' = live \ invalid[u]
      /\ UNCHANGED <<m_conns, m_total, used, conn, invalid>>
  BY DEF DeleteInvalid, At, Goto
<1>2. \A v \in Users : pc'[v] = IF v = u THEN "subtract" ELSE pc[v]
  BY <1>1 DEF PlaceInv, Types
<1>3. \A v \in Users, c \in Conns : Doomed(v, c)' <=> Doomed(v, c) /\ v # u
  BY <1>1, <1>2 DEF Doomed
<1>4. \A c \in Conns : Listed(c)' <=> Listed(c)
  BY <1>1 DEF Listed
<1>5. \A c \in Conns : c \in invalid[u] <=> Doomed(u, c)
  BY <1>1 DEF Doomed
<1>6. Places'
  <2>1. \A i, j \in 1 .. Len(m_conns') : m_conns'[i] = m_conns'[j] => i = j
    BY <1>1 DEF PlaceInv, Places
  <2>2. ASSUME NEW c \in Conns, NEW v \in Users, NEW w \in Users
        PROVE  /\ Listed(c)' => conn'[v] # c /\ ~ Doomed(v, c)'
               /\ conn'[v] = c => ~ Doomed(w, c)'
               /\ conn'[v] = c /\ conn'[w] = c => v = w
               /\ Doomed(v, c)' /\ Doomed(w, c)' => v = w
    BY <1>1, <1>3, <1>4 DEF PlaceInv, Places
  <2>3. ASSUME NEW c \in Conns
        PROVE  c \in live' <=> Listed(c)' \/ \E v \in Users : conn'[v] = c \/ Doomed(v, c)'
    BY <1>1, <1>3, <1>4, <1>5 DEF PlaceInv, Places
  <2> QED BY <2>1, <2>2, <2>3 DEF Places
<1>7. Deleted'
  <2>1. \A c \in invalid[u] : c \in Conns /\ c \in live
    BY <1>5 DEF PlaceInv, Types, Places
  <2> QED BY <1>1, <1>2, <2>1 DEF PlaceInv, Types, Deleted
<1>8. Types'
  BY <1>1 DEF PlaceInv, Types, Pc
<1>9. Holds'
  BY <1>1, <1>2 DEF PlaceInv, Holds
<1> QED BY <1>6, <1>7, <1>8, <1>9 DEF PlaceInv

LEMMA SubtractPlaces ==
    ASSUME PlaceInv, NEW u \in Users, SubtractInvalid(u), Cardinality(invalid[u]) \in Int
    PROVE  PlaceInv'
<1> DEFINE place == IF conn[u] = Null THEN "make" ELSE "send"
<1>1. /\ pc[u] = "subtract" /\ pc' = [pc EXCEPT ![u] = place]
      /\ invalid' = [invalid EXCEPT ![u] = {}] /\ m_total' = m_total - Cardinality(invalid[u])
      /\ UNCHANGED <<m_conns, live, used, conn>>
  BY DEF SubtractInvalid, At, Goto
<1>2. \A v \in Users : /\ pc'[v] = IF v = u THEN place ELSE pc[v]
                       /\ invalid'[v] = IF v = u THEN {} ELSE invalid[v]
  BY <1>1 DEF PlaceInv, Types
<1>3. \A v \in Users, c \in Conns : Doomed(v, c)' <=> Doomed(v, c)
  BY <1>1, <1>2 DEF Doomed
<1>4. \A c \in Conns : Listed(c)' <=> Listed(c)
  BY <1>1 DEF Listed
<1>5. Places'
  BY <1>1, <1>3, <1>4 DEF PlaceInv, Places
<1>6. Types'
  BY <1>1 DEF PlaceInv, Types, Pc
<1>7. Holds'
  BY <1>1, <1>2 DEF PlaceInv, Holds
<1>8. Deleted'
  BY <1>1, <1>2 DEF PlaceInv, Deleted
<1> QED BY <1>5, <1>6, <1>7, <1>8 DEF PlaceInv

LEMMA ConnectPlaces ==
    ASSUME PlaceInv, NEW u \in Users, Connect(u)
    PROVE  PlaceInv'
<1>1. PICK d \in Conns \ used : /\ live' = live \cup {d} /\ used' = used \cup {d}
                                /\ conn' = [conn EXCEPT ![u] = d]
  BY DEF Connect
<1>2. /\ pc[u] = "make" /\ pc' = [pc EXCEPT ![u] = "add"]
      /\ UNCHANGED <<m_conns, m_total, invalid>>
  BY DEF Connect, At, Goto
<1>3. /\ d # Null /\ conn[u] = Null
      /\ \A v \in Users : pc'[v] = IF v = u THEN "add" ELSE pc[v]
  BY <1>2, PoolConstants DEF PlaceInv, Types, Holds
<1>4. \A v \in Users, c \in Conns : conn'[v] = c <=> conn[v] = c \/ (v = u /\ c = d)
  BY <1>1, <1>3, PoolConstants DEF PlaceInv, Types
<1>5. \A v \in Users, c \in Conns : Doomed(v, c)' <=> Doomed(v, c)
  BY <1>2, <1>3 DEF Doomed
<1>6. \A c \in Conns : Listed(c)' <=> Listed(c)
  BY <1>2 DEF Listed
<1>7. ~ Listed(d) /\ \A v \in Users : conn[v] # d /\ ~ Doomed(v, d)
  BY <1>1 DEF PlaceInv, Types, Places
<1>8. Places'
  <2>1. \A i, j \in 1 .. Len(m_conns') : m_conns'[i] = m_conns'[j] => i = j
    BY <1>2 DEF PlaceInv, Places
  <2>2. ASSUME NEW c \in Conns, NEW v \in Users, NEW w \in Users
        PROVE  /\ Listed(c)' => conn'[v] # c /\ ~ Doomed(v, c)'
               /\ conn'[v] = c => ~ Doomed(w, c)'
               /\ conn'[v] = c /\ conn'[w] = c => v = w
               /\ Doomed(v, c)' /\ Doomed(w, c)' => v = w
    BY <1>4, <1>5, <1>6, <1>7 DEF PlaceInv, Places
  <2>3. ASSUME NEW c \in Conns
        PROVE  c \in live' <=> Listed(c)' \/ \E v \in Users : conn'[v] = c \/ Doomed(v, c)'
    BY <1>1, <1>4, <1>5, <1>6 DEF PlaceInv, Places
  <2> QED BY <2>1, <2>2, <2>3 DEF Places
<1>9. Types'
  BY <1>1, <1>2 DEF PlaceInv, Types, Pc
<1>10. Holds'
  BY <1>1, <1>2, <1>3 DEF PlaceInv, Types, Holds
<1>11. Deleted'
  BY <1>1, <1>2, <1>3 DEF PlaceInv, Deleted
<1> QED BY <1>8, <1>9, <1>10, <1>11 DEF PlaceInv

LEMMA ReleaseDeletePlaces ==
    ASSUME PlaceInv, NEW u \in Users, ReleaseDelete(u)
    PROVE  PlaceInv'
<1> DEFINE d == conn[u]
<1>1. /\ pc[u] = "release" /\ pc' = [pc EXCEPT ![u] = "drop"]
      /\ live' = live \ {d} /\ conn' = [conn EXCEPT ![u] = Null]
      /\ UNCHANGED <<m_conns, m_total, used, invalid>>
  BY DEF ReleaseDelete, At, Goto
<1>2. d \in Conns /\ d # Null /\ conn[u] = d
  BY <1>1 DEF PlaceInv, Types, Holds
<1> HIDE DEF d
<1>3. \A v \in Users : pc'[v] = IF v = u THEN "drop" ELSE pc[v]
  BY <1>1 DEF PlaceInv, Types
<1>4. \A v \in Users, c \in Conns : conn'[v] = c <=> conn[v] = c /\ v # u
  BY <1>1, PoolConstants DEF PlaceInv, Types
<1>5. \A v \in Users, c \in Conns : Doomed(v, c)' <=> Doomed(v, c)
  BY <1>1, <1>3 DEF Doomed
<1>6. \A c \in Conns : Listed(c)' <=> Listed(c)
  BY <1>1 DEF Listed
<1>7. Places'
  <2>1. \A i, j \in 1 .. Len(m_conns') : m_conns'[i] = m_conns'[j] => i = j
    BY <1>1 DEF PlaceInv, Places
  <2>2. ASSUME NEW c \in Conns, NEW v \in Users, NEW w \in Users
        PROVE  /\ Listed(c)' => conn'[v] # c /\ ~ Doomed(v, c)'
               /\ conn'[v] = c => ~ Doomed(w, c)'
               /\ conn'[v] = c /\ conn'[w] = c => v = w
               /\ Doomed(v, c)' /\ Doomed(w, c)' => v = w
    BY <1>4, <1>5, <1>6 DEF PlaceInv, Places
  <2>3. ASSUME NEW c \in Conns
        PROVE  c \in live' <=> Listed(c)' \/ \E v \in Users : conn'[v] = c \/ Doomed(v, c)'
    BY <1>1, <1>2, <1>4, <1>5, <1>6 DEF PlaceInv, Places
  <2> QED BY <2>1, <2>2, <2>3 DEF Places
<1>8. Types'
  BY <1>1 DEF PlaceInv, Types, Pc
<1>9. Holds'
  BY <1>1, <1>3 DEF PlaceInv, Types, Holds
<1>10. Deleted'
  BY <1>1, <1>3 DEF PlaceInv, Deleted
<1> QED BY <1>7, <1>8, <1>9, <1>10 DEF PlaceInv

\* What a user has in its hands exists.
LEMMA LeasedLive ==
    ASSUME PlaceInv, NEW u \in Users, conn[u] # Null
    PROVE  conn[u] \in Conns /\ conn[u] \in live /\ conn[u] \in used /\ ~ Listed(conn[u])
BY DEF PlaceInv, Types, Places

LEMMA NextPlaceInv ==
    ASSUME PlaceInv, [Next]_vars
    PROVE  PlaceInv'
<1>1. m_total \in Int
  BY DEF PlaceInv, Types
<1>2. ASSUME NEW u \in Users, Begin(u) PROVE PlaceInv'
  <2>1. pc[u] = "out" /\ pc' = [pc EXCEPT ![u] = "get"] /\ UNCHANGED <<poolVars, conn, invalid>>
    BY <1>2 DEF Begin, At, Goto
  <2>2. conn[u] = Null
    BY <2>1 DEF PlaceInv, Holds
  <2> QED BY <1>1, <2>1, <2>2, PlaceMove DEF poolVars, Pc
<1>3. ASSUME NEW u \in Users, SubtractInvalid(u) PROVE PlaceInv'
  <2>1. invalid[u] \in SUBSET Conns
    BY DEF PlaceInv, Types
  <2>2. Cardinality(invalid[u]) \in Int
    BY <2>1, PoolConstants, FS_Subset, FS_CardinalityType
  <2> QED BY <1>3, <2>2, SubtractPlaces
<1>4. ASSUME NEW u \in Users, ConnectFails(u) PROVE PlaceInv'
  <2>1. pc[u] = "make" /\ pc' = [pc EXCEPT ![u] = "out"] /\ UNCHANGED <<poolVars, conn, invalid>>
    BY <1>4 DEF ConnectFails, At, Goto
  <2>2. conn[u] = Null
    BY <2>1 DEF PlaceInv, Holds
  <2> QED BY <1>1, <2>1, <2>2, PlaceMove DEF poolVars, Pc
<1>5. ASSUME NEW u \in Users, AddNew(u) PROVE PlaceInv'
  <2>1. /\ pc[u] = "add" /\ pc' = [pc EXCEPT ![u] = "send"] /\ m_total' = m_total + 1
        /\ UNCHANGED <<m_conns, live, used, conn, invalid>>
    BY <1>5 DEF AddNew, At, Goto
  <2>2. conn[u] # Null
    BY <2>1 DEF PlaceInv, Holds
  <2>3. m_total' \in Int
    BY <1>1, <2>1
  <2> QED BY <2>1, <2>2, <2>3, PlaceMove DEF Pc
<1>6. ASSUME NEW u \in Users, Send(u) PROVE PlaceInv'
  <2>1. pc[u] = "send" /\ pc' = [pc EXCEPT ![u] = "recv"] /\ UNCHANGED <<poolVars, conn, invalid>>
    BY <1>6 DEF Send, At, Goto
  <2>2. conn[u] # Null
    BY <2>1 DEF PlaceInv, Holds
  <2> QED BY <1>1, <2>1, <2>2, PlaceMove DEF poolVars, Pc
<1>7. ASSUME NEW u \in Users, SendFails(u) \/ Recv(u) \/ RecvFails(u) PROVE PlaceInv'
  <2>1. /\ pc[u] \in {"send", "recv"} /\ pc' = [pc EXCEPT ![u] = "release"]
        /\ UNCHANGED <<poolVars, conn, invalid>>
    BY <1>7 DEF SendFails, Recv, RecvFails, At, Goto
  <2>2. conn[u] # Null
    BY <2>1 DEF PlaceInv, Holds
  <2> QED BY <1>1, <2>1, <2>2, PlaceMove DEF poolVars, Pc
<1>8. ASSUME NEW u \in Users, Drop(u) PROVE PlaceInv'
  <2>1. /\ pc[u] = "drop" /\ pc' = [pc EXCEPT ![u] = "out"] /\ m_total' = m_total - 1
        /\ UNCHANGED <<m_conns, live, used, conn, invalid>>
    BY <1>8 DEF Drop, At, Goto
  <2>2. conn[u] = Null
    BY <2>1 DEF PlaceInv, Holds
  <2>3. m_total' \in Int
    BY <1>1, <2>1
  <2> QED BY <2>1, <2>2, <2>3, PlaceMove DEF Pc
<1>9. ASSUME NEW u \in Users, UserStep(u) PROVE PlaceInv'
  BY <1>2, <1>3, <1>4, <1>5, <1>6, <1>7, <1>8, <1>9, PopPlaces, DeletePlaces, ConnectPlaces,
     ReleaseDeletePlaces, KeepPlaces DEF UserStep
<1>10. ASSUME NEW c \in Conns, WireStep(c) PROVE PlaceInv'
  BY <1>10, PlaceSame DEF WireStep, ServerAnswers, ServerCloses, SocketClosed, poolVars, userVars
<1>11. ASSUME UNCHANGED vars PROVE PlaceInv'
  BY <1>11, PlaceSame DEF vars, poolVars, userVars
<1> QED BY <1>9, <1>10, <1>11 DEF Next

LEMMA PlaceInvariant == Spec => []PlaceInv
<1>1. PlaceInv /\ [Next]_vars => PlaceInv'
  BY NextPlaceInv
<1> QED BY <1>1, InitPlaceInv, PTL DEF Spec

LEMMA AtMostOne ==
    ASSUME NEW S, \A x, y \in S : x = y
    PROVE  Cardinality(S) = IF S = {} THEN 0 ELSE 1
<1>1. CASE S = {}
  BY <1>1, FS_EmptySet
<1>2. CASE S # {}
  <2>1. PICK x : x \in S
    BY <1>2
  <2>2. S = {x}
    BY <2>1
  <2>3. Cardinality({x}) = 1
    BY FS_Singleton
  <2> QED BY <1>2, <2>2, <2>3
<1> QED BY <1>1, <1>2

\* A connection of the pool has one holder from new to delete (http_connection.cc:325-391):
\* no two requests share it, and none is used, or deleted again, after its delete.
THEOREM HeldOnceHolds == Spec => []HeldOnce
<1>1. PlaceInv => HeldOnce
  <2> SUFFICES ASSUME PlaceInv, NEW c \in Conns
               PROVE  Cardinality({i \in 1 .. Len(m_conns) : m_conns[i] = c})
                        + Cardinality({u \in Users : conn[u] = c})
                        + Cardinality({u \in Users : pc[u] = "delete" /\ c \in invalid[u]})
                      = IF c \in live THEN 1 ELSE 0
    BY DEF HeldOnce
  <2> DEFINE P == {i \in 1 .. Len(m_conns) : m_conns[i] = c}
             L == {u \in Users : conn[u] = c}
             D == {u \in Users : pc[u] = "delete" /\ c \in invalid[u]}
  <2>1. /\ \A i, j \in P : i = j
        /\ \A u, v \in L : u = v
        /\ \A u, v \in D : u = v
    BY DEF PlaceInv, Places, Doomed
  <2>2. /\ Cardinality(P) = IF P = {} THEN 0 ELSE 1
        /\ Cardinality(L) = IF L = {} THEN 0 ELSE 1
        /\ Cardinality(D) = IF D = {} THEN 0 ELSE 1
    <3> HIDE DEF P, L, D
    <3> QED BY <2>1, AtMostOne
  <2>3. /\ P # {} <=> Listed(c)
        /\ L # {} <=> \E u \in Users : conn[u] = c
        /\ D # {} <=> \E u \in Users : Doomed(u, c)
    BY DEF Listed, Doomed
  <2>4. /\ Listed(c) => (~ \E u \in Users : conn[u] = c) /\ (~ \E u \in Users : Doomed(u, c))
        /\ (\E u \in Users : conn[u] = c) => ~ \E u \in Users : Doomed(u, c)
        /\ c \in live <=> Listed(c) \/ (\E u \in Users : conn[u] = c) \/ \E u \in Users : Doomed(u, c)
    BY DEF PlaceInv, Places
  <2> HIDE DEF P, L, D
  <2>5. Cardinality(P) + Cardinality(L) + Cardinality(D) = IF c \in live THEN 1 ELSE 0
    BY <2>2, <2>3, <2>4
  <2> QED BY <2>5 DEF P, L, D
<1> QED BY <1>1, PlaceInvariant, PTL

-----------------------------------------------------------------------------
(* m_total.                                                                *)

Behind(place) == {u \in Users : pc[u] = place}

\* Connections that were deleted and are still counted.
Gone == UNION {invalid[u] : u \in Behind("subtract")}

CountInv ==
    m_total + Cardinality(Behind("add")) =
        Cardinality(live) + Cardinality(Behind("drop")) + Cardinality(Gone)

LEMMA CountFinite ==
    ASSUME PlaceInv, NEW S \in SUBSET Users, NEW T \in SUBSET Conns
    PROVE  IsFiniteSet(S) /\ Cardinality(S) \in Nat /\ IsFiniteSet(T) /\ Cardinality(T) \in Nat
BY PoolConstants, FS_Subset, FS_CardinalityType

LEMMA GoneMembers ==
    ASSUME NEW c PROVE c \in Gone <=> \E u \in Users : pc[u] = "subtract" /\ c \in invalid[u]
BY DEF Gone, Behind

LEMMA CountSets ==
    ASSUME PlaceInv
    PROVE  /\ live \in SUBSET Conns /\ Gone \in SUBSET Conns
           /\ \A place : Behind(place) \in SUBSET Users
<1>1. \A c \in Gone : c \in Conns
  BY GoneMembers DEF PlaceInv, Types
<1> QED BY <1>1 DEF PlaceInv, Types, Behind

\* How a step of one user changes the sets of users.
LEMMA BehindMove ==
    ASSUME PlaceInv, NEW u \in Users, NEW to, pc' = [pc EXCEPT ![u] = to], NEW place
    PROVE  /\ place = to => Behind(place)' = Behind(place) \cup {u}
           /\ place # to => Behind(place)' = Behind(place) \ {u}
           /\ place \notin {to, pc[u]} => Behind(place)' = Behind(place)
<1>1. \A v \in Users : pc'[v] = IF v = u THEN to ELSE pc[v]
  BY DEF PlaceInv, Types
<1> QED BY <1>1 DEF Behind

\* A user comes to a place it was not at, or leaves it.
LEMMA CountCome ==
    ASSUME PlaceInv, NEW u \in Users, NEW place, pc[u] # place, Behind(place)' = Behind(place) \cup {u}
    PROVE  Cardinality(Behind(place)') = Cardinality(Behind(place)) + 1
<1>1. IsFiniteSet(Behind(place)) /\ u \notin Behind(place)
  BY CountSets, CountFinite DEF Behind
<1> QED BY <1>1, FS_AddElement

LEMMA CountLeave ==
    ASSUME PlaceInv, NEW u \in Users, NEW place, Behind(place)' = Behind(place) \ {u}
    PROVE  Cardinality(Behind(place)')
             = IF pc[u] = place THEN Cardinality(Behind(place)) - 1 ELSE Cardinality(Behind(place))
<1>1. IsFiniteSet(Behind(place)) /\ (u \in Behind(place) <=> pc[u] = place)
  BY CountSets, CountFinite DEF Behind
<1> QED BY <1>1, FS_RemoveElement

LEMMA NextCountInv ==
    ASSUME PlaceInv, CountInv, [Next]_vars
    PROVE  CountInv'
<1> USE DEF CountInv
<1>1. /\ m_total \in Int /\ Cardinality(live) \in Nat /\ Cardinality(Gone) \in Nat
      /\ \A place : Cardinality(Behind(place)) \in Nat
  BY CountSets, CountFinite DEF PlaceInv, Types
\* A step that does not count, create or destroy a connection.
<1>2. ASSUME NEW u \in Users, NEW to \in Pc, pc' = [pc EXCEPT ![u] = to],
             pc[u] \notin {"subtract", "add", "drop"}, to \notin {"subtract", "add", "drop"},
             UNCHANGED <<m_total, live>>, \A v \in Users \ {u} : invalid'[v] = invalid[v]
      PROVE  CountInv'
  <2>1. \A place \in {"add", "drop", "subtract"} : Behind(place)' = Behind(place)
    BY <1>2, BehindMove DEF Behind
  <2>2. \A c : c \in Gone' <=> c \in Gone
    <3>1. \A v \in Behind("subtract") : invalid'[v] = invalid[v]
      BY <1>2 DEF Behind
    <3> QED BY <2>1, <3>1 DEF Gone
  <2>3. Gone' = Gone
    BY <2>2
  <2> QED BY <1>2, <2>1, <2>3
<1>3. ASSUME NEW u \in Users, Begin(u) \/ Pop(u) \/ ConnectFails(u) \/ Send(u) \/ SendFails(u)
                              \/ Recv(u) \/ RecvFails(u) \/ ReleaseKeep(u)
      PROVE  CountInv'
  <2>1. /\ pc[u] \notin {"subtract", "add", "drop"} /\ UNCHANGED <<m_total, live>>
        /\ \E to \in Pc : pc' = [pc EXCEPT ![u] = to] /\ to \notin {"subtract", "add", "drop"}
    BY <1>3 DEF Begin, Pop, ConnectFails, Send, SendFails, Recv, RecvFails, ReleaseKeep, At, Goto,
                poolVars, Pc
  <2>2. \A v \in Users \ {u} : invalid'[v] = invalid[v]
    BY <1>3 DEF Begin, Pop, ConnectFails, Send, SendFails, Recv, RecvFails, ReleaseKeep,
                PlaceInv, Types
  <2> QED BY <1>2, <2>1, <2>2
<1>4. ASSUME NEW u \in Users, DeleteInvalid(u) PROVE CountInv'
  <2>1. /\ pc[u] = "delete" /\ pc' = [pc EXCEPT ![u] = "subtract"] /\ live' = live \ invalid[u]
        /\ UNCHANGED <<m_total, invalid>>
    BY <1>4 DEF DeleteInvalid, At, Goto
  <2>2. invalid[u] \in SUBSET Conns /\ invalid[u] \subseteq live
    BY <2>1 DEF PlaceInv, Types, Places, Doomed
  <2>3. invalid[u] \cap Gone = {}
    BY <2>2, GoneMembers DEF PlaceInv, Deleted
  <2>4. \A v \in Users : pc'[v] = IF v = u THEN "subtract" ELSE pc[v]
    BY <2>1 DEF PlaceInv, Types
  <2>5. Gone' = Gone \cup invalid[u]
    <3>1. \A c : c \in Gone' <=> \E v \in Users : pc'[v] = "subtract" /\ c \in invalid[v]
      BY <2>1 DEF Gone, Behind
    <3> QED BY <2>1, <2>4, <3>1, GoneMembers
  <2>6. Behind("add")' = Behind("add") /\ Behind("drop")' = Behind("drop")
    BY <2>1, BehindMove DEF Behind
  <2>7. /\ IsFiniteSet(live) /\ IsFiniteSet(Gone) /\ IsFiniteSet(invalid[u])
        /\ Cardinality(invalid[u]) \in Nat
    BY <2>2, CountSets, CountFinite
  <2>8. Cardinality(live') = Cardinality(live) - Cardinality(invalid[u])
    <3>1. live \cap invalid[u] = invalid[u]
      BY <2>2
    <3>2. Cardinality(live \ invalid[u]) = Cardinality(live) - Cardinality(live \cap invalid[u])
      BY <2>7, FS_Difference
    <3> QED BY <2>1, <3>1, <3>2
  <2>9. Cardinality(Gone') = Cardinality(Gone) + Cardinality(invalid[u])
    <3>1. Cardinality(Gone') = Cardinality(Gone) + Cardinality(invalid[u]) - Cardinality(Gone \cap invalid[u])
      BY <2>5, <2>7, FS_Union
    <3>2. Cardinality(Gone \cap invalid[u]) = 0
      BY <2>3, FS_EmptySet
    <3> QED BY <1>1, <2>7, <3>1, <3>2
  <2> QED BY <1>1, <2>1, <2>6, <2>7, <2>8, <2>9
<1>5. ASSUME NEW u \in Users, SubtractInvalid(u) PROVE CountInv'
  <2>1. /\ pc[u] = "subtract" /\ pc' = [pc EXCEPT ![u] = IF conn[u] = Null THEN "make" ELSE "send"]
        /\ m_total' = m_total - Cardinality(invalid[u])
        /\ invalid' = [invalid EXCEPT ![u] = {}] /\ UNCHANGED live
    BY <1>5 DEF SubtractInvalid, At, Goto
  <2>2. invalid[u] \in SUBSET Conns /\ invalid[u] \subseteq Gone
    BY <2>1, GoneMembers DEF PlaceInv, Types
  <2>3. \A v \in Users : /\ pc'[v] = IF v = u THEN IF conn[u] = Null THEN "make" ELSE "send" ELSE pc[v]
                         /\ invalid'[v] = IF v = u THEN {} ELSE invalid[v]
    BY <2>1 DEF PlaceInv, Types
  <2>4. Gone' = Gone \ invalid[u]
    <3>1. \A c : c \in Gone' <=> \E v \in Users : pc'[v] = "subtract" /\ c \in invalid'[v]
      BY DEF Gone, Behind
    <3>2. \A v \in Users \ {u} : pc[v] = "subtract" => invalid[u] \cap invalid[v] = {}
      BY <2>1 DEF PlaceInv, Deleted
    <3>3. \A c : c \in Gone' <=> \E v \in Users \ {u} : pc[v] = "subtract" /\ c \in invalid[v]
      BY <2>3, <3>1
    <3> QED BY <2>1, <3>2, <3>3, GoneMembers
  <2>5. Behind("add")' = Behind("add") /\ Behind("drop")' = Behind("drop")
    BY <2>1, BehindMove DEF Behind
  <2>6. IsFiniteSet(Gone) /\ Cardinality(invalid[u]) \in Nat
    BY <2>2, CountSets, CountFinite
  <2>7. Cardinality(Gone') = Cardinality(Gone) - Cardinality(invalid[u])
    <3>1. Gone \cap invalid[u] = invalid[u]
      BY <2>2
    <3>2. Cardinality(Gone \ invalid[u]) = Cardinality(Gone) - Cardinality(Gone \cap invalid[u])
      BY <2>6, FS_Difference
    <3> QED BY <2>4, <3>1, <3>2
  <2> QED BY <1>1, <2>1, <2>5, <2>6, <2>7
<1>6. ASSUME NEW u \in Users, Connect(u) PROVE CountInv'
  <2>1. PICK d \in Conns \ used : live' = live \cup {d}
    BY <1>6 DEF Connect
  <2>2. pc[u] = "make" /\ pc' = [pc EXCEPT ![u] = "add"] /\ UNCHANGED <<m_total, invalid>>
    BY <1>6 DEF Connect, At, Goto
  <2>3. /\ Behind("add")' = Behind("add") \cup {u}
        /\ Behind("drop")' = Behind("drop") /\ Behind("subtract")' = Behind("subtract")
    <3>1. \A v \in Users : pc'[v] = IF v = u THEN "add" ELSE pc[v]
      BY <2>2 DEF PlaceInv, Types
    <3>2. Behind("add")' = Behind("add") \cup {u}
      BY <2>2, <3>1 DEF Behind
    <3>3. Behind("drop")' = Behind("drop")
      BY <2>2, <3>1 DEF Behind
    <3>4. Behind("subtract")' = Behind("subtract")
      BY <2>2, <3>1 DEF Behind
    <3> QED BY <3>2, <3>3, <3>4
  <2>4. Cardinality(Behind("add")') = Cardinality(Behind("add")) + 1
    BY <2>2, <2>3, CountCome
  <2>5. Gone' = Gone
    BY <2>2, <2>3 DEF Gone
  <2>6. Cardinality(live') = Cardinality(live) + 1
    <3>1. IsFiniteSet(live) /\ d \notin live
      BY <2>1, CountSets, CountFinite DEF PlaceInv, Types
    <3> QED BY <2>1, <3>1, FS_AddElement
  <2> QED BY <1>1, <2>2, <2>3, <2>4, <2>5, <2>6
<1>7. ASSUME NEW u \in Users, AddNew(u) \/ Drop(u) PROVE CountInv'
  <2>1. UNCHANGED <<live, invalid>>
    BY <1>7 DEF AddNew, Drop
  <2>2. CASE AddNew(u)
    <3>1. pc[u] = "add" /\ pc' = [pc EXCEPT ![u] = "send"] /\ m_total' = m_total + 1
      BY <2>2 DEF AddNew, At, Goto
    <3>2. /\ Behind("add")' = Behind("add") \ {u}
          /\ Behind("drop")' = Behind("drop") /\ Behind("subtract")' = Behind("subtract")
      <4>1. \A v \in Users : pc'[v] = IF v = u THEN "send" ELSE pc[v]
        BY <3>1 DEF PlaceInv, Types
      <4>2. Behind("add")' = Behind("add") \ {u}
        BY <3>1, <4>1 DEF Behind
      <4>3. Behind("drop")' = Behind("drop")
        BY <3>1, <4>1 DEF Behind
      <4>4. Behind("subtract")' = Behind("subtract")
        BY <3>1, <4>1 DEF Behind
      <4> QED BY <4>2, <4>3, <4>4
    <3>3. Cardinality(Behind("add")') = Cardinality(Behind("add")) - 1
      BY <3>1, <3>2, CountLeave
    <3>4. Gone' = Gone
      BY <2>1, <3>2 DEF Gone
    <3> QED BY <1>1, <2>1, <3>1, <3>2, <3>3, <3>4
  <2>3. CASE Drop(u)
    <3>1. pc[u] = "drop" /\ pc' = [pc EXCEPT ![u] = "out"] /\ m_total' = m_total - 1
      BY <2>3 DEF Drop, At, Goto
    <3>2. /\ Behind("drop")' = Behind("drop") \ {u}
          /\ Behind("add")' = Behind("add") /\ Behind("subtract")' = Behind("subtract")
      <4>1. \A v \in Users : pc'[v] = IF v = u THEN "out" ELSE pc[v]
        BY <3>1 DEF PlaceInv, Types
      <4>2. Behind("drop")' = Behind("drop") \ {u}
        BY <3>1, <4>1 DEF Behind
      <4>3. Behind("add")' = Behind("add")
        BY <3>1, <4>1 DEF Behind
      <4>4. Behind("subtract")' = Behind("subtract")
        BY <3>1, <4>1 DEF Behind
      <4> QED BY <4>2, <4>3, <4>4
    <3>3. Cardinality(Behind("drop")') = Cardinality(Behind("drop")) - 1
      BY <3>1, <3>2, CountLeave
    <3>4. Gone' = Gone
      BY <2>1, <3>2 DEF Gone
    <3> QED BY <1>1, <2>1, <3>1, <3>2, <3>3, <3>4
  <2> QED BY <1>7, <2>2, <2>3
<1>8. ASSUME NEW u \in Users, ReleaseDelete(u) PROVE CountInv'
  <2>1. /\ pc[u] = "release" /\ pc' = [pc EXCEPT ![u] = "drop"] /\ live' = live \ {conn[u]}
        /\ UNCHANGED <<m_total, invalid>>
    BY <1>8 DEF ReleaseDelete, At, Goto
  <2>2. /\ Behind("drop")' = Behind("drop") \cup {u}
        /\ Behind("add")' = Behind("add") /\ Behind("subtract")' = Behind("subtract")
    <3>1. \A v \in Users : pc'[v] = IF v = u THEN "drop" ELSE pc[v]
      BY <2>1 DEF PlaceInv, Types
    <3>2. Behind("drop")' = Behind("drop") \cup {u}
      BY <2>1, <3>1 DEF Behind
    <3>3. Behind("add")' = Behind("add")
      BY <2>1, <3>1 DEF Behind
    <3>4. Behind("subtract")' = Behind("subtract")
      BY <2>1, <3>1 DEF Behind
    <3> QED BY <3>2, <3>3, <3>4
  <2>3. Cardinality(Behind("drop")') = Cardinality(Behind("drop")) + 1
    BY <2>1, <2>2, CountCome
  <2>4. Gone' = Gone
    BY <2>1, <2>2 DEF Gone
  <2>5. Cardinality(live') = Cardinality(live) - 1
    <3>1. conn[u] # Null
      BY <2>1 DEF PlaceInv, Holds
    <3>2. IsFiniteSet(live) /\ conn[u] \in live
      BY <3>1, LeasedLive, CountSets, CountFinite
    <3> QED BY <2>1, <3>2, FS_RemoveElement
  <2> QED BY <1>1, <2>1, <2>2, <2>3, <2>4, <2>5
<1>9. ASSUME UNCHANGED <<m_total, live, pc, invalid>> PROVE CountInv'
  BY <1>9 DEF Behind, Gone
<1>10. ASSUME NEW c \in Conns, WireStep(c) PROVE CountInv'
  BY <1>9, <1>10 DEF WireStep, ServerAnswers, ServerCloses, SocketClosed, poolVars, userVars
<1>11. ASSUME UNCHANGED vars PROVE CountInv'
  BY <1>9, <1>11 DEF vars, poolVars, userVars
<1>12. ASSUME NEW u \in Users, UserStep(u) PROVE CountInv'
  BY <1>3, <1>4, <1>5, <1>6, <1>7, <1>8, <1>12 DEF UserStep
<1> QED BY <1>10, <1>11, <1>12 DEF Next

\* m_total (http_connection.cc:352, 376, 387), which is changed without the lock, misses or
\* counts twice exactly the connections whose update is under way.
THEOREM CountExactHolds == Spec => []CountExact
<1>1. Init => CountInv
  <2> SUFFICES ASSUME Init PROVE CountInv
    OBVIOUS
  <2>1. Behind("add") = {} /\ Behind("drop") = {} /\ Gone = {}
    BY DEF Init, Behind, Gone
  <2>2. m_total = 0 /\ live = {} /\ Cardinality({}) = 0
    BY FS_EmptySet DEF Init
  <2> QED BY <2>1, <2>2 DEF CountInv
<1>2. PlaceInv /\ CountInv /\ [Next]_vars => CountInv'
  BY NextCountInv
<1>3. CountInv => CountExact
  BY DEF CountInv, CountExact, Behind, Gone
<1> QED BY <1>1, <1>2, <1>3, PlaceInvariant, PTL DEF Spec

-----------------------------------------------------------------------------
(* Requests.                                                               *)

\* A connection of the pool, or of a user, can take one more request.
Fit ==
    /\ m_request \in [Conns -> Nat]
    /\ \A c \in Conns \ used : m_request[c] = 0
    /\ \A c \in Conns : Listed(c) => m_request[c] < m_maxRequest
    /\ \A u \in Users : conn[u] # Null => m_request[conn[u]] < m_maxRequest

LEMMA NextFit ==
    ASSUME PlaceInv, Fit, [Next]_vars
    PROVE  Fit'
<1>m. m_maxRequest \in Nat /\ m_maxRequest > 0
  BY PoolConstants
<1>1. ASSUME NEW u \in Users, Pop(u) PROVE Fit'
  <2>1. PlaceInv'
    BY <1>1, PopPlaces
  <2>2. ASSUME NEW c \in Conns, Listed(c)' PROVE m_request'[c] < m_maxRequest
    <3>1. UNCHANGED <<m_request, live>>
      BY <1>1 DEF Pop
    <3>2. c \in live /\ (Listed(c) \/ \E v \in Users : conn[v] = c \/ Doomed(v, c))
      BY <2>1, <2>2, <3>1 DEF PlaceInv, Places
    <3>3. Listed(c)
      <4>1. \A v \in Users : conn'[v] # c /\ ~ Doomed(v, c)'
        BY <2>1, <2>2 DEF PlaceInv, Places
      <4>2. \A v \in Users \ {u} : conn'[v] = conn[v] /\ (Doomed(v, c)' <=> Doomed(v, c))
        BY <1>1 DEF Pop, Goto, Doomed, PlaceInv, Types
      <4>3. conn[u] = Null /\ ~ Doomed(u, c) /\ c # Null
        BY <1>1, PoolConstants DEF Pop, At, Doomed, PlaceInv, Holds
      <4> QED BY <3>2, <4>1, <4>2, <4>3
    <3> QED BY <3>1, <3>3 DEF Fit
  <2>3. ASSUME NEW v \in Users, conn'[v] # Null PROVE m_request'[conn'[v]] < m_maxRequest
    <3>1. UNCHANGED <<m_request, live>>
      BY <1>1 DEF Pop
    <3>2. CASE conn'[v] = conn[v]
      BY <2>3, <3>1, <3>2 DEF Fit
    <3>3. CASE conn'[v] # conn[v]
      <4>1. PICK n \in 0 .. Len(m_conns) :
               IF n < Len(m_conns) THEN conn' = [conn EXCEPT ![u] = m_conns[n + 1]] ELSE UNCHANGED conn
        BY <1>1 DEF Pop
      <4>2. n < Len(m_conns) /\ conn'[v] = m_conns[n + 1]
        BY <3>3, <4>1 DEF PlaceInv, Types
      <4>3. n + 1 \in 1 .. Len(m_conns) /\ m_conns[n + 1] \in Conns
        <5>1. m_conns \in Seq(Conns) /\ Len(m_conns) \in Nat
          BY LenProperties DEF PlaceInv, Types
        <5>2. n + 1 \in 1 .. Len(m_conns)
          BY <4>2, <5>1
        <5> QED BY <5>1, <5>2, ElementOfSeq
      <4> QED BY <3>1, <4>2, <4>3 DEF Fit, Listed
    <3> QED BY <3>2, <3>3
  <2>4. UNCHANGED <<m_request, used>>
    BY <1>1 DEF Pop
  <2> QED BY <2>2, <2>3, <2>4 DEF Fit
<1>2. ASSUME NEW u \in Users, Connect(u) PROVE Fit'
  <2>1. PICK d \in Conns \ used : used' = used \cup {d} /\ conn' = [conn EXCEPT ![u] = d]
    BY <1>2 DEF Connect
  <2>2. UNCHANGED <<m_request, m_conns>>
    BY <1>2 DEF Connect
  <2>3. \A c \in Conns : Listed(c)' <=> Listed(c)
    BY <2>2 DEF Listed
  <2>4. \A v \in Users : conn'[v] = IF v = u THEN d ELSE conn[v]
    BY <2>1 DEF PlaceInv, Types
  <2> QED BY <1>m, <2>1, <2>2, <2>3, <2>4 DEF Fit
<1>3. ASSUME NEW u \in Users, ReleaseDelete(u) PROVE Fit'
  <2>1. /\ pc[u] = "release" /\ m_request' = [m_request EXCEPT ![conn[u]] = @ + 1]
        /\ conn' = [conn EXCEPT ![u] = Null] /\ UNCHANGED <<m_conns, used>>
    BY <1>3 DEF ReleaseDelete, At
  <2>2. conn[u] \in Conns /\ conn[u] \in used /\ ~ Listed(conn[u])
    BY <2>1, LeasedLive DEF PlaceInv, Holds
  <2>3. \A c \in Conns : Listed(c)' <=> Listed(c)
    BY <2>1 DEF Listed
  <2>4. \A c \in Conns : m_request'[c] = IF c = conn[u] THEN m_request[c] + 1 ELSE m_request[c]
    BY <2>1 DEF Fit
  <2>5. \A v \in Users : conn'[v] # Null => v # u /\ conn'[v] = conn[v] /\ conn[v] \in Conns /\ conn[v] # conn[u]
    BY <2>1, <2>2 DEF PlaceInv, Types, Places
  <2>6. m_request' \in [Conns -> Nat]
    BY <2>1, <2>2 DEF Fit
  <2> QED BY <2>1, <2>2, <2>3, <2>4, <2>5, <2>6 DEF Fit
<1>4. ASSUME NEW u \in Users, ReleaseKeep(u) PROVE Fit'
  <2>1. /\ pc[u] = "release" /\ m_request' = [m_request EXCEPT ![conn[u]] = @ + 1]
        /\ conn' = [conn EXCEPT ![u] = Null] /\ m_conns' = Append(m_conns, conn[u])
        /\ ~ (m_request[conn[u]] + 1 >= m_maxRequest) /\ UNCHANGED used
    BY <1>4 DEF ReleaseKeep, At, WornOut
  <2>2. conn[u] \in Conns /\ conn[u] \in used /\ ~ Listed(conn[u])
    BY <2>1, LeasedLive DEF PlaceInv, Holds
  <2>3. \A c \in Conns : Listed(c)' => Listed(c) \/ c = conn[u]
    <3>1. m_conns \in Seq(Conns)
      BY DEF PlaceInv, Types
    <3> QED BY <2>1, <2>2, <3>1, AppendProperties, LenProperties DEF Listed
  <2>4. \A c \in Conns : m_request'[c] = IF c = conn[u] THEN m_request[c] + 1 ELSE m_request[c]
    BY <2>1 DEF Fit
  <2>5. \A v \in Users : conn'[v] # Null => v # u /\ conn'[v] = conn[v] /\ conn[v] \in Conns /\ conn[v] # conn[u]
    BY <2>1, <2>2 DEF PlaceInv, Types, Places
  <2>6. m_request' \in [Conns -> Nat] /\ m_request[conn[u]] \in Nat
    BY <2>1, <2>2 DEF Fit
  <2> QED BY <1>m, <2>1, <2>2, <2>3, <2>4, <2>5, <2>6 DEF Fit
<1>5. ASSUME UNCHANGED <<m_request, used, m_conns, conn>> PROVE Fit'
  <2>1. \A c \in Conns : Listed(c)' <=> Listed(c)
    BY <1>5 DEF Listed
  <2> QED BY <1>5, <2>1 DEF Fit
<1>6. ASSUME NEW u \in Users, UserStep(u) PROVE Fit'
  BY <1>1, <1>2, <1>3, <1>4, <1>5, <1>6 DEF UserStep, Begin, DeleteInvalid, SubtractInvalid,
     ConnectFails, AddNew, Send, SendFails, Recv, RecvFails, Drop, poolVars
<1>7. ASSUME NEW c \in Conns, WireStep(c) PROVE Fit'
  BY <1>5, <1>7 DEF WireStep, ServerAnswers, ServerCloses, SocketClosed, poolVars, userVars
<1>8. ASSUME UNCHANGED vars PROVE Fit'
  BY <1>5, <1>8 DEF vars, poolVars, userVars
<1> QED BY <1>6, <1>7, <1>8 DEF Next

\* ReleasePtr() (http_connection.cc:383) lets no connection back that has served
\* m_maxRequest requests.
THEOREM PooledFitHolds == Spec => []PooledFit
<1>1. Init => Fit
  BY PoolConstants DEF Init, Fit, Listed
<1>2. PlaceInv /\ Fit /\ [Next]_vars => Fit'
  BY NextFit
<1>3. PlaceInv /\ Fit => PooledFit
  <2> SUFFICES ASSUME PlaceInv, Fit, NEW i \in 1 .. Len(m_conns)
               PROVE  m_request[m_conns[i]] < m_maxRequest
    BY DEF PooledFit
  <2>1. m_conns[i] \in Conns
    BY ElementOfSeq DEF PlaceInv, Types
  <2> QED BY <2>1 DEF Fit, Listed
<1> QED BY <1>1, <1>2, <1>3, PlaceInvariant, PTL DEF Spec

-----------------------------------------------------------------------------
(* Responses.                                                              *)

WireTypes ==
    /\ connected \in [Conns -> BOOLEAN] /\ serverOpen \in [Conns -> BOOLEAN]
    /\ server \in [Conns -> Seq(Users \X Nat)] /\ inbox \in [Conns -> Seq(Users \X Nat)]
    /\ call \in [Users -> Nat]
    /\ DOMAIN answer = Users

Silent(c) == server[c] = <<>> /\ inbox[c] = <<>>

Waiting(u, c) == conn[u] = c /\ pc[u] = "recv"

\* On a connection that is open there is at most the request of the one user that waits,
\* or its response; after a failed recvResponse() it is not open.
WireInv ==
    /\ WireTypes
    /\ \A c \in Conns \ used : Silent(c)
    /\ \A c \in Conns : connected[c] /\ (\A u \in Users : ~ Waiting(u, c)) => Silent(c)
    /\ \A c \in Conns, u \in Users : connected[c] /\ Waiting(u, c) =>
         \/ Silent(c)
         \/ server[c] = <<Request(u)>> /\ inbox[c] = <<>>
         \/ server[c] = <<>> /\ inbox[c] = <<Request(u)>>
    /\ OwnAnswer

\* Everything but where the users are on their way to "send" and back.
LEMMA WireStays ==
    ASSUME PlaceInv, WireInv, NEW u \in Users, NEW to, pc' = [pc EXCEPT ![u] = to],
           pc[u] # "recv", to # "recv",
           \A v \in Users \ {u} : conn'[v] = conn[v],
           UNCHANGED <<connected, server, inbox, serverOpen, used, call, answer>>
    PROVE  WireInv'
<1>1. \A v \in Users, c \in Conns : Waiting(v, c)' <=> Waiting(v, c)
  BY DEF Waiting, PlaceInv, Types
<1>2. \A c \in Conns : Silent(c)' <=> Silent(c)
  BY DEF Silent
<1>3. \A v \in Users : Request(v)' = Request(v)
  BY DEF Request
<1>4. OwnAnswer'
  BY <1>3 DEF WireInv, OwnAnswer
<1> QED BY <1>1, <1>2, <1>3, <1>4 DEF WireInv, WireTypes

LEMMA WireSame ==
    ASSUME WireInv, UNCHANGED <<connected, server, inbox, serverOpen, used, call, answer, pc, conn>>
    PROVE  WireInv'
<1>1. \A v \in Users, c \in Conns : Waiting(v, c)' <=> Waiting(v, c)
  BY DEF Waiting
<1>2. \A c \in Conns : Silent(c)' <=> Silent(c)
  BY DEF Silent
<1>3. \A v \in Users : Request(v)' = Request(v)
  BY DEF Request
<1>4. OwnAnswer'
  BY <1>3 DEF WireInv, OwnAnswer
<1> QED BY <1>1, <1>2, <1>3, <1>4 DEF WireInv, WireTypes

LEMMA BeginWire ==
    ASSUME PlaceInv, WireInv, NEW u \in Users, Begin(u)
    PROVE  WireInv'
<1>1. /\ pc[u] = "out" /\ pc' = [pc EXCEPT ![u] = "get"]
      /\ call' = [call EXCEPT ![u] = @ + 1] /\ answer' = [answer EXCEPT ![u] = Null]
      /\ UNCHANGED <<used, connected, server, inbox, serverOpen, conn>>
  BY DEF Begin, At, Goto, poolVars, wireVars
<1>2. \A v \in Users, c \in Conns : Waiting(v, c)' <=> Waiting(v, c)
  BY <1>1 DEF Waiting, PlaceInv, Types
<1>3. \A c \in Conns : Silent(c)' <=> Silent(c)
  BY <1>1 DEF Silent
<1>4. \A v \in Users : v # u => Request(v)' = Request(v)
  BY <1>1 DEF Request, WireInv, WireTypes
<1>5. \A c \in Conns : ~ Waiting(u, c)
  BY <1>1 DEF Waiting
<1>6. WireTypes'
  BY <1>1 DEF WireInv, WireTypes
<1>7. OwnAnswer'
  <2>1. ASSUME NEW v \in Users PROVE answer'[v] \in {Null, Request(v)'}
    <3>1. CASE v = u
      BY <1>1, <3>1 DEF WireInv, WireTypes
    <3>2. CASE v # u
      BY <1>1, <1>4, <3>2 DEF WireInv, WireTypes, OwnAnswer
    <3> QED BY <3>1, <3>2
  <2> QED BY <2>1 DEF OwnAnswer
<1>8. ASSUME NEW c \in Conns, NEW v \in Users, connected'[c], Waiting(v, c)'
      PROVE  \/ Silent(c)'
             \/ server'[c] = <<Request(v)'>> /\ inbox'[c] = <<>>
             \/ server'[c] = <<>> /\ inbox'[c] = <<Request(v)'>>
  <2>1. v # u /\ connected[c] /\ Waiting(v, c)
    BY <1>1, <1>2, <1>5, <1>8
  <2> QED BY <1>1, <1>3, <1>4, <2>1 DEF WireInv
<1>9. /\ \A c \in Conns \ used' : Silent(c)'
      /\ \A c \in Conns : connected'[c] /\ (\A v \in Users : ~ Waiting(v, c)') => Silent(c)'
  BY <1>1, <1>2, <1>3 DEF WireInv
<1> QED BY <1>6, <1>7, <1>8, <1>9 DEF WireInv, Request

LEMMA ConnectWire ==
    ASSUME PlaceInv, WireInv, NEW u \in Users, Connect(u)
    PROVE  WireInv'
<1>1. PICK d \in Conns \ used : /\ used' = used \cup {d} /\ conn' = [conn EXCEPT ![u] = d]
                                /\ connected' = [connected EXCEPT ![d] = TRUE]
                                /\ serverOpen' = [serverOpen EXCEPT ![d] = TRUE]
  BY DEF Connect
<1>2. /\ pc[u] = "make" /\ pc' = [pc EXCEPT ![u] = "add"]
      /\ UNCHANGED <<server, inbox, call, answer>>
  BY DEF Connect, At, Goto
<1>3. \A v \in Users, c \in Conns : Waiting(v, c)' <=> Waiting(v, c)
  BY <1>1, <1>2 DEF Waiting, PlaceInv, Types
<1>4. \A c \in Conns : (Silent(c)' <=> Silent(c)) /\ (c # d => connected'[c] = connected[c])
  BY <1>1, <1>2 DEF Silent, WireInv, WireTypes
<1>5. Silent(d)
  BY <1>1 DEF WireInv
<1>6. \A v \in Users : Request(v)' = Request(v)
  BY <1>2 DEF Request
<1>7. OwnAnswer'
  BY <1>2, <1>6 DEF WireInv, OwnAnswer
<1>8. WireTypes'
  BY <1>1, <1>2 DEF WireInv, WireTypes
<1> QED BY <1>1, <1>2, <1>3, <1>4, <1>5, <1>6, <1>7, <1>8 DEF WireInv

\* sendRequest() finds a connection of its own with nothing on it.
LEMMA SendWire ==
    ASSUME PlaceInv, WireInv, NEW u \in Users, Send(u)
    PROVE  WireInv'
<1> DEFINE d == conn[u]
<1>1. /\ pc[u] = "send" /\ pc' = [pc EXCEPT ![u] = "recv"] /\ connected[d]
      /\ server' = IF serverOpen[d] THEN [server EXCEPT ![d] = Append(@, Request(u))] ELSE server
      /\ UNCHANGED <<connected, inbox, serverOpen, used, conn, call, answer>>
  BY DEF Send, At, Goto, poolVars
<1>2. d \in Conns /\ d \in used /\ conn[u] = d
  BY <1>1, LeasedLive DEF PlaceInv, Holds
<1> HIDE DEF d
<1>3. \A v \in Users : v # u => conn[v] # d
  BY <1>2 DEF PlaceInv, Places
<1>4. Silent(d)
  BY <1>1, <1>2, <1>3 DEF WireInv, Waiting
<1>5. \A v \in Users, c \in Conns : Waiting(v, c)' <=> Waiting(v, c) \/ (v = u /\ c = d)
  BY <1>1, <1>2 DEF Waiting, PlaceInv, Types
<1>6. /\ Request(u) \in Users \X Nat
      /\ \A v \in Users : Request(v)' = Request(v)
  BY <1>1 DEF Request, WireInv, WireTypes
<1>7. /\ inbox'[d] = <<>>
      /\ server'[d] = <<>> \/ server'[d] = <<Request(u)>>
      /\ \A c \in Conns : c # d => server'[c] = server[c] /\ inbox'[c] = inbox[c]
      /\ server' \in [Conns -> Seq(Users \X Nat)]
  <2>1. Append(<<>>, Request(u)) = <<Request(u)>> /\ <<Request(u)>> \in Seq(Users \X Nat)
    BY <1>6
  <2>2. server[d] = <<>> /\ inbox[d] = <<>>
    BY <1>4 DEF Silent
  <2> QED BY <1>1, <1>2, <2>1, <2>2 DEF WireInv, WireTypes
<1>8. \A c \in Conns : c # d => (Silent(c)' <=> Silent(c))
  BY <1>7 DEF Silent
<1>9. OwnAnswer'
  BY <1>1, <1>6 DEF WireInv, OwnAnswer
<1>10. WireTypes'
  BY <1>1, <1>7 DEF WireInv, WireTypes
<1>11. ASSUME NEW c \in Conns, NEW v \in Users, connected'[c], Waiting(v, c)'
       PROVE  \/ Silent(c)'
              \/ server'[c] = <<Request(v)'>> /\ inbox'[c] = <<>>
              \/ server'[c] = <<>> /\ inbox'[c] = <<Request(v)'>>
  <2>1. CASE c = d
    <3>1. v = u
      BY <1>1, <1>3, <1>11, <2>1 DEF Waiting
    <3> QED BY <1>6, <1>7, <2>1, <3>1 DEF Silent
  <2>2. CASE c # d
    <3>1. Waiting(v, c) /\ connected[c]
      BY <1>1, <1>5, <1>11, <2>2
    <3> QED BY <1>6, <1>7, <1>8, <2>2, <3>1 DEF WireInv
  <2> QED BY <2>1, <2>2
<1>12. /\ \A c \in Conns \ used' : Silent(c)'
       /\ \A c \in Conns : connected'[c] /\ (\A v \in Users : ~ Waiting(v, c)') => Silent(c)'
  BY <1>1, <1>2, <1>5, <1>8 DEF WireInv
<1> QED BY <1>9, <1>10, <1>11, <1>12 DEF WireInv, Request

\* A response that is read is that of the user who waits, and then nothing is left.
LEMMA RecvWire ==
    ASSUME PlaceInv, WireInv, NEW u \in Users, Recv(u)
    PROVE  WireInv'
<1> DEFINE d == conn[u]
<1>1. /\ pc[u] = "recv" /\ pc' = [pc EXCEPT ![u] = "release"] /\ connected[d] /\ inbox[d] # <<>>
      /\ answer' = [answer EXCEPT ![u] = Head(inbox[d])]
      /\ inbox' = [inbox EXCEPT ![d] = Tail(@)]
      /\ UNCHANGED <<connected, server, serverOpen, used, conn, call>>
  BY DEF Recv, At, Goto, poolVars
<1>2. d \in Conns /\ conn[u] = d
  BY <1>1, LeasedLive DEF PlaceInv, Holds
<1> HIDE DEF d
<1>3. \A v \in Users : v # u => conn[v] # d
  BY <1>2 DEF PlaceInv, Places
<1>4. server[d] = <<>> /\ inbox[d] = <<Request(u)>>
  BY <1>1, <1>2 DEF WireInv, Waiting, Silent
<1>5. Head(inbox[d]) = Request(u) /\ Tail(inbox[d]) = <<>>
  BY <1>4
<1>6. /\ inbox'[d] = <<>> /\ server'[d] = <<>>
      /\ \A c \in Conns : c # d => server'[c] = server[c] /\ inbox'[c] = inbox[c]
      /\ inbox' \in [Conns -> Seq(Users \X Nat)]
  BY <1>1, <1>2, <1>4, <1>5 DEF WireInv, WireTypes
<1>7. \A v \in Users : Request(v)' = Request(v)
  BY <1>1 DEF Request
<1>8. \A c \in Conns : IF c = d THEN Silent(c)' ELSE Silent(c)' <=> Silent(c)
  BY <1>6 DEF Silent
<1>9. \A v \in Users, c \in Conns : Waiting(v, c)' <=> Waiting(v, c) /\ v # u
  BY <1>1 DEF Waiting, PlaceInv, Types
<1>10. OwnAnswer'
  BY <1>1, <1>5, <1>7 DEF WireInv, WireTypes, OwnAnswer
<1>11. WireTypes'
  BY <1>1, <1>6 DEF WireInv, WireTypes
<1>12. ASSUME NEW c \in Conns, NEW v \in Users, connected'[c], Waiting(v, c)'
       PROVE  \/ Silent(c)'
              \/ server'[c] = <<Request(v)'>> /\ inbox'[c] = <<>>
              \/ server'[c] = <<>> /\ inbox'[c] = <<Request(v)'>>
  <2>1. c # d /\ Waiting(v, c) /\ connected[c]
    BY <1>1, <1>3, <1>9, <1>12 DEF Waiting
  <2> QED BY <1>6, <1>7, <1>8, <2>1 DEF WireInv
<1>13. \A c \in Conns \ used' : Silent(c)'
  BY <1>1, <1>8 DEF WireInv
<1>14. ASSUME NEW c \in Conns, connected'[c], \A v \in Users : ~ Waiting(v, c)' PROVE Silent(c)'
  <2>1. CASE c = d
    BY <1>8, <2>1
  <2>2. CASE c # d
    <3>1. \A v \in Users : ~ Waiting(v, c)
      BY <1>2, <1>9, <1>14, <2>2 DEF Waiting
    <3> QED BY <1>1, <1>8, <1>14, <2>2, <3>1 DEF WireInv
  <2> QED BY <2>1, <2>2
<1> QED BY <1>10, <1>11, <1>12, <1>13, <1>14 DEF WireInv, Request

\* recvResponse() closes before it gives up: a late response finds the connection closed.
LEMMA RecvFailsWire ==
    ASSUME PlaceInv, WireInv, NEW u \in Users, RecvFails(u)
    PROVE  WireInv'
<1> DEFINE d == conn[u]
<1>1. /\ pc[u] = "recv" /\ pc' = [pc EXCEPT ![u] = "release"]
      /\ connected' = [connected EXCEPT ![d] = FALSE]
      /\ UNCHANGED <<server, inbox, serverOpen, used, conn, call, answer>>
  BY DEF RecvFails, At, Goto, poolVars
<1>2. d \in Conns /\ conn[u] = d
  BY <1>1, LeasedLive DEF PlaceInv, Holds
<1> HIDE DEF d
<1>3. \A c \in Conns : (Silent(c)' <=> Silent(c)) /\ (connected'[c] => c # d /\ connected[c])
  BY <1>1, <1>2 DEF Silent, WireInv, WireTypes
<1>4. \A v \in Users : Request(v)' = Request(v)
  BY <1>1 DEF Request
<1>5. \A v \in Users, c \in Conns : c # d => (Waiting(v, c)' <=> Waiting(v, c))
  BY <1>1, <1>2 DEF Waiting, PlaceInv, Types
<1>6. OwnAnswer'
  BY <1>1, <1>4 DEF WireInv, OwnAnswer
<1>7. WireTypes'
  BY <1>1 DEF WireInv, WireTypes
<1> QED BY <1>1, <1>3, <1>4, <1>5, <1>6, <1>7 DEF WireInv

LEMMA AnswerWire ==
    ASSUME PlaceInv, WireInv, NEW d \in Conns, ServerAnswers(d)
    PROVE  WireInv'
<1>1. /\ server[d] # <<>>
      /\ inbox' = [inbox EXCEPT ![d] = Append(@, Head(server[d]))]
      /\ server' = [server EXCEPT ![d] = Tail(@)]
      /\ UNCHANGED <<connected, serverOpen, used, pc, conn, call, answer>>
  BY DEF ServerAnswers, poolVars, userVars
<1>2. \A v \in Users, c \in Conns : Waiting(v, c)' <=> Waiting(v, c)
  BY <1>1 DEF Waiting
<1>3. \A v \in Users : Request(v)' = Request(v)
  BY <1>1 DEF Request
<1>4. \A c \in Conns : c # d => /\ server'[c] = server[c] /\ inbox'[c] = inbox[c]
                                /\ Silent(c)' <=> Silent(c)
  BY <1>1 DEF Silent, WireInv, WireTypes
<1>5. d \in used /\ (connected[d] => \E v \in Users : Waiting(v, d))
  BY <1>1 DEF WireInv, Silent
<1>6. WireTypes'
  <2>1. server[d] \in Seq(Users \X Nat) /\ inbox[d] \in Seq(Users \X Nat)
    BY DEF WireInv, WireTypes
  <2>2. Head(server[d]) \in Users \X Nat /\ Tail(server[d]) \in Seq(Users \X Nat)
    BY <1>1, <2>1, HeadTailProperties
  <2>3. Append(inbox[d], Head(server[d])) \in Seq(Users \X Nat)
    BY <2>1, <2>2, AppendProperties
  <2> QED BY <1>1, <2>2, <2>3 DEF WireInv, WireTypes
<1>7. ASSUME NEW v \in Users, connected[d], Waiting(v, d)
      PROVE  server'[d] = <<>> /\ inbox'[d] = <<Request(v)>>
  <2>1. server[d] = <<Request(v)>> /\ inbox[d] = <<>>
    BY <1>1, <1>7 DEF WireInv, Silent
  <2>2. /\ Head(<<Request(v)>>) = Request(v) /\ Tail(<<Request(v)>>) = <<>>
        /\ Append(<<>>, Request(v)) = <<Request(v)>>
    OBVIOUS
  <2>3. /\ server'[d] = Tail(server[d])
        /\ inbox'[d] = Append(inbox[d], Head(server[d]))
    BY <1>1 DEF WireInv, WireTypes
  <2> QED BY <2>1, <2>2, <2>3
<1>8. OwnAnswer'
  BY <1>1, <1>3 DEF WireInv, OwnAnswer
<1>9. ASSUME NEW c \in Conns, NEW v \in Users, connected'[c], Waiting(v, c)'
      PROVE  \/ Silent(c)'
             \/ server'[c] = <<Request(v)'>> /\ inbox'[c] = <<>>
             \/ server'[c] = <<>> /\ inbox'[c] = <<Request(v)'>>
  <2>1. Waiting(v, c) /\ connected[c]
    BY <1>1, <1>2, <1>9
  <2>2. CASE c = d
    BY <1>3, <1>7, <2>1, <2>2
  <2>3. CASE c # d
    BY <1>3, <1>4, <2>1, <2>3 DEF WireInv
  <2> QED BY <2>2, <2>3
<1>10. /\ \A c \in Conns \ used' : Silent(c)'
       /\ \A c \in Conns : connected'[c] /\ (\A v \in Users : ~ Waiting(v, c)') => Silent(c)'
  BY <1>1, <1>2, <1>4, <1>5 DEF WireInv
<1> QED BY <1>6, <1>8, <1>9, <1>10 DEF WireInv, Request

LEMMA ClosedWire ==
    ASSUME WireInv, NEW d \in Conns, ServerCloses(d) \/ SocketClosed(d)
    PROVE  WireInv'
<1>1. /\ \A c \in Conns : connected'[c] => connected[c]
      /\ connected' \in [Conns -> BOOLEAN] /\ serverOpen' \in [Conns -> BOOLEAN]
      /\ UNCHANGED <<server, inbox, used, pc, conn, call, answer>>
  BY DEF ServerCloses, SocketClosed, poolVars, userVars, WireInv, WireTypes
<1>2. \A v \in Users, c \in Conns : Waiting(v, c)' <=> Waiting(v, c)
  BY <1>1 DEF Waiting
<1>3. \A c \in Conns : Silent(c)' <=> Silent(c)
  BY <1>1 DEF Silent
<1>4. \A v \in Users : Request(v)' = Request(v)
  BY <1>1 DEF Request
<1>5. OwnAnswer'
  BY <1>1, <1>4 DEF WireInv, OwnAnswer
<1>6. WireTypes'
  BY <1>1 DEF WireInv, WireTypes
<1> QED BY <1>1, <1>2, <1>3, <1>4, <1>5, <1>6 DEF WireInv

LEMMA NextWireInv ==
    ASSUME PlaceInv, WireInv, [Next]_vars
    PROVE  WireInv'
<1>1. ASSUME NEW u \in Users,
             Pop(u) \/ DeleteInvalid(u) \/ SubtractInvalid(u) \/ ConnectFails(u) \/ AddNew(u)
               \/ SendFails(u) \/ ReleaseDelete(u) \/ ReleaseKeep(u) \/ Drop(u)
      PROVE  WireInv'
  <2>1. /\ \E to \in Pc : pc' = [pc EXCEPT ![u] = to] /\ to # "recv"
        /\ pc[u] # "recv"
        /\ UNCHANGED <<connected, server, inbox, serverOpen, used, call, answer>>
    BY <1>1 DEF Pop, DeleteInvalid, SubtractInvalid, ConnectFails, AddNew, SendFails, ReleaseDelete,
                ReleaseKeep, Drop, At, Goto, Pc, poolVars, wireVars
  <2>2. \A v \in Users \ {u} : conn'[v] = conn[v]
    BY <1>1 DEF Pop, DeleteInvalid, SubtractInvalid, ConnectFails, AddNew, SendFails, ReleaseDelete,
                ReleaseKeep, Drop, PlaceInv, Types
  <2> QED BY <2>1, <2>2, WireStays
<1>2. ASSUME NEW u \in Users, UserStep(u) PROVE WireInv'
  BY <1>1, <1>2, BeginWire, ConnectWire, SendWire, RecvWire, RecvFailsWire DEF UserStep
<1>3. ASSUME NEW c \in Conns, WireStep(c) PROVE WireInv'
  BY <1>3, AnswerWire, ClosedWire DEF WireStep
<1>4. ASSUME UNCHANGED vars PROVE WireInv'
  BY <1>4, WireSame DEF vars, poolVars, wireVars, userVars
<1> QED BY <1>2, <1>3, <1>4 DEF Next

\* doRequest() (http_connection.cc:479-513) returns the response to its own request or none,
\* however late the server answers on a connection that is used again.
THEOREM OwnAnswerHolds == Spec => []OwnAnswer
<1>1. Init => WireInv
  <2> SUFFICES ASSUME Init PROVE WireInv
    OBVIOUS
  <2>1. WireTypes /\ \A c \in Conns : Silent(c)
    BY DEF Init, WireTypes, Silent
  <2>2. OwnAnswer
    BY DEF Init, OwnAnswer
  <2> QED BY <2>1, <2>2 DEF WireInv
<1>2. PlaceInv /\ WireInv /\ [Next]_vars => WireInv'
  BY NextWireInv
<1>3. WireInv => OwnAnswer
  BY DEF WireInv
<1> QED BY <1>1, <1>2, <1>3, PlaceInvariant, PTL DEF Spec
=============================================================================
